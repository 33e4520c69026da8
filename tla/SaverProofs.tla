---------------------------- MODULE SaverProofs ----------------------------
(***************************************************************************)
(* What internal/storage/saver.go guarantees for every set of entries and  *)
(* namespaces, every grouping of the entries, every capacity of the work   *)
(* channel and any number of failed writes, crashes and restarts.          *)
(***************************************************************************)
EXTENDS Saver, TLAPS

(* The flag that keeps two writes from overlapping is up exactly while one *)
(* is on its way or its completion has not run.                            *)
OneWriter == phase = "run" => (inflight <=> writer # "none")

(* Where the goroutine of the asynchronous write may be. *)
WriterInv ==
    /\ OneWriter
    /\ writer # "writing" => todo = {}
    /\ writer = "none" => failed = {}
    /\ phase \in {"sync", "exit"} => writer # "writing"
    /\ phase \in {"run", "quit"} => sraws = Empty /\ stodo = {} /\ ~syncErr

(* Requeued bytes and bytes of a batch never meet: a write in flight means *)
(* that nothing was requeued since.                                        *)
RequeueInv == writer # "none" => \A k \in Keys : dirty[k] \in {None, Live}

(* Every value on its way to the store lies between what is stored and     *)
(* what is in memory.                                                      *)
Between(k, v) == store[k] <= v /\ v <= data[k]

OrderInv ==
    /\ \A k \in Keys : store[k] <= data[k]
    /\ phase \in {"run", "quit"} => \A k \in Keys :
         /\ dirty[k] \notin {None, Live} => Between(k, dirty[k])
         /\ raws[k] # None /\ NsOf[k] \in todo \cup failed => Between(k, raws[k])
    /\ phase = "sync" => \A k \in Keys :
         sraws[k] # None /\ NsOf[k] \in stodo => Between(k, sraws[k])
    /\ phase \in {"sync", "exit"} => dirty = Empty

(* What a handler changes together is marked, batched and requeued together. *)
TogetherInv ==
    \A g \in Groups : \A a, b \in g :
        /\ data[a] = data[b] /\ store[a] = store[b] /\ dirty[a] = dirty[b]
        /\ raws[a] = raws[b] /\ sraws[a] = sraws[b]

(* In FlushSync: what is not written yet is in its batch. *)
SyncInv ==
    phase = "sync" /\ ~syncErr /\ ~Stranded =>
        \A k \in Keys : <<k, data[k]>> \notin Unmarshalable =>
            \/ sraws[k] # None /\ NsOf[k] \in stodo /\ sraws[k] = data[k]
            \/ (sraws[k] = None \/ NsOf[k] \notin stodo) /\ store[k] = data[k]

IInv == /\ TypeOK /\ WriterInv /\ RequeueInv /\ OrderInv /\ TogetherInv
        /\ NoLostUpdate /\ SyncInv /\ FinalFlush

USE DEF async, sync, Batch, Versions, Empty

LEMMA InitIInv == Init => IInv
<1> SUFFICES ASSUME Init PROVE IInv
  OBVIOUS
<1> USE SaverAssumption DEF Init
<1>1. TypeOK
  <2>1. data \in [Keys -> Versions] /\ store \in [Keys -> Versions]
    OBVIOUS
  <2>2. dirty \in [Keys -> Versions \cup {None, Live}] /\ Empty \in Batch
    OBVIOUS
  <2>3. others \in Nat /\ fails \in 0..MaxFails
    OBVIOUS
  <2>4. QED BY <2>1, <2>2, <2>3 DEF TypeOK
<1>2. WriterInv /\ RequeueInv /\ OrderInv /\ TogetherInv
  BY DEF WriterInv, OneWriter, RequeueInv, OrderInv, TogetherInv
<1>3. NoLostUpdate /\ SyncInv /\ FinalFlush
  BY DEF NoLostUpdate, Upcoming, SyncInv, FinalFlush
<1>4. QED BY <1>1, <1>2, <1>3 DEF IInv

(* What serialize returns. *)
LEMMA SerializedProperties ==
  ASSUME IInv
  PROVE  /\ Serialized \in Batch
         /\ \A k \in Keys : Serialized[k] # None => dirty[k] # None
         /\ phase \in {"run", "quit"} =>
              \A k \in Keys : Serialized[k] # None => Between(k, Serialized[k])
         /\ \A g \in Groups : \A a, b \in g : Serialized[a] = Serialized[b]
         /\ \A k \in Keys : dirty[k] # None /\ <<k, data[k]>> \notin Unmarshalable
              => Serialized[k] = Value(k)
         /\ BatchNamespaces(Serialized) \subseteq Namespaces
         /\ \A k \in Keys : Serialized[k] # None => NsOf[k] \in BatchNamespaces(Serialized)
<1> USE SaverAssumption DEF IInv, TypeOK
<1>1. Serialized \in Batch
  BY DEF Serialized, Value, Marshals
<1>2. \A k \in Keys : Serialized[k] # None => dirty[k] # None
  BY DEF Serialized
<1>3. phase \in {"run", "quit"} =>
        \A k \in Keys : Serialized[k] # None => Between(k, Serialized[k])
  BY DEF Serialized, Value, OrderInv, Between
<1>4. ASSUME NEW g \in Groups, NEW a \in g, NEW b \in g
      PROVE  Serialized[a] = Serialized[b]
  <2>1. a \in Keys /\ b \in Keys /\ dirty[a] = dirty[b] /\ data[a] = data[b]
    BY DEF TogetherInv
  <2>2. a # b => Marshals(a) /\ Marshals(b)
    BY <2>1 DEF Marshals
  <2>3. QED BY <2>1, <2>2 DEF Serialized, Value
<1>5. \A k \in Keys : dirty[k] # None /\ <<k, data[k]>> \notin Unmarshalable
        => Serialized[k] = Value(k)
  BY DEF Serialized, Marshals
<1>6. BatchNamespaces(Serialized) \subseteq Namespaces
  BY DEF BatchNamespaces
<1>7. \A k \in Keys : Serialized[k] # None => NsOf[k] \in BatchNamespaces(Serialized)
  BY DEF BatchNamespaces
<1>8. QED BY <1>1, <1>2, <1>3, <1>4, <1>5, <1>6, <1>7

LEMMA MarkStep ==
  ASSUME IInv, NEW g \in Groups, Mark(g)
  PROVE  IInv'
<1> USE SaverAssumption DEF IInv, Mark
<1>1. TypeOK'
  BY DEF TypeOK
<1>2. WriterInv' /\ RequeueInv'
  BY DEF WriterInv, OneWriter, RequeueInv, TypeOK
<1>3. OrderInv'
  BY DEF OrderInv, Between, TypeOK
<1>4. TogetherInv'
  <2> SUFFICES ASSUME NEW h \in Groups, NEW a \in h, NEW b \in h
               PROVE  /\ data'[a] = data'[b] /\ dirty'[a] = dirty'[b]
    BY DEF TogetherInv
  <2>1. a \in Keys /\ b \in Keys /\ (a \in g <=> b \in g)
    OBVIOUS
  <2>2. QED BY <2>1 DEF TogetherInv
<1>5. NoLostUpdate'
  <2> SUFFICES ASSUME NEW k \in Keys, <<k, data'[k]>> \notin Unmarshalable
               PROVE  Upcoming(k)' = data'[k]
    BY DEF NoLostUpdate
  <2>1. CASE k \in g
    BY <2>1 DEF Upcoming, TypeOK
  <2>2. CASE k \notin g
    BY <2>2 DEF Upcoming, TypeOK, NoLostUpdate
  <2>3. QED BY <2>1, <2>2
<1>6. SyncInv' /\ FinalFlush'
  BY DEF SyncInv, FinalFlush
<1>7. QED BY <1>1, <1>2, <1>3, <1>4, <1>5, <1>6

LEMMA FlushStep ==
  ASSUME IInv, Flush
  PROVE  IInv'
<1> USE SaverAssumption, SerializedProperties DEF Flush
<1>0. writer = "none" /\ todo = {} /\ failed = {}
  BY DEF IInv, WriterInv, OneWriter, TypeOK
<1>1. TypeOK'
  BY DEF IInv, TypeOK
<1>2. WriterInv' /\ RequeueInv'
  BY DEF IInv, WriterInv, OneWriter, RequeueInv
<1>3. OrderInv'
  BY DEF IInv, OrderInv, Between
<1>4. TogetherInv'
  BY DEF IInv, TogetherInv
<1>5. NoLostUpdate'
  <2> SUFFICES ASSUME NEW k \in Keys, <<k, data[k]>> \notin Unmarshalable
               PROVE  Upcoming(k)' = data[k]
    BY DEF NoLostUpdate
  <2>0. Upcoming(k) = data[k]
    BY DEF IInv, NoLostUpdate
  <2>1. CASE dirty[k] = None
    <3>1. Serialized[k] = None
      BY <2>1
    <3>2. QED BY <1>0, <2>0, <2>1, <3>1 DEF Upcoming
  <2>2. CASE dirty[k] # None
    <3>1. Serialized[k] = data[k] /\ data[k] # None
      BY <2>0, <2>2 DEF Upcoming, Value, IInv, TypeOK
    <3>2. QED BY <3>1 DEF Upcoming
  <2>3. QED BY <2>1, <2>2
<1>6. SyncInv' /\ FinalFlush'
  BY DEF SyncInv, FinalFlush
<1>7. QED BY <1>1, <1>2, <1>3, <1>4, <1>5, <1>6 DEF IInv

(* One namespace of a batch lands: what the store then holds. *)
LEMMA LandedProperties ==
  ASSUME IInv, NEW ns \in Namespaces, NEW b \in Batch,
         \A k \in Keys : b[k] # None /\ NsOf[k] = ns => Between(k, b[k]),
         \A g \in Groups : \A i, j \in g : b[i] = b[j]
  PROVE  /\ Landed(b, ns) \in [Keys -> Versions]
         /\ \A k \in Keys : store[k] <= Landed(b, ns)[k] /\ Landed(b, ns)[k] <= data[k]
         /\ \A k \in Keys : NsOf[k] # ns => Landed(b, ns)[k] = store[k]
         /\ \A k \in Keys : b[k] # None /\ NsOf[k] = ns => Landed(b, ns)[k] = b[k]
         /\ \A k \in Keys : b[k] = None => Landed(b, ns)[k] = store[k]
         /\ \A g \in Groups : \A i, j \in g : Landed(b, ns)[i] = Landed(b, ns)[j]
<1> USE SaverAssumption DEF IInv, TypeOK, Landed
<1>1. Landed(b, ns) \in [Keys -> Versions]
  OBVIOUS
<1>2. \A k \in Keys : store[k] <= Landed(b, ns)[k] /\ Landed(b, ns)[k] <= data[k]
  BY DEF OrderInv, Between
<1>3. \A g \in Groups : \A i, j \in g : Landed(b, ns)[i] = Landed(b, ns)[j]
  BY DEF TogetherInv
<1>4. QED BY <1>1, <1>2, <1>3

(* The asynchronous write of one namespace, successful or not. *)
LEMMA WriteStep ==
  ASSUME IInv, NEW ns \in Namespaces, WriteOK(ns) \/ WriteFails(ns)
  PROVE  /\ IInv'
         /\ store' = store \/ store' = Landed(raws, ns)
         /\ \A k \in Keys : raws[k] # None /\ NsOf[k] = ns => Between(k, raws[k])
<1> USE SaverAssumption
<1>0. /\ writer = "writing" /\ ns \in todo /\ todo' = todo \ {ns}
      /\ failed' = failed \/ failed' = failed \cup {ns}
      /\ store' = store \/ store' = Landed(raws, ns)
      /\ ns \notin failed' => store' = Landed(raws, ns)
      /\ fails' \in Nat /\ fails' \in 0..MaxFails
      /\ UNCHANGED <<data, dirty, inflight, raws, writer, others, phase, sraws, stodo, syncErr>>
  BY DEF WriteOK, WriteFails, IInv, TypeOK
<1>1. phase \in {"run", "quit"}
  BY <1>0 DEF IInv, WriterInv, TypeOK
<1>2. /\ raws \in Batch
      /\ \A k \in Keys : raws[k] # None /\ NsOf[k] = ns => Between(k, raws[k])
      /\ \A g \in Groups : \A i, j \in g : raws[i] = raws[j]
  BY <1>0, <1>1 DEF IInv, OrderInv, TogetherInv, TypeOK
<1>3. /\ store' \in [Keys -> Versions]
      /\ \A k \in Keys : store[k] <= store'[k] /\ store'[k] <= data[k]
      /\ \A k \in Keys : NsOf[k] # ns => store'[k] = store[k]
      /\ \A k \in Keys : store'[k] = store[k] \/ (raws[k] # None /\ NsOf[k] = ns /\ store'[k] = raws[k])
      /\ ns \notin failed' => \A k \in Keys : raws[k] # None /\ NsOf[k] = ns => store'[k] = raws[k]
      /\ \A g \in Groups : \A i, j \in g : store'[i] = store'[j]
  <2>1. CASE store' = store
    BY <1>0, <1>2, <2>1, LandedProperties DEF IInv, TypeOK, OrderInv, TogetherInv
  <2>2. CASE store' = Landed(raws, ns)
    BY <1>0, <1>2, <2>2, LandedProperties
  <2>3. QED BY <1>0, <2>1, <2>2
<1>4. TypeOK'
  BY <1>0, <1>3 DEF IInv, TypeOK
<1>5. WriterInv' /\ RequeueInv'
  BY <1>0 DEF IInv, WriterInv, OneWriter, RequeueInv
<1>6. OrderInv'
  <2>1. \A k \in Keys : dirty[k] \in {None, Live}
    BY <1>0 DEF IInv, RequeueInv
  <2>2. \A k \in Keys : raws[k] # None /\ NsOf[k] \in todo' \cup failed' =>
          store'[k] <= raws[k] /\ raws[k] <= data[k]
    <3> SUFFICES ASSUME NEW k \in Keys, raws[k] # None, NsOf[k] \in todo' \cup failed'
                 PROVE  store'[k] <= raws[k] /\ raws[k] <= data[k]
      OBVIOUS
    <3>1. NsOf[k] \in todo \cup failed
      BY <1>0
    <3>2. Between(k, raws[k]) /\ raws[k] \in Nat
      BY <1>1, <3>1 DEF IInv, OrderInv, TypeOK
    <3>3. QED BY <1>3, <3>2 DEF Between
  <2>3. QED BY <1>0, <1>1, <1>3, <2>1, <2>2 DEF OrderInv, Between
<1>7. TogetherInv'
  BY <1>0, <1>3 DEF IInv, TogetherInv
<1>8. NoLostUpdate'
  <2> SUFFICES ASSUME NEW k \in Keys, <<k, data[k]>> \notin Unmarshalable
               PROVE  Upcoming(k)' = data[k]
    BY <1>0 DEF NoLostUpdate
  <2>0. Upcoming(k) = data[k]
    BY <1>1 DEF IInv, NoLostUpdate
  <2>1. CASE dirty[k] # None
    BY <1>0, <2>0, <2>1 DEF Upcoming
  <2>2. CASE dirty[k] = None
    <3>1. CASE raws[k] # None /\ NsOf[k] = ns
      <4>1. raws[k] = data[k]
        BY <1>0, <1>1, <2>0, <2>2, <3>1 DEF Upcoming
      <4>2. CASE ns \in failed'
        BY <1>0, <1>1, <2>2, <3>1, <4>1, <4>2 DEF Upcoming
      <4>3. CASE ns \notin failed'
        <5>1. store'[k] = data[k]
          BY <1>3, <3>1, <4>1, <4>3
        <5>2. QED BY <1>0, <1>1, <2>2, <3>1, <4>1, <5>1 DEF Upcoming
      <4>4. QED BY <4>2, <4>3
    <3>2. CASE raws[k] # None /\ NsOf[k] # ns
      <4>1. store'[k] = store[k] /\ (NsOf[k] \in todo' \cup failed' <=> NsOf[k] \in todo \cup failed)
        BY <1>0, <1>3, <3>2
      <4>2. QED BY <1>0, <1>1, <2>0, <2>2, <3>2, <4>1 DEF Upcoming
    <3>3. CASE raws[k] = None
      BY <1>0, <1>1, <1>3, <2>0, <2>2, <3>3 DEF Upcoming
    <3>4. QED BY <3>1, <3>2, <3>3
  <2>3. QED BY <2>1, <2>2
<1>9. SyncInv' /\ FinalFlush'
  BY <1>0, <1>1 DEF SyncInv, FinalFlush
<1>10. QED BY <1>0, <1>2, <1>4, <1>5, <1>6, <1>7, <1>8, <1>9 DEF IInv

(* The goroutine's way to its completion, the other users of the channel,  *)
(* and the end of the loop: the data is left alone.                        *)
LEMMA PassiveStep ==
  ASSUME IInv, WgDone \/ Deliver \/ OtherDelivers \/ OtherRuns \/ LoopEnds
  PROVE  IInv'
<1> USE DEF WgDone, Deliver, OtherDelivers, OtherRuns, LoopEnds, Queued
<1>1. TypeOK'
  BY SaverAssumption DEF IInv, TypeOK
<1>2. WriterInv'
  BY DEF IInv, WriterInv, OneWriter, TypeOK
<1>3. RequeueInv'
  BY DEF IInv, RequeueInv
<1>4. OrderInv'
  BY DEF IInv, OrderInv, Between
<1>5. TogetherInv'
  BY DEF IInv, TogetherInv
<1>6. NoLostUpdate'
  BY DEF IInv, NoLostUpdate, Upcoming
<1>7. SyncInv'
  BY DEF IInv, SyncInv, Stranded, WriterInv, TypeOK
<1>8. FinalFlush'
  BY DEF IInv, FinalFlush, AllStored, Stranded, WriterInv, TypeOK
<1>9. QED BY <1>1, <1>2, <1>3, <1>4, <1>5, <1>6, <1>7, <1>8 DEF IInv

LEMMA CompleteStep ==
  ASSUME IInv, Complete
  PROVE  IInv'
<1> USE SaverAssumption DEF Complete
<1>0. /\ todo = {} /\ \A k \in Keys : dirty[k] \in {None, Live}
      /\ \A k \in Keys : dirty'[k] = IF raws[k] # None /\ NsOf[k] \in failed /\ dirty[k] = None
                                     THEN raws[k] ELSE dirty[k]
  BY DEF IInv, WriterInv, RequeueInv, Requeued
<1>1. TypeOK'
  BY DEF IInv, TypeOK, Requeued
<1>2. WriterInv' /\ RequeueInv'
  BY DEF IInv, WriterInv, OneWriter, RequeueInv
<1>3. OrderInv'
  BY <1>0 DEF IInv, OrderInv, Between
<1>4. TogetherInv'
  <2> SUFFICES ASSUME NEW g \in Groups, NEW a \in g, NEW b \in g
               PROVE  dirty'[a] = dirty'[b]
    BY DEF IInv, TogetherInv
  <2>1. a \in Keys /\ b \in Keys /\ NsOf[a] = NsOf[b] /\ dirty[a] = dirty[b] /\ raws[a] = raws[b]
    BY DEF IInv, TogetherInv
  <2>2. QED BY <1>0, <2>1
<1>5. NoLostUpdate'
  <2> SUFFICES ASSUME NEW k \in Keys, <<k, data[k]>> \notin Unmarshalable
               PROVE  Upcoming(k)' = data[k]
    BY DEF NoLostUpdate
  <2>0. Upcoming(k) = data[k] /\ data[k] # None /\ data[k] # Live
    BY DEF IInv, NoLostUpdate, TypeOK
  <2>1. CASE raws[k] # None /\ NsOf[k] \in failed /\ dirty[k] = None
    BY <1>0, <2>0, <2>1 DEF Upcoming
  <2>2. CASE ~(raws[k] # None /\ NsOf[k] \in failed /\ dirty[k] = None)
    <3>1. dirty'[k] = dirty[k]
      BY <1>0, <2>2
    <3>2. QED BY <1>0, <2>0, <2>2, <3>1 DEF Upcoming
  <2>3. QED BY <2>1, <2>2
<1>6. SyncInv' /\ FinalFlush'
  BY DEF SyncInv, FinalFlush
<1>7. QED BY <1>1, <1>2, <1>3, <1>4, <1>5, <1>6 DEF IInv

LEMMA FlushSyncNothingStep ==
  ASSUME IInv, FlushSyncNothing
  PROVE  IInv'
<1> USE DEF FlushSyncNothing, WgWait
<1>1. TypeOK' /\ WriterInv' /\ RequeueInv'
  BY DEF IInv, TypeOK, WriterInv, OneWriter, RequeueInv
<1>2. OrderInv' /\ TogetherInv' /\ NoLostUpdate' /\ SyncInv'
  BY DEF IInv, OrderInv, TogetherInv, NoLostUpdate, SyncInv
<1>3. FinalFlush'
  <2> SUFFICES ASSUME ~Stranded, NEW k \in Keys, <<k, data[k]>> \notin Unmarshalable
               PROVE  store[k] = data[k]
    BY DEF FinalFlush, AllStored, Stranded
  <2>1. todo = {} /\ failed = {}
    BY DEF IInv, WriterInv, Stranded, TypeOK
  <2>2. Upcoming(k) = data[k]
    BY DEF IInv, NoLostUpdate
  <2>3. QED BY <2>1, <2>2, SaverAssumption DEF Upcoming
<1>4. QED BY <1>1, <1>2, <1>3 DEF IInv

LEMMA FlushSyncStep ==
  ASSUME IInv, FlushSync
  PROVE  IInv'
<1> USE SaverAssumption, SerializedProperties DEF FlushSync, WgWait
<1>1. TypeOK'
  BY DEF IInv, TypeOK
<1>2. WriterInv' /\ RequeueInv'
  BY DEF IInv, WriterInv, OneWriter, RequeueInv
<1>3. OrderInv'
  BY DEF IInv, OrderInv, Between
<1>4. TogetherInv'
  BY DEF IInv, TogetherInv
<1>5. SyncInv'
  <2> SUFFICES ASSUME ~Stranded, NEW k \in Keys, <<k, data[k]>> \notin Unmarshalable
               PROVE  \/ Serialized[k] # None /\ NsOf[k] \in BatchNamespaces(Serialized)
                         /\ Serialized[k] = data[k]
                      \/ Serialized[k] = None /\ store[k] = data[k]
    BY DEF SyncInv, Stranded
  <2>1. todo = {} /\ failed = {}
    BY DEF IInv, WriterInv, Stranded, TypeOK
  <2>2. Upcoming(k) = data[k] /\ data[k] # None
    BY DEF IInv, NoLostUpdate, TypeOK
  <2>3. CASE dirty[k] = None
    <3>1. Serialized[k] = None
      BY <2>3
    <3>2. QED BY <2>1, <2>2, <2>3, <3>1 DEF Upcoming
  <2>4. CASE dirty[k] # None
    <3>1. Serialized[k] = data[k]
      BY <2>2, <2>4 DEF Upcoming, Value
    <3>2. QED BY <2>2, <3>1
  <2>5. QED BY <2>3, <2>4
<1>6. NoLostUpdate' /\ FinalFlush'
  BY DEF NoLostUpdate, FinalFlush
<1>7. QED BY <1>1, <1>2, <1>3, <1>4, <1>5, <1>6 DEF IInv

(* The synchronous write of one namespace. *)
LEMMA SyncWriteStep ==
  ASSUME IInv, NEW ns \in Namespaces, SyncWriteOK(ns) \/ SyncWriteFails(ns)
  PROVE  /\ IInv'
         /\ store' = store \/ store' = Landed(sraws, ns)
         /\ \A k \in Keys : sraws[k] # None /\ NsOf[k] = ns => Between(k, sraws[k])
<1> USE SaverAssumption
<1>0. /\ phase = "sync" /\ ns \in stodo /\ stodo' = stodo \ {ns}
      /\ store' = store \/ store' = Landed(sraws, ns)
      /\ ~syncErr' => ~syncErr /\ store' = Landed(sraws, ns)
      /\ syncErr' \in BOOLEAN
      /\ fails' \in Nat /\ fails' \in 0..MaxFails
      /\ UNCHANGED <<data, dirty, inflight, raws, todo, failed, writer, others, phase, sraws>>
  <2>1. CASE SyncWriteOK(ns)
    BY <2>1 DEF SyncWriteOK, IInv, TypeOK
  <2>2. CASE SyncWriteFails(ns)
    BY <2>2 DEF SyncWriteFails, IInv, TypeOK
  <2>3. QED BY <2>1, <2>2
<1>1. /\ sraws \in Batch
      /\ \A k \in Keys : sraws[k] # None /\ NsOf[k] = ns => Between(k, sraws[k])
      /\ \A g \in Groups : \A i, j \in g : sraws[i] = sraws[j]
  BY <1>0 DEF IInv, OrderInv, TogetherInv, TypeOK
<1>2. /\ store' \in [Keys -> Versions]
      /\ \A k \in Keys : store[k] <= store'[k] /\ store'[k] <= data[k]
      /\ \A k \in Keys : NsOf[k] # ns => store'[k] = store[k]
      /\ ~syncErr' => \A k \in Keys : sraws[k] # None /\ NsOf[k] = ns => store'[k] = sraws[k]
      /\ ~syncErr' => \A k \in Keys : sraws[k] = None => store'[k] = store[k]
      /\ \A g \in Groups : \A i, j \in g : store'[i] = store'[j]
  <2>1. CASE store' = store
    BY <1>0, <1>1, <2>1, LandedProperties DEF IInv, TypeOK, OrderInv, TogetherInv
  <2>2. CASE store' = Landed(sraws, ns)
    BY <1>0, <1>1, <2>2, LandedProperties
  <2>3. QED BY <1>0, <2>1, <2>2
<1>3. TypeOK'
  BY <1>0, <1>2 DEF IInv, TypeOK
<1>4. WriterInv' /\ RequeueInv'
  BY <1>0 DEF IInv, WriterInv, OneWriter, RequeueInv
<1>5. OrderInv'
  <2>1. \A k \in Keys : sraws[k] # None /\ NsOf[k] \in stodo' =>
          store'[k] <= sraws[k] /\ sraws[k] <= data[k]
    BY <1>0, <1>2 DEF IInv, OrderInv, Between
  <2>2. QED BY <1>0, <1>2, <2>1 DEF IInv, OrderInv, Between
<1>6. TogetherInv'
  BY <1>0, <1>2 DEF IInv, TogetherInv
<1>7. NoLostUpdate' /\ FinalFlush'
  BY <1>0 DEF NoLostUpdate, FinalFlush
<1>8. SyncInv'
  <2> SUFFICES ASSUME ~syncErr', ~Stranded, NEW k \in Keys, <<k, data[k]>> \notin Unmarshalable
               PROVE  \/ sraws[k] # None /\ NsOf[k] \in stodo' /\ sraws[k] = data[k]
                      \/ (sraws[k] = None \/ NsOf[k] \notin stodo') /\ store'[k] = data[k]
    BY <1>0 DEF SyncInv, Stranded
  <2>1. \/ sraws[k] # None /\ NsOf[k] \in stodo /\ sraws[k] = data[k]
        \/ (sraws[k] = None \/ NsOf[k] \notin stodo) /\ store[k] = data[k]
    BY <1>0 DEF IInv, SyncInv
  <2>2. CASE sraws[k] = None
    BY <1>2, <2>1, <2>2
  <2>3. CASE sraws[k] # None /\ NsOf[k] = ns
    BY <1>0, <1>2, <2>1, <2>3
  <2>4. CASE sraws[k] # None /\ NsOf[k] # ns
    BY <1>0, <1>2, <2>1, <2>4
  <2>5. QED BY <2>2, <2>3, <2>4
<1>9. QED BY <1>0, <1>1, <1>3, <1>4, <1>5, <1>6, <1>7, <1>8 DEF IInv

LEMMA FlushSyncReturnsStep ==
  ASSUME IInv, FlushSyncReturns
  PROVE  IInv'
<1> USE DEF FlushSyncReturns
<1>1. TypeOK' /\ WriterInv' /\ RequeueInv'
  BY DEF IInv, TypeOK, WriterInv, OneWriter, RequeueInv
<1>2. OrderInv' /\ TogetherInv' /\ NoLostUpdate' /\ SyncInv'
  BY DEF IInv, OrderInv, TogetherInv, NoLostUpdate, SyncInv
<1>3. FinalFlush'
  BY DEF IInv, SyncInv, FinalFlush, AllStored, Stranded
<1>4. QED BY <1>1, <1>2, <1>3 DEF IInv

LEMMA RestartStep ==
  ASSUME IInv, Restart
  PROVE  IInv'
<1> USE SaverAssumption DEF Restart
<1>1. TypeOK'
  BY DEF IInv, TypeOK
<1>2. WriterInv' /\ RequeueInv'
  BY DEF WriterInv, OneWriter, RequeueInv
<1>3. OrderInv'
  BY DEF IInv, TypeOK, OrderInv
<1>4. TogetherInv'
  BY DEF IInv, TogetherInv
<1>5. NoLostUpdate' /\ SyncInv' /\ FinalFlush'
  BY DEF NoLostUpdate, Upcoming, SyncInv, FinalFlush
<1>6. QED BY <1>1, <1>2, <1>3, <1>4, <1>5 DEF IInv

(* The strengthened invariant, one lemma per action. *)
THEOREM SaverInvariant == Spec => []IInv
<1>1. Init => IInv
  BY InitIInv
<1>2. IInv /\ [Next]_vars => IInv'
  <2> SUFFICES ASSUME IInv, [Next]_vars PROVE IInv'
    OBVIOUS
  <2>1. CASE UNCHANGED vars
    BY <2>1 DEF vars, IInv, TypeOK, WriterInv, OneWriter, RequeueInv, OrderInv, Between,
                TogetherInv, NoLostUpdate, Upcoming, SyncInv, Stranded, FinalFlush, AllStored
  <2>2. CASE Next
    BY <2>2, MarkStep, FlushStep, WriteStep, PassiveStep, CompleteStep, FlushSyncNothingStep,
       FlushSyncStep, SyncWriteStep, FlushSyncReturnsStep, RestartStep DEF Next
  <2>3. QED BY <2>1, <2>2
<1>3. QED BY <1>1, <1>2, PTL DEF Spec

(* The saver's state is well typed, however many entries there are. *)
THEOREM SaverTypeOK == Spec => []TypeOK
  BY SaverInvariant, PTL DEF IInv

(* No change a handler marked is ever forgotten while the bot runs: Flush, *)
(* failed writes, requeueing and marks that race a write keep it.          *)
THEOREM SaverNoLostUpdate == Spec => []NoLostUpdate
  BY SaverInvariant, PTL DEF IInv

(* A FlushSync that reports no error has stored everything, but for a      *)
(* failed asynchronous write whose completion the ended loop never ran.    *)
THEOREM SaverFinalFlush == Spec => []FinalFlush
  BY SaverInvariant, PTL DEF IInv

(* The saver implements WriteBehind: the store only ever moves towards the *)
(* memory, one namespace per step, entries changed together landing        *)
(* together.                                                               *)
THEOREM SaverImplementsWriteBehind == Spec => ImplementsWriteBehind
<1>1. Init => WB!Init
  BY DEF Init, WB!Init
<1>2. IInv /\ IInv' /\ [Next]_vars => [WB!Next]_(WB!vars)
  <2> SUFFICES ASSUME IInv, IInv', [Next]_vars PROVE [WB!Next]_(WB!vars)
    OBVIOUS
  <2> USE DEF WB!vars, WB!Next
  <2>1. ASSUME NEW g \in Groups, Mark(g) PROVE WB!Next
    BY <2>1 DEF Mark, WB!Change
  <2>2. ASSUME NEW ns \in Namespaces, NEW b \in Batch,
               store' = store \/ store' = Landed(b, ns), data' = data,
               \A k \in Keys : b[k] # None /\ NsOf[k] = ns => Between(k, b[k]),
               \A g \in Groups : \A i, j \in g : b[i] = b[j]
        PROVE  [WB!Next]_(WB!vars)
    <3>1. CASE store' = store
      BY <2>2, <3>1
    <3>2. CASE store' = Landed(b, ns)
      <4>1. /\ \A k \in Keys : store[k] <= store'[k] /\ store'[k] <= data[k]
            /\ \A k \in Keys : NsOf[k] # ns => store'[k] = store[k]
            /\ \A g \in Groups : \A i, j \in g : store'[i] = store'[j]
        BY <2>2, <3>2, LandedProperties
      <4>2. WB!CatchUp(ns)
        BY <2>2, <4>1 DEF WB!CatchUp, WB!Together
      <4>3. QED BY <4>2
    <3>3. QED BY <2>2, <3>1, <3>2
  <2>3. ASSUME NEW ns \in Namespaces, WriteOK(ns) \/ WriteFails(ns)
        PROVE  [WB!Next]_(WB!vars)
    <3>1. raws \in Batch /\ \A g \in Groups : \A i, j \in g : raws[i] = raws[j]
      BY DEF IInv, TypeOK, TogetherInv
    <3>2. data' = data
      BY <2>3 DEF WriteOK, WriteFails
    <3>3. QED BY <2>2, <2>3, <3>1, <3>2, WriteStep
  <2>4. ASSUME NEW ns \in Namespaces, SyncWriteOK(ns) \/ SyncWriteFails(ns)
        PROVE  [WB!Next]_(WB!vars)
    <3>1. sraws \in Batch /\ \A g \in Groups : \A i, j \in g : sraws[i] = sraws[j]
      BY DEF IInv, TypeOK, TogetherInv
    <3>2. data' = data
      BY <2>4 DEF SyncWriteOK, SyncWriteFails
    <3>3. QED BY <2>2, <2>4, <3>1, <3>2, SyncWriteStep
  <2>5. CASE Restart
    BY <2>5 DEF Restart, WB!Restart
  <2>6. CASE \/ Flush \/ WgDone \/ Deliver \/ Complete \/ OtherDelivers \/ OtherRuns
             \/ LoopEnds \/ FlushSyncNothing \/ FlushSync \/ FlushSyncReturns
    BY <2>6 DEF Flush, WgDone, Deliver, Complete, OtherDelivers, OtherRuns, LoopEnds,
                FlushSyncNothing, FlushSync, FlushSyncReturns
  <2>7. CASE UNCHANGED vars
    BY <2>7 DEF vars
  <2>8. QED BY <2>1, <2>3, <2>4, <2>5, <2>6, <2>7 DEF Next
<1>3. QED BY <1>1, <1>2, SaverInvariant, PTL DEF Spec, ImplementsWriteBehind, WB!Spec

=============================================================================
