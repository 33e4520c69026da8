---------------------------- MODULE SchedProofs ----------------------------
(***************************************************************************)
(* What internal/sched/sched.go guarantees for every number of timers,     *)
(* every set of delays and every interleaving of module code with the      *)
(* dispatcher loop.                                                        *)
(***************************************************************************)
EXTENDS MCSched, Lemmas, FiniteSetTheorems, FunctionTheorems, SequenceTheorems,
        WellFoundedInduction, TLAPS

(* What the heap and the batch hold between two statements: a pending      *)
(* timer is in the heap, what is in the heap is pending or cancelled, and  *)
(* the batch is empty outside a pass.                                      *)
HeapInv ==
    /\ pending \subseteq heap
    /\ heap \subseteq pending \cup nilfn
    /\ phase \notin {"firing", "callback"} => due = {}

(* During a pass: the batch was due and existed when the pass began, and   *)
(* whatever then stayed in the heap sorts behind all of it.                *)
PassInv ==
    /\ \A t \in due : t <= passSeq /\ at[t] <= now
    /\ \A t \in due : \A u \in pending : u <= passSeq => at[t] < at[u]

IInv == TypeOK /\ OneFate /\ HeapInv /\ PassInv /\ WakeupArmed

(* Due times are instants. *)
LEMMA DueTimes ==
  ASSUME TypeOK
  PROVE  /\ \A t \in Tags : at[t] \in 0..MaxTime
         /\ Len(at) \in Nat
<1>1. at \in Seq(0..MaxTime)
  BY DEF TypeOK
<1>2. \A t \in 1..Len(at) : at[t] \in 0..MaxTime
  BY <1>1, ElementOfSeq, Zenon
<1>3. Len(at) \in Nat
  BY <1>1
<1>4. QED BY <1>2, <1>3 DEF Tags

LEMMA InitIInv == Init => IInv
  BY SchedAssumption DEF Init, IInv, TypeOK, OneFate, HeapInv, PassInv, WakeupArmed, Tags, Phases

(* Module code creates a timer. *)
LEMMA ScheduleStep ==
  ASSUME IInv, NEW d \in Delays, Schedule(d)
  PROVE  IInv'
<1> USE DEF IInv, Schedule, NewTag, InModuleCode, Tags
<1>0. now + d \in 0..MaxTime /\ at \in Seq(0..MaxTime) /\ Len(at) \in Nat
  BY SchedAssumption DEF TypeOK
<1>1. Len(at') = Len(at) + 1 /\ at'[Len(at) + 1] = now + d
      /\ \A t \in 1..Len(at) : at'[t] = at[t]
  BY <1>0, AppendProperties
<1>2. TypeOK'
  <2>1. at' \in Seq(0..MaxTime)
    BY <1>0, AppendProperties
  <2>2. Len(at') <= MaxTimers /\ passSeq' \in 0..Len(at')
    BY <1>0, <1>1, SchedAssumption DEF TypeOK
  <2>3. 1..Len(at) \subseteq Tags' /\ NewTag \in Tags'
    BY <1>0, <1>1
  <2>4. QED BY <1>0, <2>1, <2>2, <2>3 DEF TypeOK
<1>3. OneFate'
  BY <1>0, <1>1 DEF TypeOK, OneFate
<1>4. HeapInv'
  BY DEF HeapInv
<1>5. PassInv'
  <2>1. due \subseteq 1..Len(at) /\ pending \subseteq 1..Len(at) /\ passSeq \in 0..Len(at)
    BY DEF TypeOK
  <2>2. QED BY <1>0, <1>1, <2>1 DEF PassInv
<1>6. WakeupArmed'
  BY DEF WakeupArmed
<1>7. QED BY <1>2, <1>3, <1>4, <1>5, <1>6

(* Module code cancels a timer, or is refused. *)
LEMMA UnscheduleStep ==
  ASSUME IInv, NEW t \in Tags, Unschedule(t)
  PROVE  IInv'
<1> USE DEF IInv, Unschedule, UnscheduleCancels, UnscheduleRefuses, InModuleCode, Tags
<1>1. TypeOK'
  BY DEF TypeOK
<1>2. OneFate'
  BY DEF OneFate
<1>3. HeapInv'
  BY DEF HeapInv
<1>4. PassInv'
  BY DEF PassInv
<1>5. WakeupArmed'
  BY DEF WakeupArmed
<1>6. QED BY <1>1, <1>2, <1>3, <1>4, <1>5

(* The dispatcher arms its wake-up on the earliest live timer. *)
LEMMA NextInStep ==
  ASSUME IInv, NextIn
  PROVE  IInv'
<1> USE DEF IInv, NextIn, Tags
<1>1. pending \subseteq heap'
  BY DEF HeapInv, OneFate, Dropped
<1>2. ASSUME NEW t \in First(heap'), deadline' = IF at[t] > now THEN at[t] ELSE now
      PROVE  TypeOK' /\ WakeupArmed'
  <2>1. t \in heap' /\ t \in heap /\ t \in Tags /\ at[t] \in 0..MaxTime
    BY <1>2, DueTimes DEF First, TypeOK
  <2>2. t \notin nilfn
    <3> SUFFICES ASSUME t \in nilfn PROVE FALSE
      OBVIOUS
    <3>1. \A u \in heap \ nilfn : u \in heap' /\ u # t
      BY DEF Dropped
    <3>2. \A u \in heap \ nilfn : Before(t, u)
      BY <3>1, <1>2 DEF First
    <3>3. QED BY <2>1, <3>2 DEF Dropped
  <2>3. t \in pending
    BY <2>1, <2>2 DEF HeapInv
  <2>4. \A u \in pending : at[u] >= at[t] /\ at[u] \in 0..MaxTime
    <3>1. \A u \in pending : u \in heap' /\ at[u] \in 0..MaxTime
      BY <1>1, DueTimes DEF TypeOK
    <3>2. \A u \in pending : u = t \/ at[t] < at[u] \/ at[t] = at[u]
      BY <1>2, <3>1 DEF First, Before
    <3>3. QED BY <2>1, <3>1, <3>2, SchedAssumption
  <2>5. now \in 0..MaxTime /\ deadline' \in 0..MaxTime
    BY <1>2, <2>1, SchedAssumption DEF TypeOK
  <2>6. TypeOK'
    BY <2>5 DEF TypeOK, Phases
  <2>7. WakeupArmed'
    BY <1>2, <2>1, <2>3, <2>4, <2>5, SchedAssumption DEF WakeupArmed
  <2>8. QED BY <2>6, <2>7
<1>3. ASSUME heap' = {}, deadline' = None
      PROVE  TypeOK' /\ WakeupArmed'
  BY <1>1, <1>3 DEF TypeOK, WakeupArmed, Phases
<1>4. OneFate' /\ HeapInv' /\ PassInv'
  BY <1>1 DEF OneFate, HeapInv, PassInv
<1>5. QED BY <1>2, <1>3, <1>4

(* A pass collects what is due. *)
LEMMA RunDueStep ==
  ASSUME IInv, RunDue
  PROVE  IInv'
<1> USE DEF IInv, RunDue, Live, Popped, Tags
<1>0. Len(at) \in Nat /\ \A t \in Tags : at[t] \in 0..MaxTime
  BY DueTimes
<1>1. due = {} /\ \A t \in Tags : at[t] \in 0..MaxTime
  BY <1>0 DEF HeapInv
<1>2. TypeOK'
  <2>1. passSeq' \in 0..Len(at')
    BY <1>0
  <2>2. Live \subseteq Tags /\ heap' \subseteq Tags /\ pending' \subseteq Tags
    BY DEF TypeOK
  <2>3. QED BY <2>1, <2>2 DEF TypeOK, Phases
<1>3. OneFate'
  BY <1>1 DEF OneFate, HeapInv
<1>4. HeapInv'
  BY <1>1 DEF HeapInv, OneFate
<1>5. PassInv'
  <2>1. \A t \in due' : t \in Tags /\ at[t] <= now
    BY DEF TypeOK
  <2>2. \A u \in pending' : u \in Tags /\ u \in heap /\ at[u] > now
    BY <1>1, SchedAssumption DEF TypeOK, HeapInv, OneFate
  <2>3. QED BY <1>1, <2>1, <2>2, SchedAssumption DEF PassInv, TypeOK
<1>6. WakeupArmed'
  BY DEF WakeupArmed
<1>7. QED BY <1>2, <1>3, <1>4, <1>5, <1>6

(* A collected timer fires. *)
LEMMA FireStep ==
  ASSUME IInv, NEW t \in Tags, Fire(t)
  PROVE  IInv'
<1> USE DEF IInv, Fire, First, Tags
<1>1. TypeOK'
  BY DEF TypeOK, Phases
<1>2. OneFate'
  BY DEF OneFate
<1>3. HeapInv'
  BY DEF HeapInv
<1>4. PassInv'
  BY DEF PassInv
<1>5. WakeupArmed'
  BY DEF WakeupArmed
<1>6. QED BY <1>1, <1>2, <1>3, <1>4, <1>5

(* The steps that only move the dispatcher. *)
LEMMA LoopStep ==
  ASSUME IInv, StartWork \/ EndWork \/ EndCallback \/ EndPass \/ CtxDone
  PROVE  IInv'
<1> USE DEF IInv, StartWork, EndWork, EndCallback, EndPass, CtxDone, Tags
<1>1. TypeOK'
  BY DEF TypeOK, Phases
<1>2. OneFate' /\ PassInv'
  BY DEF OneFate, PassInv
<1>3. HeapInv'
  BY DEF HeapInv
<1>4. WakeupArmed'
  BY DEF WakeupArmed
<1>5. QED BY <1>1, <1>2, <1>3, <1>4

LEMMA TickStep ==
  ASSUME IInv, Tick
  PROVE  IInv'
<1> USE DEF IInv, Tick, Tags
<1>1. now \in 0..MaxTime /\ now' = now + 1 /\ now' \in 0..MaxTime
  BY SchedAssumption DEF TypeOK
<1>2. TypeOK'
  BY <1>1 DEF TypeOK
<1>3. OneFate' /\ HeapInv'
  BY DEF OneFate, HeapInv
<1>4. \A t \in Tags : at[t] \in 0..MaxTime
  BY DueTimes
<1>5. PassInv'
  BY <1>1, <1>4, SchedAssumption DEF PassInv, TypeOK
<1>6. WakeupArmed'
  <2>1. deadline \in (0..MaxTime) \cup {None}
    BY DEF TypeOK
  <2>2. QED BY <1>1, <1>4, <2>1, SchedAssumption DEF WakeupArmed
<1>7. QED BY <1>2, <1>3, <1>5, <1>6

(* The strengthened invariant holds in every reachable state: one step per *)
(* action.                                                                 *)
THEOREM SchedInvariant == Spec => []IInv
<1>1. Init => IInv
  BY InitIInv
<1>2. IInv /\ [Next]_vars => IInv'
  <2> SUFFICES ASSUME IInv, [Next]_vars PROVE IInv'
    OBVIOUS
  <2>1. CASE UNCHANGED vars
    BY <2>1 DEF vars, IInv, TypeOK, OneFate, HeapInv, PassInv, WakeupArmed, Tags
  <2>2. CASE Next
    BY <2>2, ScheduleStep, UnscheduleStep, NextInStep, RunDueStep, FireStep, LoopStep, TickStep
       DEF Next
  <2>3. QED BY <2>1, <2>2
<1>3. QED BY <1>1, <1>2, PTL DEF Spec

(* The state of the scheduler and of the dispatcher loop is well typed,    *)
(* however many timers module code creates.                                *)
THEOREM SchedTypeOK == Spec => []TypeOK
  BY SchedInvariant, PTL DEF IInv

(* Every timer has exactly one fate: a callback never runs twice, nor      *)
(* after an Unschedule that answered true, and no timer is dropped.        *)
THEOREM SchedOneFate == Spec => []OneFate
  BY SchedInvariant, PTL DEF IInv

(* The dispatcher never sleeps past a pending timer, and never wakes for a *)
(* cancelled one: what loop gets from NextIn.                              *)
THEOREM SchedWakeupArmed == Spec => []WakeupArmed
  BY SchedInvariant, PTL DEF IInv

(* RunDue fires in due-time order, first come first served, and leaves     *)
(* what its callbacks schedule to the next pass.                           *)
THEOREM SchedInOrder == Spec => InOrder
<1>1. IInv /\ [Next]_vars =>
        [\A t \in fired' \ fired :
           /\ t <= passSeq
           /\ at[t] <= now
           /\ \A u \in 1..passSeq :
                at[u] < at[t] \/ (at[u] = at[t] /\ u < t) => u \notin pending \cup due]_vars
  <2> SUFFICES ASSUME IInv, Next, NEW t \in fired' \ fired
               PROVE  /\ t <= passSeq
                      /\ at[t] <= now
                      /\ \A u \in 1..passSeq :
                           at[u] < at[t] \/ (at[u] = at[t] /\ u < t) => u \notin pending \cup due
    BY DEF vars
  <2>1. PICK s \in Tags : Fire(s)
    BY DEF Next, Schedule, Unschedule, UnscheduleCancels, UnscheduleRefuses, NextIn,
           StartWork, EndWork, RunDue, EndCallback, EndPass, CtxDone, Tick
  <2>2. s = t /\ t \in due /\ t \in Tags
    BY <2>1 DEF Fire, First
  <2>3. \A u \in Tags : at[u] \in 0..MaxTime
    BY DueTimes DEF IInv
  <2>4. \A u \in due \ {t} : Before(t, u)
    BY <2>1, <2>2 DEF Fire, First
  <2>5. \A u \in due : at[u] < at[t] \/ (at[u] = at[t] /\ u < t) => FALSE
    <3> TAKE u \in due
    <3>1. u \in Tags /\ t \in Tags /\ Tags \subseteq Nat
      BY <2>2 DEF IInv, TypeOK, Tags
    <3>2. QED BY <2>2, <2>3, <2>4, <3>1, SchedAssumption DEF Before
  <2>6. \A u \in pending : u <= passSeq => at[t] < at[u] /\ u \in Tags
    BY <2>2 DEF IInv, PassInv, TypeOK
  <2>7. t <= passSeq /\ at[t] <= now
    BY <2>2 DEF IInv, PassInv
  <2>8. \A u \in 1..passSeq :
          at[u] < at[t] \/ (at[u] = at[t] /\ u < t) => u \notin pending
    BY <2>2, <2>3, <2>6, SchedAssumption DEF IInv, TypeOK, Tags
  <2>9. QED BY <2>5, <2>7, <2>8
<1>2. QED BY <1>1, SchedInvariant, PTL DEF Spec, InOrder


(* The run takes the timers, the keeper and the talker side by side; of    *)
(* the timers, and of the talker, it is a behaviour like any other.        *)
LEMMA HostsParts == MCSpec => Spec /\ K!Spec
<1>1. MCInit => Init /\ K!Init
  BY DEF MCInit
<1>2. [MCNext]_<<vars, others, running>> => [Next]_vars
  BY DEF MCNext, vars
<1>3. [MCNext]_<<vars, others, running>> => [K!Next]_K!vars
  BY DEF MCNext, others, markov, K!vars, K!memory, K!store, K!idle
<1> QED BY <1>1, <1>2, <1>3, PTL DEF MCSpec, Spec, K!Spec

(* Whatever runs beside them: one fate for each timer, no wake-up missed,  *)
(* and the order of firing (internal/sched/sched.go).                      *)
THEOREM RunTimers == MCSpec => []OneFate /\ []WakeupArmed /\ InOrder
<1> HIDE DEF InOrder
<1> QED BY HostsParts, SchedOneFate, SchedWakeupArmed, SchedInOrder, PTL

(***************************************************************************)
(* Talking (modules/markov).  A trie is what a corpus of windows makes of  *)
(* it: a path counts the windows that begin with it.                       *)
(***************************************************************************)
Windows == Seq(K!Tokens) \ {<<>>}
Corpora == Seq(Windows)

Hits(ws, J, p) == {i \in J : K!IsPrefix(p, ws[i])}
TrieOf(ws, J) == [p \in UNION {K!Heads(ws[i]) : i \in J} |-> Cardinality(Hits(ws, J, p))]
Backwards(ws) == [i \in 1..Len(ws) |-> K!Reverse(ws[i])]

LEMMA SubSeqFrom ==
  ASSUME NEW T, NEW w, NEW n \in Nat, \A i \in 1..n : w[i] \in T
  PROVE  /\ SubSeq(w, 1, n) \in Seq(T) /\ Len(SubSeq(w, 1, n)) = n
         /\ \A i \in 1..n : SubSeq(w, 1, n)[i] = w[i]
<1> DEFINE m == 1
<1>1. m \in Int /\ n \in Int /\ \A i \in m..n : w[i] \in T
  OBVIOUS
<1> HIDE DEF m
<1>2. /\ SubSeq(w, m, n) \in Seq(T)
      /\ Len(SubSeq(w, m, n)) = IF m <= n THEN n - m + 1 ELSE 0
      /\ \A i \in 1..(n - m + 1) : SubSeq(w, m, n)[i] = w[m + i - 1]
  BY <1>1, SubSeqProperties
<1> USE DEF m
<1>3. Len(SubSeq(w, 1, n)) = n
  BY <1>2
<1>4. ASSUME NEW i \in 1..n PROVE SubSeq(w, 1, n)[i] = w[i]
  <2>1. 1 + i - 1 = i /\ i \in 1..(n - 1 + 1)
    OBVIOUS
  <2> QED BY <1>2, <2>1
<1> QED BY <1>2, <1>3, <1>4

(* Prefixes, and what the heads of a window are.                           *)
LEMMA PrefixIs ==
  ASSUME NEW T, NEW p \in Seq(T), NEW w \in Seq(T)
  PROVE  K!IsPrefix(p, w) <=> Len(p) <= Len(w) /\ \A k \in 1..Len(p) : p[k] = w[k]
<1>1. Len(p) \in Nat /\ Len(w) \in Nat
  BY LenProperties
<1>2. CASE Len(p) <= Len(w)
  <2>1. /\ SubSeq(p, 1, Len(p)) \in Seq(T) /\ Len(SubSeq(p, 1, Len(p))) = Len(p)
        /\ \A k \in 1..Len(p) : SubSeq(p, 1, Len(p))[k] = p[k]
    BY <1>1, SubSeqFull
  <2>2. /\ SubSeq(w, 1, Len(p)) \in Seq(T) /\ Len(SubSeq(w, 1, Len(p))) = Len(p)
        /\ \A k \in 1..Len(p) : SubSeq(w, 1, Len(p))[k] = w[k]
    <3>2. \A i \in 1..Len(p) : w[i] \in T
      BY <1>1, <1>2
    <3> QED BY <1>1, <3>2, SubSeqFrom
  <2>3. K!IsPrefix(p, w) <=> SubSeq(p, 1, Len(p)) = SubSeq(w, 1, Len(p))
    BY <1>2 DEF K!IsPrefix
  <2>4. (\A k \in 1..Len(p) : p[k] = w[k]) => SubSeq(p, 1, Len(p)) = SubSeq(w, 1, Len(p))
    BY <2>1, <2>2, SeqEqual
  <2> QED BY <1>2, <2>1, <2>2, <2>3, <2>4
<1>3. CASE ~(Len(p) <= Len(w))
  BY <1>3 DEF K!IsPrefix
<1> QED BY <1>2, <1>3

(* A head of w is a beginning of it, by its length.                        *)
LEMMA HeadOf ==
  ASSUME NEW T, NEW w \in Seq(T), NEW k \in 1..Len(w)
  PROVE  /\ SubSeq(w, 1, k) \in Seq(T) /\ Len(SubSeq(w, 1, k)) = k
         /\ \A i \in 1..k : SubSeq(w, 1, k)[i] = w[i]
         /\ K!IsPrefix(SubSeq(w, 1, k), w)
         /\ SubSeq(w, 1, k) # <<>>
<1>1. Len(w) \in Nat /\ k \in Nat /\ k <= Len(w) /\ k >= 1
  BY LenProperties
<1>3. \A i \in 1..k : w[i] \in T
  BY <1>1
<1>5. /\ SubSeq(w, 1, k) \in Seq(T) /\ Len(SubSeq(w, 1, k)) = k
      /\ \A i \in 1..k : SubSeq(w, 1, k)[i] = w[i]
  BY <1>1, <1>3, SubSeqFrom
<1>6. K!IsPrefix(SubSeq(w, 1, k), w)
  BY <1>1, <1>5, PrefixIs
<1>7. SubSeq(w, 1, k) # <<>>
  BY <1>1, <1>5, EmptySeq
<1> QED BY <1>5, <1>6, <1>7

LEMMA HeadsAre ==
  ASSUME NEW T, NEW w \in Seq(T), NEW p
  PROVE  p \in K!Heads(w) <=> p \in Seq(T) /\ p # <<>> /\ K!IsPrefix(p, w)
<1>1. ASSUME p \in K!Heads(w) PROVE p \in Seq(T) /\ p # <<>> /\ K!IsPrefix(p, w)
  BY <1>1, HeadOf DEF K!Heads
<1>2. ASSUME p \in Seq(T), p # <<>>, K!IsPrefix(p, w) PROVE p \in K!Heads(w)
  <2>1. Len(p) \in 1..Len(w) /\ \A k \in 1..Len(p) : p[k] = w[k]
    <3>1. Len(p) \in Nat /\ Len(w) \in Nat /\ Len(p) # 0
      BY <1>2, EmptySeq, LenProperties
    <3> QED BY <1>2, <3>1, PrefixIs
  <2>2. /\ SubSeq(w, 1, Len(p)) \in Seq(T) /\ Len(SubSeq(w, 1, Len(p))) = Len(p)
        /\ \A i \in 1..Len(p) : SubSeq(w, 1, Len(p))[i] = w[i]
    BY <2>1, HeadOf
  <2>3. p = SubSeq(w, 1, Len(p))
    BY <1>2, <2>1, <2>2, SeqEqual
  <2> QED BY <2>1, <2>3 DEF K!Heads
<1> QED BY <1>1, <1>2

(* Beginnings of the same window: of a shorter one, and of equal length.   *)
LEMMA PrefixThrough ==
  ASSUME NEW T, NEW p \in Seq(T), NEW q \in Seq(T), NEW w \in Seq(T),
         K!IsPrefix(p, q), K!IsPrefix(q, w)
  PROVE  K!IsPrefix(p, w)
<1>1. Len(p) \in Nat /\ Len(q) \in Nat /\ Len(w) \in Nat
  BY LenProperties
<1>2. /\ Len(p) <= Len(q) /\ \A k \in 1..Len(p) : p[k] = q[k]
      /\ Len(q) <= Len(w) /\ \A k \in 1..Len(q) : q[k] = w[k]
  BY PrefixIs
<1>3. Len(p) <= Len(w)
  BY <1>1, <1>2
<1>4. ASSUME NEW k \in 1..Len(p) PROVE p[k] = w[k]
  BY <1>1, <1>2
<1> QED BY <1>3, <1>4, PrefixIs

LEMMA PrefixAlike ==
  ASSUME NEW T, NEW p \in Seq(T), NEW q \in Seq(T), NEW w \in Seq(T),
         K!IsPrefix(p, w), K!IsPrefix(q, w), Len(p) = Len(q)
  PROVE  p = q
<1>1. (\A k \in 1..Len(p) : p[k] = w[k]) /\ (\A k \in 1..Len(q) : q[k] = w[k])
  BY PrefixIs
<1>2. \A k \in 1..Len(p) : p[k] = q[k]
  BY <1>1
<1> QED BY <1>2, SeqEqual

LEMMA PrefixSelf ==
  ASSUME NEW T, NEW w \in Seq(T)
  PROVE  K!IsPrefix(w, w)
<1>1. Len(w) <= Len(w)
  BY LenProperties
<1> QED BY <1>1, PrefixIs

(* Of a window that goes on behind p, the beginning that is one longer.    *)
LEMMA PrefixNext ==
  ASSUME NEW T, NEW p \in Seq(T), NEW w \in Seq(T), K!IsPrefix(p, w), p # w
  PROVE  \E q \in K!Heads(w) : /\ q \in Seq(T) /\ Len(q) = Len(p) + 1
                               /\ K!IsPrefix(p, q) /\ K!IsPrefix(q, w)
<1>1. Len(p) \in Nat /\ Len(w) \in Nat
  BY LenProperties
<1>2. Len(p) <= Len(w) /\ \A k \in 1..Len(p) : p[k] = w[k]
  BY PrefixIs
<1>3. Len(p) + 1 \in 1..Len(w)
  <2>1. Len(p) # Len(w)
    BY <1>2, SeqEqual
  <2> QED BY <1>1, <1>2, <2>1
<1> DEFINE q == SubSeq(w, 1, Len(p) + 1)
<1>4. /\ q \in Seq(T) /\ Len(q) = Len(p) + 1 /\ K!IsPrefix(q, w)
      /\ \A i \in 1..(Len(p) + 1) : q[i] = w[i]
  BY <1>3, HeadOf
<1>5. q \in K!Heads(w)
  BY <1>3 DEF K!Heads
<1> HIDE DEF q
<1>6. K!IsPrefix(p, q)
  <2>1. Len(p) <= Len(q) /\ \A k \in 1..Len(p) : p[k] = q[k]
    BY <1>1, <1>2, <1>4
  <2> QED BY <1>4, <2>1, PrefixIs
<1> QED BY <1>4, <1>5, <1>6

LEMMA HeadsFinite ==
  ASSUME NEW T, NEW w \in Seq(T)
  PROVE  IsFiniteSet(K!Heads(w))
<1>1. IsFiniteSet(1..Len(w))
  BY FS_Interval, LenProperties
<1> DEFINE f == [k \in 1..Len(w) |-> SubSeq(w, 1, k)]
<1>2. f \in Surjection(1..Len(w), K!Heads(w))
  BY DEF Surjection, K!Heads
<1> QED BY <1>1, <1>2, FS_Surjection

LEMMA TrieFacts ==
  ASSUME NEW ws \in Corpora, NEW J \in SUBSET (1..Len(ws))
  PROVE  /\ IsFiniteSet(J) /\ \A i \in J : ws[i] \in Windows
         /\ DOMAIN TrieOf(ws, J) = UNION {K!Heads(ws[i]) : i \in J}
         /\ \A p \in DOMAIN TrieOf(ws, J) : TrieOf(ws, J)[p] = Cardinality(Hits(ws, J, p))
         /\ \A p : Hits(ws, J, p) \subseteq J /\ IsFiniteSet(Hits(ws, J, p))
                   /\ Cardinality(Hits(ws, J, p)) \in Nat
         /\ IsFiniteSet(DOMAIN TrieOf(ws, J))
<1>1. IsFiniteSet(J) /\ \A i \in J : ws[i] \in Windows
  <2>1. Len(ws) \in Nat /\ \A i \in 1..Len(ws) : ws[i] \in Windows
    BY LenProperties DEF Corpora
  <2>2. IsFiniteSet(1..Len(ws))
    BY <2>1, FS_Interval
  <2> QED BY <2>1, <2>2, FS_Subset
<1>2. ASSUME NEW p
      PROVE  Hits(ws, J, p) \subseteq J /\ IsFiniteSet(Hits(ws, J, p)) /\ Cardinality(Hits(ws, J, p)) \in Nat
  <2>1. Hits(ws, J, p) \subseteq J
    BY DEF Hits
  <2> QED BY <1>1, <2>1, FS_Subset, FS_CardinalityType
<1>3. /\ DOMAIN TrieOf(ws, J) = UNION {K!Heads(ws[i]) : i \in J}
      /\ \A p \in DOMAIN TrieOf(ws, J) : TrieOf(ws, J)[p] = Cardinality(Hits(ws, J, p))
  BY DEF TrieOf
<1>4. IsFiniteSet(UNION {K!Heads(ws[i]) : i \in J})
  <2> DEFINE H == {K!Heads(ws[i]) : i \in J}
             f == [i \in J |-> K!Heads(ws[i])]
  <2>1. f \in Surjection(J, H)
    BY DEF Surjection
  <2>2. IsFiniteSet(H)
    BY <1>1, <2>1, FS_Surjection
  <2>3. \A h \in H : IsFiniteSet(h)
    BY <1>1, HeadsFinite DEF Windows
  <2> HIDE DEF H
  <2>4. IsFiniteSet(UNION H)
    BY <2>2, <2>3, FS_UNION
  <2> QED BY <2>4 DEF H
<1> QED BY <1>1, <1>2, <1>3, <1>4

(* The paths of a trie are the beginnings of its windows.                  *)
LEMMA PathIs ==
  ASSUME NEW ws \in Corpora, NEW J \in SUBSET (1..Len(ws)), NEW p
  PROVE  p \in DOMAIN TrieOf(ws, J) <=> p \in Windows /\ \E i \in J : K!IsPrefix(p, ws[i])
<1>1. \A i \in J : ws[i] \in Seq(K!Tokens)
  BY TrieFacts DEF Windows
<1>2. \A i \in J : p \in K!Heads(ws[i]) <=> p \in Windows /\ K!IsPrefix(p, ws[i])
  BY <1>1, HeadsAre DEF Windows
<1>3. p \in DOMAIN TrieOf(ws, J) <=> \E i \in J : p \in K!Heads(ws[i])
  BY DEF TrieOf
<1> QED BY <1>2, <1>3

(* What the children do not account for is the windows that end there.     *)
LEMMA ExcessIs ==
  ASSUME NEW ws \in Corpora, NEW J \in SUBSET (1..Len(ws)), NEW p \in DOMAIN TrieOf(ws, J)
  PROVE  K!Excess(TrieOf(ws, J), p) = Cardinality({i \in J : ws[i] = p})
<1> DEFINE T == TrieOf(ws, J)
           S == K!Children(T, p)
           F == [q \in DOMAIN T |-> T[q]]
           A == [q \in DOMAIN T |-> Hits(ws, J, q)]
           Beyond == {i \in J : K!IsPrefix(p, ws[i]) /\ ws[i] # p}
           There == {i \in J : ws[i] = p}
<1>1. /\ IsFiniteSet(J) /\ \A i \in J : ws[i] \in Windows
      /\ \A q \in DOMAIN T : T[q] = Cardinality(Hits(ws, J, q)) /\ Hits(ws, J, q) \subseteq J
      /\ IsFiniteSet(DOMAIN T)
  BY TrieFacts
<1>2. p \in Seq(K!Tokens) /\ Len(p) \in Nat /\ \A i \in J : ws[i] \in Seq(K!Tokens)
  BY <1>1, PathIs, LenProperties DEF Windows
<1>3. /\ S \subseteq DOMAIN T
      /\ \A q \in S : q \in Seq(K!Tokens) /\ Len(q) = Len(p) + 1 /\ K!IsPrefix(p, q)
  <2>1. \A q \in DOMAIN T : q \in Seq(K!Tokens)
    BY PathIs DEF Windows
  <2> QED BY <2>1 DEF K!Children
<1>4. IsFiniteSet(S)
  BY <1>1, <1>3, FS_Subset
<1>5. UNION {A[q] : q \in S} = Beyond
  <2>1. ASSUME NEW q \in S, NEW i \in Hits(ws, J, q) PROVE i \in Beyond
    <3>1. i \in J /\ K!IsPrefix(q, ws[i])
      BY DEF Hits
    <3>2. K!IsPrefix(p, ws[i])
      BY <1>2, <1>3, <3>1, PrefixThrough
    <3>3. ws[i] # p
      <4>1. Len(q) <= Len(ws[i])
        BY <1>2, <1>3, <3>1, PrefixIs
      <4> QED BY <1>2, <1>3, <4>1
    <3> QED BY <3>1, <3>2, <3>3
  <2>2. ASSUME NEW i \in Beyond PROVE \E q \in S : i \in Hits(ws, J, q)
    <3>1. PICK q \in K!Heads(ws[i]) : /\ q \in Seq(K!Tokens) /\ Len(q) = Len(p) + 1
                                      /\ K!IsPrefix(p, q) /\ K!IsPrefix(q, ws[i])
      BY <1>2, PrefixNext
    <3>2. q \in DOMAIN T
      BY <3>1 DEF TrieOf
    <3> QED BY <3>1, <3>2 DEF K!Children, Hits
  <2>3. \A q \in S : A[q] = Hits(ws, J, q)
    BY <1>3
  <2> HIDE DEF S, A, Beyond
  <2> QED BY <2>1, <2>2, <2>3
<1>6. ASSUME NEW q \in S, NEW r \in S, q # r PROVE A[q] \cap A[r] = {}
  <2>1. SUFFICES ASSUME NEW i \in J, K!IsPrefix(q, ws[i]), K!IsPrefix(r, ws[i]) PROVE FALSE
    BY <1>3 DEF Hits
  <2>2. q \in Seq(K!Tokens) /\ r \in Seq(K!Tokens) /\ Len(q) = Len(r) /\ ws[i] \in Seq(K!Tokens)
    BY <1>2, <1>3
  <2> QED BY <1>6, <2>1, <2>2, PrefixAlike
<1>7. Total(F, S) = Cardinality(Beyond)
  <2>1. \A q \in S : A[q] \subseteq J /\ F[q] = Cardinality(A[q])
    BY <1>1, <1>3
  <2>2. \A q, r \in S : q # r => A[q] \cap A[r] = {}
    BY <1>6
  <2> HIDE DEF S, A, F, Beyond, T
  <2>3. Unshared(A, S, J) /\ Measures(F, A, S)
    BY <2>1, <2>2 DEF Unshared, Measures
  <2>4. IsFiniteSet(J)
    BY <1>1
  <2>5. Total(F, S) = Cardinality(Merged(A, S))
    BY <1>4, <2>3, <2>4, TotalCounts
  <2> QED BY <1>5, <2>5 DEF Merged
<1>8. K!MapThenSumSet(LAMBDA q : T[q], S) = Total(F, S)
  <2> DEFINE G == [q \in S |-> T[q]]
  <2>1. Total(G, S) = Total(F, S)
    <3>1. \A q \in S : G[q] = F[q]
      BY <1>3
    <3> HIDE DEF G, F, S
    <3> QED BY <3>1, TotalSame
  <2>2. K!MapThenSumSet(LAMBDA q : T[q], S) = Total(G, S)
    <3> HIDE DEF T, S
    <3> QED BY Zenon DEF K!MapThenSumSet, K!MapThenFoldSet, G, Total, AddsUp, AnyOf
  <2> QED BY <2>1, <2>2
<1>9. Cardinality(Hits(ws, J, p)) = Cardinality(Beyond) + Cardinality(There)
  <2>1. Hits(ws, J, p) = Beyond \cup There
    <3>1. K!IsPrefix(p, p)
      BY <1>2, PrefixSelf
    <3> QED BY <3>1 DEF Hits
  <2>2. Beyond \cap There = {} /\ IsFiniteSet(Beyond) /\ IsFiniteSet(There)
    BY <1>1, FS_Subset
  <2> HIDE DEF Beyond, There
  <2>3. /\ Cardinality(Beyond \cup There)
             = Cardinality(Beyond) + Cardinality(There) - Cardinality(Beyond \cap There)
        /\ Cardinality(Beyond) \in Nat /\ Cardinality(There) \in Nat
    BY <2>2, FS_Union, FS_CardinalityType
  <2>4. Cardinality(Beyond \cap There) = 0
    BY <2>2, FS_EmptySet, Zenon

  <2>5. Cardinality(Beyond \cup There) = Cardinality(Beyond) + Cardinality(There)
    BY <2>3, <2>4
  <2> QED BY <2>1, <2>5
<1>10. Cardinality(Beyond) \in Nat /\ Cardinality(There) \in Nat
  <2>1. IsFiniteSet(Beyond) /\ IsFiniteSet(There)
    BY <1>1, FS_Subset
  <2> QED BY <2>1, FS_CardinalityType
<1>11. K!Excess(T, p) = T[p] - K!MapThenSumSet(LAMBDA q : T[q], S)
  BY DEF K!Excess
<1>12. T[p] = Cardinality(Hits(ws, J, p))
  BY <1>1
<1> QED BY <1>7, <1>8, <1>9, <1>10, <1>11, <1>12

(* Windows turned around.                                                  *)
LEMMA ReverseFacts ==
  ASSUME NEW T, NEW w \in Seq(T)
  PROVE  /\ K!Reverse(w) \in Seq(T) /\ Len(K!Reverse(w)) = Len(w) /\ Len(w) \in Nat
         /\ \A i \in 1..Len(w) : K!Reverse(w)[i] = w[(Len(w) - i) + 1]
<1>1. Len(w) \in Nat
  BY LenProperties
<1>2. K!Reverse(w) = [i \in 1..Len(w) |-> w[(Len(w) - i) + 1]]
  BY DEF K!Reverse
<1>3. \A i \in 1..Len(w) : w[(Len(w) - i) + 1] \in T
  <2>1. \A i \in 1..Len(w) : (Len(w) - i) + 1 \in 1..Len(w)
    BY <1>1
  <2> QED BY <2>1, ElementOfSeq
<1>4. [i \in 1..Len(w) |-> w[(Len(w) - i) + 1]] \in Seq(T)
  BY <1>1, <1>3, IsASeq
<1>5. Len(K!Reverse(w)) = Len(w)
  BY <1>1, <1>2, <1>4, LenProperties
<1> QED BY <1>1, <1>2, <1>4, <1>5

LEMMA WindowReversed ==
  ASSUME NEW w \in Windows
  PROVE  K!Reverse(w) \in Windows
<1>1. w \in Seq(K!Tokens) /\ w # <<>>
  BY DEF Windows
<1>2. K!Reverse(w) \in Seq(K!Tokens) /\ Len(K!Reverse(w)) = Len(w) /\ Len(w) # 0
  BY <1>1, ReverseFacts, EmptySeq
<1>3. K!Reverse(w) # <<>>
  BY <1>2, EmptySeq
<1> QED BY <1>2, <1>3 DEF Windows

LEMMA BackwardsFacts ==
  ASSUME NEW ws \in Corpora
  PROVE  /\ Backwards(ws) \in Corpora /\ Len(Backwards(ws)) = Len(ws) /\ Len(ws) \in Nat
         /\ \A i \in 1..Len(ws) : ws[i] \in Windows /\ Backwards(ws)[i] = K!Reverse(ws[i])
<1>1. Len(ws) \in Nat /\ \A i \in 1..Len(ws) : ws[i] \in Windows
  BY LenProperties DEF Corpora
<1>2. \A i \in 1..Len(ws) : K!Reverse(ws[i]) \in Windows
  BY <1>1, WindowReversed
<1>3. [i \in 1..Len(ws) |-> K!Reverse(ws[i])] \in Seq(Windows)
  BY <1>1, <1>2, IsASeq
<1>4. Backwards(ws) \in Corpora
  BY <1>3 DEF Backwards, Corpora
<1>5. DOMAIN Backwards(ws) = 1..Len(ws) /\ \A i \in 1..Len(ws) : Backwards(ws)[i] = K!Reverse(ws[i])
  BY DEF Backwards
<1>6. Len(Backwards(ws)) = Len(ws)
  <2>1. Len(Backwards(ws)) \in Nat /\ DOMAIN Backwards(ws) = 1..Len(Backwards(ws))
    BY <1>4, LenProperties DEF Corpora
  <2> QED BY <1>1, <1>5, <2>1
<1> QED BY <1>1, <1>4, <1>5, <1>6

(* Turning the windows a trie ends with gives the trie of the corpus turned *)
(* around.                                                                 *)
LEMMA EndsAre ==
  ASSUME NEW ws \in Corpora, NEW J \in SUBSET (1..Len(ws))
  PROVE  K!Ends(TrieOf(ws, J)) = {ws[i] : i \in J}
<1> DEFINE T == TrieOf(ws, J)
<1>0. IsFiniteSet(J) /\ \A i \in J : ws[i] \in Windows
  BY TrieFacts
<1>1. ASSUME NEW p \in DOMAIN T
      PROVE  K!Excess(T, p) > 0 <=> \E i \in J : ws[i] = p
  <2> DEFINE There == {i \in J : ws[i] = p}
  <2>1. K!Excess(T, p) = Cardinality(There)
    BY ExcessIs
  <2>2. IsFiniteSet(There)
    BY <1>0, FS_Subset
  <2>3. There = {} <=> ~\E i \in J : ws[i] = p
    OBVIOUS
  <2> HIDE DEF There, T
  <2>4. Cardinality(There) \in Nat /\ (Cardinality(There) = 0 <=> There = {})
    BY <2>2, FS_EmptySet, FS_CardinalityType
  <2> QED BY <2>1, <2>3, <2>4
<1>2. ASSUME NEW i \in J PROVE ws[i] \in DOMAIN T
  <2>1. ws[i] \in Windows /\ K!IsPrefix(ws[i], ws[i])
    BY <1>0, PrefixSelf DEF Windows
  <2> QED BY <2>1, PathIs
<1> HIDE DEF T
<1>3. {p \in DOMAIN T : K!Excess(T, p) > 0} = {ws[i] : i \in J}
  BY <1>1, <1>2
<1> QED BY <1>3 DEF T, K!Ends

LEMMA TurnedCount ==
  ASSUME NEW ws \in Corpora, NEW J \in SUBSET (1..Len(ws)), NEW q
  PROVE  K!Turned(TrieOf(ws, J), K!Ends(TrieOf(ws, J)), q)
           = Cardinality(Hits(Backwards(ws), J, q))
<1> DEFINE T == TrieOf(ws, J)
           E == K!Ends(T)
           F == [p \in E |-> K!Share(T, q, p)]
           A == [p \in E |-> {i \in J : ws[i] = p /\ K!IsPrefix(q, K!Reverse(p))}]
<1>0. E = {ws[i] : i \in J}
  BY EndsAre
<1>1. IsFiniteSet(J) /\ \A i \in J : ws[i] \in Windows
  BY TrieFacts
<1>2. IsFiniteSet(E)
  <2> DEFINE f == [i \in J |-> ws[i]]
  <2> HIDE DEF E
  <2>1. f \in Surjection(J, E)
    BY <1>0 DEF Surjection
  <2> QED BY <1>1, <2>1, FS_Surjection
<1>3. ASSUME NEW p \in E PROVE F[p] = Cardinality(A[p])
  <2>1. K!Excess(T, p) = Cardinality({i \in J : ws[i] = p})
    <3>1. p \in DOMAIN T
      BY DEF K!Ends
    <3> QED BY <3>1, ExcessIs
  <2>2. F[p] = K!Share(T, q, p)
    OBVIOUS
  <2>3. CASE K!IsPrefix(q, K!Reverse(p))
    <3>1. A[p] = {i \in J : ws[i] = p}
      BY <2>3
    <3>2. K!Share(T, q, p) = K!Excess(T, p)
      BY <2>3 DEF K!Share
    <3> HIDE DEF A, F, T, E
    <3> QED BY <2>1, <2>2, <3>1, <3>2
  <2>4. CASE ~K!IsPrefix(q, K!Reverse(p))
    <3>1. A[p] = {}
      BY <2>4
    <3>2. K!Share(T, q, p) = 0
      BY <2>4 DEF K!Share
    <3>3. Cardinality({}) = 0
      BY FS_EmptySet
    <3> HIDE DEF A, F, T, E
    <3> QED BY <2>2, <3>1, <3>2, <3>3
  <2> QED BY <2>3, <2>4
<1>4. \A p \in E : A[p] \subseteq J
  OBVIOUS
<1>5. \A p, r \in E : p # r => A[p] \cap A[r] = {}
  OBVIOUS
<1>6. UNION {A[p] : p \in E} = Hits(Backwards(ws), J, q)
  <2>1. \A i \in J : Backwards(ws)[i] = K!Reverse(ws[i])
    BY BackwardsFacts
  <2>2. Hits(Backwards(ws), J, q) = {i \in J : K!IsPrefix(q, K!Reverse(ws[i]))}
    BY <2>1 DEF Hits
  <2>3. \A i \in J : K!IsPrefix(q, K!Reverse(ws[i])) => ws[i] \in E /\ i \in A[ws[i]]
    <3> HIDE DEF E
    <3> QED BY <1>0
  <2>4. \A p \in E : \A i \in A[p] : i \in J /\ K!IsPrefix(q, K!Reverse(ws[i]))
    OBVIOUS
  <2> HIDE DEF A, E
  <2> QED BY <2>2, <2>3, <2>4
<1>7. K!Turned(T, E, q) = Total(F, E)
  <2>1. K!Turned(T, E, q) = K!MapThenSumSet(LAMBDA p : K!Share(T, q, p), E)
    BY Zenon DEF K!Turned
  <2>2. K!MapThenSumSet(LAMBDA p : K!Share(T, q, p), E) = Total(F, E)
    <3> HIDE DEF T, E
    <3> QED BY Zenon DEF K!MapThenSumSet, K!MapThenFoldSet, F, Total, AddsUp, AnyOf
  <2> QED BY <2>1, <2>2
<1>9. \A p \in E : F[p] = Cardinality(A[p])
  BY <1>3
<1> HIDE DEF F, A, E
<1> HIDE DEF T
<1>8. Total(F, E) = Cardinality(Merged(A, E))
  <2>1. IsFiniteSet(J)
    BY <1>1
  <2>2. Unshared(A, E, J) /\ Measures(F, A, E)
    BY <1>4, <1>5, <1>9 DEF Unshared, Measures
  <2> QED BY <2>1, <2>2, <1>2, TotalCounts
<1>10. Merged(A, E) = UNION {A[p] : p \in E}
  BY DEF Merged
<1> QED BY <1>6, <1>7, <1>8, <1>10 DEF T, E

LEMMA DerivedIs ==
  ASSUME NEW ws \in Corpora, NEW J \in SUBSET (1..Len(ws))
  PROVE  K!Derived(TrieOf(ws, J)) = TrieOf(Backwards(ws), J)
<1> DEFINE T == TrieOf(ws, J)
           E == K!Ends(T)
           D1 == UNION {K!Heads(K!Reverse(p)) : p \in K!Ends(T)}
           D2 == UNION {K!Heads(Backwards(ws)[i]) : i \in J}
<1>1. D1 = D2
  <2>1. \A i \in J : Backwards(ws)[i] = K!Reverse(ws[i])
    BY BackwardsFacts
  <2>2. K!Ends(T) = {ws[i] : i \in J}
    BY EndsAre
  <2> HIDE DEF T
  <2> QED BY <2>1, <2>2
<1>2. \A q : K!Turned(T, E, q) = Cardinality(Hits(Backwards(ws), J, q))
  BY TurnedCount
<1>3. K!Derived(T) = [q \in D1 |-> K!Turned(T, E, q)]
  BY Zenon DEF K!Derived
<1>4. TrieOf(Backwards(ws), J) = [q \in D2 |-> Cardinality(Hits(Backwards(ws), J, q))]
  BY Zenon DEF TrieOf
<1> HIDE DEF D1, D2, T, E
<1>5. K!Derived(T) = TrieOf(Backwards(ws), J)
  BY <1>1, <1>2, <1>3, <1>4
<1> QED BY <1>5 DEF T

LEMMA MarkovCardinality == \A U : K!Cardinality(U) = Cardinality(U)
BY DEF K!Cardinality, Cardinality, K!IsFiniteSet, IsFiniteSet

(* The trie of windows depends on those it is made of, and on no others.   *)
LEMMA TrieAlike ==
  ASSUME NEW ws, NEW vs, NEW J, \A i \in J : ws[i] = vs[i]
  PROVE  TrieOf(ws, J) = TrieOf(vs, J)
<1>1. \A p : Hits(ws, J, p) = Hits(vs, J, p)
  BY DEF Hits
<1>2. UNION {K!Heads(ws[i]) : i \in J} = UNION {K!Heads(vs[i]) : i \in J}
  OBVIOUS
<1> QED BY <1>1, <1>2 DEF TrieOf

LEMMA TrieEmpty ==
  ASSUME NEW ws
  PROVE  TrieOf(ws, {}) = K!NoTrie
<1>1. UNION {K!Heads(ws[i]) : i \in {}} = {}
  OBVIOUS
<1>2. TrieOf(ws, {}) = [p \in {} |-> Cardinality(Hits(ws, {}, p))]
  BY <1>1 DEF TrieOf
<1> DEFINE t == [p \in {} |-> Cardinality(Hits(ws, {}, p))]
           e == [p \in 1..0 |-> p]
<1>3. t = e
  OBVIOUS
<1>4. e \in Seq(Nat)
  BY IsASeq
<1>5. Len(e) = 0
  BY <1>4, LenProperties
<1>6. e = <<>>
  BY <1>4, <1>5, EmptySeq
<1> QED BY <1>2, <1>3, <1>6 DEF K!NoTrie

LEMMA TrieFull ==
  ASSUME NEW ws \in Corpora, NEW J \in SUBSET (1..Len(ws)), TrieOf(ws, J) = K!NoTrie
  PROVE  J = {}
<1>1. ASSUME NEW i \in J PROVE FALSE
  <2>1. ws[i] \in Windows /\ K!IsPrefix(ws[i], ws[i])
    BY TrieFacts, PrefixSelf DEF Windows
  <2>2. ws[i] \in DOMAIN TrieOf(ws, J)
    BY <2>1, PathIs
  <2>3. DOMAIN <<>> = {}
    BY EmptySeq
  <2> QED BY <2>2, <2>3 DEF K!NoTrie
<1> QED BY <1>1

(* How often a path was learned, in the trie or not.                       *)
LEMMA TallyIs ==
  ASSUME NEW ws \in Corpora, NEW J \in SUBSET (1..Len(ws)), NEW p \in Windows
  PROVE  K!Tally(TrieOf(ws, J), p) = Cardinality(Hits(ws, J, p))
<1>1. CASE p \in DOMAIN TrieOf(ws, J)
  BY <1>1, TrieFacts DEF K!Tally
<1>2. CASE p \notin DOMAIN TrieOf(ws, J)
  <2>1. Hits(ws, J, p) = {}
    BY <1>2, PathIs DEF Hits
  <2>2. Cardinality({}) = 0
    BY FS_EmptySet
  <2>3. K!Tally(TrieOf(ws, J), p) = 0
    BY <1>2 DEF K!Tally
  <2> QED BY <2>1, <2>2, <2>3
<1> QED BY <1>1, <1>2

LEMMA TrieWithin ==
  ASSUME NEW ws \in Corpora, NEW M \in SUBSET (1..Len(ws)), NEW J \in SUBSET M
  PROVE  K!Within(TrieOf(ws, J), TrieOf(ws, M))
<1>1. J \in SUBSET (1..Len(ws))
  OBVIOUS
<1>2. ASSUME NEW p \in DOMAIN TrieOf(ws, J)
      PROVE  TrieOf(ws, J)[p] <= K!Tally(TrieOf(ws, M), p)
  <2>1. p \in Windows /\ TrieOf(ws, J)[p] = Cardinality(Hits(ws, J, p))
    BY <1>1, PathIs, TrieFacts
  <2>2. K!Tally(TrieOf(ws, M), p) = Cardinality(Hits(ws, M, p))
    BY <2>1, TallyIs
  <2>3. Hits(ws, J, p) \subseteq Hits(ws, M, p)
    BY DEF Hits
  <2>4. IsFiniteSet(Hits(ws, M, p))
    BY TrieFacts
  <2>5. Cardinality(Hits(ws, J, p)) <= Cardinality(Hits(ws, M, p))
    BY <2>3, <2>4, FS_Subset
  <2> QED BY <2>1, <2>2, <2>5
<1> QED BY <1>2 DEF K!Within

(* What learning a line adds: the windows of New, which are the line's in   *)
(* whatever order.                                                         *)
LEMMA LearnedIs ==
  ASSUME NEW ws \in Corpora, NEW J \in SUBSET (1..Len(ws)), NEW New \in SUBSET (1..Len(ws)),
         J \cap New = {}, NEW tokens, K!Windows(tokens) \in Corpora,
         NEW g \in Bijection(DOMAIN K!Windows(tokens), New),
         \A i \in DOMAIN K!Windows(tokens) : ws[g[i]] = K!Windows(tokens)[i]
  PROVE  K!Learned(TrieOf(ws, J), tokens) = TrieOf(ws, J \cup New)
<1> DEFINE us == K!Windows(tokens)
           Z == DOMAIN us
           T == TrieOf(ws, J)
           D1 == DOMAIN T \cup UNION {K!Heads(us[i]) : i \in Z}
           D2 == UNION {K!Heads(ws[i]) : i \in J \cup New}
           At(p) == {i \in Z : K!IsPrefix(p, us[i])}
<1>0. /\ \A i \in Z : g[i] \in New
      /\ \A i, k \in Z : g[i] = g[k] => i = k
      /\ \A j \in New : \E i \in Z : g[i] = j
  <2>1. g \in Bijection(Z, New)
    OBVIOUS
  <2> HIDE DEF Z
  <2> QED BY <2>1 DEF Bijection, Injection, Surjection, IsInjective
<1>1. D1 = D2
  <2>1. DOMAIN T = UNION {K!Heads(ws[i]) : i \in J}
    BY DEF TrieOf
  <2>2. UNION {K!Heads(us[i]) : i \in Z} = UNION {K!Heads(ws[i]) : i \in New}
    <3>1. ASSUME NEW i \in Z PROVE g[i] \in New /\ ws[g[i]] = us[i]
      BY <1>0
    <3>2. ASSUME NEW j \in New PROVE \E i \in Z : us[i] = ws[j]
      BY <1>0
    <3> HIDE DEF us, Z
    <3> QED BY <3>1, <3>2
  <2> HIDE DEF T, us, Z
  <2> QED BY <2>1, <2>2
<1>2. \A p \in D2 : p \in Windows
  <2>1. J \cup New \in SUBSET (1..Len(ws))
    OBVIOUS
  <2>2. D2 = DOMAIN TrieOf(ws, J \cup New)
    BY DEF TrieOf
  <2> QED BY <2>1, <2>2, PathIs
<1>3. ASSUME NEW p \in D2
      PROVE  K!Tally(T, p) + Cardinality(At(p)) = Cardinality(Hits(ws, J \cup New, p))
  <2>1. K!Tally(T, p) = Cardinality(Hits(ws, J, p))
    BY <1>2, TallyIs
  <2>2. Hits(ws, J \cup New, p) = Hits(ws, J, p) \cup Hits(ws, New, p)
    BY DEF Hits
  <2>3. Hits(ws, J, p) \cap Hits(ws, New, p) = {}
    BY DEF Hits
  <2>4. IsFiniteSet(Hits(ws, J, p)) /\ IsFiniteSet(Hits(ws, New, p))
    BY TrieFacts
  <2>5. Cardinality(At(p)) = Cardinality(Hits(ws, New, p))
    <3> DEFINE h == [i \in At(p) |-> g[i]]
    <3>1. \A i \in At(p) : h[i] \in Hits(ws, New, p)
      <4>1. \A i \in At(p) : i \in Z /\ K!IsPrefix(p, us[i]) /\ ws[g[i]] = us[i]
        OBVIOUS
      <4> HIDE DEF Z, us
      <4> QED BY <1>0, <4>1 DEF Hits
    <3>2. \A i, k \in At(p) : h[i] = h[k] => i = k
      <4>1. \A i \in At(p) : i \in Z /\ h[i] = g[i]
        OBVIOUS
      <4> HIDE DEF At, h, Z
      <4> QED BY <1>0, <4>1
    <3>3. \A j \in Hits(ws, New, p) : \E i \in At(p) : h[i] = j
      <4>1. ASSUME NEW j \in Hits(ws, New, p) PROVE \E i \in Z : i \in At(p) /\ g[i] = j
        <5>1. j \in New /\ K!IsPrefix(p, ws[j])
          BY DEF Hits
        <5>2. PICK i \in Z : g[i] = j
          BY <1>0, <5>1
        <5>3. us[i] = ws[j]
          BY <5>2
        <5> QED BY <5>1, <5>2, <5>3
      <4>2. \A i \in At(p) : h[i] = g[i]
        OBVIOUS
      <4> HIDE DEF At, h, Z
      <4> QED BY <4>1, <4>2
    <3>4. h \in [At(p) -> Hits(ws, New, p)]
      BY <3>1
    <3> HIDE DEF h, At
    <3>5. h \in Bijection(At(p), Hits(ws, New, p))
      BY <3>2, <3>3, <3>4 DEF Bijection, Injection, Surjection, IsInjective
    <3>6. IsFiniteSet(At(p))
      <4>1. IsFiniteSet(Z)
        <5>1. Len(us) \in Nat /\ Z = 1..Len(us)
          BY LenProperties DEF Corpora
        <5> HIDE DEF us, Z
        <5> QED BY <5>1, FS_Interval
      <4>2. At(p) \subseteq Z
        BY DEF At
      <4> QED BY <4>1, <4>2, FS_Subset
    <3>7. ExistsBijection(At(p), Hits(ws, New, p))
      BY <3>5 DEF ExistsBijection
    <3> QED BY <3>6, <3>7, FS_Bijection
  <2> HIDE DEF At, T, D2, D1
  <2>6. Cardinality(Hits(ws, J, p) \cap Hits(ws, New, p)) = 0
    BY <2>3, FS_EmptySet, Zenon
  <2>7. /\ Cardinality(Hits(ws, J, p) \cup Hits(ws, New, p))
             = Cardinality(Hits(ws, J, p)) + Cardinality(Hits(ws, New, p))
               - Cardinality(Hits(ws, J, p) \cap Hits(ws, New, p))
        /\ Cardinality(Hits(ws, J, p)) \in Nat /\ Cardinality(Hits(ws, New, p)) \in Nat
    BY <2>4, FS_Union, FS_CardinalityType
  <2>8. Cardinality(Hits(ws, J \cup New, p)) = Cardinality(Hits(ws, J, p)) + Cardinality(Hits(ws, New, p))
    <3> DEFINE x == Hits(ws, J, p)
               y == Hits(ws, New, p)
    <3>1. Cardinality(Hits(ws, J \cup New, p)) = Cardinality(x \cup y)
      BY <2>2
    <3>2. /\ Cardinality(x \cup y) = Cardinality(x) + Cardinality(y) - Cardinality(x \cap y)
          /\ Cardinality(x) \in Nat /\ Cardinality(y) \in Nat /\ Cardinality(x \cap y) = 0
      BY <2>6, <2>7
    <3> HIDE DEF x, y
    <3>3. Cardinality(x \cup y) = Cardinality(x) + Cardinality(y)
      BY <3>2
    <3> QED BY <3>1, <3>3 DEF x, y
  <2> QED BY <2>1, <2>5, <2>8
<1>4. K!Learned(T, tokens) = [p \in D1 |-> K!Tally(T, p) + K!Cardinality(At(p))]
  BY Zenon DEF K!Learned
<1>5. TrieOf(ws, J \cup New) = [p \in D2 |-> Cardinality(Hits(ws, J \cup New, p))]
  BY Zenon DEF TrieOf
<1> HIDE DEF D1, D2, At, T
<1>6. K!Learned(T, tokens) = TrieOf(ws, J \cup New)
  <2>1. \A p \in D2 : K!Tally(T, p) + K!Cardinality(At(p)) = Cardinality(Hits(ws, J \cup New, p))
    BY <1>3, MarkovCardinality
  <2> QED BY <1>1, <2>1, <1>4, <1>5
<1> QED BY <1>6 DEF T

LEMMA SameUpTo ==
  ASSUME NEW m \in Nat, NEW n \in Nat, 1..m = 1..n
  PROVE  m = n
<1>1. CASE m < n
  <2>1. n \in 1..n /\ n \notin 1..m
    BY <1>1
  <2> QED BY <2>1
<1>2. CASE n < m
  <2>1. m \in 1..m /\ m \notin 1..n
    BY <1>2
  <2> QED BY <2>1
<1> QED BY <1>1, <1>2

(* The windows of a line, and those of the line turned around.             *)
LEMMA WindowsAre ==
  ASSUME order \in Nat \ {0}, NEW tokens \in Windows
  PROVE  /\ K!Windows(tokens) \in Corpora /\ Len(tokens) \in Nat
         /\ Len(K!Windows(tokens)) = IF Len(tokens) <= order THEN 1 ELSE Len(tokens) - order
         /\ \A i \in 1..Len(K!Windows(tokens)) :
               /\ K!Windows(tokens)[i] \in Windows
               /\ Len(tokens) <= order => K!Windows(tokens)[i] = tokens
               /\ Len(tokens) > order =>
                     /\ Len(K!Windows(tokens)[i]) = order + 1
                     /\ \A k \in 1..(order + 1) : K!Windows(tokens)[i][k] = tokens[i + k - 1]
<1>0. tokens \in Seq(K!Tokens) /\ tokens # <<>> /\ Len(tokens) \in Nat
  BY LenProperties DEF Windows
<1>1. CASE Len(tokens) <= order
  <2>1. K!Windows(tokens) = <<tokens>>
    BY <1>1 DEF K!Windows
  <2>2. <<tokens>> \in Seq(Windows) /\ Len(<<tokens>>) = 1 /\ <<tokens>>[1] = tokens
    OBVIOUS
  <2>3. 1..1 = {1}
    OBVIOUS
  <2> QED BY <1>0, <1>1, <2>1, <2>2, <2>3 DEF Corpora
<1>2. CASE ~(Len(tokens) <= order)
  <2> DEFINE n == Len(tokens) - order
             w == [i \in 1..n |-> SubSeq(tokens, i, i + order)]
  <2>1. K!Windows(tokens) = w
    BY <1>2 DEF K!Windows
  <2>2. n \in Nat
    BY <1>0, <1>2
  <2>3. ASSUME NEW i \in 1..n
        PROVE  /\ SubSeq(tokens, i, i + order) \in Windows
               /\ Len(SubSeq(tokens, i, i + order)) = order + 1
               /\ \A k \in 1..(order + 1) : SubSeq(tokens, i, i + order)[k] = tokens[i + k - 1]
    <3>1. i \in Int /\ i + order \in Int /\ i <= i + order /\ (i + order) - i + 1 = order + 1
      BY <1>0, <2>2
    <3>2. \A k \in i..(i + order) : tokens[k] \in K!Tokens
      <4>1. \A k \in i..(i + order) : k \in 1..Len(tokens)
        BY <1>0, <1>2, <2>2
      <4> QED BY <1>0, <4>1, ElementOfSeq
    <3> DEFINE m == i + order
    <3>3. i \in Int /\ m \in Int /\ \A k \in i..m : tokens[k] \in K!Tokens
      BY <3>1, <3>2
    <3>4. m - i + 1 = order + 1 /\ i <= m
      BY <3>1
    <3> HIDE DEF m
    <3>5. /\ SubSeq(tokens, i, m) \in Seq(K!Tokens)
          /\ Len(SubSeq(tokens, i, m)) = IF i <= m THEN m - i + 1 ELSE 0
          /\ \A k \in 1..(m - i + 1) : SubSeq(tokens, i, m)[k] = tokens[i + k - 1]
      BY <3>3, SubSeqProperties
    <3>6. SubSeq(tokens, i, m) # <<>>
      <4>1. Len(SubSeq(tokens, i, m)) # 0
        BY <3>4, <3>5
      <4> QED BY <4>1, EmptySeq
    <3>7. /\ SubSeq(tokens, i, m) \in Windows /\ Len(SubSeq(tokens, i, m)) = order + 1
          /\ \A k \in 1..(order + 1) : SubSeq(tokens, i, m)[k] = tokens[i + k - 1]
      BY <3>4, <3>5, <3>6 DEF Windows
    <3> QED BY <3>7 DEF m
  <2>4. w \in Seq(Windows)
    <3>1. \A i \in 1..n : SubSeq(tokens, i, i + order) \in Windows
      BY <2>3
    <3> HIDE DEF n
    <3> QED BY <2>2, <3>1, IsASeq
  <2>5. Len(w) = n
    <3>1. DOMAIN w = 1..n
      OBVIOUS
    <3>2. DOMAIN w = 1..Len(w) /\ Len(w) \in Nat
      BY <2>4, LenProperties
    <3> HIDE DEF w, n
    <3> QED BY <2>2, <3>1, <3>2, SameUpTo
  <2>6. \A i \in 1..n : w[i] = SubSeq(tokens, i, i + order)
    OBVIOUS
  <2>7. ASSUME NEW i \in 1..n
        PROVE  /\ w[i] \in Windows /\ Len(w[i]) = order + 1
               /\ \A k \in 1..(order + 1) : w[i][k] = tokens[i + k - 1]
    <3> HIDE DEF w, n
    <3> QED BY <2>3, <2>6
  <2>8. w \in Corpora /\ Len(w) = Len(tokens) - order
    BY <2>4, <2>5 DEF Corpora
  <2>9. \A i \in 1..Len(w) : /\ w[i] \in Windows /\ Len(w[i]) = order + 1
                             /\ \A k \in 1..(order + 1) : w[i][k] = tokens[i + k - 1]
    <3> HIDE DEF w, n
    <3> QED BY <2>5, <2>7
  <2> HIDE DEF w, n
  <2> QED BY <1>0, <1>2, <2>1, <2>8, <2>9
<1> QED BY <1>1, <1>2

LEMMA WindowsTurned ==
  ASSUME order \in Nat \ {0}, NEW tokens \in Windows
  PROVE  /\ K!Reverse(tokens) \in Windows
         /\ Len(K!Windows(K!Reverse(tokens))) = Len(K!Windows(tokens))
         /\ \A i \in 1..Len(K!Windows(tokens)) :
               K!Windows(K!Reverse(tokens))[i]
                 = K!Reverse(K!Windows(tokens)[(Len(K!Windows(tokens)) + 1) - i])
<1> DEFINE back == K!Reverse(tokens)
           us == K!Windows(tokens)
           vs == K!Windows(back)
           n == Len(us)
           S == Len(tokens)
<1>1. back \in Windows
  BY WindowReversed
<1>2. /\ tokens \in Seq(K!Tokens) /\ back \in Seq(K!Tokens)
      /\ Len(back) = S /\ \A i \in 1..S : back[i] = tokens[(S - i) + 1]
  BY ReverseFacts DEF Windows
<1>3. /\ us \in Corpora /\ S \in Nat /\ n = IF S <= order THEN 1 ELSE S - order
      /\ \A i \in 1..n : /\ us[i] \in Windows
                         /\ S <= order => us[i] = tokens
                         /\ S > order => /\ Len(us[i]) = order + 1
                                         /\ \A k \in 1..(order + 1) : us[i][k] = tokens[i + k - 1]
  BY WindowsAre
<1>4. /\ vs \in Corpora /\ Len(vs) = IF Len(back) <= order THEN 1 ELSE Len(back) - order
      /\ \A i \in 1..Len(vs) :
            /\ vs[i] \in Windows
            /\ Len(back) <= order => vs[i] = back
            /\ Len(back) > order =>
                  /\ Len(vs[i]) = order + 1
                  /\ \A k \in 1..(order + 1) : vs[i][k] = back[i + k - 1]
  BY <1>1, WindowsAre
<1> HIDE DEF us, vs, n, S
<1>5. Len(vs) = n
  BY <1>2, <1>3, <1>4
<1>6. ASSUME NEW i \in 1..n PROVE vs[i] = K!Reverse(us[(n + 1) - i])
  <2> DEFINE j == (n + 1) - i
  <2>1. j \in 1..n /\ n \in Nat
    BY <1>3
  <2>2. CASE S <= order
    <3>1. vs[i] = back /\ us[j] = tokens
      BY <1>2, <1>3, <1>4, <1>5, <2>1, <2>2
    <3> QED BY <3>1
  <2>3. CASE ~(S <= order)
    <3>1. n = S - order /\ S > order /\ Len(back) > order
      BY <1>2, <1>3, <2>3
    <3>2. /\ us[j] \in Seq(K!Tokens) /\ Len(us[j]) = order + 1
          /\ \A k \in 1..(order + 1) : us[j][k] = tokens[j + k - 1]
      <4> HIDE DEF j
      <4> QED BY <1>3, <2>1, <3>1 DEF Windows
    <3>3. /\ vs[i] \in Seq(K!Tokens) /\ Len(vs[i]) = order + 1
          /\ \A k \in 1..(order + 1) : vs[i][k] = back[i + k - 1]
      BY <1>4, <1>5, <3>1 DEF Windows
    <3>4. /\ K!Reverse(us[j]) \in Seq(K!Tokens) /\ Len(K!Reverse(us[j])) = order + 1
          /\ \A k \in 1..(order + 1) : K!Reverse(us[j])[k] = us[j][((order + 1) - k) + 1]
      <4> HIDE DEF j
      <4>1. /\ K!Reverse(us[j]) \in Seq(K!Tokens) /\ Len(K!Reverse(us[j])) = Len(us[j])
            /\ \A k \in 1..Len(us[j]) : K!Reverse(us[j])[k] = us[j][(Len(us[j]) - k) + 1]
        BY <3>2, ReverseFacts
      <4> QED BY <3>2, <4>1
    <3>5. ASSUME NEW k \in 1..(order + 1) PROVE vs[i][k] = K!Reverse(us[j])[k]
      <4>1. i + k - 1 \in 1..S
        BY <1>3, <3>1
      <4>2. vs[i][k] = tokens[(S - (i + k - 1)) + 1]
        BY <1>2, <3>3, <4>1
      <4>3. ((order + 1) - k) + 1 \in 1..(order + 1)
        OBVIOUS
      <4>4. K!Reverse(us[j])[k] = tokens[j + (((order + 1) - k) + 1) - 1]
        <5> HIDE DEF j
        <5> QED BY <3>2, <3>4, <4>3
      <4>5. j + (((order + 1) - k) + 1) - 1 = (S - (i + k - 1)) + 1
        BY <1>3, <3>1
      <4> QED BY <4>2, <4>4, <4>5
    <3> HIDE DEF j
    <3>6. vs[i] = K!Reverse(us[j])
      BY <3>3, <3>4, <3>5, SeqEqual
    <3> QED BY <3>6 DEF j
  <2> QED BY <2>2, <2>3
<1> QED BY <1>1, <1>5, <1>6 DEF us, vs, n

(* A corpus and a line behind it.                                          *)
Behind(ws, tokens) == ws \o K!Windows(tokens)
Added(ws, tokens) == (Len(ws) + 1)..(Len(ws) + Len(K!Windows(tokens)))

LEMMA BehindFacts ==
  ASSUME order \in Nat \ {0}, NEW ws \in Corpora, NEW tokens \in Windows
  PROVE  /\ Behind(ws, tokens) \in Corpora
         /\ Len(Behind(ws, tokens)) = Len(ws) + Len(K!Windows(tokens))
         /\ 1..Len(ws) \subseteq 1..Len(Behind(ws, tokens))
         /\ Added(ws, tokens) \subseteq 1..Len(Behind(ws, tokens))
         /\ (1..Len(ws)) \cap Added(ws, tokens) = {}
         /\ \A i \in 1..Len(ws) : Behind(ws, tokens)[i] = ws[i]
         /\ \A i \in 1..Len(K!Windows(tokens)) :
               Behind(ws, tokens)[Len(ws) + i] = K!Windows(tokens)[i]
<1>1. K!Windows(tokens) \in Seq(Windows) /\ ws \in Seq(Windows)
  BY WindowsAre DEF Corpora
<1> DEFINE us == K!Windows(tokens)
<1> HIDE DEF us
<1>2. us \in Seq(Windows) /\ Len(us) \in Nat /\ Len(ws) \in Nat
  BY <1>1, LenProperties DEF us
<1>3. /\ ws \o us \in Seq(Windows) /\ Len(ws \o us) = Len(ws) + Len(us)
      /\ \A i \in 1..(Len(ws) + Len(us)) :
            (ws \o us)[i] = IF i <= Len(ws) THEN ws[i] ELSE us[i - Len(ws)]
  BY <1>1, <1>2, ConcatProperties
<1>4. \A i \in 1..Len(ws) : (ws \o us)[i] = ws[i]
  BY <1>2, <1>3
<1>5. ASSUME NEW i \in 1..Len(us) PROVE (ws \o us)[Len(ws) + i] = us[i]
  <2>1. Len(ws) + i \in 1..(Len(ws) + Len(us)) /\ ~(Len(ws) + i <= Len(ws)) /\ (Len(ws) + i) - Len(ws) = i
    BY <1>2
  <2> QED BY <1>3, <2>1
<1>6. /\ 1..Len(ws) \subseteq 1..(Len(ws) + Len(us))
      /\ (Len(ws) + 1)..(Len(ws) + Len(us)) \subseteq 1..(Len(ws) + Len(us))
      /\ (1..Len(ws)) \cap ((Len(ws) + 1)..(Len(ws) + Len(us))) = {}
  BY <1>2
<1> QED BY <1>3, <1>4, <1>5, <1>6 DEF us, Behind, Added, Corpora

LEMMA LearnedForward ==
  ASSUME order \in Nat \ {0}, NEW ws \in Corpora, NEW J \in SUBSET (1..Len(ws)), NEW tokens \in Windows
  PROVE  K!Learned(TrieOf(ws, J), tokens) = TrieOf(Behind(ws, tokens), J \cup Added(ws, tokens))
<1> DEFINE all == Behind(ws, tokens)
           us == K!Windows(tokens)
           New == Added(ws, tokens)
           n == Len(ws)
           m == Len(us)
           g == [i \in 1..m |-> n + i]
<1>1. /\ all \in Corpora /\ Len(all) = n + m /\ 1..n \subseteq 1..Len(all) /\ New \subseteq 1..Len(all)
      /\ (1..n) \cap New = {} /\ (\A i \in 1..n : all[i] = ws[i]) /\ \A i \in 1..m : all[n + i] = us[i]
  BY BehindFacts
<1>2. us \in Corpora /\ DOMAIN us = 1..m /\ m \in Nat /\ n \in Nat
  BY WindowsAre, LenProperties DEF Corpora
<1>3. New = (n + 1)..(n + m)
  BY DEF Added
<1> HIDE DEF all, us, New, n, m
<1>4. g \in Bijection(DOMAIN us, New)
  <2>1. \A i \in 1..m : n + i \in New
    BY <1>2, <1>3
  <2>2. \A i, k \in 1..m : n + i = n + k => i = k
    BY <1>2
  <2>3. \A j \in New : j - n \in 1..m /\ n + (j - n) = j
    BY <1>2, <1>3
  <2> QED BY <1>2, <2>1, <2>2, <2>3 DEF Bijection, Injection, Surjection, IsInjective
<1>5. \A i \in DOMAIN us : all[g[i]] = us[i]
  BY <1>1, <1>2
<1>6. J \in SUBSET (1..n)
  BY DEF n
<1>7. J \in SUBSET (1..Len(all)) /\ New \in SUBSET (1..Len(all)) /\ J \cap New = {}
  BY <1>1, <1>6
<1>8. TrieOf(ws, J) = TrieOf(all, J)
  <2>1. \A i \in J : ws[i] = all[i]
    BY <1>1, <1>6
  <2> HIDE DEF all, New
  <2> QED BY <2>1, TrieAlike
<1> HIDE DEF g
<1>9. K!Learned(TrieOf(all, J), tokens) = TrieOf(all, J \cup New)
  BY <1>1, <1>2, <1>4, <1>5, <1>7, LearnedIs DEF us
<1> QED BY <1>8, <1>9 DEF all, New

LEMMA LearnedBack ==
  ASSUME order \in Nat \ {0}, NEW ws \in Corpora, NEW J \in SUBSET (1..Len(ws)), NEW tokens \in Windows
  PROVE  K!Learned(TrieOf(Backwards(ws), J), K!Reverse(tokens))
           = TrieOf(Backwards(Behind(ws, tokens)), J \cup Added(ws, tokens))
<1> DEFINE ahead == Behind(ws, tokens)
           all == Backwards(ahead)
           back == K!Reverse(tokens)
           us == K!Windows(tokens)
           vs == K!Windows(back)
           New == Added(ws, tokens)
           n == Len(ws)
           m == Len(us)
           g == [i \in 1..m |-> n + ((m + 1) - i)]
<1>1. /\ ahead \in Corpora /\ Len(ahead) = n + m /\ 1..n \subseteq 1..Len(ahead) /\ New \subseteq 1..Len(ahead)
      /\ (1..n) \cap New = {} /\ (\A i \in 1..n : ahead[i] = ws[i])
      /\ \A i \in 1..m : ahead[n + i] = us[i]
  BY BehindFacts
<1>2. us \in Corpora /\ DOMAIN us = 1..m /\ m \in Nat /\ n \in Nat
  BY WindowsAre, LenProperties DEF Corpora
<1>3. New = (n + 1)..(n + m)
  BY DEF Added
<1>4. back \in Windows /\ Len(vs) = m /\ \A i \in 1..m : vs[i] = K!Reverse(us[(m + 1) - i])
  BY WindowsTurned
<1>5. vs \in Corpora /\ DOMAIN vs = 1..m
  <2>1. vs \in Corpora
    BY <1>4, WindowsAre
  <2>2. DOMAIN vs = 1..Len(vs)
    BY <2>1, LenProperties DEF Corpora
  <2> QED BY <1>4, <2>1, <2>2
<1>6. /\ all \in Corpora /\ Len(all) = Len(ahead)
      /\ \A i \in 1..Len(ahead) : all[i] = K!Reverse(ahead[i])
  BY <1>1, BackwardsFacts
<1>7. \A i \in 1..n : Backwards(ws)[i] = K!Reverse(ws[i])
  BY BackwardsFacts
<1>8. J \in SUBSET (1..n)
  OBVIOUS
<1> HIDE DEF ahead, all, back, us, vs, New, n, m
<1>9. g \in Bijection(DOMAIN vs, New)
  <2>1. \A i \in 1..m : n + ((m + 1) - i) \in New
    BY <1>2, <1>3
  <2>2. \A i, k \in 1..m : n + ((m + 1) - i) = n + ((m + 1) - k) => i = k
    BY <1>2
  <2>3. \A j \in New : (m + 1) - (j - n) \in 1..m /\ n + ((m + 1) - ((m + 1) - (j - n))) = j
    BY <1>2, <1>3
  <2>4. g \in [1..m -> New] /\ \A i \in 1..m : g[i] = n + ((m + 1) - i)
    BY <2>1
  <2> HIDE DEF g
  <2>5. \A i, k \in 1..m : g[i] = g[k] => i = k
    BY <2>2, <2>4
  <2>6. \A j \in New : \E i \in 1..m : g[i] = j
    BY <2>3, <2>4
  <2> QED BY <1>5, <2>4, <2>5, <2>6 DEF Bijection, Injection, Surjection, IsInjective
<1>10. \A i \in DOMAIN vs : all[g[i]] = vs[i]
  <2> SUFFICES ASSUME NEW i \in DOMAIN vs PROVE all[g[i]] = vs[i]
    OBVIOUS
  <2>3. i \in 1..m
    BY <1>5
  <2>4. g[i] = n + ((m + 1) - i)
    BY <2>3
  <2>5. (m + 1) - i \in 1..m
    BY <1>2, <2>3
  <2>1. i \in 1..m /\ (m + 1) - i \in 1..m /\ g[i] = n + ((m + 1) - i) /\ g[i] \in 1..Len(ahead)
    <3> HIDE DEF g
    <3> QED BY <1>1, <1>2, <2>3, <2>4, <2>5
  <2>2. ahead[g[i]] = us[(m + 1) - i]
    BY <1>1, <2>1
  <2> HIDE DEF g
  <2> QED BY <1>4, <1>6, <2>1, <2>2
<1>11. J \in SUBSET (1..Len(all)) /\ New \in SUBSET (1..Len(all)) /\ J \cap New = {}
  BY <1>1, <1>6, <1>8
<1>12. TrieOf(Backwards(ws), J) = TrieOf(all, J)
  <2>1. \A i \in J : Backwards(ws)[i] = all[i]
    BY <1>1, <1>6, <1>7, <1>8
  <2> QED BY <2>1, TrieAlike
<1> HIDE DEF g
<1>13. K!Learned(TrieOf(all, J), back) = TrieOf(all, J \cup New)
  <2>1. /\ all \in Corpora /\ J \in SUBSET (1..Len(all)) /\ New \in SUBSET (1..Len(all))
        /\ J \cap New = {}
    BY <1>6, <1>11
  <2>2. /\ K!Windows(back) \in Corpora /\ g \in Bijection(DOMAIN K!Windows(back), New)
        /\ \A i \in DOMAIN K!Windows(back) : all[g[i]] = K!Windows(back)[i]
    BY <1>5, <1>9, <1>10 DEF vs
  <2> QED BY <2>1, <2>2, LearnedIs
<1> QED BY <1>12, <1>13 DEF all, ahead, New, back

(* Rows that no window of the line begins are as they were.                 *)
LEMMA Untouched ==
  ASSUME order \in Nat \ {0}, NEW ws \in Corpora, NEW J \in SUBSET (1..Len(ws)),
         NEW tokens \in Windows, NEW p \in Windows, p[1] \notin K!Touched(tokens)
  PROVE  /\ p \in DOMAIN K!Learned(TrieOf(ws, J), tokens) <=> p \in DOMAIN TrieOf(ws, J)
         /\ p \in DOMAIN TrieOf(ws, J) =>
               K!Learned(TrieOf(ws, J), tokens)[p] = TrieOf(ws, J)[p]
<1> DEFINE us == K!Windows(tokens)
           T == TrieOf(ws, J)
           New == UNION {K!Heads(us[i]) : i \in DOMAIN us}
           At(q) == {i \in DOMAIN us : K!IsPrefix(q, us[i])}
<1>1. us \in Corpora /\ DOMAIN us = 1..Len(us) /\ \A i \in 1..Len(us) : us[i] \in Windows
  BY WindowsAre, LenProperties DEF Corpora
<1>2. \A i \in DOMAIN us : ~K!IsPrefix(p, us[i])
  <2> SUFFICES ASSUME NEW i \in DOMAIN us, K!IsPrefix(p, us[i]) PROVE FALSE
    OBVIOUS
  <2>1. p \in Seq(K!Tokens) /\ us[i] \in Seq(K!Tokens) /\ p # <<>>
    BY <1>1 DEF Windows
  <2>2. 1 \in 1..Len(p)
    <3>1. Len(p) \in Nat /\ Len(p) # 0
      BY <2>1, LenProperties, EmptySeq
    <3> QED BY <3>1
  <2>3. p[1] = us[i][1]
    BY <2>1, <2>2, PrefixIs
  <2>4. us[i][1] \in K!Touched(tokens)
    BY DEF K!Touched
  <2> QED BY <2>3, <2>4
<1>3. At(p) = {}
  BY <1>2
<1>4. p \notin New
  <2>1. \A i \in DOMAIN us : p \notin K!Heads(us[i])
    BY <1>1, <1>2, HeadsAre DEF Windows
  <2> HIDE DEF us
  <2> QED BY <2>1
<1>5. K!Learned(T, tokens) = [q \in DOMAIN T \cup New |-> K!Tally(T, q) + K!Cardinality(At(q))]
  BY Zenon DEF K!Learned
<1>6. K!Cardinality(At(p)) = 0
  BY <1>3, FS_EmptySet, MarkovCardinality, Zenon
<1>7. p \in DOMAIN T => T[p] \in Nat /\ K!Tally(T, p) = T[p]
  <2>1. p \in DOMAIN T => T[p] = Cardinality(Hits(ws, J, p))
    BY TrieFacts
  <2>2. Cardinality(Hits(ws, J, p)) \in Nat
    BY TrieFacts
  <2> HIDE DEF T
  <2> QED BY <2>1, <2>2 DEF K!Tally
<1> HIDE DEF New, At, T
<1>8. DOMAIN K!Learned(T, tokens) = DOMAIN T \cup New
  BY <1>5
<1>9. p \in DOMAIN T => K!Learned(T, tokens)[p] = K!Tally(T, p) + K!Cardinality(At(p))
  BY <1>5
<1>10. p \in DOMAIN T => K!Learned(T, tokens)[p] = T[p]
  BY <1>6, <1>7, <1>9
<1> QED BY <1>4, <1>8, <1>10 DEF T

(* The dictionary from before the rows is the trie of some corpus.         *)
BlobUpto(f, n) ==
    f = [i \in 0..n |-> IF i = 0 THEN K!NoTrie ELSE K!Learned(f[i - 1], Legacy[i])]

LEMMA BlobDefined ==
  ASSUME NEW m \in Nat
  PROVE  \E f : BlobUpto(f, m)
<1> DEFINE T == {n \in Nat : \E f : BlobUpto(f, n)}
<1>1. 0 \in T
  <2>1. BlobUpto([i \in 0..0 |-> K!NoTrie], 0)
    BY DEF BlobUpto
  <2> QED BY <2>1
<1>2. ASSUME NEW n \in T PROVE n + 1 \in T
  <2>1. n \in Nat
    OBVIOUS
  <2>2. PICK f : BlobUpto(f, n)
    OBVIOUS
  <2> DEFINE g == [i \in 0..(n + 1) |-> IF i <= n THEN f[i] ELSE K!Learned(f[i - 1], Legacy[i])]
             h == [i \in 0..(n + 1) |-> IF i = 0 THEN K!NoTrie ELSE K!Learned(g[i - 1], Legacy[i])]
  <2>3. ASSUME NEW i \in 0..(n + 1) PROVE g[i] = h[i]
    <3>1. CASE i = n + 1
      BY <3>1, <2>1
    <3>2. CASE i <= n
      <4>1. i \in 0..n /\ g[i] = f[i]
        BY <3>2, <2>1
      <4>2. i # 0 => i - 1 \in 0..n /\ g[i - 1] = f[i - 1]
        BY <3>2, <2>1
      <4> QED BY <4>1, <4>2, <2>2 DEF BlobUpto
    <3> QED BY <3>1, <3>2, <2>1
  <2>4. g = h
    BY <2>3
  <2>5. BlobUpto(g, n + 1)
    BY <2>4 DEF BlobUpto
  <2> QED BY <2>1, <2>5
<1>3. T = Nat
  <2>1. T \in SUBSET Nat
    OBVIOUS
  <2> HIDE DEF T
  <2> QED BY <1>1, <1>2, <2>1, SetInduction
<1> QED BY <1>3

LEMMA BlobIs ==
  ASSUME K!MarkovConstants
  PROVE  \E ws \in Corpora : K!Blob = TrieOf(ws, 1..Len(ws))
<1> DEFINE f == CHOOSE g : BlobUpto(g, Len(Legacy))
           T == {n \in Nat : n <= Len(Legacy) => \E ws \in Corpora : f[n] = TrieOf(ws, 1..Len(ws))}
<1>1. order \in Nat \ {0} /\ Len(Legacy) \in Nat /\ \A i \in 1..Len(Legacy) : Legacy[i] \in Windows
  <2>1. Legacy \in Seq(Windows)
    BY DEF K!MarkovConstants, Windows
  <2> QED BY <2>1, LenProperties DEF K!MarkovConstants
<1>2. BlobUpto(f, Len(Legacy))
  <2>1. \E g : BlobUpto(g, Len(Legacy))
    BY <1>1, BlobDefined
  <2> QED BY <2>1
<1>3. K!Blob = f[Len(Legacy)]
  BY Zenon DEF K!Blob, BlobUpto
<1> HIDE DEF f
<1>4. \A i \in 0..Len(Legacy) : f[i] = IF i = 0 THEN K!NoTrie ELSE K!Learned(f[i - 1], Legacy[i])
  BY <1>2 DEF BlobUpto
<1>5. 0 \in T
  <2>1. <<>> \in Corpora /\ 1..Len(<<>>) = {}
    BY DEF Corpora
  <2>2. f[0] = TrieOf(<<>>, 1..Len(<<>>))
    BY <1>1, <1>4, <2>1, TrieEmpty
  <2> QED BY <2>1, <2>2
<1>6. ASSUME NEW n \in T PROVE n + 1 \in T
  <2> SUFFICES ASSUME n + 1 <= Len(Legacy)
               PROVE  \E ws \in Corpora : f[n + 1] = TrieOf(ws, 1..Len(ws))
    OBVIOUS
  <2>1. n \in Nat /\ n <= Len(Legacy) /\ n + 1 \in 1..Len(Legacy) /\ (n + 1) - 1 = n /\ n + 1 \in 0..Len(Legacy)
    BY <1>1
  <2>2. PICK ws \in Corpora : f[n] = TrieOf(ws, 1..Len(ws))
    BY <2>1
  <2> DEFINE tokens == Legacy[n + 1]
             us == K!Windows(tokens)
  <2>3. tokens \in Windows
    BY <1>1, <2>1
  <2>4. f[n + 1] = K!Learned(f[n], tokens)
    BY <1>4, <2>1
  <2> HIDE DEF tokens
  <2>5. K!Learned(TrieOf(ws, 1..Len(ws)), tokens)
          = TrieOf(Behind(ws, tokens), (1..Len(ws)) \cup Added(ws, tokens))
    BY <1>1, <2>3, LearnedForward
  <2>6. (1..Len(ws)) \cup Added(ws, tokens) = 1..Len(Behind(ws, tokens)) /\ Behind(ws, tokens) \in Corpora
    <3>1. Len(Behind(ws, tokens)) = Len(ws) + Len(us) /\ Behind(ws, tokens) \in Corpora
      BY <1>1, <2>3, BehindFacts
    <3>2. Len(ws) \in Nat /\ Len(us) \in Nat
      BY <1>1, <2>3, WindowsAre, LenProperties DEF Corpora
    <3>3. Added(ws, tokens) = (Len(ws) + 1)..(Len(ws) + Len(us))
      BY DEF Added
    <3> HIDE DEF us
    <3> QED BY <3>1, <3>2, <3>3
  <2> QED BY <2>2, <2>4, <2>5, <2>6
<1>7. T = Nat
  <2>1. T \in SUBSET Nat
    OBVIOUS
  <2> HIDE DEF T
  <2> QED BY <1>5, <1>6, <2>1, SetInduction
<1>8. Len(Legacy) \in T
  BY <1>1, <1>7
<1> QED BY <1>1, <1>3, <1>8

(* What learning has made of a corpus: the main dictionary from M, the     *)
(* talkers' from a part of it each, the reverse one from M backwards.      *)
Of(ws, M, J) ==
    [n \in K!Names |-> CASE n = "main" -> TrieOf(ws, M)
                         [] n = "reverse" -> TrieOf(Backwards(ws), M)
                         [] OTHER -> TrieOf(ws, J[n])]

LEMMA OfNames ==
  ASSUME K!MarkovConstants, NEW ws, NEW M, NEW J
  PROVE  /\ Of(ws, M, J)["main"] = TrieOf(ws, M)
         /\ Of(ws, M, J)["reverse"] = TrieOf(Backwards(ws), M)
         /\ \A n \in Talkers : /\ Of(ws, M, J)[n] = TrieOf(ws, J[n])
                               /\ n # "main" /\ n # "reverse" /\ n \in K!Names
         /\ "main" \in K!Names /\ "reverse" \in K!Names
         /\ \A n \in K!Names : n \notin {"main", "reverse"} => n \in Talkers
BY DEF Of, K!Names, K!MarkovConstants

(* Every dictionary is the trie of some corpus.                            *)
IsTrie(t) == \E ws \in Corpora : \E J \in SUBSET (1..Len(ws)) : t = TrieOf(ws, J)

LEMMA OfTries ==
  ASSUME K!MarkovConstants, NEW ws \in Corpora, NEW M \in SUBSET (1..Len(ws)),
         NEW J \in [Talkers -> SUBSET M], NEW n \in K!Names
  PROVE  IsTrie(Of(ws, M, J)[n])
<1>1. CASE n = "main"
  <2>1. Of(ws, M, J)[n] = TrieOf(ws, M)
    BY <1>1, OfNames
  <2> QED BY <2>1 DEF IsTrie
<1>2. CASE n = "reverse"
  <2>1. Of(ws, M, J)[n] = TrieOf(Backwards(ws), M)
    BY <1>2, OfNames
  <2>2. Backwards(ws) \in Corpora /\ Len(Backwards(ws)) = Len(ws)
    BY BackwardsFacts
  <2> QED BY <2>1, <2>2 DEF IsTrie
<1>3. CASE n \notin {"main", "reverse"}
  <2>1. n \in Talkers /\ Of(ws, M, J)[n] = TrieOf(ws, J[n])
    BY <1>3, OfNames
  <2>2. J[n] \in SUBSET (1..Len(ws))
    BY <2>1
  <2> QED BY <2>1, <2>2 DEF IsTrie
<1> QED BY <1>1, <1>2, <1>3

LEMMA TriePaths ==
  ASSUME NEW t, IsTrie(t)
  PROVE  /\ \A p \in DOMAIN t : p \in Windows
         /\ t = [p \in DOMAIN t |-> t[p]]
<1>0. PICK ws \in Corpora : \E J \in SUBSET (1..Len(ws)) : t = TrieOf(ws, J)
  BY DEF IsTrie
<1>1. PICK J \in SUBSET (1..Len(ws)) : t = TrieOf(ws, J)
  BY <1>0
<1>2. t = [p \in DOMAIN t |-> t[p]]
  BY <1>1 DEF TrieOf
<1>3. \A p \in DOMAIN t : p \in Windows
  BY <1>1, PathIs
<1> QED BY <1>2, <1>3

(* The store holds what was learned, less what is marked (a row that is not *)
(* marked is the same in memory); while the module is not loaded it may be *)
(* in the middle of the migration, with no reverse dictionary yet.          *)
Agree ==
    \A n \in K!Names : \A p \in Windows :
        <<n, p[1]>> \notin unwritten =>
            /\ p \in DOMAIN rows[n] <=> p \in DOMAIN dicts[n]
            /\ p \in DOMAIN dicts[n] => rows[n][p] = dicts[n][p]

Remembered(ws, M, J, N, H, B) ==
    /\ ws \in Corpora /\ M \in SUBSET (1..Len(ws)) /\ J \in [Talkers -> SUBSET M]
    /\ N \in SUBSET M /\ H \in [Talkers -> SUBSET N] /\ B \in SUBSET N
    /\ dicts = Of(ws, M, J) /\ rows = Of(ws, N, H) /\ backup = TrieOf(ws, B)

OnDisk(ws, N, H, B) ==
    /\ ws \in Corpora /\ N \in SUBSET (1..Len(ws))
    /\ H \in [Talkers -> SUBSET N] /\ B \in SUBSET N
    /\ rows = Of(ws, N, H) /\ backup = TrieOf(ws, B)

Migrating(ws, N, B) ==
    /\ ws \in Corpora /\ N \in SUBSET (1..Len(ws)) /\ B \in SUBSET N
    /\ rows = [n \in K!Names |-> IF n = "main" THEN TrieOf(ws, N) ELSE K!NoTrie]
    /\ backup = TrieOf(ws, B)
    /\ blob # K!NoTrie => blob = TrieOf(ws, 1..Len(ws)) /\ N \in {{}, 1..Len(ws)}

Learned == loaded /\ blob = K!NoTrie /\ Agree /\ \E ws, M, J, N, H, B : Remembered(ws, M, J, N, H, B)

Unloaded ==
    /\ ~loaded /\ dicts = K!NoRows /\ unwritten = {} /\ walk = K!Rest
    /\ \/ blob = K!NoTrie /\ \E ws, N, H, B : OnDisk(ws, N, H, B)
       \/ \E ws, N, B : Migrating(ws, N, B)

KeptWell == loaded \in BOOLEAN /\ (Learned \/ Unloaded)

(* Nothing of it depends on the sentence, the clock or the idle talker.    *)
LEMMA KeptSame ==
  ASSUME KeptWell, UNCHANGED <<K!memory, K!store>>, loaded \/ walk' = K!Rest
  PROVE  KeptWell'
<1> USE DEF K!memory, K!store
<1>1. CASE Learned
  <2>1. PICK ws, M, J, N, H, B : Remembered(ws, M, J, N, H, B)
    BY <1>1 DEF Learned
  <2>2. Remembered(ws, M, J, N, H, B)'
    BY <2>1 DEF Remembered
  <2>3. Agree'
    BY <1>1 DEF Learned, Agree
  <2> QED BY <1>1, <2>2, <2>3 DEF Learned, KeptWell
<1>2. CASE Unloaded
  <2>1. ASSUME NEW ws, NEW N, NEW H, NEW B, OnDisk(ws, N, H, B) PROVE OnDisk(ws, N, H, B)'
    BY <2>1 DEF OnDisk
  <2>2. ASSUME NEW ws, NEW N, NEW B, Migrating(ws, N, B) PROVE Migrating(ws, N, B)'
    BY <2>2 DEF Migrating
  <2> QED BY <1>2, <2>1, <2>2 DEF Unloaded, KeptWell
<1> QED BY <1>1, <1>2 DEF KeptWell

LEMMA KeptInit == ASSUME K!MarkovConstants, K!Init PROVE KeptWell
<1>1. PICK ws \in Corpora : K!Blob = TrieOf(ws, 1..Len(ws))
  BY BlobIs
<1>2. TrieOf(ws, {}) = K!NoTrie
  BY TrieEmpty
<1>3. Migrating(ws, {}, {})
  <2>1. rows = [n \in K!Names |-> IF n = "main" THEN TrieOf(ws, {}) ELSE K!NoTrie]
    BY <1>2 DEF K!Init, K!NoRows
  <2>2. backup = TrieOf(ws, {}) /\ (blob # K!NoTrie => blob = TrieOf(ws, 1..Len(ws)))
    BY <1>1, <1>2 DEF K!Init
  <2> QED BY <2>1, <2>2 DEF Migrating
<1>4. ~loaded /\ dicts = K!NoRows /\ unwritten = {} /\ walk = K!Rest /\ loaded \in BOOLEAN
  BY DEF K!Init
<1> QED BY <1>3, <1>4 DEF KeptWell, Unloaded

(* What a flush writes is what is in memory.                               *)
LEMMA FlushedIs ==
  ASSUME K!MarkovConstants, Learned
  PROVE  K!Flushed = dicts
<1>1. PICK ws, M, J, N, H, B : Remembered(ws, M, J, N, H, B)
  BY DEF Learned
<1>2. /\ ws \in Corpora /\ M \in SUBSET (1..Len(ws)) /\ J \in [Talkers -> SUBSET M]
      /\ N \in SUBSET (1..Len(ws)) /\ H \in [Talkers -> SUBSET N]
      /\ dicts = Of(ws, M, J) /\ rows = Of(ws, N, H)
  BY <1>1 DEF Remembered
<1>3. ASSUME NEW n \in K!Names PROVE K!Flushed[n] = dicts[n]
  <2> DEFINE kept == {p \in DOMAIN rows[n] : ~(<<n, p[1]>> \in unwritten)}
             new == {p \in DOMAIN dicts[n] : <<n, p[1]>> \in unwritten}
             f == [p \in kept \cup new |-> IF p \in new THEN dicts[n][p] ELSE rows[n][p]]
             t == dicts[n]
  <2>1. IsTrie(dicts[n]) /\ IsTrie(rows[n])
    BY <1>2, OfTries
  <2>2. /\ \A p \in DOMAIN rows[n] : p \in Windows
        /\ \A p \in DOMAIN t : p \in Windows
        /\ t = [p \in DOMAIN t |-> t[p]]
    BY <2>1, TriePaths
  <2>3. \A p \in Windows : <<n, p[1]>> \notin unwritten =>
            /\ p \in DOMAIN rows[n] <=> p \in DOMAIN dicts[n]
            /\ p \in DOMAIN dicts[n] => rows[n][p] = dicts[n][p]
    BY DEF Learned, Agree
  <2>4. kept \cup new = DOMAIN t
    BY <2>2, <2>3
  <2>5. \A p \in DOMAIN t : f[p] = t[p]
    BY <2>2, <2>3, <2>4
  <2>6. DOMAIN f = DOMAIN t
    BY <2>4
  <2>7. f = [p \in DOMAIN f |-> f[p]]
    OBVIOUS
  <2>8. K!Flushed[n] = f
    BY DEF K!Flushed
  <2> HIDE DEF f, t, kept, new
  <2>9. f = t
    BY <2>2, <2>5, <2>6, <2>7
  <2> QED BY <2>8, <2>9 DEF t
<1>4. K!Flushed = [n \in K!Names |-> K!Flushed[n]]
  BY DEF K!Flushed
<1>5. dicts = [n \in K!Names |-> dicts[n]]
  BY <1>2 DEF Of
<1> HIDE DEF K!Flushed
<1> QED BY <1>3, <1>4, <1>5

(* A line: addLine, addReversed, the talker's addLine.                     *)
LEMMA KeptLearn ==
  ASSUME K!MarkovConstants, KeptWell, NEW talker \in Talkers, NEW tokens \in Lines,
         loaded, loaded' = loaded, UNCHANGED K!store, K!Learn(talker, tokens)
  PROVE  KeptWell'
<1>0. Learned /\ order \in Nat \ {0} /\ tokens \in Windows
  <2>1. Learned
    BY DEF KeptWell, Unloaded
  <2>2. tokens \in Seq(K!Tokens) /\ Len(tokens) > 2 /\ order \in Nat \ {0}
    BY DEF K!MarkovConstants
  <2>3. tokens # <<>>
    BY <2>2, EmptySeq
  <2> QED BY <2>1, <2>2, <2>3 DEF Windows
<1>1. PICK ws, M, J, N, H, B : Remembered(ws, M, J, N, H, B)
  BY <1>0 DEF Learned
<1>2. /\ ws \in Corpora /\ M \in SUBSET (1..Len(ws)) /\ J \in [Talkers -> SUBSET M]
      /\ N \in SUBSET M /\ H \in [Talkers -> SUBSET N] /\ B \in SUBSET N
      /\ dicts = Of(ws, M, J) /\ rows = Of(ws, N, H) /\ backup = TrieOf(ws, B)
  BY <1>1 DEF Remembered
<1> DEFINE all == Behind(ws, tokens)
           New == Added(ws, tokens)
           K1 == [n \in Talkers |-> IF n = talker THEN J[n] \cup New ELSE J[n]]
           heardAs(n) == IF n = "reverse" THEN K!Reverse(tokens) ELSE tokens
           hears == {"main", "reverse", talker}
<1>3. /\ all \in Corpora /\ 1..Len(ws) \subseteq 1..Len(all) /\ New \subseteq 1..Len(all)
      /\ \A i \in 1..Len(ws) : all[i] = ws[i]
  BY <1>0, <1>2, BehindFacts
<1>4. M \cup New \in SUBSET (1..Len(all)) /\ N \in SUBSET (M \cup New) /\ K1 \in [Talkers -> SUBSET (M \cup New)]
  BY <1>2, <1>3
<1>5. \A I \in SUBSET (1..Len(ws)) : /\ TrieOf(ws, I) = TrieOf(all, I)
                                     /\ TrieOf(Backwards(ws), I) = TrieOf(Backwards(all), I)
  <2> SUFFICES ASSUME NEW I \in SUBSET (1..Len(ws))
               PROVE  /\ TrieOf(ws, I) = TrieOf(all, I)
                      /\ TrieOf(Backwards(ws), I) = TrieOf(Backwards(all), I)
    OBVIOUS
  <2>1. \A i \in I : ws[i] = all[i]
    BY <1>3
  <2>2. \A i \in I : Backwards(ws)[i] = Backwards(all)[i]
    <3>1. \A i \in 1..Len(ws) : Backwards(ws)[i] = K!Reverse(ws[i])
      BY <1>2, BackwardsFacts
    <3>2. \A i \in 1..Len(all) : Backwards(all)[i] = K!Reverse(all[i])
      BY <1>3, BackwardsFacts
    <3> QED BY <1>3, <3>1, <3>2
  <2> QED BY <2>1, <2>2, TrieAlike
<1>6. /\ K!Learned(TrieOf(ws, M), tokens) = TrieOf(all, M \cup New)
      /\ K!Learned(TrieOf(ws, J[talker]), tokens) = TrieOf(all, J[talker] \cup New)
      /\ K!Learned(TrieOf(Backwards(ws), M), K!Reverse(tokens)) = TrieOf(Backwards(all), M \cup New)
  <2>1. J[talker] \in SUBSET (1..Len(ws))
    BY <1>2
  <2> QED BY <1>0, <1>2, <2>1, LearnedForward, LearnedBack
<1>7. /\ dicts' = [n \in K!Names |-> IF n \in hears THEN K!Learned(dicts[n], heardAs(n)) ELSE dicts[n]]
      /\ unwritten' = unwritten \cup UNION {{n} \X K!Touched(heardAs(n)) : n \in hears}
  BY DEF K!Learn
<1>8. /\ dicts["main"] = TrieOf(ws, M) /\ dicts["reverse"] = TrieOf(Backwards(ws), M)
      /\ \A n \in Talkers : /\ dicts[n] = TrieOf(ws, J[n])
                            /\ n # "main" /\ n # "reverse" /\ n \in K!Names
      /\ "main" \in K!Names /\ "reverse" \in K!Names
      /\ \A n \in K!Names : n \notin {"main", "reverse"} => n \in Talkers
  <2>1. dicts = Of(ws, M, J)
    BY <1>2
  <2> QED BY <2>1, OfNames
<1>9. /\ Of(all, M \cup New, K1)["main"] = TrieOf(all, M \cup New)
      /\ Of(all, M \cup New, K1)["reverse"] = TrieOf(Backwards(all), M \cup New)
      /\ \A n \in Talkers : Of(all, M \cup New, K1)[n] = TrieOf(all, K1[n])
  <2> HIDE DEF all, New, K1
  <2> QED BY OfNames
<1>10. \A n \in Talkers : K1[n] = IF n = talker THEN J[n] \cup New ELSE J[n]
  OBVIOUS
<1> HIDE DEF all, New, K1
<1>11. dicts' = Of(all, M \cup New, K1)
  <2>1. \A n \in K!Names : dicts'[n] = Of(all, M \cup New, K1)[n]
    <3> SUFFICES ASSUME NEW n \in K!Names PROVE dicts'[n] = Of(all, M \cup New, K1)[n]
      OBVIOUS
    <3>1. CASE n = "main"
      BY <1>6, <1>7, <1>8, <1>9, <3>1
    <3>2. CASE n = "reverse"
      BY <1>6, <1>7, <1>8, <1>9, <3>2
    <3>3. CASE n = talker
      BY <1>6, <1>7, <1>8, <1>9, <1>10, <3>3
    <3>4. CASE n \notin hears
      <4>1. n \in Talkers /\ J[n] \in SUBSET (1..Len(ws)) /\ K1[n] = J[n]
        BY <1>2, <1>8, <1>10, <3>4
      <4>2. dicts'[n] = TrieOf(ws, J[n])
        BY <1>7, <1>8, <3>4, <4>1
      <4> QED BY <1>5, <1>9, <4>1, <4>2
    <3> QED BY <3>1, <3>2, <3>3, <3>4
  <2>2. dicts' = [n \in K!Names |-> dicts'[n]]
    BY <1>7
  <2>3. Of(all, M \cup New, K1) = [n \in K!Names |-> Of(all, M \cup New, K1)[n]]
    BY DEF Of
  <2> QED BY <2>1, <2>2, <2>3
<1>12. rows = Of(all, N, H) /\ backup = TrieOf(all, B)
  <2>1. N \in SUBSET (1..Len(ws)) /\ B \in SUBSET (1..Len(ws)) /\ \A n \in Talkers : H[n] \in SUBSET (1..Len(ws))
    BY <1>2
  <2>2. \A n \in K!Names : Of(ws, N, H)[n] = Of(all, N, H)[n]
    <3> SUFFICES ASSUME NEW n \in K!Names PROVE Of(ws, N, H)[n] = Of(all, N, H)[n]
      OBVIOUS
    <3>1. CASE n = "main"
      BY <1>5, <2>1, <3>1, OfNames
    <3>2. CASE n = "reverse"
      BY <1>5, <2>1, <3>2, OfNames
    <3>3. CASE n \notin {"main", "reverse"}
      <4>1. n \in Talkers
        BY <1>8, <3>3
      <4> QED BY <1>5, <2>1, <4>1, OfNames
    <3> QED BY <3>1, <3>2, <3>3
  <2>3. Of(ws, N, H) = [n \in K!Names |-> Of(ws, N, H)[n]] /\ Of(all, N, H) = [n \in K!Names |-> Of(all, N, H)[n]]
    BY DEF Of
  <2> QED BY <1>2, <1>5, <2>1, <2>2, <2>3
<1>13. Remembered(all, M \cup New, K1, N, H, B)'
  BY <1>2, <1>3, <1>4, <1>11, <1>12 DEF Remembered, K!store
<1>14. Agree'
  <2> SUFFICES ASSUME NEW n \in K!Names, NEW p \in Windows, <<n, p[1]>> \notin unwritten'
               PROVE  /\ p \in DOMAIN rows[n] <=> p \in DOMAIN dicts'[n]
                      /\ p \in DOMAIN dicts'[n] => rows[n][p] = dicts'[n][p]
    BY DEF Agree, K!store
  <2>1. <<n, p[1]>> \notin unwritten
    BY <1>7
  <2>2. /\ p \in DOMAIN rows[n] <=> p \in DOMAIN dicts[n]
        /\ p \in DOMAIN dicts[n] => rows[n][p] = dicts[n][p]
    BY <1>0, <2>1 DEF Learned, Agree
  <2>3. CASE n \notin hears
    <3>1. dicts'[n] = dicts[n]
      BY <1>7, <2>3
    <3> QED BY <2>2, <3>1
  <2>4. CASE n \in hears
    <3>1. p[1] \notin K!Touched(heardAs(n))
      BY <1>7, <2>4
    <3>2. heardAs(n) \in Windows
      BY <1>0, WindowReversed
    <3>6. IsTrie(Of(ws, M, J)[n])
      BY <1>2, OfTries
    <3>0. PICK vs \in Corpora : \E I \in SUBSET (1..Len(vs)) : dicts[n] = TrieOf(vs, I)
      BY <1>2, <3>6 DEF IsTrie
    <3>3. PICK I \in SUBSET (1..Len(vs)) : dicts[n] = TrieOf(vs, I)
      BY <3>0
    <3>4. dicts'[n] = K!Learned(TrieOf(vs, I), heardAs(n))
      BY <1>7, <2>4, <3>3
    <3> HIDE DEF heardAs
    <3>5. /\ p \in DOMAIN K!Learned(TrieOf(vs, I), heardAs(n)) <=> p \in DOMAIN TrieOf(vs, I)
          /\ p \in DOMAIN TrieOf(vs, I) =>
               K!Learned(TrieOf(vs, I), heardAs(n))[p] = TrieOf(vs, I)[p]
      BY <1>0, <3>1, <3>2, Untouched
    <3> QED BY <2>2, <3>3, <3>4, <3>5
  <2> QED BY <2>3, <2>4
<1>15. blob' = K!NoTrie /\ loaded'
  BY <1>0 DEF Learned, K!store
<1> QED BY <1>13, <1>14, <1>15 DEF KeptWell, Learned

LEMMA KeptFlush ==
  ASSUME K!MarkovConstants, KeptWell, K!Flush
  PROVE  KeptWell'
<1>0. Learned
  BY DEF KeptWell, Unloaded, K!Flush
<1>1. rows' = dicts /\ dicts' = dicts /\ loaded' = loaded /\ blob' = blob /\ backup' = backup
  BY <1>0, FlushedIs DEF K!Flush
<1>2. PICK ws, M, J, N, H, B : Remembered(ws, M, J, N, H, B)
  BY <1>0 DEF Learned
<1>3. Remembered(ws, M, J, M, J, B)'
  BY <1>1, <1>2 DEF Remembered
<1>4. Agree'
  BY <1>1 DEF Agree
<1> QED BY <1>0, <1>1, <1>3, <1>4 DEF Learned, KeptWell

LEMMA KeptRestart ==
  ASSUME K!MarkovConstants, KeptWell, NEW flushed \in BOOLEAN, K!Restart(flushed)
  PROVE  KeptWell'
<1>0. Learned
  BY DEF KeptWell, Unloaded, K!Restart
<1>1. K!Flushed = dicts
  BY <1>0, FlushedIs
<1>2. /\ rows' = (IF flushed THEN dicts ELSE rows)
      /\ loaded' = FALSE /\ dicts' = K!NoRows /\ unwritten' = {} /\ walk' = K!Rest
      /\ blob' = blob /\ backup' = backup
  BY <1>1 DEF K!Restart
<1>3. PICK ws, M, J, N, H, B : Remembered(ws, M, J, N, H, B)
  BY <1>0 DEF Learned
<1>4. \E Q, I : OnDisk(ws, Q, I, B)'
  <2>1. CASE flushed
    <3>1. OnDisk(ws, M, J, B)'
      BY <1>2, <1>3, <2>1 DEF Remembered, OnDisk
    <3> QED BY <3>1
  <2>2. CASE ~flushed
    <3>1. OnDisk(ws, N, H, B)'
      BY <1>2, <1>3, <2>2 DEF Remembered, OnDisk
    <3> QED BY <3>1
  <2> QED BY <2>1, <2>2
<1>5. blob' = K!NoTrie
  BY <1>0, <1>2 DEF Learned
<1> QED BY <1>2, <1>4, <1>5 DEF KeptWell, Unloaded

(* The migration: what the main rows become, and whether they are derived  *)
(* from.                                                                   *)
LEMMA MigratedIs ==
  ASSUME NEW ws \in Corpora, NEW N \in SUBSET (1..Len(ws)), rows["main"] = TrieOf(ws, N),
         blob # K!NoTrie => blob = TrieOf(ws, 1..Len(ws)) /\ N \in {{}, 1..Len(ws)}
  PROVE  K!Migrated = TrieOf(ws, IF blob = K!NoTrie THEN N ELSE 1..Len(ws))
<1>1. CASE blob = K!NoTrie
  <2> DEFINE t == TrieOf(ws, N)
             words == {p[1] : p \in DOMAIN blob}
  <2>1. DOMAIN blob = {}
    BY <1>1, EmptySeq DEF K!NoTrie
  <2>2. words = {}
    BY <2>1
  <2>3. K!Migrated = [p \in DOMAIN blob \cup {p \in DOMAIN t : p[1] \notin words} |->
                          IF p[1] \in words THEN blob[p] ELSE t[p]]
    BY DEF K!Migrated
  <2>4. t = [p \in DOMAIN t |-> t[p]]
    BY DEF TrieOf
  <2> HIDE DEF t, words
  <2>5. DOMAIN blob \cup {p \in DOMAIN t : p[1] \notin words} = DOMAIN t
    BY <2>1, <2>2
  <2>6. K!Migrated = [p \in DOMAIN t |-> IF p[1] \in words THEN blob[p] ELSE t[p]]
    BY <2>3, <2>5
  <2>7. K!Migrated = t
    BY <2>2, <2>4, <2>6
  <2> QED BY <1>1, <2>7 DEF t
<1>2. CASE blob # K!NoTrie
  <2> DEFINE t == TrieOf(ws, N)
             words == {p[1] : p \in DOMAIN blob}
  <2>1. blob = TrieOf(ws, 1..Len(ws)) /\ (N = {} \/ N = 1..Len(ws))
    BY <1>2
  <2>2. {p \in DOMAIN t : p[1] \notin words} = {}
    <3>1. CASE N = {}
      <4>1. t = K!NoTrie
        BY <3>1, TrieEmpty
      <4>2. DOMAIN t = {}
        BY <4>1, EmptySeq DEF K!NoTrie
      <4> HIDE DEF t, words
      <4> QED BY <4>2
    <3>2. CASE N = 1..Len(ws)
      <4>1. t = blob
        BY <2>1, <3>2
      <4> HIDE DEF t
      <4> QED BY <4>1
    <3> QED BY <2>1, <3>1, <3>2
  <2>3. K!Migrated = [p \in DOMAIN blob \cup {p \in DOMAIN t : p[1] \notin words} |->
                          IF p[1] \in words THEN blob[p] ELSE t[p]]
    BY DEF K!Migrated
  <2>4. blob = [p \in DOMAIN blob |-> blob[p]]
    BY <2>1 DEF TrieOf
  <2>5. \A p \in DOMAIN blob : p[1] \in words
    OBVIOUS
  <2> HIDE DEF t, words
  <2>6. DOMAIN blob \cup {p \in DOMAIN t : p[1] \notin words} = DOMAIN blob
    BY <2>2
  <2>7. K!Migrated = [p \in DOMAIN blob |-> IF p[1] \in words THEN blob[p] ELSE t[p]]
    BY <2>3, <2>6
  <2>8. K!Migrated = blob
    BY <2>4, <2>5, <2>7
  <2> QED BY <1>2, <2>1, <2>8
<1> QED BY <1>1, <1>2

LEMMA KeptLoad ==
  ASSUME K!MarkovConstants, KeptWell, K!Load
  PROVE  KeptWell'
<1>0. Unloaded
  BY DEF KeptWell, Learned, K!Load
<1>1. /\ loaded' = TRUE /\ blob' = K!NoTrie /\ dicts' = rows' /\ unwritten' = {}
      /\ backup' = (IF blob # K!NoTrie THEN blob ELSE backup)
      /\ rows' = [rows EXCEPT !["main"] = K!Migrated,
                              !["reverse"] = IF K!Underived THEN K!Derived(K!Migrated) ELSE @]
  BY <1>0 DEF K!Load, K!Migrate, Unloaded
<1>2. Agree'
  BY <1>1 DEF Agree
<1>3. \E ws, N, H, B : Remembered(ws, N, H, N, H, B)'
  <2>1. ASSUME blob = K!NoTrie, NEW ws, NEW N, NEW H, NEW B, OnDisk(ws, N, H, B)
        PROVE  Remembered(ws, N, H, N, H, B)'
    <3>1. /\ ws \in Corpora /\ N \in SUBSET (1..Len(ws)) /\ H \in [Talkers -> SUBSET N]
          /\ B \in SUBSET N /\ rows = Of(ws, N, H) /\ backup = TrieOf(ws, B)
      BY <2>1 DEF OnDisk
    <3>2. /\ rows["main"] = TrieOf(ws, N) /\ rows["reverse"] = TrieOf(Backwards(ws), N)
          /\ rows = [n \in K!Names |-> rows[n]]
      <4>1. Of(ws, N, H) = [n \in K!Names |-> Of(ws, N, H)[n]]
        BY DEF Of
      <4> QED BY <3>1, <4>1, OfNames
    <3>3. K!Migrated = TrieOf(ws, N)
      BY <2>1, <3>1, <3>2, MigratedIs
    <3>4. ~K!Underived
      <4>1. SUFFICES ASSUME TrieOf(Backwards(ws), N) = K!NoTrie, TrieOf(ws, N) # K!NoTrie PROVE FALSE
        BY <3>2, <3>3 DEF K!Underived
      <4>2. Backwards(ws) \in Corpora /\ N \in SUBSET (1..Len(Backwards(ws)))
        BY <3>1, BackwardsFacts
      <4>3. N = {}
        BY <4>1, <4>2, TrieFull
      <4> QED BY <4>1, <4>3, TrieEmpty
    <3>5. rows' = rows
      BY <1>1, <3>2, <3>3, <3>4
    <3>6. backup' = backup
      BY <1>1, <2>1
    <3> QED BY <1>1, <3>1, <3>5, <3>6 DEF Remembered
  <2>2. ASSUME NEW ws, NEW N, NEW B, Migrating(ws, N, B)
        PROVE  \E Q, H, I : Remembered(ws, Q, H, Q, H, I)'
    <3>a. PICK Q : Q = IF blob = K!NoTrie THEN N ELSE 1..Len(ws)
      OBVIOUS
    <3>b. PICK I : I = IF blob = K!NoTrie THEN B ELSE 1..Len(ws)
      OBVIOUS
    <3> DEFINE H == [n \in Talkers |-> {}]
    <3>1. /\ ws \in Corpora /\ N \in SUBSET (1..Len(ws)) /\ B \in SUBSET N
          /\ rows = [n \in K!Names |-> IF n = "main" THEN TrieOf(ws, N) ELSE K!NoTrie]
          /\ backup = TrieOf(ws, B)
          /\ blob # K!NoTrie => blob = TrieOf(ws, 1..Len(ws)) /\ N \in {{}, 1..Len(ws)}
      BY <2>2 DEF Migrating
    <3>2. "main" \in K!Names /\ "reverse" \in K!Names
      BY DEF K!Names
    <3>3. rows["main"] = TrieOf(ws, N) /\ rows["reverse"] = K!NoTrie
      BY <3>1, <3>2
    <3>4. K!Migrated = TrieOf(ws, Q)
      BY <3>1, <3>3, <3>a, MigratedIs
    <3>5. Q \in SUBSET (1..Len(ws)) /\ I \in SUBSET Q /\ H \in [Talkers -> SUBSET Q]
      BY <3>1, <3>a, <3>b
    <3>6. backup' = TrieOf(ws, I)
      BY <1>1, <3>1, <3>b
    <3>7. (IF K!Underived THEN K!Derived(K!Migrated) ELSE K!NoTrie) = TrieOf(Backwards(ws), Q)
      <4>1. CASE K!Migrated = K!NoTrie
        <5>1. Q = {}
          BY <3>1, <3>4, <3>5, <4>1, TrieFull
        <5>2. ~K!Underived
          BY <4>1 DEF K!Underived
        <5> QED BY <5>1, <5>2, TrieEmpty
      <4>2. CASE K!Migrated # K!NoTrie
        <5>1. K!Underived
          BY <3>3, <4>2 DEF K!Underived
        <5>2. K!Derived(TrieOf(ws, Q)) = TrieOf(Backwards(ws), Q)
          BY <3>1, <3>5, DerivedIs
        <5> QED BY <3>4, <5>1, <5>2
      <4> QED BY <4>1, <4>2
    <3>8. rows' = Of(ws, Q, H)
      <4> DEFINE D1 == IF K!Underived THEN K!Derived(K!Migrated) ELSE K!NoTrie
      <4>1. rows' = [n \in K!Names |-> IF n = "main" THEN TrieOf(ws, Q)
                                      ELSE IF n = "reverse" THEN D1 ELSE K!NoTrie]
        <5>1. rows' = [rows EXCEPT !["main"] = TrieOf(ws, Q), !["reverse"] = D1]
          BY <1>1, <3>3, <3>4
        <5> HIDE DEF D1
        <5> QED BY <3>1, <3>2, <5>1
      <4>2. D1 = TrieOf(Backwards(ws), Q)
        BY <3>7
      <4> HIDE DEF D1
      <4>3. \A n \in K!Names : n \notin {"main", "reverse"} => TrieOf(ws, H[n]) = K!NoTrie
        <5>1. \A n \in K!Names : n \notin {"main", "reverse"} => H[n] = {}
          BY DEF K!Names
        <5> HIDE DEF H
        <5> QED BY <5>1, TrieEmpty
      <4> HIDE DEF H
      <4> QED BY <4>1, <4>2, <4>3 DEF Of
    <3> HIDE DEF H
    <3>9. Remembered(ws, Q, H, Q, H, I)'
      <4>1. dicts' = Of(ws, Q, H) /\ rows' = Of(ws, Q, H) /\ Q \in SUBSET Q /\ ws \in Corpora
        BY <1>1, <3>1, <3>8
      <4> QED BY <3>5, <3>6, <4>1 DEF Remembered
    <3> QED BY <3>9
  <2> QED BY <1>0, <2>1, <2>2 DEF Unloaded
<1> QED BY <1>1, <1>2, <1>3 DEF KeptWell, Learned

LEMMA KeptLoadFails ==
  ASSUME K!MarkovConstants, KeptWell, K!LoadFails
  PROVE  KeptWell'
<1>0. Unloaded
  BY DEF KeptWell, Learned, K!LoadFails
<1>1. PICK writes \in 0..3 :
         /\ backup' = (IF writes >= 2 /\ blob # K!NoTrie THEN blob ELSE backup)
         /\ blob' = (IF writes >= 3 THEN K!NoTrie ELSE blob)
         /\ rows' = (IF writes >= 1 THEN [rows EXCEPT !["main"] = K!Migrated] ELSE rows)
  BY DEF K!LoadFails, K!Migrate
<1>2. loaded' = loaded /\ dicts' = dicts /\ unwritten' = unwritten /\ walk' = walk
  BY DEF K!LoadFails, K!memory
<1>3. ASSUME blob = K!NoTrie, NEW ws, NEW N, NEW H, NEW B, OnDisk(ws, N, H, B)
      PROVE  blob' = K!NoTrie /\ OnDisk(ws, N, H, B)'
  <2>1. /\ ws \in Corpora /\ N \in SUBSET (1..Len(ws)) /\ rows = Of(ws, N, H)
    BY <1>3 DEF OnDisk
  <2>2. rows["main"] = TrieOf(ws, N) /\ rows = [n \in K!Names |-> rows[n]]
    <3>1. Of(ws, N, H) = [n \in K!Names |-> Of(ws, N, H)[n]]
      BY DEF Of
    <3> QED BY <2>1, <3>1, OfNames
  <2>3. K!Migrated = TrieOf(ws, N)
    BY <1>3, <2>1, <2>2, MigratedIs
  <2>4. rows' = rows /\ backup' = backup /\ blob' = K!NoTrie
    BY <1>1, <1>3, <2>2, <2>3
  <2> QED BY <1>3, <2>4 DEF OnDisk
<1>4. ASSUME NEW ws, NEW N, NEW B, Migrating(ws, N, B)
      PROVE  \E Q, I : Migrating(ws, Q, I)'
  <2>1. /\ ws \in Corpora /\ N \in SUBSET (1..Len(ws)) /\ B \in SUBSET N
        /\ rows = [n \in K!Names |-> IF n = "main" THEN TrieOf(ws, N) ELSE K!NoTrie]
        /\ backup = TrieOf(ws, B)
        /\ blob # K!NoTrie => blob = TrieOf(ws, 1..Len(ws)) /\ N \in {{}, 1..Len(ws)}
    BY <1>4 DEF Migrating
  <2>2. "main" \in K!Names /\ rows["main"] = TrieOf(ws, N)
    BY <2>1 DEF K!Names
  <2>3. K!Migrated = TrieOf(ws, IF blob = K!NoTrie THEN N ELSE 1..Len(ws))
    BY <2>1, <2>2, MigratedIs
  <2>a. PICK Q : Q = IF writes >= 1 /\ blob # K!NoTrie THEN 1..Len(ws) ELSE N
    OBVIOUS
  <2>b. PICK I : I = IF writes >= 2 /\ blob # K!NoTrie THEN 1..Len(ws) ELSE B
    OBVIOUS
  <2>4. Q \in SUBSET (1..Len(ws)) /\ I \in SUBSET Q
    <3>1. writes \in Nat /\ N \in SUBSET (1..Len(ws)) /\ B \in SUBSET N
      BY <2>1
    <3>2. CASE blob = K!NoTrie \/ ~(writes >= 1)
      <4>1. Q = N /\ I = B
        BY <3>1, <3>2, <2>a, <2>b
      <4> QED BY <3>1, <4>1
    <3>3. CASE blob # K!NoTrie /\ writes >= 1
      <4>1. Q = 1..Len(ws) /\ (I = 1..Len(ws) \/ I = B)
        BY <3>3, <2>a, <2>b
      <4> QED BY <3>1, <4>1
    <3> QED BY <3>2, <3>3
  <2>5. backup' = TrieOf(ws, I)
    BY <1>1, <2>1, <2>b
  <2>6. blob' # K!NoTrie => blob' = TrieOf(ws, 1..Len(ws)) /\ Q \in {{}, 1..Len(ws)}
    BY <1>1, <2>1, <2>a
  <2>7. rows' = [n \in K!Names |-> IF n = "main" THEN TrieOf(ws, Q) ELSE K!NoTrie]
    <3>1. CASE writes >= 1
      <4>1. TrieOf(ws, IF blob = K!NoTrie THEN N ELSE 1..Len(ws)) = TrieOf(ws, Q)
        BY <3>1, <2>a
      <4>2. rows' = [rows EXCEPT !["main"] = TrieOf(ws, Q)]
        BY <1>1, <2>3, <3>1, <4>1
      <4> QED BY <2>1, <2>2, <4>2
    <3>2. CASE ~(writes >= 1)
      BY <1>1, <2>1, <2>a, <3>2
    <3> QED BY <3>1, <3>2
  <2>8. Migrating(ws, Q, I)'
    BY <2>1, <2>4, <2>5, <2>6, <2>7 DEF Migrating
  <2> QED BY <2>8
<1> QED BY <1>0, <1>2, <1>3, <1>4 DEF KeptWell, Unloaded

(* The sentence being made: its words, and how many of them went in front  *)
(* of the seed, each followed by the next as it was learned.               *)
Spoken == K!Tokens \cup {Help}

Sentence ==
    /\ walk \in [at : {"rest", "back", "forward", "said"}, dict : K!Names,
                 before : Nat, words : Seq(Spoken), looper : Nat]
    /\ walk.at = "rest" => walk = K!Rest
    /\ walk.before <= maxBack
    /\ walk.before = 0 \/ walk.before < Len(walk.words)
    /\ \A i \in 1..walk.before : <<walk.words[i], walk.words[i + 1]>> \in K!Adjacent(dicts["main"])
    /\ walk.at = "back" => Len(walk.words) = 1 + walk.before /\ walk.looper = 0
    /\ walk.at = "forward" =>
          walk.looper <= maxLoop /\ Len(walk.words) <= 1 + maxBack + walk.looper
    /\ Len(walk.words) <= 1 + maxBack + maxLoop + 2

LEMMA BoundsNat == ASSUME K!MarkovConstants PROVE maxBack \in Nat /\ maxLoop \in Nat /\ order \in Nat \ {0}
BY DEF K!MarkovConstants

LEMMA RestFields ==
  /\ K!Rest.at = "rest" /\ K!Rest.before = 0 /\ K!Rest.words = <<>> /\ K!Rest.looper = 0
  /\ K!Rest \in [at : {"rest", "back", "forward", "said"}, dict : K!Names,
                 before : Nat, words : Seq(Spoken), looper : Nat]
  /\ Len(K!Rest.words) = 0 /\ 1..K!Rest.before = {}
<1>1. <<>> \in Seq(Spoken) /\ Len(<<>>) = 0 /\ "main" \in K!Names /\ 1..0 = {}
  BY DEF K!Names
<1> QED BY <1>1 DEF K!Rest

LEMMA SentenceRest == ASSUME K!MarkovConstants, walk = K!Rest PROVE Sentence
<1>1. 0 <= maxBack /\ 0 <= 1 + maxBack + maxLoop + 2
  BY BoundsNat
<1> QED BY <1>1, RestFields DEF Sentence

LEMMA SentenceRested == ASSUME K!MarkovConstants, walk' = K!Rest PROVE Sentence'
<1>1. 0 <= maxBack /\ 0 <= 1 + maxBack + maxLoop + 2
  BY BoundsNat
<1> QED BY <1>1, RestFields DEF Sentence

(* One word more, behind or in front.                                      *)
LEMMA OneBehind ==
  ASSUME NEW T, NEW s \in Seq(T), NEW e \in T
  PROVE  /\ s \o <<e>> \in Seq(T) /\ Len(s \o <<e>>) = Len(s) + 1 /\ Len(s) \in Nat
         /\ (s \o <<e>>)[Len(s) + 1] = e
         /\ \A i \in 1..Len(s) : (s \o <<e>>)[i] = s[i]
<1>1. <<e>> \in Seq(T) /\ Len(<<e>>) = 1 /\ <<e>>[1] = e
  OBVIOUS
<1>2. /\ s \o <<e>> \in Seq(T)
      /\ Len(s \o <<e>>) = Len(s) + Len(<<e>>)
      /\ \A i \in 1..(Len(s) + Len(<<e>>)) :
            (s \o <<e>>)[i] = IF i <= Len(s) THEN s[i] ELSE <<e>>[i - Len(s)]
  BY <1>1, ConcatProperties
<1>3. Len(s) \in Nat
  BY LenProperties
<1> DEFINE t == s \o <<e>>
           o == <<e>>
<1> HIDE DEF t, o
<1>4. /\ t \in Seq(T) /\ Len(t) = Len(s) + 1
      /\ \A i \in 1..(Len(s) + 1) : t[i] = IF i <= Len(s) THEN s[i] ELSE o[i - Len(s)]
      /\ o[1] = e
  BY <1>1, <1>2 DEF t, o
<1>5. t[Len(s) + 1] = e
  <2>1. (Len(s) + 1) - Len(s) = 1 /\ Len(s) + 1 \in 1..(Len(s) + 1) /\ ~(Len(s) + 1 <= Len(s))
    BY <1>3
  <2> QED BY <1>4, <2>1
<1>6. \A i \in 1..Len(s) : t[i] = s[i]
  BY <1>3, <1>4
<1> QED BY <1>3, <1>4, <1>5, <1>6 DEF t

LEMMA OneInFront ==
  ASSUME NEW T, NEW s \in Seq(T), NEW e \in T
  PROVE  /\ <<e>> \o s \in Seq(T) /\ Len(<<e>> \o s) = Len(s) + 1 /\ Len(s) \in Nat
         /\ (<<e>> \o s)[1] = e
         /\ \A i \in 1..Len(s) : (<<e>> \o s)[i + 1] = s[i]
<1>1. <<e>> \in Seq(T) /\ Len(<<e>>) = 1 /\ <<e>>[1] = e
  OBVIOUS
<1>2. /\ <<e>> \o s \in Seq(T)
      /\ Len(<<e>> \o s) = Len(<<e>>) + Len(s)
      /\ \A i \in 1..(Len(<<e>>) + Len(s)) :
            (<<e>> \o s)[i] = IF i <= Len(<<e>>) THEN <<e>>[i] ELSE s[i - Len(<<e>>)]
  BY <1>1, ConcatProperties
<1>3. Len(s) \in Nat
  BY LenProperties
<1> DEFINE t == <<e>> \o s
           o == <<e>>
<1> HIDE DEF t, o
<1>4. /\ t \in Seq(T) /\ Len(t) = Len(s) + 1
      /\ \A i \in 1..(1 + Len(s)) : t[i] = IF i <= 1 THEN o[i] ELSE s[i - 1]
      /\ o[1] = e
  BY <1>1, <1>2, <1>3 DEF t, o
<1>5. t[1] = e
  BY <1>3, <1>4
<1>6. ASSUME NEW i \in 1..Len(s) PROVE t[i + 1] = s[i]
  <2>1. i + 1 \in 1..(1 + Len(s)) /\ ~(i + 1 <= 1) /\ (i + 1) - 1 = i
    BY <1>3
  <2> QED BY <1>4, <2>1
<1> QED BY <1>3, <1>4, <1>5, <1>6 DEF t

(* What may follow the words so far has a path that says so.               *)
LEMMA PickIs ==
  ASSUME order \in Nat \ {0}, NEW t, IsTrie(t), NEW words \in Seq(Spoken),
         NEW w \in K!pickNext(t, words), w # K!NoWord
  PROVE  /\ w \in K!Tokens
         /\ \E p \in DOMAIN t : \E k \in 1..Len(p) :
               k + 1 = Len(p) /\ p[k] = words[Len(words)] /\ p[k + 1] = w
<1>1. PICK near \in K!Contexts(words) \cap DOMAIN t : w \in K!weightedPick(t, near)
  BY DEF K!pickNext, K!findMaxOrderChain
<1>2. PICK p \in K!Children(t, near) : w = K!Last(p)
  BY <1>1 DEF K!weightedPick
<1>3. p \in DOMAIN t /\ Len(p) = Len(near) + 1 /\ K!IsPrefix(near, p) /\ near \in DOMAIN t
  BY <1>1, <1>2 DEF K!Children
<1>4. p \in Seq(K!Tokens) /\ near \in Seq(K!Tokens)
  BY <1>3, TriePaths DEF Windows
<1>5. Len(words) \in Nat
  BY LenProperties
<1>6. PICK k \in 1..(IF Len(words) < order THEN Len(words) ELSE order) :
          near = SubSeq(words, Len(words) - k + 1, Len(words))
  BY <1>1 DEF K!Contexts
<1>7. k \in Nat /\ k >= 1 /\ k <= Len(words)
  BY <1>5, <1>6
<1> DEFINE m == Len(words) - k + 1
           n == Len(words)
<1>8. m \in Int /\ n \in Int /\ m <= n /\ n - m + 1 = k /\ m + k - 1 = n
  BY <1>5, <1>7
<1>9. \A i \in m..n : words[i] \in Spoken
  <2>1. \A i \in m..n : i \in 1..Len(words)
    BY <1>5, <1>7
  <2> QED BY <2>1, ElementOfSeq
<1> HIDE DEF m, n
<1>10. /\ Len(SubSeq(words, m, n)) = IF m <= n THEN n - m + 1 ELSE 0
       /\ \A i \in 1..(n - m + 1) : SubSeq(words, m, n)[i] = words[m + i - 1]
  BY <1>8, <1>9, SubSeqProperties
<1>11. Len(SubSeq(words, m, n)) = k /\ SubSeq(words, m, n)[k] = words[n]
  <2>1. k \in 1..(n - m + 1)
    BY <1>7, <1>8
  <2> QED BY <1>8, <1>10, <2>1
<1>12. Len(near) = k /\ near[k] = words[Len(words)]
  BY <1>6, <1>11 DEF m, n
<1>13. k \in 1..Len(near) /\ p[k] = near[k]
  <2>1. k \in 1..Len(near)
    BY <1>7, <1>12
  <2> QED BY <1>3, <1>4, <2>1, PrefixIs
<1>14. Len(p) = k + 1 /\ k \in 1..Len(p) /\ Len(p) \in 1..Len(p)
  BY <1>3, <1>7, <1>12
<1>15. w = p[Len(p)]
  BY <1>2 DEF K!Last
<1>16. w \in K!Tokens
  BY <1>4, <1>14, <1>15, ElementOfSeq
<1>17. p[k] = words[Len(words)] /\ p[k + 1] = w /\ k + 1 = Len(p)
  BY <1>12, <1>13, <1>14, <1>15
<1> QED BY <1>3, <1>14, <1>16, <1>17

(* A path of the reverse dictionary reads two words as some line had them, *)
(* the other way around.                                                   *)
LEMMA BackIsAdjacent ==
  ASSUME NEW ws \in Corpora, NEW M \in SUBSET (1..Len(ws)),
         NEW p \in DOMAIN TrieOf(Backwards(ws), M), NEW k \in 1..Len(p), k + 1 = Len(p)
  PROVE  <<p[k + 1], p[k]>> \in K!Adjacent(TrieOf(ws, M))
<1>1. Backwards(ws) \in Corpora /\ M \in SUBSET (1..Len(Backwards(ws)))
  BY BackwardsFacts
<1>2. PICK i \in M : p \in Windows /\ K!IsPrefix(p, Backwards(ws)[i])
  BY <1>1, PathIs
<1> DEFINE q == ws[i]
           n == Len(q)
<1>3. q \in Windows /\ Backwards(ws)[i] = K!Reverse(q)
  BY BackwardsFacts
<1>4. /\ q \in Seq(K!Tokens) /\ p \in Seq(K!Tokens) /\ K!Reverse(q) \in Seq(K!Tokens)
      /\ Len(K!Reverse(q)) = n /\ n \in Nat
      /\ \A j \in 1..n : K!Reverse(q)[j] = q[(n - j) + 1]
  BY <1>2, <1>3, ReverseFacts DEF Windows
<1>5. q \in DOMAIN TrieOf(ws, M)
  <2>1. K!IsPrefix(q, q)
    BY <1>4, PrefixSelf
  <2> QED BY <1>3, <2>1, PathIs
<1> HIDE DEF q, n
<1>6. Len(p) <= n /\ \A j \in 1..Len(p) : p[j] = K!Reverse(q)[j]
  BY <1>2, <1>3, <1>4, PrefixIs
<1>7. Len(p) \in Nat
  BY <1>4, LenProperties
<1>8. k \in 1..n /\ k + 1 \in 1..n /\ k + 1 \in 1..Len(p)
  BY <1>4, <1>6, <1>7
<1>9. p[k] = q[(n - k) + 1] /\ p[k + 1] = q[(n - (k + 1)) + 1]
  BY <1>4, <1>6, <1>8
<1> DEFINE j == n - k
<1>10. j \in 1..n - 1 /\ (n - k) + 1 = j + 1 /\ (n - (k + 1)) + 1 = j
  BY <1>4, <1>8
<1>11. <<q[j], q[j + 1]>> \in {<<q[l], q[l + 1]>> : l \in 1..Len(q) - 1}
  <2> HIDE DEF j
  <2> QED BY <1>10 DEF n
<1>12. <<q[j], q[j + 1]>> \in K!Adjacent(TrieOf(ws, M))
  BY <1>5, <1>11 DEF K!Adjacent
<1> QED BY <1>9, <1>10, <1>12

(* The dictionaries while the module is loaded.                            *)
LEMMA LoadedFacts ==
  ASSUME K!MarkovConstants, KeptWell, loaded
  PROVE  /\ \A n \in K!Names : IsTrie(dicts[n])
         /\ \A p \in DOMAIN dicts["reverse"] : \A k \in 1..Len(p) :
               k + 1 = Len(p) => <<p[k + 1], p[k]>> \in K!Adjacent(dicts["main"])
<1>1. Learned
  BY DEF KeptWell, Unloaded
<1>2. PICK ws, M, J, N, H, B : Remembered(ws, M, J, N, H, B)
  BY <1>1 DEF Learned
<1>3. ws \in Corpora /\ M \in SUBSET (1..Len(ws)) /\ J \in [Talkers -> SUBSET M] /\ dicts = Of(ws, M, J)
  BY <1>2 DEF Remembered
<1>4. \A n \in K!Names : IsTrie(dicts[n])
  BY <1>3, OfTries
<1>5. dicts["main"] = TrieOf(ws, M) /\ dicts["reverse"] = TrieOf(Backwards(ws), M)
  BY <1>3, OfNames
<1> QED BY <1>3, <1>4, <1>5, BackIsAdjacent

LEMMA SentenceSame ==
  ASSUME Sentence, walk' = walk, dicts' = dicts \/ walk = K!Rest
  PROVE  Sentence'
<1>1. CASE dicts' = dicts
  BY <1>1 DEF Sentence
<1>2. CASE walk = K!Rest
  <2>1. walk.before = 0
    BY <1>2, RestFields
  <2>2. 1..0 = {}
    OBVIOUS
  <2> QED BY <2>1, <2>2 DEF Sentence
<1> QED BY <1>1, <1>2

(* A sentence begins, from a seed or from nothing.                         *)
LEMMA SentenceForward ==
  ASSUME K!MarkovConstants, KeptWell, loaded, NEW n \in K!Names, NEW seed \in Seq(K!Tokens), Len(seed) <= 1,
         walk' = K!Forward(n, seed)
  PROVE  Sentence'
<1> DEFINE words == IF seed = <<>> /\ <<Start>> \in DOMAIN dicts[n] THEN <<Start>> ELSE seed
<1>0. maxBack \in Nat /\ maxLoop \in Nat
  BY BoundsNat
<1>1. words \in Seq(Spoken) /\ Len(words) \in Nat /\ Len(words) <= 1
  <2>1. CASE seed = <<>> /\ <<Start>> \in DOMAIN dicts[n]
    <3>1. <<Start>> \in Seq(K!Tokens)
      BY <2>1, LoadedFacts, TriePaths DEF Windows
    <3>2. <<Start>>[1] \in K!Tokens /\ Len(<<Start>>) = 1
      BY <3>1
    <3>3. <<Start>> \in Seq(Spoken)
      BY <3>2 DEF Spoken
    <3> QED BY <2>1, <3>2, <3>3
  <2>2. CASE ~(seed = <<>> /\ <<Start>> \in DOMAIN dicts[n])
    <3>1. seed \in Seq(Spoken) /\ Len(seed) \in Nat
      BY LenProperties DEF Spoken
    <3> QED BY <2>2, <3>1
  <2> QED BY <2>1, <2>2
<1>2. walk' = [at |-> "forward", dict |-> n, before |-> 0, words |-> words, looper |-> 0]
  BY DEF K!Forward, K!Rest
<1> HIDE DEF words
<1>3. /\ walk'.at = "forward" /\ walk'.before = 0 /\ walk'.words = words /\ walk'.looper = 0
      /\ walk' \in [at : {"rest", "back", "forward", "said"}, dict : K!Names,
                    before : Nat, words : Seq(Spoken), looper : Nat]
  BY <1>1, <1>2
<1>4. 1..0 = {}
  OBVIOUS
<1>5. /\ walk'.at # "rest" /\ walk'.at # "back"
      /\ walk'.before <= maxBack /\ walk'.looper <= maxLoop
      /\ Len(walk'.words) <= 1 + maxBack + walk'.looper
      /\ Len(walk'.words) <= 1 + maxBack + maxLoop + 2
  BY <1>0, <1>1, <1>3
<1> QED BY <1>3, <1>4, <1>5 DEF Sentence

LEMMA SentenceBegins ==
  ASSUME K!MarkovConstants, KeptWell, loaded, NEW seed \in Seq(K!Tokens), Len(seed) <= 1,
         walk' = K!talkMessage(seed)
  PROVE  Sentence'
<1>1. CASE Len(seed) = 1 /\ seed \in DOMAIN dicts["reverse"]
  <2>0. maxBack \in Nat /\ maxLoop \in Nat /\ "main" \in K!Names
    BY BoundsNat DEF K!Names
  <2>1. seed \in Seq(Spoken) /\ Len(seed) \in Nat
    BY LenProperties DEF Spoken
  <2>2. walk' = [at |-> "back", dict |-> "main", before |-> 0, words |-> seed, looper |-> 0]
    BY <1>1 DEF K!talkMessage, K!Rest
  <2>3. /\ walk'.at = "back" /\ walk'.before = 0 /\ walk'.words = seed /\ walk'.looper = 0
        /\ walk' \in [at : {"rest", "back", "forward", "said"}, dict : K!Names,
                      before : Nat, words : Seq(Spoken), looper : Nat]
    BY <2>0, <2>1, <2>2
  <2>4. 1..0 = {}
    OBVIOUS
  <2>5. /\ walk'.at # "rest" /\ walk'.at # "forward"
        /\ Len(walk'.words) = 1 + walk'.before
        /\ walk'.before <= maxBack
        /\ Len(walk'.words) <= 1 + maxBack + maxLoop + 2
    <3>1. Len(walk'.words) = 1 /\ walk'.before = 0 /\ walk'.at = "back"
      BY <1>1, <2>3
    <3> QED BY <2>0, <3>1
  <2> QED BY <2>3, <2>4, <2>5 DEF Sentence
<1>2. CASE ~(Len(seed) = 1 /\ seed \in DOMAIN dicts["reverse"])
  <2>1. walk' = K!Forward("main", seed)
    BY <1>2 DEF K!talkMessage
  <2>2. "main" \in K!Names
    BY DEF K!Names
  <2> QED BY <2>1, <2>2, SentenceForward
<1> QED BY <1>1, <1>2

LEMMA Seeds ==
  ASSUME NEW seed \in {<<>>} \cup {<<w>> : w \in K!Vocabulary}
  PROVE  seed \in Seq(K!Tokens) /\ Len(seed) <= 1
<1>1. K!Vocabulary \subseteq K!Tokens
  BY DEF K!Vocabulary, K!Tokens
<1>2. CASE seed = <<>>
  BY <1>2
<1>3. CASE seed # <<>>
  <2>1. PICK w \in K!Tokens : seed = <<w>>
    BY <1>1, <1>3
  <2> QED BY <2>1
<1> QED BY <1>2, <1>3

(* Backwards: the word in front is one that some line had there.           *)
LEMMA SentenceBack ==
  ASSUME K!MarkovConstants, KeptWell, loaded, Sentence, K!StepBack
  PROVE  Sentence'
<1>0. maxBack \in Nat /\ maxLoop \in Nat /\ order \in Nat \ {0}
  BY BoundsNat
<1> DEFINE back == K!Reverse(walk.words)
<1>1. /\ walk.at = "back" /\ dicts' = dicts
      /\ \E w \in K!pickNext(dicts["reverse"], back) :
            walk' = [walk EXCEPT
                !.words = IF w \notin {K!NoWord, End} /\ walk.before < maxBack THEN <<w>> \o @ ELSE @,
                !.before = IF w \notin {K!NoWord, End} /\ walk.before < maxBack THEN @ + 1 ELSE @,
                !.at = IF w \notin {K!NoWord, End} /\ walk.before < maxBack /\ w # Start THEN @ ELSE "forward"]
  BY DEF K!StepBack, K!memory
<1>2. PICK w \in K!pickNext(dicts["reverse"], back) :
            walk' = [walk EXCEPT
                !.words = IF w \notin {K!NoWord, End} /\ walk.before < maxBack THEN <<w>> \o @ ELSE @,
                !.before = IF w \notin {K!NoWord, End} /\ walk.before < maxBack THEN @ + 1 ELSE @,
                !.at = IF w \notin {K!NoWord, End} /\ walk.before < maxBack /\ w # Start THEN @ ELSE "forward"]
  BY <1>1
<1>3. /\ walk \in [at : {"rest", "back", "forward", "said"}, dict : K!Names,
                   before : Nat, words : Seq(Spoken), looper : Nat]
      /\ walk.before <= maxBack /\ walk.looper = 0 /\ Len(walk.words) = 1 + walk.before
      /\ \A i \in 1..walk.before :
            <<walk.words[i], walk.words[i + 1]>> \in K!Adjacent(dicts["main"])
  BY <1>1 DEF Sentence
<1>4. walk.before \in Nat /\ walk.words \in Seq(Spoken) /\ walk.dict \in K!Names
  BY <1>3
<1>5. CASE ~(w \notin {K!NoWord, End} /\ walk.before < maxBack)
  <2>1. walk' = [walk EXCEPT !.at = "forward"]
    BY <1>2, <1>3, <1>5
  <2>2. /\ walk'.at = "forward" /\ walk'.before = walk.before /\ walk'.words = walk.words
        /\ walk'.looper = 0
        /\ walk' \in [at : {"rest", "back", "forward", "said"}, dict : K!Names,
                      before : Nat, words : Seq(Spoken), looper : Nat]
    BY <1>3, <2>1
  <2>3. /\ walk'.at # "rest" /\ walk'.at # "back" /\ walk'.before < Len(walk'.words)
        /\ walk'.looper <= maxLoop /\ Len(walk'.words) <= 1 + maxBack + walk'.looper
        /\ Len(walk'.words) <= 1 + maxBack + maxLoop + 2
    BY <1>0, <1>3, <1>4, <2>2
  <2> QED BY <1>1, <1>3, <2>2, <2>3 DEF Sentence
<1>6. CASE w \notin {K!NoWord, End} /\ walk.before < maxBack
  <2> DEFINE words == <<w>> \o walk.words
             spot == IF w # Start THEN "back" ELSE "forward"
  <2>1. back \in Seq(Spoken) /\ Len(back) = Len(walk.words) /\ Len(walk.words) \in Nat
        /\ \A i \in 1..Len(walk.words) : back[i] = walk.words[(Len(walk.words) - i) + 1]
    BY <1>4, ReverseFacts
  <2>2. back[Len(back)] = walk.words[1]
    <3>1. Len(walk.words) \in 1..Len(walk.words) /\ (Len(walk.words) - Len(walk.words)) + 1 = 1
      BY <1>3, <1>4
    <3> QED BY <2>1, <3>1
  <2>3. w \in K!Tokens /\ <<w, walk.words[1]>> \in K!Adjacent(dicts["main"])
    <3>1. IsTrie(dicts["reverse"])
      BY LoadedFacts DEF K!Names
    <3>2. w # K!NoWord
      BY <1>6
    <3> HIDE DEF back
    <3>3. /\ w \in K!Tokens
          /\ \E p \in DOMAIN dicts["reverse"] : \E k \in 1..Len(p) :
                k + 1 = Len(p) /\ p[k] = back[Len(back)] /\ p[k + 1] = w
      BY <1>0, <2>1, <3>1, <3>2, PickIs
    <3>4. PICK p \in DOMAIN dicts["reverse"] : \E k \in 1..Len(p) :
                k + 1 = Len(p) /\ p[k] = back[Len(back)] /\ p[k + 1] = w
      BY <3>3
    <3>5. PICK k \in 1..Len(p) : k + 1 = Len(p) /\ p[k] = back[Len(back)] /\ p[k + 1] = w
      BY <3>4
    <3>6. <<p[k + 1], p[k]>> \in K!Adjacent(dicts["main"])
      BY <3>5, LoadedFacts
    <3> QED BY <2>2, <3>3, <3>5, <3>6
  <2>4. /\ words \in Seq(Spoken) /\ Len(words) = Len(walk.words) + 1
        /\ words[1] = w /\ \A i \in 1..Len(walk.words) : words[i + 1] = walk.words[i]
    <3>1. w \in Spoken
      BY <2>3 DEF Spoken
    <3> QED BY <1>4, <3>1, OneInFront
  <2>5. walk' = [walk EXCEPT !.words = words, !.before = walk.before + 1, !.at = spot]
    BY <1>1, <1>2, <1>3, <1>6
  <2> HIDE DEF words, spot
  <2>6. spot = "back" \/ spot = "forward"
    BY DEF spot
  <2>7. /\ walk'.at = spot /\ walk'.before = walk.before + 1 /\ walk'.words = words
        /\ walk'.looper = 0
        /\ walk' \in [at : {"rest", "back", "forward", "said"}, dict : K!Names,
                      before : Nat, words : Seq(Spoken), looper : Nat]
    <3>1. walk' = [at |-> spot, dict |-> walk.dict, before |-> walk.before + 1,
                   words |-> words, looper |-> walk.looper]
      BY <1>3, <2>5
    <3>2. /\ spot \in {"rest", "back", "forward", "said"} /\ walk.before + 1 \in Nat
          /\ words \in Seq(Spoken) /\ walk.looper \in Nat /\ walk.looper = 0
      BY <1>3, <1>4, <2>4, <2>6
    <3> QED BY <1>4, <3>1, <3>2
  <2>8. \A i \in 1..(walk.before + 1) : <<words[i], words[i + 1]>> \in K!Adjacent(dicts["main"])
    <3> SUFFICES ASSUME NEW i \in 1..(walk.before + 1)
                 PROVE  <<words[i], words[i + 1]>> \in K!Adjacent(dicts["main"])
      OBVIOUS
    <3>1. CASE i = 1
      <4>1. 1 \in 1..Len(walk.words)
        BY <1>3, <1>4
      <4> QED BY <2>3, <2>4, <3>1, <4>1
    <3>2. CASE i # 1
      <4>1. i - 1 \in 1..walk.before /\ i - 1 \in 1..Len(walk.words) /\ i \in 1..Len(walk.words)
            /\ (i - 1) + 1 = i
        BY <1>3, <1>4, <3>2
      <4>2. words[i] = walk.words[i - 1] /\ words[i + 1] = walk.words[i]
        BY <2>4, <4>1
      <4>3. <<walk.words[i - 1], walk.words[(i - 1) + 1]>> \in K!Adjacent(dicts["main"])
        BY <1>3, <4>1
      <4> QED BY <4>1, <4>2, <4>3
    <3> QED BY <3>1, <3>2
  <2>9. /\ walk'.at # "rest" /\ walk'.before < Len(walk'.words)
        /\ walk'.before <= maxBack /\ Len(walk'.words) = 1 + walk'.before
        /\ walk'.looper <= maxLoop /\ Len(walk'.words) <= 1 + maxBack + walk'.looper
        /\ Len(walk'.words) <= 1 + maxBack + maxLoop + 2
    BY <1>0, <1>3, <1>4, <1>6, <2>4, <2>6, <2>7
  <2> QED BY <1>1, <2>7, <2>8, <2>9 DEF Sentence
<1> QED BY <1>5, <1>6

(* Forwards: the words in front of the seed stay, and the sentence ends.   *)
LEMMA SentenceOn ==
  ASSUME K!MarkovConstants, KeptWell, loaded, Sentence, K!StepForward
  PROVE  Sentence'
<1>0. maxBack \in Nat /\ maxLoop \in Nat /\ order \in Nat \ {0}
  BY BoundsNat
<1> DEFINE Typed == [at : {"rest", "back", "forward", "said"}, dict : K!Names,
                     before : Nat, words : Seq(Spoken), looper : Nat]
           Word(w) == IF w \in {K!NoWord, Start} THEN Help ELSE w
           Words(w) == walk.words \o <<Word(w)>> \o (IF walk.looper = maxLoop THEN <<Help>> ELSE <<>>)
<1>1. PICK w \in K!randomWord(dicts[walk.dict], walk.words) :
          walk' = IF w = End THEN [walk EXCEPT !.at = "said"]
                  ELSE [walk EXCEPT !.words = Words(w), !.looper = @ + 1,
                            !.at = IF K!Last(Words(w)) \in {Dot, Help} THEN "said" ELSE @]
  BY DEF K!StepForward
<1>2. walk.at = "forward" /\ dicts' = dicts
  BY DEF K!StepForward, K!memory
<1>3. /\ walk \in Typed /\ walk.before <= maxBack /\ (walk.before = 0 \/ walk.before < Len(walk.words))
      /\ walk.looper <= maxLoop /\ Len(walk.words) <= 1 + maxBack + walk.looper
      /\ \A i \in 1..walk.before :
            <<walk.words[i], walk.words[i + 1]>> \in K!Adjacent(dicts["main"])
  BY <1>2 DEF Sentence
<1>4. /\ walk.before \in Nat /\ walk.looper \in Nat /\ walk.words \in Seq(Spoken) /\ walk.dict \in K!Names
      /\ Len(walk.words) \in Nat
  BY <1>3, LenProperties
<1>5. CASE w = End
  <2>1. walk' = [walk EXCEPT !.at = "said"]
    BY <1>1, <1>5
  <2> HIDE DEF Words, Word
  <2>2. /\ walk'.at = "said" /\ walk'.before = walk.before /\ walk'.words = walk.words
        /\ walk' \in Typed
    BY <1>3, <2>1
  <2>3. Len(walk'.words) <= 1 + maxBack + maxLoop + 2
    BY <1>0, <1>3, <1>4, <2>2
  <2>4. walk'.at # "rest" /\ walk'.at # "back" /\ walk'.at # "forward"
    BY <2>2
  <2> QED BY <1>2, <1>3, <2>2, <2>3, <2>4 DEF Sentence
<1>6. CASE w # End
  <2> DEFINE word == Word(w)
             words == Words(w)
             first == walk.words \o <<word>>
             spot == IF K!Last(words) \in {Dot, Help} THEN "said" ELSE "forward"
  <2>1. word \in Spoken
    <3>1. IsTrie(dicts[walk.dict])
      BY <1>4, LoadedFacts
    <3>2. w = K!NoWord \/ w \in K!Tokens
      <4>1. CASE w \in K!randomChainWord(dicts[walk.dict])
        <5>1. w = K!NoWord \/ \E p \in DOMAIN dicts[walk.dict] : w = p[1]
          BY <4>1 DEF K!randomChainWord, K!TopWords
        <5>2. \A p \in DOMAIN dicts[walk.dict] : p[1] \in K!Tokens
          <6> SUFFICES ASSUME NEW p \in DOMAIN dicts[walk.dict] PROVE p[1] \in K!Tokens
            OBVIOUS
          <6>1. p \in Seq(K!Tokens) /\ p # <<>>
            BY <3>1, TriePaths DEF Windows
          <6>2. Len(p) \in Nat /\ Len(p) # 0
            BY <6>1, LenProperties, EmptySeq
          <6>3. 1 \in 1..Len(p)
            BY <6>2
          <6> QED BY <6>1, <6>3, ElementOfSeq
        <5> QED BY <5>1, <5>2
      <4>2. CASE w \notin K!randomChainWord(dicts[walk.dict])
        <5>1. w \in K!pickNext(dicts[walk.dict], walk.words) /\ w # K!NoWord
          BY <4>2 DEF K!randomWord
        <5> QED BY <1>0, <1>4, <3>1, <5>1, PickIs
      <4> QED BY <4>1, <4>2
    <3> QED BY <3>2 DEF Spoken
  <2>2. /\ first \in Seq(Spoken) /\ Len(first) = Len(walk.words) + 1
        /\ \A i \in 1..Len(walk.words) : first[i] = walk.words[i]
    <3> HIDE DEF word
    <3> QED BY <1>4, <2>1, OneBehind
  <2>3. Help \in Spoken
    BY DEF Spoken
  <2>4. /\ words \in Seq(Spoken)
        /\ Len(words) = Len(walk.words) + (IF walk.looper = maxLoop THEN 2 ELSE 1)
        /\ \A i \in 1..Len(walk.words) : words[i] = walk.words[i]
        /\ walk.looper = maxLoop => spot = "said"
    <3> HIDE DEF first
    <3>1. CASE walk.looper = maxLoop
      <4>1. words = first \o <<Help>>
        BY <3>1 DEF first
      <4>2. /\ first \o <<Help>> \in Seq(Spoken) /\ Len(first \o <<Help>>) = Len(first) + 1
            /\ Len(first) \in Nat /\ (first \o <<Help>>)[Len(first) + 1] = Help
            /\ \A i \in 1..Len(first) : (first \o <<Help>>)[i] = first[i]
        BY <2>2, <2>3, OneBehind
      <4>3. K!Last(words) = Help
        BY <4>1, <4>2 DEF K!Last
      <4>4. spot = "said"
        BY <4>3
      <4>5. \A i \in 1..Len(walk.words) : i \in 1..Len(first)
        BY <1>4, <2>2
      <4> HIDE DEF words, spot, first
      <4>6. Len(words) = Len(walk.words) + 2 /\ Len(walk.words) \in Nat
        BY <1>4, <2>2, <4>1, <4>2, LenProperties
      <4>7. \A i \in 1..Len(walk.words) : words[i] = walk.words[i]
        BY <2>2, <4>1, <4>2, <4>5
      <4> QED BY <3>1, <4>1, <4>2, <4>4, <4>6, <4>7
    <3>2. CASE walk.looper # maxLoop
      <4>1. words = first \o <<>>
        BY <3>2 DEF first
      <4>2. first \o <<>> = first
        BY <2>2
      <4> HIDE DEF words, spot
      <4> QED BY <2>2, <3>2, <4>1, <4>2
    <3> QED BY <3>1, <3>2
  <2>5. walk' = [walk EXCEPT !.words = words, !.looper = walk.looper + 1, !.at = spot]
    BY <1>1, <1>2, <1>3, <1>6
  <2>6. spot = "said" \/ spot = "forward"
    OBVIOUS
  <2> HIDE DEF words, spot, word, first, Words, Word
  <2>7. /\ walk'.at = spot /\ walk'.before = walk.before /\ walk'.words = words
        /\ walk'.looper = walk.looper + 1 /\ walk' \in Typed
    <3>1. walk' = [at |-> spot, dict |-> walk.dict, before |-> walk.before,
                   words |-> words, looper |-> walk.looper + 1]
      BY <1>3, <2>5
    <3>2. /\ spot \in {"rest", "back", "forward", "said"} /\ walk.looper + 1 \in Nat
          /\ words \in Seq(Spoken)
      BY <1>4, <2>4, <2>6
    <3> QED BY <1>4, <3>1, <3>2
  <2>8. ASSUME NEW i \in 1..walk.before
        PROVE  <<words[i], words[i + 1]>> \in K!Adjacent(dicts["main"])
    <3>1. i \in 1..Len(walk.words) /\ i + 1 \in 1..Len(walk.words)
      BY <1>3, <1>4
    <3> QED BY <1>3, <2>4, <3>1
  <2>9. /\ walk'.before = 0 \/ walk'.before < Len(walk'.words)
        /\ walk'.before <= maxBack
        /\ walk'.at # "rest" /\ walk'.at # "back"
        /\ walk'.at = "forward" =>
              walk'.looper <= maxLoop /\ Len(walk'.words) <= 1 + maxBack + walk'.looper
        /\ Len(walk'.words) <= 1 + maxBack + maxLoop + 2
    <3>1. walk.looper # maxLoop => walk.looper < maxLoop
      BY <1>0, <1>3, <1>4
    <3> QED BY <1>0, <1>3, <1>4, <2>4, <2>6, <2>7, <3>1
  <2> QED BY <1>2, <2>7, <2>8, <2>9 DEF Sentence
<1> QED BY <1>5, <1>6

Chained == KeptWell /\ Sentence

LEMMA ChainedInit == ASSUME K!MarkovConstants, K!Init PROVE Chained
<1>1. walk = K!Rest
  BY DEF K!Init
<1> QED BY <1>1, KeptInit, SentenceRest DEF Chained

LEMMA ChainedNext == ASSUME K!MarkovConstants, Chained, [K!Next]_K!vars PROVE Chained'
<1>0. KeptWell /\ Sentence
  BY DEF Chained
<1>1. walk.at # "rest" => loaded
  <2>1. ~loaded => walk = K!Rest
    BY <1>0 DEF KeptWell, Learned, Unloaded
  <2> QED BY <2>1, RestFields
<1>2. ASSUME NEW talker \in Talkers, NEW tokens \in Lines, K!onPrivmsg(talker, tokens) PROVE Chained'
  <2>1. /\ loaded /\ loaded' = loaded /\ UNCHANGED K!store /\ walk' = walk /\ walk = K!Rest
        /\ K!Learn(talker, tokens)
    BY <1>2 DEF K!onPrivmsg
  <2> QED BY <1>0, <2>1, KeptLearn, SentenceSame DEF Chained
<1>3. ASSUME NEW talker \in Talkers, K!cbTalkLike(talker) PROVE Chained'
  <2>1. loaded /\ UNCHANGED <<K!memory, K!store>>
    BY <1>3 DEF K!cbTalkLike
  <2>2. PICK seed \in {<<>>} \cup {<<w>> : w \in K!Vocabulary} : walk' = K!Forward(talker, seed)
    BY <1>3 DEF K!cbTalkLike
  <2>3. seed \in Seq(K!Tokens) /\ Len(seed) <= 1 /\ talker \in K!Names
    BY Seeds DEF K!Names
  <2>4. Sentence'
    BY <1>0, <2>1, <2>2, <2>3, SentenceForward
  <2>5. KeptWell'
    BY <1>0, <2>1, KeptSame
  <2> QED BY <2>4, <2>5 DEF Chained
<1>4. ASSUME K!cbTalk PROVE Chained'
  <2>1. loaded /\ UNCHANGED <<K!memory, K!store>>
    BY <1>4 DEF K!cbTalk
  <2>2. PICK seed \in {<<>>} \cup {<<w>> : w \in K!Vocabulary} : walk' = K!talkMessage(seed)
    BY <1>4 DEF K!cbTalk
  <2>3. seed \in Seq(K!Tokens) /\ Len(seed) <= 1
    BY Seeds
  <2>4. Sentence'
    BY <1>0, <2>1, <2>2, <2>3, SentenceBegins
  <2>5. KeptWell'
    BY <1>0, <2>1, KeptSame
  <2> QED BY <2>4, <2>5 DEF Chained
<1>5. ASSUME K!IdleTimer PROVE Chained'
  <2>1. loaded /\ UNCHANGED <<K!memory, K!store>> /\ walk' = K!talkMessage(<<>>)
    BY <1>5 DEF K!IdleTimer
  <2>2. <<>> \in Seq(K!Tokens) /\ Len(<<>>) <= 1
    OBVIOUS
  <2>3. Sentence'
    BY <1>0, <2>1, <2>2, SentenceBegins
  <2>4. KeptWell'
    BY <1>0, <2>1, KeptSame
  <2> QED BY <2>3, <2>4 DEF Chained
<1>6. ASSUME K!StepBack PROVE Chained'
  <2>1. loaded /\ UNCHANGED <<K!memory, K!store>>
    BY <1>1, <1>6 DEF K!StepBack
  <2> QED BY <1>0, <1>6, <2>1, KeptSame, SentenceBack DEF Chained
<1>7. ASSUME K!StepForward PROVE Chained'
  <2>1. loaded /\ UNCHANGED <<K!memory, K!store>>
    BY <1>1, <1>7 DEF K!StepForward
  <2> QED BY <1>0, <1>7, <2>1, KeptSame, SentenceOn DEF Chained
<1>8. ASSUME K!Say PROVE Chained'
  <2>1. loaded /\ UNCHANGED <<K!memory, K!store>> /\ walk' = K!Rest
    BY <1>1, <1>8 DEF K!Say
  <2>2. Sentence'
    BY <2>1, SentenceRested
  <2> QED BY <1>0, <2>1, <2>2, KeptSame DEF Chained
<1>9. ASSUME K!Flush PROVE Chained'
  <2>1. walk' = walk /\ dicts' = dicts
    BY <1>9 DEF K!Flush
  <2> QED BY <1>0, <1>9, <2>1, KeptFlush, SentenceSame DEF Chained
<1>10. ASSUME K!Load PROVE Chained'
  <2>1. walk' = walk /\ walk = K!Rest
    BY <1>0, <1>10 DEF K!Load, KeptWell, Learned, Unloaded
  <2> QED BY <1>0, <1>10, <2>1, KeptLoad, SentenceSame DEF Chained
<1>11. ASSUME K!LoadFails PROVE Chained'
  <2>1. walk' = walk /\ dicts' = dicts
    BY <1>11 DEF K!LoadFails, K!memory
  <2> QED BY <1>0, <1>11, <2>1, KeptLoadFails, SentenceSame DEF Chained
<1>12. ASSUME NEW flushed \in BOOLEAN, K!Restart(flushed) PROVE Chained'
  <2>1. walk' = K!Rest
    BY <1>12 DEF K!Restart
  <2>2. Sentence'
    BY <2>1, SentenceRested
  <2> QED BY <1>0, <1>12, <2>2, KeptRestart DEF Chained
<1>13. ASSUME K!onCommand \/ K!ConfIdle \/ K!Tick \/ UNCHANGED K!vars PROVE Chained'
  <2>1. UNCHANGED <<K!memory, K!store, walk>>
    BY <1>13 DEF K!onCommand, K!ConfIdle, K!Tick, K!vars
  <2>2. dicts' = dicts /\ (loaded \/ walk' = K!Rest)
    BY <1>0, <2>1 DEF K!memory, KeptWell, Unloaded, Learned
  <2> QED BY <1>0, <2>1, <2>2, KeptSame, SentenceSame DEF Chained
<1> QED BY <1>2, <1>3, <1>4, <1>5, <1>6, <1>7, <1>8, <1>9, <1>10, <1>11, <1>12, <1>13 DEF K!Next

LEMMA ChainedMirrors == ASSUME K!MarkovConstants, Chained PROVE K!Mirrored
<1>0. KeptWell /\ Sentence
  BY DEF Chained
<1>1. /\ \A i \in 1..walk.before :
            <<walk.words[i], walk.words[i + 1]>> \in K!Adjacent(dicts["main"])
      /\ Len(walk.words) <= 1 + maxBack + maxLoop + 2
  BY <1>0 DEF Sentence
<1>2. CASE Learned
  <2>1. PICK ws, M, J, N, H, B : Remembered(ws, M, J, N, H, B)
    BY <1>2 DEF Learned
  <2>2. /\ ws \in Corpora /\ M \in SUBSET (1..Len(ws)) /\ J \in [Talkers -> SUBSET M]
        /\ N \in SUBSET (1..Len(ws)) /\ B \in SUBSET N
        /\ dicts = Of(ws, M, J) /\ rows = Of(ws, N, H) /\ backup = TrieOf(ws, B)
    BY <2>1 DEF Remembered
  <2>3. /\ dicts["main"] = TrieOf(ws, M) /\ dicts["reverse"] = TrieOf(Backwards(ws), M)
        /\ \A n \in Talkers : dicts[n] = TrieOf(ws, J[n])
    BY <2>2, OfNames
  <2>4. rows["main"] = TrieOf(ws, N) /\ rows["reverse"] = TrieOf(Backwards(ws), N)
    BY <2>2, OfNames
  <2>5. dicts["reverse"] = K!Derived(dicts["main"]) /\ rows["reverse"] = K!Derived(rows["main"])
    BY <2>2, <2>3, <2>4, DerivedIs
  <2>6. \A n \in Talkers : K!Within(dicts[n], dicts["main"])
    <3>1. \A n \in Talkers : J[n] \in SUBSET M
      BY <2>2
    <3> QED BY <2>2, <2>3, <3>1, TrieWithin
  <2>7. K!Within(backup, rows["main"])
    BY <2>2, <2>4, TrieWithin
  <2>8. blob = K!NoTrie
    BY <1>2 DEF Learned
  <2> QED BY <1>1, <2>5, <2>6, <2>7, <2>8 DEF K!Mirrored
<1>3. CASE Unloaded
  <2>1. ~loaded
    BY <1>3 DEF Unloaded
  <2>2. ASSUME blob = K!NoTrie, NEW ws, NEW N, NEW H, NEW B, OnDisk(ws, N, H, B)
        PROVE  K!Within(backup, rows["main"])
    <3>1. /\ ws \in Corpora /\ N \in SUBSET (1..Len(ws)) /\ B \in SUBSET N
          /\ rows = Of(ws, N, H) /\ backup = TrieOf(ws, B)
      BY <2>2 DEF OnDisk
    <3>2. rows["main"] = TrieOf(ws, N)
      BY <3>1, OfNames
    <3> QED BY <3>1, <3>2, TrieWithin
  <2>3. ASSUME NEW ws, NEW N, NEW B, Migrating(ws, N, B)
        PROVE  /\ K!Within(backup, rows["main"])
               /\ blob # K!NoTrie => rows["main"] \in {K!NoTrie, blob}
    <3>1. /\ ws \in Corpora /\ N \in SUBSET (1..Len(ws)) /\ B \in SUBSET N
          /\ rows = [n \in K!Names |-> IF n = "main" THEN TrieOf(ws, N) ELSE K!NoTrie]
          /\ backup = TrieOf(ws, B)
          /\ blob # K!NoTrie => blob = TrieOf(ws, 1..Len(ws)) /\ N \in {{}, 1..Len(ws)}
      BY <2>3 DEF Migrating
    <3>2. rows["main"] = TrieOf(ws, N)
      BY <3>1 DEF K!Names
    <3>3. TrieOf(ws, {}) = K!NoTrie
      BY TrieEmpty
    <3>4. blob # K!NoTrie => rows["main"] \in {K!NoTrie, blob}
      BY <3>1, <3>2, <3>3
    <3> QED BY <3>1, <3>2, <3>4, TrieWithin
  <2> QED BY <1>1, <1>3, <2>1, <2>2, <2>3 DEF Unloaded, K!Mirrored
<1> QED BY <1>0, <1>2, <1>3 DEF KeptWell

(* However many lines of whatever words, talkers, restarts, failed writes   *)
(* and failed migrations: the reverse dictionary is the main one learned    *)
(* backwards, in memory and in the store (addReversed, deriveReverse), what *)
(* talkers said is in the main one, the legacy dictionary is not lost       *)
(* (migrateLegacyBlob), and a sentence follows what was learned and ends    *)
(* (middleOut, randomMessageFrom).                                         *)
THEOREM MarkovMirrored == ASSUME K!MarkovConstants PROVE K!Spec => []K!Mirrored
<1>1. K!Init => Chained
  BY ChainedInit
<1>2. Chained /\ [K!Next]_K!vars => Chained'
  BY ChainedNext
<1>3. Chained => K!Mirrored
  BY ChainedMirrors
<1> QED BY <1>1, <1>2, <1>3, PTL DEF K!Spec

(* What is learned in the run, in memory and in the store (markov.go).       *)
THEOREM RunMirrored == ASSUME K!MarkovConstants PROVE MCSpec => []Mirrored
<1>1. K!Mirrored => Mirrored
  BY DEF Mirrored
<1> QED BY <1>1, HostsParts, MarkovMirrored, PTL
=============================================================================
