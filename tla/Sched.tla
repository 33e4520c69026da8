------------------------------- MODULE Sched -------------------------------
(***************************************************************************)
(* The one-shot timer heap of internal/sched/sched.go under the dispatcher *)
(* loop that drives it (internal/core/core.go, loop).                      *)
(*                                                                         *)
(* One goroutine, the dispatcher, owns the scheduler.  It arms a wake-up   *)
(* with NextIn, then either runs one work item or, when the wake-up fires, *)
(* RunDue.  Work items and timer callbacks are module code: they call      *)
(* Schedule and Unschedule any number of times.  A timer object is its tag *)
(* (its index in at); its closure is abstracted to whether it is nil.      *)
(***************************************************************************)
EXTENDS Naturals, Sequences, FiniteSets

CONSTANTS
    Delays,      \* the delays module code passes to After
    MaxTimers,   \* bound: how many timers one behaviour creates
    MaxTime,     \* bound: the last instant a timer may be due
    None         \* no wake-up armed

ASSUME SchedAssumption ==
    /\ Delays \subseteq Nat
    /\ MaxTimers \in Nat
    /\ MaxTime \in Nat
    /\ None \notin Nat

VARIABLES
    now,        \* time.Now
    at,         \* at[t]: the due time of the timer with tag t; Len(at) = s.seq
    heap,       \* the tags in s.heap, the cancelled ones included
    pending,    \* the keys of s.pending
    nilfn,      \* the tags whose t.fn was set to nil
    due,        \* RunDue's local slice: collected, not yet fired
    fired,      \* the tags whose callback was started
    phase,      \* where the dispatcher is
    deadline,   \* when the armed time.Timer fires, or None
    passSeq     \* s.seq when the current RunDue collected

vars == <<now, at, heap, pending, nilfn, due, fired, phase, deadline, passSeq>>

Phases == {"top", "select", "work", "firing", "callback", "done"}
Tags == 1..Len(at)

(* Mutant: the heap orders by due time only. *)
BeforeNoTie(t, u) == at[t] <= at[u]

(* timerHeap.Less: by due time, creation order breaking ties. *)
Before(t, u) == at[t] < at[u] \/ (at[t] = at[u] /\ t < u)

First(S) == {t \in S : \A u \in S \ {t} : Before(t, u)}

Init ==
    /\ now = 0
    /\ at = <<>>
    /\ heap = {} /\ pending = {} /\ nilfn = {} /\ due = {}
    /\ fired = {}
    /\ phase = "work"     \* Run loads the modules before it enters the loop
    /\ deadline = None
    /\ passSeq = 0

-----------------------------------------------------------------------------
(* Module code runs in a work item or in a timer callback. *)
InModuleCode == phase \in {"work", "callback"}

NewTag == Len(at) + 1

Schedule(d) ==
    /\ InModuleCode
    /\ Len(at) < MaxTimers
    /\ now + d <= MaxTime
    /\ at' = Append(at, now + d)
    /\ heap' = heap \cup {NewTag}
    /\ pending' = pending \cup {NewTag}
    /\ UNCHANGED <<now, nilfn, due, fired, phase, deadline, passSeq>>

(* The cancelled timer stays in the heap with a nil closure. *)
UnscheduleCancels(t) ==
    /\ t \in pending
    /\ pending' = pending \ {t}
    /\ nilfn' = nilfn \cup {t}

(* false: fired, cancelled before, or collected by the pass under way. *)
UnscheduleRefuses(t) ==
    /\ t \notin pending
    /\ UNCHANGED <<pending, nilfn>>

Unschedule(t) ==
    /\ InModuleCode
    /\ UnscheduleCancels(t) \/ UnscheduleRefuses(t)
    /\ UNCHANGED <<now, at, heap, due, fired, phase, deadline, passSeq>>

-----------------------------------------------------------------------------
(* Mutant: NextIn does not call dropCancelled. *)
DroppedNone == {}

(* dropCancelled pops nil closures off the top: what is left starts with   *)
(* the earliest live entry.                                                *)
Dropped == {t \in heap \cap nilfn : \A u \in heap \ nilfn : Before(t, u)}

NextIn ==
    /\ phase = "top"
    /\ phase' = "select"
    /\ heap' = heap \ Dropped
    /\ \/ heap' = {} /\ deadline' = None
       \/ \E t \in First(heap') : deadline' = IF at[t] > now THEN at[t] ELSE now
    /\ UNCHANGED <<now, at, pending, nilfn, due, fired, passSeq>>

(* case fn := <-c.work *)
StartWork ==
    /\ phase = "select"
    /\ phase' = "work"
    /\ UNCHANGED <<now, at, heap, pending, nilfn, due, fired, deadline, passSeq>>

(* Mutant: the wake-up is armed outside the for loop. *)
EndWorkNoRearm ==
    /\ phase = "work"
    /\ phase' = "select"
    /\ UNCHANGED <<now, at, heap, pending, nilfn, due, fired, deadline, passSeq>>

EndWork ==
    /\ phase = "work"
    /\ phase' = "top"
    /\ UNCHANGED <<now, at, heap, pending, nilfn, due, fired, deadline, passSeq>>

(* case <-timerC: RunDue pops every entry due now and skips the nil ones. *)
Popped == {t \in heap : at[t] <= now}

(* Mutant: the nil check is missing. *)
LiveAll == Popped

Live == Popped \ nilfn

RunDue ==
    /\ phase = "select"
    /\ deadline # None /\ deadline <= now
    /\ heap' = heap \ Popped
    /\ pending' = pending \ Live
    /\ due' = Live
    /\ passSeq' = Len(at)
    /\ phase' = "firing"
    /\ UNCHANGED <<now, at, nilfn, fired, deadline>>

(* fire: the callback starts; a panic in it is recovered, which is an      *)
(* EndCallback before it did all it wanted.                                *)
Fire(t) ==
    /\ phase = "firing"
    /\ t \in First(due)
    /\ due' = due \ {t}
    /\ fired' = fired \cup {t}
    /\ phase' = "callback"
    /\ UNCHANGED <<now, at, heap, pending, nilfn, deadline, passSeq>>

EndCallback ==
    /\ phase = "callback"
    /\ phase' = "firing"
    /\ UNCHANGED <<now, at, heap, pending, nilfn, due, fired, deadline, passSeq>>

EndPass ==
    /\ phase = "firing"
    /\ due = {}
    /\ phase' = "top"
    /\ UNCHANGED <<now, at, heap, pending, nilfn, due, fired, deadline, passSeq>>

(* case <-ctx.Done(): the loop returns, whatever is pending is abandoned. *)
CtxDone ==
    /\ phase = "select"
    /\ phase' = "done"
    /\ UNCHANGED <<now, at, heap, pending, nilfn, due, fired, deadline, passSeq>>

(* Time passes whatever the dispatcher does. *)
Tick ==
    /\ now < MaxTime
    /\ now' = now + 1
    /\ UNCHANGED <<at, heap, pending, nilfn, due, fired, phase, deadline, passSeq>>

Next ==
    \/ \E d \in Delays : Schedule(d)
    \/ \E t \in Tags : Unschedule(t)
    \/ \E t \in Tags : Fire(t)
    \/ NextIn \/ StartWork \/ EndWork \/ RunDue \/ EndCallback \/ EndPass
    \/ CtxDone \/ Tick

Spec == Init /\ [][Next]_vars

(* The dispatcher keeps running and module code returns; select picks at   *)
(* random among its ready cases, so an armed wake-up that is ready again   *)
(* and again is taken in the end.                                          *)
Fairness ==
    /\ WF_vars(Tick)
    /\ WF_vars(NextIn) /\ WF_vars(EndWork) /\ WF_vars(EndCallback) /\ WF_vars(EndPass)
    /\ WF_vars(\E t \in Tags : Fire(t))
    /\ SF_vars(RunDue)

FairSpec == Spec /\ Fairness

-----------------------------------------------------------------------------
TypeOK ==
    /\ now \in 0..MaxTime
    /\ at \in Seq(0..MaxTime) /\ Len(at) <= MaxTimers
    /\ heap \subseteq Tags /\ pending \subseteq Tags /\ nilfn \subseteq Tags
    /\ due \subseteq Tags /\ fired \subseteq Tags
    /\ phase \in Phases
    /\ deadline \in (0..MaxTime) \cup {None}
    /\ passSeq \in 0..Len(at)

(* Every timer has exactly one fate: it waits, is collected, has fired or  *)
(* was cancelled.  So no callback runs twice, none runs after an           *)
(* Unschedule that answered true, and none is forgotten (RunDue against    *)
(* Unschedule on the shared timer objects).                                *)
OneFate ==
    /\ Tags = pending \cup due \cup fired \cup nilfn
    /\ pending \cap due = {} /\ pending \cap fired = {} /\ pending \cap nilfn = {}
    /\ due \cap fired = {} /\ due \cap nilfn = {} /\ fired \cap nilfn = {}

(* While the dispatcher sleeps, the wake-up NextIn armed is that of a timer *)
(* that will fire, and no pending timer is due before it.                  *)
WakeupArmed ==
    phase = "select" =>
        IF pending = {} THEN deadline = None
        ELSE /\ deadline # None
             /\ \A t \in pending : at[t] >= deadline \/ deadline <= now
             /\ \E t \in pending : at[t] <= deadline

(* RunDue fires in due-time order, first come first served for equal       *)
(* times, across passes too: when t fires, no timer of an earlier pass     *)
(* that sorts before it is left, and t itself was not created in the       *)
(* running pass.                                                           *)
InOrder ==
    [][\A t \in fired' \ fired :
         /\ t <= passSeq
         /\ at[t] <= now
         /\ \A u \in 1..passSeq :
              at[u] < at[t] \/ (at[u] = at[t] /\ u < t) => u \notin pending \cup due]_vars

(* Every timer fires in the end, unless it is cancelled or the loop ends.  *)
FiresInTheEnd ==
    \A t \in 1..MaxTimers :
        t \in pending ~> (t \in fired \cup nilfn \/ phase = "done")

=============================================================================
