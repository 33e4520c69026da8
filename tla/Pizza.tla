------------------------------- MODULE Pizza -------------------------------
(***************************************************************************)
(* The alarms of modules/pizza: set, ring, repeat, clear, the pool of ids, *)
(* and what a restart brings back.                                         *)
(*                                                                         *)
(* Time is counted in ticks; the scheduler may be late by any number.  An  *)
(* alarm is a timer object: the map and the closure of its armed timer     *)
(* both point to it, and its fields never change.  Listings change nothing *)
(* and are left out; of the stopwatch only its save is kept.               *)
(***************************************************************************)
EXTENDS Integers, FiniteSets

CONSTANTS
    Nicks,                      \* lower-cased
    Names,                      \* the greek ids; a fallback id is a number
    Delays, Repeats,            \* what may be asked for; repeat 0 is none
    Near, Soon,                 \* 30 s and 20 s: what Load makes of alarms due
    MinRepeat,                  \* 1800 s
    Confirm,                    \* 60 s: how long a first "clear" counts
    MaxTime, MaxAlarms, MaxFallback, MaxLives, MaxFails  \* bounds of the model

PizzaConstants ==
    /\ Delays \subseteq Nat \ {0} /\ Repeats \subseteq Nat
    /\ Soon \in 1..Near /\ Near <= MinRepeat /\ Confirm \in Nat
    /\ \A n \in Names : n \notin Nat

VARIABLES
    now,
    timers,     \* <<nick, id>> -> alarm
    armed,      \* the alarms whose timer is armed
    used,       \* ids.used
    fallback,   \* ids.fallback
    clearCheck, \* nick -> time of a first "clear"
    disk,       \* the timers last stored
    alarms,     \* alarms set so far; the number tells an alarm from the others
    lives, fails,
    \* history, for the properties only
    promised,   \* alarms set and neither cleared nor done
    reused,     \* a fallback id was given out that a pending alarm has
    behind      \* the last save failed

vars == <<now, timers, armed, used, fallback, clearCheck, disk, alarms, lives, fails,
          promised, reused, behind>>

With(f, x, v) == [y \in DOMAIN f \cup {x} |-> IF y = x THEN v ELSE f[y]]
Without(f, S) == [y \in DOMAIN f \ S |-> f[y]]
Key(a) == <<a.Nick, a.ID>>
IDs(f) == {k[2] : k \in DOMAIN f}

\* save: Put, its error not looked at.
save(ts) ==
    \/ disk' = ts /\ behind' = FALSE /\ UNCHANGED fails
    \/ fails < MaxFails /\ fails' = fails + 1 /\ behind' = TRUE /\ UNCHANGED disk

(***************************************************************************)
(* Setting and ringing                                                     *)
(***************************************************************************)
\* idPool.get: ten draws, any of which may hit a used name, then the
\* fallback, which is not looked up.  The ids it may return, with what
\* becomes of the pool.
get == {[id |-> id, used |-> used \cup {id}, fallback |-> fallback] : id \in Names \ used}
       \cup {[id |-> fallback + 1, used |-> used, fallback |-> fallback + 1] :
                 f \in {x \in {fallback} : used \cap Names # {}}}

\* schedule: a new object, armed besides those in as.  (Its early return is
\* never taken: every caller has seen that the time lies ahead.)
schedule(a, as) ==
    /\ timers' = With(timers, Key(a), a)
    /\ armed' = as \cup {a}

\* set: a spec that parses and lies ahead.
set(n, d, r) ==
    /\ alarms < MaxAlarms
    /\ \E g \in get :
       /\ used' = g.used /\ fallback' = g.fallback
       /\ reused' = (reused \/ g.id \in IDs(timers))
       /\ schedule([Nick |-> n, ID |-> g.id, When |-> now + d, Repeat |-> r,
                    uid |-> alarms], armed)
    /\ alarms' = alarms + 1
    /\ promised' = promised \cup {alarms}
    /\ save(timers')
    /\ UNCHANGED <<now, clearCheck, lives>>

\* A time that does not parse gives the id back; one that turns out to lie
\* in the past only now does not.
setRefused(leak) ==
    /\ fallback < MaxFallback
    /\ \E g \in get : /\ used' = IF leak THEN g.used ELSE g.used \ {g.id}
                      /\ fallback' = g.fallback
    /\ UNCHANGED <<now, timers, armed, clearCheck, disk, alarms, lives, fails,
                   promised, reused, behind>>

\* The stopwatch lives in the same record: its saves store the timers too.
startStop ==
    /\ save(timers)
    /\ UNCHANGED <<now, timers, armed, used, fallback, clearCheck, alarms, lives,
                   promised, reused>>

nextRepeat(a) == a.When + a.Repeat
GoesOn(a) == a.Repeat > 0 /\ nextRepeat(a) - now >= MinRepeat

\* fire: ring, then the next round or the end.
fire(a) ==
    /\ a \in armed /\ a.When <= now
    /\ IF GoesOn(a)
       THEN /\ schedule([a EXCEPT !.When = nextRepeat(a)], armed \ {a})
            /\ UNCHANGED <<used, promised>>
       ELSE /\ used' = used \ {a.ID}
            /\ timers' = Without(timers, {Key(a)})
            /\ armed' = armed \ {a}
            /\ promised' = promised \ {a.uid}
    /\ save(timers')
    /\ UNCHANGED <<now, fallback, clearCheck, alarms, lives, reused>>

(***************************************************************************)
(* Clearing                                                                *)
(***************************************************************************)
\* Mutant: the timers stay armed.
UnscheduledNone(as) == armed

Unscheduled(as) == armed \ as

Removed(ks) ==
    LET as == {timers[k] : k \in ks} IN
    /\ armed' = Unscheduled(as)
    /\ used' = used \ {k[2] : k \in ks}
    /\ timers' = Without(timers, ks)
    /\ promised' = promised \ {a.uid : a \in as}
    /\ save(timers')
    /\ UNCHANGED <<now, fallback, alarms, lives, reused>>

clear(k) ==
    /\ k \in DOMAIN timers
    /\ Removed({k})
    /\ UNCHANGED clearCheck

Asked(n) == n \in DOMAIN clearCheck /\ now - clearCheck[n] < Confirm

\* "clear" without an id: say again?
clearAsk(n) ==
    /\ ~Asked(n)
    /\ clearCheck' = With(clearCheck, n, now)
    /\ UNCHANGED <<now, timers, armed, used, fallback, disk, alarms, lives, fails,
                   promised, reused, behind>>

clearAll(n) ==
    /\ Asked(n)
    /\ clearCheck' = Without(clearCheck, {n})
    /\ LET mine == {k \in DOMAIN timers : k[1] = n} IN
       IF mine = {} THEN UNCHANGED <<now, timers, armed, used, fallback, disk, alarms, lives,
                                     fails, promised, reused, behind>>
       ELSE Removed(mine)

(***************************************************************************)
(* Time and restarts                                                       *)
(***************************************************************************)
\* A first "clear" that has run out counts for nothing and is forgotten.
Tick ==
    /\ now < MaxTime /\ now' = now + 1
    /\ clearCheck' = Without(clearCheck, {n \in DOMAIN clearCheck :
                                             now' - clearCheck[n] >= Confirm})
    /\ UNCHANGED <<timers, armed, used, fallback, disk, alarms, lives, fails,
                   promised, reused, behind>>

\* Load: what is due, or nearly so, rings soon.
Restored(a) == IF a.When - now < Near THEN [a EXCEPT !.When = now + Soon] ELSE a

\* The process ends, after Unload's save or without, and loads again.
Restart(clean) ==
    /\ lives < MaxLives /\ lives' = lives + 1
    /\ IF clean THEN save(timers) ELSE UNCHANGED <<disk, behind, fails>>
    /\ timers' = [k \in DOMAIN disk' |-> Restored(disk'[k])]
    /\ armed' = {timers'[k] : k \in DOMAIN timers'}
    /\ used' = IDs(disk')
    /\ fallback' = 0 /\ clearCheck' = [n \in {} |-> 0]
    /\ promised' = IF behind' THEN {a.uid : a \in armed'} ELSE promised
    /\ UNCHANGED <<now, alarms, reused>>

Init ==
    /\ now = 0
    /\ timers = [k \in {} |-> 0] /\ armed = {} /\ disk = timers
    /\ used = {} /\ fallback = 0 /\ clearCheck = [n \in {} |-> 0]
    /\ alarms = 0 /\ lives = 0 /\ fails = 0
    /\ promised = {} /\ reused = FALSE /\ behind = FALSE

Next ==
    \/ \E n \in Nicks : \/ \E d \in Delays, r \in Repeats : set(n, d, r)
                        \/ clearAsk(n) \/ clearAll(n)
    \/ startStop
    \/ \E leak \in BOOLEAN : setRefused(leak)
    \/ \E a \in armed : fire(a)
    \/ \E k \in DOMAIN timers : clear(k)
    \/ Tick
    \/ \E clean \in BOOLEAN : Restart(clean)

Spec == Init /\ [][Next]_vars

(***************************************************************************)
(* Property                                                                *)
(***************************************************************************)
\* An alarm somebody set and nobody cleared is going to ring, once, whatever
\* was set, cleared, repeated and restarted around it; one that was cleared
\* or is done is not: armed timers, the map and the promises made agree, and
\* no pending alarm's name is free to be given out.  (Unless a fallback id was
\* given out twice; after a failed save the store has the say.)
AlarmsKept == ~reused =>
    /\ {a.uid : a \in armed} = promised /\ Cardinality(armed) = Cardinality(promised)
    /\ armed = {timers[k] : k \in DOMAIN timers}
    /\ \A k \in DOMAIN timers : k = Key(timers[k])
    /\ IDs(timers) \cap Names \subseteq used
=============================================================================
