------------------------------- MODULE Guard -------------------------------
(***************************************************************************)
(* The spam guard of modules/guard: residents learned while it is off,     *)
(* strangers watched and thrown out while it is on, the password that lets *)
(* a newcomer in, and what restarts leave of the residents.                *)
(*                                                                         *)
(* A mask is user@host; one network.  Lines, joins, commands and the flush *)
(* timer run on the dispatcher, one step each.  A query's lines count for  *)
(* a channel of their own.  Senders without a mask change nothing.         *)
(***************************************************************************)
EXTENDS Integers, Sequences, FiniteSets

CONSTANTS
    Masks, Chans, Texts,
    guard_resident_days, seenSlack,     \* in ticks
    guard_line_rate, guard_line_window_sec, guard_dup_channels,
    guard_join_channels, guard_join_window_sec,
    MaxTime, MaxSightings, MaxBoots, MaxFails   \* bounds of the model

GuardConstants ==
    /\ guard_resident_days \in Nat /\ seenSlack \in 1..guard_resident_days
    /\ {guard_line_rate, guard_dup_channels, guard_join_channels} \subseteq Nat \ {0}
    /\ {guard_line_window_sec, guard_join_window_sec} \subseteq Nat

VARIABLES
    time,
    residents,  \* mask -> last seen
    unflushed,  \* m.dirty
    suspects,   \* mask -> suspect
    enabled,    \* the setting guard_enabled
    table,      \* the residents last stored
    setting,    \* guard_enabled as stored
    sightings, boots, fails,
    \* history, for the properties only
    trusted,    \* masks learned while the guard was off, or let in
    sighted,    \* trusted mask -> when it was last seen
    wronged     \* trusted masks thrown out

history == <<trusted, sighted, wronged>>
vars == <<time, residents, unflushed, suspects, enabled, table, setting,
          sightings, boots, fails, history>>

With(f, x, v) == [y \in DOMAIN f \cup {x} |-> IF y = x THEN v ELSE f[y]]
Without(f, S) == [y \in DOMAIN f \ S |-> f[y]]
NoSightings == [m \in {} |-> 0]

\* A Put that lands, or that fails, is reported and otherwise ignored.
Lands == UNCHANGED fails
Fails == fails < MaxFails /\ fails' = fails + 1

isResident(m) == m \in DOMAIN residents
Watched(m) == enabled /\ ~isResident(m)

(***************************************************************************)
(* Enforcement (enforce.go)                                                *)
(***************************************************************************)
suspectFor(m) == IF m \in DOMAIN suspects THEN suspects[m]
                 ELSE [lines |-> <<>>, joins |-> <<>>, channels |-> {}, actioned |-> FALSE]

\* prune drops stamps up to the first that lies in the window.
prune(stamps, window) ==
    LET old(j) == stamps[j].when < time - window
        pruned == CHOOSE i \in 0..Len(stamps) : /\ \A j \in 1..i : old(j)
                                                /\ i < Len(stamps) => ~old(i + 1)
    IN  SubSeq(stamps, pruned + 1, Len(stamps))
distinct(stamps) == Cardinality({stamps[i].text : i \in DOMAIN stamps})

dupChannels(s, x) ==
    LET same == Cardinality({i \in DOMAIN s.lines : s.lines[i].text = x})
        shared == Cardinality(s.channels) IN
    IF same > shared THEN shared ELSE same

\* watchLine and watchJoin: what becomes of the suspect.
watchLine(s, ch, x) ==
    LET t == [s EXCEPT !.channels = @ \cup {ch},
                       !.lines = prune(Append(@, [text |-> x, when |-> time]),
                                       guard_line_window_sec)] IN
    IF s.actioned THEN s
    ELSE [t EXCEPT !.actioned = \/ Len(t.lines) >= guard_line_rate
                                \/ dupChannels(t, x) >= guard_dup_channels]

watchJoin(s, ch) ==
    LET t == [s EXCEPT !.channels = @ \cup {ch},
                       !.joins = prune(Append(@, [text |-> ch, when |-> time]),
                                       guard_join_window_sec)] IN
    IF s.actioned THEN s
    ELSE [t EXCEPT !.actioned = distinct(t.joins) >= guard_join_channels]

\* enforce, when the suspect s of mask m is actioned just now.
enforce(m, s) ==
    wronged' = IF s.actioned /\ ~suspectFor(m).actioned THEN wronged \cup ({m} \cap trusted)
                                                        ELSE wronged

(***************************************************************************)
(* Sightings                                                               *)
(***************************************************************************)
\* record: the trust set is frozen while the guard is on.
record(m) ==
    LET known == isResident(m) IN
    IF (~known /\ enabled) \/ (known /\ time - residents[m] < seenSlack)
    THEN UNCHANGED <<residents, unflushed>>
    ELSE residents' = With(residents, m, time) /\ unflushed' = TRUE

Sighting(m) ==
    /\ sightings < MaxSightings /\ sightings' = sightings + 1
    /\ record(m)
    /\ trusted' = IF enabled THEN trusted ELSE trusted \cup {m}
    /\ sighted' = IF m \in trusted' THEN With(sighted, m, time) ELSE sighted
    /\ UNCHANGED <<time, enabled, table, setting, boots, fails>>

\* A line or a join of m turns its suspect into s.
Watch(m, s) ==
    IF Watched(m) THEN suspects' = With(suspects, m, s) /\ enforce(m, s)
                  ELSE UNCHANGED <<suspects, wronged>>

onSeen(m, ch, x) == Sighting(m) /\ Watch(m, watchLine(suspectFor(m), ch, x))
onJoin(m, ch) == Sighting(m) /\ Watch(m, watchJoin(suspectFor(m), ch))

\* Mutant: who is let in is not marked for saving.
LetInUnsaved == UNCHANGED unflushed

LetIn == unflushed' = TRUE

\* A query with the right password; a wrong one is only answered.
tryAuth(m) ==
    /\ sightings < MaxSightings /\ sightings' = sightings + 1
    /\ residents' = With(residents, m, time) /\ LetIn
    /\ suspects' = Without(suspects, {m})
    /\ trusted' = trusted \cup {m} /\ sighted' = With(sighted, m, time)
    /\ UNCHANGED <<time, enabled, table, setting, boots, fails, wronged>>

\* Conf.Set and core's Put of the settings.
ConfSet(on) ==
    /\ enabled' = on
    /\ (setting' = on /\ Lands) \/ (UNCHANGED setting /\ Fails)
    /\ UNCHANGED <<time, residents, unflushed, table, sightings, boots, history>>

\* "guard on", "guard off", and the setting changed as any other.
guardOn == ConfSet(TRUE) /\ UNCHANGED suspects
guardOff == ConfSet(FALSE) /\ suspects' = NoSightings
confOff == ConfSet(FALSE) /\ UNCHANGED suspects

(***************************************************************************)
(* Flushes and restarts                                                    *)
(***************************************************************************)
\* flush: nothing to do unless something changed; retried by the next one.
flush ==
    \/ ~unflushed /\ UNCHANGED <<table, unflushed, fails>>
    \/ unflushed /\ table' = residents /\ unflushed' = FALSE /\ Lands
    \/ unflushed /\ UNCHANGED <<table, unflushed>> /\ Fails

FlushTimer ==
    /\ unflushed /\ flush
    /\ UNCHANGED <<time, residents, suspects, enabled, setting, sightings, boots, history>>

Tick ==
    /\ time < MaxTime /\ time' = time + 1
    /\ UNCHANGED <<residents, unflushed, suspects, enabled, table, setting, sightings, boots,
                   fails, history>>

\* age: the residents left of rs.
age(rs) == [m \in {x \in DOMAIN rs : rs[x] >= time - guard_resident_days} |-> rs[m]]

\* The end, with a flush that lands or without, and Load.  Who was seen lately stays,
\* who was not for long goes, unless the table was not written in time.
Restart(clean) ==
    /\ boots < MaxBoots /\ boots' = boots + 1
    /\ \/ clean /\ \/ ~unflushed /\ UNCHANGED <<table, fails>>
                   \/ unflushed /\ table' = residents /\ Lands
       \/ ~clean /\ UNCHANGED <<table, fails>>
    /\ residents' = age(table')
    /\ unflushed' = (DOMAIN residents' # DOMAIN table')
    /\ suspects' = NoSightings /\ enabled' = setting
    /\ sighted' = IF clean THEN sighted ELSE table
    /\ LET kept == IF clean THEN trusted ELSE trusted \cap DOMAIN table
           lately == {m \in kept : time - sighted'[m] <= guard_resident_days - seenSlack + 1}
           longAgo == {m \in kept : time - sighted'[m] > guard_resident_days} IN
       trusted' = lately \cup ((kept \ longAgo) \cap DOMAIN residents')
    /\ UNCHANGED <<time, setting, sightings, wronged>>

Init ==
    /\ time = 0 /\ residents = NoSightings /\ unflushed = FALSE /\ suspects = NoSightings
    /\ enabled = FALSE /\ table = NoSightings /\ setting = FALSE
    /\ sightings = 0 /\ boots = 0 /\ fails = 0
    /\ trusted = {} /\ sighted = NoSightings /\ wronged = {}

Next ==
    \/ \E m \in Masks : \/ tryAuth(m)
                        \/ \E ch \in Chans : onJoin(m, ch) \/ \E x \in Texts : onSeen(m, ch, x)
    \/ guardOn \/ guardOff \/ confOff
    \/ FlushTimer \/ Tick
    \/ \E clean \in BOOLEAN : Restart(clean)

Spec == Init /\ [][Next]_vars

(***************************************************************************)
(* Property                                                                *)
(***************************************************************************)
\* Residents are exactly those learned while the guard was off or let in by
\* password, across flushes, restarts and aging: no stranger talks its way in
\* while the guard is on, nobody seen lately is forgotten, nobody trusted was
\* thrown out; and no stranger is spared whose recent lines or joins reach
\* the limits.
TrustHolds ==
    /\ DOMAIN residents = trusted /\ wronged = {}
    /\ \A m \in DOMAIN suspects : suspects[m].actioned
          \/ /\ Len(suspects[m].lines) < guard_line_rate
             /\ distinct(suspects[m].joins) < guard_join_channels
=============================================================================
