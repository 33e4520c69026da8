------------------------------- MODULE Remind -------------------------------
(***************************************************************************)
(* modules/remind: cron reminders, each with one armed timer for its next  *)
(* occurrence, and the notepad, both kept across restarts.                 *)
(*                                                                         *)
(* Time is counted in minutes from 1; 0 stands for the zero time.  The     *)
(* scheduler may be late by any number.  A cron line is its period, or     *)
(* Never for one no day satisfies (the 30th of February).  Nick, channel   *)
(* and title of a note only choose it: there is a set of titles.  Recall   *)
(* and the listings change nothing.                                        *)
(***************************************************************************)
EXTENDS Integers, Sequences, FiniteSets

CONSTANTS
    Nicks, Channels,
    Crons,                      \* periods, and Never
    Titles,
    maxRemembered,              \* 3
    MaxMinute, MaxRequests, MaxLoads, MaxFails  \* bounds of the model

Never == 0
RemindConstants == Crons \subseteq Nat /\ maxRemembered \in Nat \ {0}

VARIABLES
    minute,
    reminders,  \* <<nick, id>> -> [Nick, Channel, cron, uid]
    maxID,
    waiting,    \* armed timers: [who, at], who the reminder of the closure
    notes,      \* title -> values, latest first
    kept,       \* [reminders, notes] as stored
    loads, fails,
    \* history, for the properties only
    requests,   \* adds, remembers and forgets so far: tells them apart
    owed,       \* uids set and not cleared
    rung,       \* uid -> when it last rang
    values,     \* title -> everything remembered since it was last forgotten
    unstored    \* entries of kept whose last Put failed or was not tried

mem == <<reminders, maxID, waiting, notes>>
history == <<owed, rung, values>>
vars == <<minute, mem, kept, loads, fails, requests, history, unstored>>

With(f, x, v) == [y \in DOMAIN f \cup {x} |-> IF y = x THEN v ELSE f[y]]
Without(f, S) == [y \in DOMAIN f \ S |-> f[y]]
Nothing == [x \in {} |-> 0]

\* save: two Puts, the second not tried when the first fails.
save(rs, ns) ==
    \/ kept' = [reminders |-> rs, notes |-> ns] /\ unstored' = {} /\ UNCHANGED fails
    \/ /\ fails < MaxFails /\ fails' = fails + 1
       /\ \/ UNCHANGED kept /\ unstored' = {"reminders", "notes"}
          \/ kept' = [kept EXCEPT !.reminders = rs] /\ unstored' = {"notes"}

Request == requests < MaxRequests /\ requests' = requests + 1

(***************************************************************************)
(* Reminders                                                               *)
(***************************************************************************)
\* cron.Schedule.Next: the first occurrence after t, or the zero time.
CronNext(c, t) == IF c = Never THEN 0 ELSE (t \div c + 1) * c

setTimer(r) == [who |-> r, at |-> CronNext(r.cron, minute)]

addReminder(n, ch, c) ==
    /\ Request
    /\ LET r == [Nick |-> n, Channel |-> ch, cron |-> c, uid |-> requests] IN
       /\ reminders' = With(reminders, <<n, maxID>>, r)
       /\ waiting' = waiting \cup {setTimer(r)}
       /\ owed' = owed \cup {r.uid}
    /\ maxID' = maxID + 1
    /\ save(reminders', notes)
    /\ UNCHANGED <<minute, notes, loads, rung, values>>

\* cbRemind's clear: of the ids asked for, those set by n in this channel.
clear(n, ch, ids) ==
    LET found == {k \in DOMAIN reminders : /\ k[1] = n /\ k[2] \in ids
                                           /\ reminders[k].Channel = ch}
        gone == {reminders[k].uid : k \in found} IN
    /\ found # {}
    /\ reminders' = Without(reminders, found)
    /\ waiting' = {t \in waiting : t.who.uid \notin gone}
    /\ owed' = owed \ gone
    /\ save(reminders', notes)
    /\ UNCHANGED <<minute, maxID, notes, loads, requests, rung, values>>

\* fire: ring and arm the next occurrence; nothing to save.
fire(t) ==
    /\ t \in waiting /\ t.at <= minute
    /\ waiting' = (waiting \ {t}) \cup {setTimer(t.who)}
    /\ rung' = With(rung, t.who.uid, minute)
    /\ UNCHANGED <<minute, reminders, maxID, notes, kept, loads, fails, requests, owed, values,
                   unstored>>

(***************************************************************************)
(* The notepad                                                             *)
(***************************************************************************)
Noted(f, title) == IF title \in DOMAIN f THEN f[title] ELSE <<>>
Latest(s) == SubSeq(s, 1, IF Len(s) > maxRemembered THEN maxRemembered ELSE Len(s))

cbRemember(title) ==
    /\ Request
    /\ notes' = With(notes, title, Latest(<<requests>> \o Noted(notes, title)))
    /\ values' = With(values, title, <<requests>> \o Noted(values, title))
    /\ save(reminders, notes')
    /\ UNCHANGED <<minute, reminders, maxID, waiting, loads, owed, rung>>

cbForget(title) ==
    /\ title \in DOMAIN notes
    /\ notes' = Without(notes, {title})
    /\ values' = Without(values, {title})
    /\ save(reminders, notes')
    /\ UNCHANGED <<minute, reminders, maxID, waiting, loads, requests, owed, rung>>

(***************************************************************************)
(* Time and restarts                                                       *)
(***************************************************************************)
Tick ==
    /\ minute < MaxMinute /\ minute' = minute + 1
    /\ UNCHANGED <<mem, kept, loads, fails, requests, history, unstored>>

\* Mutant: the ids in use are counted, where the highest is what matters.
FreshIDCounted(rs) == Cardinality(DOMAIN rs) + 1

\* Load's maxID: past every stored id.
FreshID(rs) == 1 + (CHOOSE i \in {0} \cup {k[2] : k \in DOMAIN rs} :
                       \A k \in DOMAIN rs : k[2] <= i)

\* The process ends, after Unload's save or without, and loads again.
Restart(clean) ==
    /\ loads < MaxLoads /\ loads' = loads + 1
    /\ IF clean THEN save(reminders, notes) ELSE UNCHANGED <<kept, unstored, fails>>
    /\ reminders' = kept'.reminders /\ notes' = kept'.notes
    /\ waiting' = {setTimer(reminders'[k]) : k \in DOMAIN reminders'}
    /\ maxID' = FreshID(reminders')
    /\ owed' = IF "reminders" \in unstored' THEN {reminders'[k].uid : k \in DOMAIN reminders'}
                                            ELSE owed
    /\ values' = IF "notes" \in unstored' THEN notes' ELSE values
    /\ UNCHANGED <<minute, requests, rung>>

Init ==
    /\ minute = 1 /\ reminders = Nothing /\ maxID = 1 /\ waiting = {} /\ notes = Nothing
    /\ kept = [reminders |-> Nothing, notes |-> Nothing]
    /\ loads = 0 /\ fails = 0 /\ requests = 0
    /\ owed = {} /\ rung = Nothing /\ values = Nothing /\ unstored = {}

Next ==
    \/ \E n \in Nicks, ch \in Channels :
          \/ \E c \in Crons : addReminder(n, ch, c)
          \/ \E ids \in SUBSET (1..MaxRequests) : clear(n, ch, ids)
    \/ \E t \in waiting : fire(t)
    \/ \E title \in Titles : cbRemember(title) \/ cbForget(title)
    \/ Tick
    \/ \E clean \in BOOLEAN : Restart(clean)

Spec == Init /\ [][Next]_vars

(***************************************************************************)
(* Property                                                                *)
(***************************************************************************)
\* Whatever is added, cleared and restarted: each reminder set and not cleared
\* has one timer, armed for its next occurrence and never for one that has
\* rung, and its owner can reach it by its id; nobody else's has.  The notepad
\* has the latest values.  (After a failed save the store has the say; a line
\* no day satisfies rings at once and again at once.)
RemindersKept ==
    /\ {t.who.uid : t \in waiting} = owed /\ Cardinality(waiting) = Cardinality(owed)
    /\ {t.who : t \in waiting} = {reminders[k] : k \in DOMAIN reminders}
    /\ \A k \in DOMAIN reminders : k[1] = reminders[k].Nick
    /\ \A t \in waiting : t.who.cron # Never =>
          /\ t.at <= minute + t.who.cron
          /\ t.who.uid \in DOMAIN rung => rung[t.who.uid] < t.at
    /\ \A title \in Titles :
          Noted(notes, title) = Latest(Noted(values, title))
=============================================================================
