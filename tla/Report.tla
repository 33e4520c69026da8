------------------------------- MODULE Report -------------------------------
(***************************************************************************)
(* modules/weather: when the report of the morning is sent.  One timer for *)
(* the next weather_report_time on the wall clock; a generation orphans    *)
(* the timers armed before.  (What the report looks up: Weather.)          *)
(*                                                                         *)
(* Time is counted in hours.  The wall clock is the zone's: at ShiftAt it  *)
(* goes back by Shift hours, or forward when that is negative.             *)
(***************************************************************************)
EXTENDS Integers, FiniteSets

CONSTANTS
    Times,          \* values of weather_report_time, NoTime among them
    Day,            \* hours in a day: 24
    ShiftAt, Shift,
    MaxHour, MaxChanges     \* bounds of the model

NoTime == -1        \* any text that is no time of day
ReportConstants ==
    Day \in Nat \ {0} /\ Times \subseteq NoTime..(Day - 1) /\ ShiftAt \in Nat /\ Shift \in Int

\* The clock does not go back, and skips no time of a report.
OnlyForward ==
    /\ Shift <= 0
    /\ \A w \in ShiftAt..ShiftAt - Shift - 1 : w % Day \notin Times

VARIABLES
    hour,
    weather_report_time,
    reportGen,
    timers,         \* armed: [gen, at]
    channels,       \* weather_report_channels is not empty
    changes,        \* of the configuration, and restarts
    \* history, for the properties only
    reported,       \* the morning of the last report, as a wall clock time
    twice           \* a morning had two

armed == <<reportGen, timers>>
vars == <<hour, weather_report_time, armed, channels, changes, reported, twice>>

Change == changes < MaxChanges /\ changes' = changes + 1

\* The wall clock at t; and the hour that time.Date answers for w, in a zone east
\* of Greenwich: the later one of two, and a skipped w as on the old clock.
Wall(t) == IF t < ShiftAt THEN t ELSE t - Shift
Date(w) == IF w < ShiftAt - Shift THEN w ELSE w + Shift
Today == (Wall(hour) \div Day) * Day

NextReport(time) ==
    LET next == Date(Today + time) IN
    IF next > hour THEN next ELSE next + Day

scheduleReport(time, others) ==
    /\ reportGen' = reportGen + 1
    /\ timers' = others \cup (IF time = NoTime THEN {}
                              ELSE {[gen |-> reportGen', at |-> NextReport(time)]})

onConfChanged(time) ==
    /\ Change
    /\ weather_report_time' = time
    /\ scheduleReport(time, timers)
    /\ UNCHANGED <<hour, channels, reported, twice>>

ChannelsChange ==
    /\ Change
    /\ channels' = ~channels
    /\ UNCHANGED <<hour, weather_report_time, armed, reported, twice>>

\* report: its morning is the last one on the wall clock.
report ==
    IF channels
    THEN LET today == Today + weather_report_time
             morning == IF today <= Wall(hour) THEN today ELSE today - Day IN
         /\ twice' = (twice \/ morning <= reported)
         /\ reported' = morning
    ELSE UNCHANGED <<reported, twice>>

\* Mutant: a timer armed before the last change still counts.
NeverOrphaned(t) == FALSE

Orphaned(t) == t.gen # reportGen

ReportTimer(t) ==
    /\ t \in timers /\ t.at <= hour
    /\ IF Orphaned(t)
       THEN timers' = timers \ {t} /\ UNCHANGED <<reportGen, reported, twice>>
       ELSE report /\ scheduleReport(weather_report_time, timers \ {t})
    /\ UNCHANGED <<hour, weather_report_time, channels, changes>>

\* The process ends; Load schedules.
Restart ==
    /\ Change
    /\ scheduleReport(weather_report_time, {})
    /\ UNCHANGED <<hour, weather_report_time, channels, reported, twice>>

Tick ==
    /\ hour < MaxHour /\ hour' = hour + 1
    /\ UNCHANGED <<weather_report_time, armed, channels, changes, reported, twice>>

Init ==
    /\ hour = 0 /\ weather_report_time \in Times /\ reportGen = 1
    /\ timers = IF weather_report_time = NoTime THEN {}
                ELSE {[gen |-> 1, at |-> NextReport(weather_report_time)]}
    /\ channels = TRUE /\ changes = 0 /\ reported = -Day /\ twice = FALSE

Next ==
    \/ \E time \in Times : onConfChanged(time)
    \/ ChannelsChange
    \/ \E t \in timers : ReportTimer(t)
    \/ Restart
    \/ Tick

Spec == Init /\ [][Next]_vars

(***************************************************************************)
(* Property                                                                *)
(***************************************************************************)
\* However often the time is changed, the bot restarted and a timer late, no
\* morning has two reports, and when there is a time one timer will count.
OneADay ==
    /\ ~twice
    /\ Cardinality({t \in timers : ~Orphaned(t)}) = IF weather_report_time = NoTime THEN 0 ELSE 1
=============================================================================
