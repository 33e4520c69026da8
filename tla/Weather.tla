------------------------------ MODULE Weather ------------------------------
(***************************************************************************)
(* modules/weather: lookups that wait for the geocoder, for buienradar,    *)
(* open-meteo and meteoalarm; each nick's own place; the alerts told to    *)
(* the channels.                                                           *)
(*                                                                         *)
(* A lookup is the documents it still needs, in order.  What a cache holds *)
(* is at hand, the rest is asked for, one document at a time; the fetcher  *)
(* refuses a url it is fetching, and the module does not look at that.     *)
(* Texts, numbers and the parsing are left out: a document is good or not. *)
(* Alerts are those of the watched areas.                                  *)
(***************************************************************************)
EXTENDS Integers, Sequences, FiniteSets

CONSTANTS
    Nicks, Places,
    Kind,           \* place -> "near" a Dutch station, "far" from any, "benelux", "abroad"
    Named,          \* place -> what the geocoder calls it
    Home,           \* weather_home
    Alerts,         \* identifiers of warnings
    feedTTL, rainTTL, warnTTL, warnPoll, Forget,    \* in ticks
    Life,           \* how long an alert is in force
    MaxClock, MaxEvents    \* bounds of the model

Never == -1
NoJob == -1         \* the id of a lookup nobody asked for

WeatherConstants ==
    /\ Home \in Places /\ Named \in [Places -> Places]
    /\ {feedTTL, rainTTL, warnTTL, warnPoll, Forget, Life, MaxEvents} \subseteq Nat
    /\ warnTTL < warnPoll /\ Life <= Forget

VARIABLES
    clock,
    asked,      \* url -> the lookup whose request is under way
    landed,     \* answers in the work queue, in order: [job, ok]
    geos, geoStored,        \* places geocoded, those stored
    feedAt, rainAt, warnAt, \* when the caches were filled; rainAt by place
    warnings,               \* the alerts of the last warning document
    homes, homeStored,      \* nick -> own place
    alerts,     \* alert -> when it expires, as published
    seen, seenStored, dirty,    \* seenWarnings, as stored, marked for the saver
    pollAt,
    on,         \* report channels and watched areas are configured
    asks, events,
    \* history, for the properties only
    answers,    \* lookup -> how often it was answered
    refused,    \* lookups whose url was being fetched already, or lost in a restart
    told, retold, unmarked  \* alerts broadcast; broadcast again; whose mark a crash lost

lookups == <<asked, landed>>
caches == <<geos, geoStored, feedAt, rainAt, warnAt, warnings>>
own == <<homes, homeStored>>
marks == <<seen, seenStored, dirty, told, retold, unmarked>>
settled == <<answers, refused>>
vars == <<clock, lookups, caches, own, marks, alerts, pollAt, on, settled, asks, events>>

\* What people and the world do, which the bound counts.
Event == events < MaxEvents /\ events' = events + 1

Nothing == [x \in {} |-> 0]
With(f, x, v) == [y \in DOMAIN f \cup {x} |-> IF y = x THEN v ELSE f[y]]
Without(f, S) == [y \in DOMAIN f \ S |-> f[y]]

(***************************************************************************)
(* What a lookup needs: urls, and for some what to take in their stead     *)
(***************************************************************************)
geo(p) == <<"geo", p>>
feed == <<"feed", Home>>
rain(p) == <<"rain", p>>
now(p) == <<"now", p>>          \* open-meteo has a url for each question
hours(p) == <<"hours", p>>
minutes(p) == <<"minutes", p>>
warn == <<"warn", Home>>

Need(u) == [url |-> u, or |-> {}]
Else(u, needs) == [url |-> u, or |-> {needs}]

withFeed(p) == CASE Kind[p] = "near" -> <<Need(feed)>>
                 [] Kind[p] = "far" -> <<Need(feed), Need(now(p))>>
                 [] OTHER -> <<Need(now(p))>>

withConditions(p) == CASE Kind[p] = "near" -> <<Else(feed, <<Need(now(p))>>)>>
                       [] Kind[p] = "far" -> <<Else(feed, <<>>), Need(now(p))>>
                       [] OTHER -> <<Need(now(p))>>

withRain(p) == <<Need(IF Kind[p] = "abroad" THEN minutes(p) ELSE rain(p))>>

Job(kind, n, p, needs) ==
    [id |-> asks, kind |-> kind, nick |-> n, place |-> p, on |-> on, needs |-> needs]

cbWeer(n, p) == Job("weer", n, p, <<Need(geo(p))>> \o withFeed(p))
openMeteoForecast(n, p) == Job("full", n, p, <<Need(geo(p)), Need(hours(p))>>)
cbRegen(n, p) == Job("regen", n, p, <<Need(geo(p))>> \o withRain(p))
cbWeerdiff(n, p, q) == Job("diff", n, p, <<Need(geo(p)), Need(geo(q))>>
                                         \o withConditions(p) \o withConditions(q))
handleHome(n, p) == Job("home", n, p, <<Need(geo(p))>>)
cbWeeralarm(n) == Job("alarm", n, Home, <<Need(warn)>>)

checkWarnings == [Job("poll", "", Home, <<Need(warn)>>) EXCEPT !.id = NoJob]
morning == [Job("report", "", Home, <<Need(feed), Need(geo(Home)), Need(rain(Home))>>)
            EXCEPT !.id = NoJob]

homeOf(n) == IF n \in DOMAIN homes THEN homes[n] ELSE Home

\* What nick n can ask; a place not named is the nick's own.
Questions(n) ==
    {cbWeeralarm(n), cbWeer(n, homeOf(n))} \cup
    UNION {{cbWeer(n, p), openMeteoForecast(n, p), cbRegen(n, p), handleHome(n, p),
            cbWeerdiff(n, homeOf(n), p)} : p \in Places}

Current(at, ttl) == at # Never /\ clock - at < ttl
AtHand(u) ==
    CASE u[1] = "geo" -> u[2] \in geos
      [] u[1] = "feed" -> Current(feedAt, feedTTL)
      [] u[1] = "rain" -> u[2] \in DOMAIN rainAt /\ clock - rainAt[u[2]] < rainTTL
      [] u[1] = "warn" -> Current(warnAt, warnTTL)
      [] OTHER -> FALSE

(***************************************************************************)
(* How a lookup goes on                                                    *)
(***************************************************************************)
\* saveHomes: a Put whose error is only logged.
saveHomes == homeStored' = homes' \/ UNCHANGED homeStored

Answer(job) ==
    /\ answers' = IF job.id = NoJob THEN answers ELSE [answers EXCEPT ![job.id] = @ + 1]
    /\ UNCHANGED refused

\* Mutant: the marks are left to the next alert's save.
MarkNothing == UNCHANGED dirty

MarkSeen == dirty' = TRUE

\* checkWarnings' callback: new alerts are told, old marks go.
Broadcast(ws) ==
    LET new == ws \ DOMAIN seen
        all == [w \in DOMAIN seen \cup new |-> IF w \in new THEN clock ELSE seen[w]] IN
    /\ seen' = Without(all, {w \in DOMAIN all : clock - all[w] > Forget})
    /\ MarkSeen
    /\ told' = told \cup new
    /\ retold' = (retold \cup (new \cap told))
    /\ UNCHANGED <<seenStored, unmarked>>

\* The lookup has all it needs.
Done(job) ==
    /\ Answer(job)
    /\ IF job.kind = "home" THEN homes' = With(homes, job.nick, Named[job.place]) /\ saveHomes
                            ELSE UNCHANGED own
    /\ IF job.kind = "poll" /\ job.on THEN Broadcast(warnings') ELSE UNCHANGED marks
    /\ UNCHANGED asked

\* Fetch: false, and nothing, when the url is being fetched.
Ask(url, job) ==
    /\ IF url \in DOMAIN asked
       THEN /\ refused' = refused \cup ({job.id} \ {NoJob})
            /\ UNCHANGED <<asked, answers>>
       ELSE asked' = With(asked, url, job) /\ UNCHANGED <<answers, refused>>
    /\ UNCHANGED <<own, marks>>

\* On, past what is at hand (the caches are up to date already).  The lookup is
\* bound first, so that the prime is the caches' alone.
Proceed(lookup) ==
    \E job \in {lookup} :
        LET missing == {i \in DOMAIN job.needs : ~AtHand(job.needs[i].url)'}
            first == CHOOSE i \in missing : \A j \in missing : i <= j
            rest == SubSeq(job.needs, first, Len(job.needs)) IN
        IF missing = {} THEN Done(job) ELSE Ask(rest[1].url, [job EXCEPT !.needs = rest])

\* The answer is no good: another source, or an apology.
Apologise(job) ==
    LET other == Head(job.needs).or IN
    IF other = {} THEN Answer(job) /\ UNCHANGED <<asked, own, marks>>
    ELSE Proceed([job EXCEPT !.needs = (CHOOSE needs \in other : TRUE) \o Tail(@)])

(***************************************************************************)
(* Commands                                                                *)
(***************************************************************************)
Command ==
    /\ Event /\ asks' = asks + 1
    /\ UNCHANGED <<clock, landed, caches, alerts, pollAt, on>>
    /\ \E n \in Nicks : \E lookup \in Questions(n) : Proceed(lookup)

\* "home=": back to weather_home.
ClearHome(n) ==
    /\ n \in DOMAIN homes /\ Event
    /\ homes' = Without(homes, {n}) /\ saveHomes
    /\ UNCHANGED <<clock, lookups, caches, marks, alerts, pollAt, on, settled, asks>>

(***************************************************************************)
(* The fetcher                                                             *)
(***************************************************************************)
\* The url is free before its answer is handled.
Land(url, ok) ==
    /\ url \in DOMAIN asked
    /\ asked' = Without(asked, {url})
    /\ landed' = Append(landed, [job |-> asked[url], ok |-> ok])
    /\ IF ok THEN UNCHANGED events ELSE Event
    /\ UNCHANGED <<clock, caches, own, marks, alerts, pollAt, on, settled, asks>>

\* parseWarnings: those still in force.
parseWarnings == {w \in DOMAIN alerts : alerts[w] >= clock}

Cached(url) ==
    /\ IF url[1] = "geo" THEN /\ geos' = geos \cup {url[2]}
                              /\ geoStored' = geoStored \cup {url[2]} \/ UNCHANGED geoStored
                         ELSE UNCHANGED <<geos, geoStored>>
    /\ feedAt' = IF url = feed THEN clock ELSE feedAt
    /\ rainAt' = IF url[1] # "rain" THEN rainAt
                 ELSE With(Without(rainAt, {p \in DOMAIN rainAt : clock - rainAt[p] >= rainTTL}),
                           url[2], clock)
    /\ IF url = warn THEN warnings' = parseWarnings /\ warnAt' = clock
                     ELSE UNCHANGED <<warnings, warnAt>>

Handle ==
    /\ landed # <<>> /\ landed' = Tail(landed)
    /\ UNCHANGED <<clock, alerts, pollAt, on, asks, events>>
    /\ LET job == Head(landed).job IN
       IF Head(landed).ok
       THEN Cached(Head(job.needs).url) /\ Proceed([job EXCEPT !.needs = Tail(@)])
       ELSE UNCHANGED caches /\ Apologise(job)

(***************************************************************************)
(* Warnings and the report                                                 *)
(***************************************************************************)
Issue(w) ==
    /\ w \notin DOMAIN alerts /\ Event
    /\ alerts' = With(alerts, w, clock + Life)
    /\ UNCHANGED <<clock, lookups, caches, own, marks, pollAt, on, settled, asks>>

\* pollWarnings: what is cached is not good enough, and the next poll.
PollTimer ==
    /\ pollAt <= clock /\ pollAt' = clock + warnPoll
    /\ warnAt' = Never
    /\ UNCHANGED <<clock, landed, geos, geoStored, feedAt, rainAt, warnings, alerts,
                   on, asks, events>>
    /\ Proceed(checkWarnings)

SaverWrites ==
    /\ dirty /\ dirty' = FALSE
    /\ seenStored' = seen
    /\ UNCHANGED <<clock, lookups, caches, own, seen, told, retold, unmarked, alerts, pollAt, on,
                   settled, asks, events>>

ConfOn ==
    /\ Event /\ on' = ~on
    /\ UNCHANGED <<clock, lookups, caches, own, marks, alerts, pollAt, settled, asks>>

\* The report of the morning (Report says when).
report ==
    /\ on /\ Event
    /\ UNCHANGED <<clock, landed, caches, alerts, pollAt, on, asks>>
    /\ Proceed(morning)

Tick ==
    /\ clock < MaxClock /\ clock' = clock + 1
    /\ UNCHANGED <<lookups, caches, own, marks, alerts, pollAt, on, settled, asks, events>>

\* The process ends, after the saver's last flush or without, and loads again.
Restart(flushed) ==
    /\ Event
    /\ seenStored' = IF flushed THEN seen ELSE seenStored
    /\ seen' = seenStored' /\ dirty' = FALSE
    /\ unmarked' = IF dirty /\ ~flushed THEN unmarked \cup (DOMAIN seen \ DOMAIN seenStored)
                                       ELSE unmarked
    /\ geos' = geoStored /\ homes' = homeStored
    /\ feedAt' = Never /\ rainAt' = Nothing /\ warnAt' = Never /\ warnings' = {}
    /\ refused' = refused \cup {id \in 0..asks - 1 : answers[id] = 0}
    /\ landed' = <<>> /\ asked' = With(Nothing, warn, checkWarnings)
    /\ pollAt' = clock + warnPoll
    /\ UNCHANGED <<clock, geoStored, homeStored, told, retold, alerts, on, answers, asks>>

Init ==
    /\ clock = 0 /\ landed = <<>>
    /\ geos = {} /\ geoStored = {} /\ feedAt = Never /\ rainAt = Nothing
    /\ warnAt = Never /\ warnings = {} /\ homes = Nothing /\ homeStored = Nothing
    /\ alerts = Nothing /\ seen = Nothing /\ seenStored = Nothing /\ dirty = FALSE
    /\ asks = 0 /\ events = 0 /\ on = TRUE /\ asked = With(Nothing, warn, checkWarnings)
    /\ pollAt = warnPoll
    /\ answers = [id \in 0..MaxEvents - 1 |-> 0] /\ refused = {}
    /\ told = {} /\ retold = {} /\ unmarked = {}

Next ==
    \/ Command
    \/ \E n \in Nicks : ClearHome(n)
    \/ \E url \in DOMAIN asked, ok \in BOOLEAN : Land(url, ok)
    \/ Handle
    \/ \E w \in Alerts : Issue(w)
    \/ PollTimer \/ SaverWrites
    \/ ConfOn \/ report
    \/ Tick
    \/ \E flushed \in BOOLEAN : Restart(flushed)

Spec == Init /\ [][Next]_vars

(***************************************************************************)
(* Property                                                                *)
(***************************************************************************)
Waiting(id) == {u \in DOMAIN asked : asked[u].id = id}
Handed(id) == {i \in DOMAIN landed : landed[i].job.id = id}

\* Whatever lands in whatever order, fails, or is lost in a restart: a command
\* is answered once, or still has one request or answer under way, or met its
\* url being fetched for another and is never answered.  An alert is told to the
\* channels once, but for one whose mark a crash came too early for.
ToldOnce ==
    /\ \A id \in 0..asks - 1 :
          answers[id] + Cardinality(Waiting(id)) + Cardinality(Handed(id))
              + Cardinality({id} \cap refused) = 1
    /\ retold \subseteq unmarked
=============================================================================
