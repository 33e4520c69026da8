------------------------------- MODULE Ticker -------------------------------
(***************************************************************************)
(* modules/ticker: symbols that channels subscribe to, each refreshed by   *)
(* one timer and one request at a time, told at most every six hours       *)
(* unless the price jumps.                                                 *)
(*                                                                         *)
(* A target is a server and a channel (or a nick).  An answer is an error, *)
(* no JSON, JSON without a price, or a price that has jumped or not; of    *)
(* the samples only their number is kept.  What the alarms, the graph and  *)
(* the lists say changes nothing and is left out.                          *)
(***************************************************************************)
EXTENDS Integers, Sequences, FiniteSets

CONSTANTS
    Symbols, Targets, Users,
    maxData, maxJSONErrors,
    Minute, refreshEvery, Hour, broadcastGap,   \* in ticks
    MaxClock, MaxRequests, MaxLanded, MaxRestarts, MaxFails     \* bounds of the model

NoTag == 0
Never == -100
TickerConstants == /\ {Minute, refreshEvery, Hour, broadcastGap} \subseteq Nat
                   /\ Minute <= refreshEvery /\ refreshEvery <= Hour
                   /\ maxData \in Nat \ {0} /\ maxJSONErrors \in Nat

VARIABLES
    clock,
    tickers,    \* symbol -> target -> user -> has alarms
    fetchers,   \* symbol -> [data, tag, tries, errors, down, last]
    timers,     \* armed: [sym, tag, at]
    asked,      \* symbols whose url is being fetched
    landed,     \* answers in the work queue: [sym, res]
    stored,     \* [tickers, data, state] as Put
    requests, restarts, fails,
    \* history, for the properties only
    toldAt,     \* symbol -> when its price was last told
    early,      \* a price that had not jumped was told within the gap
    unsaved     \* parts of stored whose last Put failed or was not tried

mem == <<tickers, fetchers, timers>>
net == <<asked, landed>>
disk == <<stored, unsaved, fails>>
told == <<toldAt, early>>
bounds == <<requests, restarts>>
vars == <<clock, mem, net, disk, told, bounds>>

With(f, x, v) == [y \in DOMAIN f \cup {x} |-> IF y = x THEN v ELSE f[y]]
Without(f, x) == [y \in DOMAIN f \ {x} |-> f[y]]
Nothing == [x \in {} |-> 0]

Request == requests < MaxRequests /\ requests' = requests + 1

Fresh == [data |-> 0, tag |-> NoTag, tries |-> 0, errors |-> 0, down |-> FALSE, last |-> Never]
fetcherFor(fs, sym) == IF sym \in DOMAIN fs THEN fs[sym] ELSE Fresh

(***************************************************************************)
(* save: the subscriptions, the samples and what was told last, in three   *)
(* Puts; after one that fails the others are not tried.                    *)
(***************************************************************************)
Parts == <<"tickers", "data", "state">>
Image(ts, fs) == [tickers |-> ts,
                  data |-> [s \in {s \in DOMAIN fs : fs[s].data > 0} |-> fs[s].data],
                  state |-> [s \in DOMAIN fs |-> fs[s].last]]
Puts(image, done) ==
    /\ stored' = [p \in DOMAIN stored |-> IF \E i \in 1..done : Parts[i] = p THEN image[p] ELSE stored[p]]
    /\ unsaved' = {Parts[i] : i \in done + 1..3}

save(ts, fs) ==
    \/ Puts(Image(ts, fs), 3) /\ UNCHANGED fails
    \/ fails < MaxFails /\ fails' = fails + 1 /\ \E done \in 0..2 : Puts(Image(ts, fs), done)

(***************************************************************************)
(* Polling                                                                 *)
(***************************************************************************)
FreeTag(ts) == CHOOSE t \in 1..Cardinality(ts) + 1 : \A x \in ts : x.tag # t

TagOf(syms) == CHOOSE g \in [syms -> 1..Cardinality(syms)] : \A s, t \in syms : s # t => g[s] # g[t]

\* Mutant: the timer that is armed is left to run.
UnscheduledNot(ts, f) == ts

\* Sched.Unschedule of the fetcher's own timer, when it is set.
Unscheduled(ts, f) == {t \in ts : t.tag # f.tag}

\* scheduleRefresh of sym, whose fetcher has become f.
scheduleRefresh(sym, f, delay) ==
    LET others == Unscheduled(timers, f)
        tag == IF f.down THEN NoTag ELSE FreeTag(timers) IN
    /\ fetchers' = With(fetchers, sym, [f EXCEPT !.tag = tag])
    /\ timers' = others \cup (IF f.down THEN {} ELSE {[sym |-> sym, tag |-> tag, at |-> clock + delay]})

\* refreshTicker: one request per url; while there is one, again in a minute.
refreshTicker(sym) ==
    LET f == fetcherFor(fetchers, sym) IN
    IF sym \notin DOMAIN tickers'
    THEN fetchers' = Without(fetchers, sym) /\ UNCHANGED <<timers, asked>>
    ELSE IF sym \in asked
    THEN scheduleRefresh(sym, f, Minute) /\ UNCHANGED asked
    ELSE /\ timers' = Unscheduled(timers, f)
         /\ fetchers' = With(fetchers, sym, [f EXCEPT !.tag = NoTag])
         /\ asked' = asked \cup {sym}

RefreshTimer(t) ==
    /\ t \in timers /\ t.at <= clock
    /\ UNCHANGED <<clock, tickers, landed, disk, told, bounds>>
    /\ refreshTicker(t.sym)

(***************************************************************************)
(* Commands                                                                *)
(***************************************************************************)
\* addTicker, with the key a stock needs.
addTicker(sym, target, user) ==
    LET subs == IF sym \in DOMAIN tickers THEN tickers[sym] ELSE Nothing IN
    /\ Request
    /\ target \notin DOMAIN subs
    /\ tickers' = With(tickers, sym, With(subs, target, With(Nothing, user, FALSE)))
    /\ save(tickers', fetchers)
    /\ UNCHANGED <<clock, landed, told, restarts>>
    /\ refreshTicker(sym)

dropTicker(sym) ==
    /\ tickers' = Without(tickers, sym)
    /\ timers' = Unscheduled(timers, fetcherFor(fetchers, sym))
    /\ fetchers' = Without(fetchers, sym)
    /\ toldAt' = Without(toldAt, sym)

\* delTicker: with the last subscription the symbol goes.
delTicker(sym, target) ==
    /\ sym \in DOMAIN tickers /\ target \in DOMAIN tickers[sym]
    /\ IF DOMAIN tickers[sym] = {target}
       THEN dropTicker(sym)
       ELSE /\ tickers' = [tickers EXCEPT ![sym] = Without(@, target)]
            /\ UNCHANGED <<fetchers, timers, toldAt>>
    /\ save(tickers', fetchers')
    /\ UNCHANGED <<clock, net, early, bounds>>

\* addAlarm: subscribes the channel, and the user, if they are not.
addAlarm(sym, target, user) ==
    /\ Request
    /\ sym \in DOMAIN tickers
    /\ LET subs == tickers[sym]
           users == IF target \in DOMAIN subs THEN subs[target] ELSE Nothing IN
       tickers' = [tickers EXCEPT ![sym] = With(subs, target, With(users, user, TRUE))]
    /\ save(tickers', fetchers)
    /\ UNCHANGED <<clock, fetchers, timers, net, told, restarts>>

delAlarm(sym, target, user) ==
    /\ sym \in DOMAIN tickers /\ target \in DOMAIN tickers[sym]
    /\ user \in DOMAIN tickers[sym][target] /\ tickers[sym][target][user]
    /\ tickers' = [tickers EXCEPT ![sym][target][user] = FALSE]
    /\ save(tickers', fetchers)
    /\ UNCHANGED <<clock, fetchers, timers, net, told, bounds>>

refreshCmd(sym) ==
    /\ Request
    /\ sym \in DOMAIN tickers
    /\ UNCHANGED <<clock, tickers, landed, disk, told, restarts>>
    /\ refreshTicker(sym)

(***************************************************************************)
(* Answers                                                                 *)
(***************************************************************************)
\* The fetcher: the url is free before the answer is handled.
Land(sym, res) ==
    /\ sym \in asked /\ Len(landed) < MaxLanded
    /\ asked' = asked \ {sym}
    /\ landed' = Append(landed, [sym |-> sym, res |-> res])
    /\ UNCHANGED <<clock, mem, disk, told, bounds>>

\* broadcastTicker, and the fetcher after it.
Announces(f, jumped) == clock - f.last >= broadcastGap \/ jumped

fetched ==
    LET sym == Head(landed).sym
        res == Head(landed).res
        f == fetchers[sym]
        wait(g, delay) == scheduleRefresh(sym, g, delay) /\ UNCHANGED <<disk, told>> IN
    /\ landed # <<>> /\ landed' = Tail(landed)
    /\ UNCHANGED <<clock, tickers, asked, bounds>>
    /\ CASE sym \notin DOMAIN fetchers \/ sym \notin DOMAIN tickers ->  \* deleted while fetching
              UNCHANGED <<fetchers, timers, disk, told>>
         [] OTHER ->
              \/ /\ res = "error" /\ f.tries < 2
                 /\ wait([f EXCEPT !.tries = @ + 1], Minute)
              \/ /\ res = "error" /\ f.tries = 2
                 /\ wait([f EXCEPT !.tries = 0], Hour)
              \/ /\ res = "no JSON"
                 /\ wait([f EXCEPT !.tries = 0, !.errors = @ + 1,
                                   !.down = @ \/ f.errors >= maxJSONErrors], refreshEvery)
              \/ /\ res = "no price"
                 /\ wait([f EXCEPT !.tries = 0, !.errors = 0], refreshEvery)
              \/ /\ res \in {"price", "jump"}
                 /\ LET tells == Announces(f, res = "jump") IN
                    /\ scheduleRefresh(sym, [f EXCEPT !.tries = 0, !.errors = 0,
                           !.data = IF @ < maxData THEN @ + 1 ELSE @,
                           !.last = IF tells THEN clock ELSE @], refreshEvery)
                    /\ toldAt' = IF tells THEN With(toldAt, sym, clock) ELSE toldAt
                    /\ early' = (early \/ (/\ tells /\ res = "price" /\ sym \in DOMAIN toldAt
                                           /\ clock - toldAt[sym] < broadcastGap))
                 /\ save(tickers, fetchers')

(***************************************************************************)
(* Time and restarts                                                       *)
(***************************************************************************)
Tick ==
    /\ clock < MaxClock /\ clock' = clock + 1
    /\ UNCHANGED <<mem, net, disk, told, bounds>>

\* The process ends, with no Unload, and Load: a first refresh within half a minute.
Restart ==
    /\ restarts < MaxRestarts /\ restarts' = restarts + 1
    /\ tickers' = stored.tickers
    /\ asked' = {} /\ landed' = <<>>
    /\ LET known == DOMAIN stored.data \cup DOMAIN stored.state \cup DOMAIN tickers'
           tagOf == TagOf(DOMAIN tickers') IN
       /\ timers' = {[sym |-> s, tag |-> tagOf[s], at |-> clock] : s \in DOMAIN tickers'}
       /\ fetchers' = [s \in known |->
              [Fresh EXCEPT !.data = IF s \in DOMAIN stored.data THEN stored.data[s] ELSE 0,
                            !.last = IF s \in DOMAIN stored.state THEN stored.state[s] ELSE Never,
                            !.tag = IF s \in DOMAIN tickers' THEN tagOf[s] ELSE NoTag]]
    /\ toldAt' = IF "state" \in unsaved THEN [s \in DOMAIN stored.state |-> stored.state[s]] ELSE toldAt
    /\ UNCHANGED <<clock, disk, early, requests>>

Init ==
    /\ clock = 0 /\ tickers = Nothing /\ fetchers = Nothing /\ timers = {}
    /\ asked = {} /\ landed = <<>>
    /\ stored = [tickers |-> Nothing, data |-> Nothing, state |-> Nothing]
    /\ requests = 0 /\ restarts = 0 /\ fails = 0
    /\ toldAt = Nothing /\ early = FALSE /\ unsaved = {}

Next ==
    \/ \E t \in timers : RefreshTimer(t)
    \/ \E sym \in Symbols :
          \/ refreshCmd(sym)
          \/ \E target \in Targets :
                \/ delTicker(sym, target)
                \/ \E user \in Users : \/ addTicker(sym, target, user)
                                       \/ addAlarm(sym, target, user)
                                       \/ delAlarm(sym, target, user)
          \/ \E res \in {"error", "no JSON", "no price", "price", "jump"} : Land(sym, res)
    \/ fetched
    \/ Tick
    \/ Restart

Spec == Init /\ [][Next]_vars

(***************************************************************************)
(* Properties                                                              *)
(***************************************************************************)
\* Whatever is added, deleted and asked for again while a request is under way,
\* and across restarts: a symbol somebody subscribes to has a timer, a request
\* or an answer to come, until it is given up; never two timers, and no timer
\* for a symbol that is gone.  A price that has not jumped is told once in six
\* hours, also by the process after this one.
TickersRun ==
    /\ \A sym \in DOMAIN tickers :
          \/ sym \in asked
          \/ \E t \in timers : t.sym = sym
          \/ \E i \in DOMAIN landed : landed[i].sym = sym
          \/ fetchers[sym].down
    /\ \A t \in timers : t.sym \in DOMAIN tickers /\ t.sym \in DOMAIN fetchers
                         /\ fetchers[t.sym].tag = t.tag
    /\ ~early
=============================================================================
