------------------------------- MODULE Counters -------------------------------
(* The modules that count what they see, all on the same events: karma,      *)
(* which stores after each change; ego and lastseen, which store after so    *)
(* many messages; stats, whose tallies the saver writes.  Nothing is stored  *)
(* when the process ends, as nobody calls Unload.  (The words, hours and     *)
(* reasons that are counted along are left out, and queries, which are a     *)
(* channel to all but stats; a crash comes between two events.)             *)
EXTENDS Integers, FiniteSetsExt

CONSTANTS
    Nicks, Channels, Bot,
    Items,          \* what has a karma: nicks, for one
    saveInterval, reportRate,   \* 100 and 200
    Hits,           \* self-references in a message, which it is told by
    Kinds,          \* of messages: "up" and "down" for some item's karma, any
                    \* other "command", "talk"
    MaxEvents, MaxFails, MaxRestarts    \* bounds of the model

CountersConstants ==
    /\ Bot \notin Nicks /\ Nicks \subseteq Items
    /\ IsFiniteSet(Nicks) /\ IsFiniteSet(Channels)
    /\ saveInterval \in Nat \ {0} /\ reportRate \in Nat \ {0} /\ Hits \subseteq Nat
    /\ Kinds \subseteq {"up", "down", "command", "talk"}

VARIABLES
    mem,            \* module -> its data
    row,            \* module -> its data in the store
    marked,         \* the tallies marked dirty
    msgCount,       \* module -> messages since it last saved
    events, fails, restarts,
    \* history
    unsaved,        \* module -> what it counted since a Put last succeeded
    misses,         \* module -> Puts that failed since then
    odd,            \* memory and store, channel -> kicks by the bot less kicks of it
    misreported     \* an ego report missed or uncalled for

vars == <<mem, row, marked, msgCount, events, fails, restarts, unsaved, misses, odd, misreported>>

Modules == {"karma", "ego", "lastseen"}

\* A count by channel, and in all of them.
Book(names) == [local |-> [k \in names \X Channels |-> 0], global |-> [n \in names |-> 0]]
adjust(book, name, channel, amount) ==
    [book EXCEPT !.local[<<name, channel>>] = @ + amount, !.global[name] = @ + amount]

\* Mutant: the count that brings the report is left out.
reportLate(before, hits) == hits > 0 /\ (before % reportRate) + hits > reportRate

report(before, hits) == hits > 0 /\ (before % reportRate) + hits >= reportRate

\* Mutant: only a tally that is new is marked.
tallyOnce(keys) == marked \cup {k \in keys : mem.stats[k] = [given |-> 0, got |-> 0]}

tally(keys) == marked \cup keys

\* Each Put of the event succeeds, or fails with the row written or not.
Saved(counting, saving) ==
    \E failing \in SUBSET saving : \E landed \in SUBSET failing :
        /\ fails + Cardinality(failing) <= MaxFails /\ fails' = fails + Cardinality(failing)
        /\ row' = [m \in DOMAIN row |->
              IF m \in (saving \ failing) \cup landed THEN mem'[m] ELSE row[m]]
        /\ unsaved' = [m \in Modules |->
              IF m \in saving \ failing THEN 0
              ELSE unsaved[m] + (IF m \in counting THEN 1 ELSE 0)]
        /\ misses' = [m \in Modules |->
              IF m \in saving \ failing THEN 0
              ELSE misses[m] + (IF m \in failing THEN 1 ELSE 0)]

\* What a message does to karma and lastseen.
Voted(kind) == kind \in {"up", "down"}
KarmaAfter(book, channel, item, kind) ==
    IF Voted(kind) THEN adjust(book, item, channel, IF kind = "up" THEN 1 ELSE -1) ELSE book
Seen(activity, nick, channel, hits, kind) ==
    IF kind = "talk" THEN [activity EXCEPT ![<<nick, channel>>] = hits] ELSE activity

\* Those of them whose interval this message fills.
Full(counting) == {m \in counting : msgCount[m] + 1 >= saveInterval}

\* Somebody says something in a channel, with so many self-references.
onPrivmsg(nick, channel, hits, item, kind) ==
    LET voted == IF Voted(kind) THEN {"karma"} ELSE {}
        counting == {"ego"} \cup (IF kind = "talk" THEN {"lastseen"} ELSE {})
        before == mem.ego.local[<<nick, channel>>] IN
    /\ events < MaxEvents /\ events' = events + 1
    /\ mem' = [mem EXCEPT !.karma = KarmaAfter(@, channel, item, kind),
                          !.ego = adjust(@, nick, channel, hits),
                          !.lastseen = Seen(@, nick, channel, hits, kind)]
    /\ msgCount' = [m \in DOMAIN msgCount |->
          IF m \in Full(counting) THEN 0 ELSE msgCount[m] + (IF m \in counting THEN 1 ELSE 0)]
    /\ Saved(voted \cup counting, voted \cup Full(counting))
    /\ marked' = tally({<<nick, channel>>})
    /\ misreported' = (misreported \/
          report(before, hits) # ((before + hits) \div reportRate > before \div reportRate))
    /\ UNCHANGED <<restarts, odd>>

\* One to stats only, which counts joins as well.
onJoin(nick, channel) ==
    /\ events < MaxEvents /\ events' = events + 1
    /\ marked' = tally({<<nick, channel>>})
    /\ UNCHANGED <<mem, row, msgCount, fails, restarts, unsaved, misses, odd, misreported>>

\* Who kicks the bot loses karma.
Blamed(book, by, of, channel) == IF of = Bot THEN adjust(book, by, channel, -1) ELSE book

\* A kick, of or by the bot perhaps.
onKick(by, of, channel) ==
    LET given == {<<n, channel>> : n \in {by} \ {Bot}}
        got == {<<n, channel>> : n \in {of} \ {Bot}}
        voted == IF of = Bot THEN {"karma"} ELSE {} IN
    /\ events < MaxEvents /\ events' = events + 1
    /\ mem' = [mem EXCEPT
          !.karma = Blamed(@, by, of, channel),
          !.stats = [k \in DOMAIN @ |->
              [given |-> @[k].given + (IF k \in given THEN 1 ELSE 0),
               got |-> @[k].got + (IF k \in got THEN 1 ELSE 0)]]]
    /\ marked' = tally(given \cup got)
    /\ Saved(voted, voted)
    /\ odd' = [odd EXCEPT !.mem[channel] =
                  @ + (IF by = Bot THEN 1 ELSE 0) - (IF of = Bot THEN 1 ELSE 0)]
    /\ UNCHANGED <<msgCount, restarts, misreported>>

\* The saver writes the tallies that are marked, together.
Flush ==
    /\ marked # {} /\ marked' = {}
    /\ row' = [row EXCEPT !.stats =
                  [k \in DOMAIN @ |-> IF k \in marked THEN mem.stats[k] ELSE @[k]]]
    /\ odd' = [odd EXCEPT !.row = odd.mem]
    /\ UNCHANGED <<mem, msgCount, events, fails, restarts, unsaved, misses, misreported>>

Restart ==
    /\ restarts < MaxRestarts /\ restarts' = restarts + 1
    /\ mem' = row /\ marked' = {}
    /\ msgCount' = [m \in DOMAIN msgCount |-> 0]
    /\ unsaved' = [m \in Modules |-> 0] /\ misses' = [m \in Modules |-> 0]
    /\ odd' = [odd EXCEPT !.mem = odd.row]
    /\ UNCHANGED <<row, events, fails, misreported>>

Fresh == [karma |-> Book(Items), ego |-> Book(Nicks),
          lastseen |-> [k \in Nicks \X Channels |-> -1],
          stats |-> [k \in Nicks \X Channels |-> [given |-> 0, got |-> 0]]]

Init ==
    /\ mem = Fresh /\ row = Fresh /\ marked = {}
    /\ msgCount = [m \in {"ego", "lastseen"} |-> 0]
    /\ events = 0 /\ fails = 0 /\ restarts = 0
    /\ unsaved = [m \in Modules |-> 0] /\ misses = [m \in Modules |-> 0]
    /\ odd = [mem |-> [c \in Channels |-> 0], row |-> [c \in Channels |-> 0]]
    /\ misreported = FALSE

Next ==
    \/ \E n \in Nicks, c \in Channels, hits \in Hits, item \in Items, kind \in Kinds :
          onPrivmsg(n, c, hits, item, kind)
    \/ \E n \in Nicks, c \in Channels : onJoin(n, c)
    \/ \E by \in Nicks \cup {Bot}, of \in Nicks \cup {Bot}, c \in Channels :
          <<by, of>> # <<Bot, Bot>> /\ onKick(by, of, c)
    \/ Flush
    \/ Restart

Spec == Init /\ [][Next]_vars

SumsAgree(data) ==
    \A book \in {data.karma, data.ego} : \A n \in DOMAIN book.global :
        book.global[n] = MapThenSumSet(LAMBDA c : book.local[<<n, c>>], Channels)

\* Every kick counts on both sides, but for the bot's.
KicksPaired(data, bots) ==
    \A c \in Channels :
        LET Surplus(n) == data.stats[<<n, c>>].got - data.stats[<<n, c>>].given
        IN MapThenSumSet(Surplus, Nicks) = bots[c]

(* In memory and, though written at different times, in the store: totals    *)
(* are those of the channels, and who kicked and who was kicked agree.  What *)
(* a crash loses is bounded: of karma only what a Put refused, of the others *)
(* less than an interval, and one more for every Put that failed.  An ego is *)
(* told when it passes a mark.                                               *)
CountsHold ==
    /\ SumsAgree(mem) /\ SumsAgree(row)
    /\ KicksPaired(mem, odd.mem) /\ KicksPaired(row, odd.row)
    /\ unsaved.karma <= misses.karma
    /\ \A m \in {"ego", "lastseen"} : unsaved[m] < saveInterval * (1 + misses[m])
    /\ \A m \in Modules : unsaved[m] = 0 => row[m] = mem[m]
    /\ ~misreported
=============================================================================
