------------------------------- MODULE MCBus -------------------------------
(* The bus, and modules on it that share no state with it or each other:    *)
(* Init picks the one that runs, the others stand still.                    *)
(*                                                                          *)
(* Bus: two modules, two events: IRC_PRIVMSG and the IRC_SENT that privmsg  *)
(* submits from inside a handler.  Pizza: one name, so that the fallback    *)
(* ids are used; alarms that repeat, in time and too late; the two nicks    *)
(* are interchangeable.  Pager: two commands of one reader, and a budget    *)
(* that changes.  Remind: a line with occurrences and one without.  Guard:  *)
(* two masks, two channels, times on both sides of every window.  Ticker:   *)
(* one symbol that two channels subscribe to and drop, and a window of      *)
(* samples that fills.  Registry: two modules, words next to each other,    *)
(* and typed ones at every distance of them.  Admin: two connections that   *)
(* log in and fail to, one account, passwords that are stored, not stored   *)
(* and not hashed.  Conf: two settings and two releases, which differ in a  *)
(* default and in what parses.                                              *)
EXTENDS Bus, TLC

CONSTANTS logger, karma, privmsg, sent

MCModules == {logger, karma}
MCEvents == {privmsg, sent}

CONSTANTS Nicks, Names, Delays, Repeats, Near, Soon, MinRepeat, Confirm,
          MaxTime, MaxAlarms, MaxFallback, MaxLives, MaxFails, p1, p2, alpha
VARIABLES now, timers, armed, used, fallback, clearCheck, disk, alarms, lives, fails,
          promised, reused, behind
pizza == <<now, timers, armed, used, fallback, clearCheck, disk, alarms, lives, fails,
           promised, reused, behind>>
P == INSTANCE Pizza

MCNicks == {p1, p2}
MCNames == {alpha}
MCSymmetry == Permutations(MCModules) \cup Permutations(MCNicks)
ASSUME P!PizzaConstants

CONSTANTS Readers, Commands, Budgets, MaxLength, MaxReplies, x, y
VARIABLES stashes, expiries, replies, told, ended
pager == <<stashes, expiries, replies, told, ended>>
G == INSTANCE Pager WITH sent <- told

MCReaders == {alpha}
MCCommands == {x, y}
ASSUME G!PagerConstants

CONSTANTS Channels, Crons, Titles, maxRemembered, MaxMinute, MaxRequests, MaxLoads
VARIABLES minute, reminders, maxID, waiting, notes, kept, loads, misses,
          requests, owed, rung, values, unstored
remind == <<minute, reminders, maxID, waiting, notes, kept, loads, misses,
            requests, owed, rung, values, unstored>>
M == INSTANCE Remind WITH fails <- misses

MCChannels == {alpha}
MCTitles == {x}
ASSUME M!RemindConstants

CONSTANTS Masks, Chans, Texts, guard_resident_days, seenSlack,
          guard_line_rate, guard_line_window_sec, guard_dup_channels,
          guard_join_channels, guard_join_window_sec, MaxSightings, MaxBoots, a, b
VARIABLES time, residents, unflushed, suspects, enabled, table, setting,
          sightings, boots, slips, trusted, sighted, wronged
guard == <<time, residents, unflushed, suspects, enabled, table, setting,
           sightings, boots, slips, trusted, sighted, wronged>>
W == INSTANCE Guard WITH fails <- slips

MCMasks == {a, b}
MCChans == {x, y}
MCTexts == {alpha}
ASSUME W!GuardConstants

CONSTANTS Symbols, Targets, Users, maxData, maxJSONErrors, Minute, refreshEvery, Hour,
          broadcastGap, MaxClock, MaxLanded, MaxRestarts, MaxOrders
VARIABLES clock, tickers, fetchers, polls, asked, landed, stored, orders, restarts,
          mishaps, toldAt, early, unsaved
ticker == <<clock, tickers, fetchers, polls, asked, landed, stored, orders, restarts,
            mishaps, toldAt, early, unsaved>>
T == INSTANCE Ticker WITH timers <- polls, requests <- orders, fails <- mishaps,
                          MaxRequests <- MaxOrders

ASSUME T!TickerConstants

CONSTANTS Words, Typed, Letters, Priorities, MaxSteps
VARIABLES commands, defaults, steps, living, last
registry == <<commands, defaults, steps, living, last>>
C == INSTANCE Registry

MCWords == {<<1, 2>>, <<1, 2, 1>>, <<1, 2, 2, 1>>}
MCTyped == MCWords \cup {<<1>>, <<2, 1>>, <<1, 1, 2, 1>>, <<2, 2, 2>>, <<2, 2, 2, 2>>}
ASSUME C!RegistryConstants

CONSTANTS Passwords, TooLong, superName, superPass, Inputs, CliPasswords, maxTries, Buffer,
          MaxLines, MaxAhead, MaxRuns
VARIABLES client, typed, unread, sess, handler, work, stuck, users, tables, cli, lines,
          refusals, reboots, runs, handled, bye, accept
admin == <<client, typed, unread, sess, handler, work, stuck, users, tables, cli, lines,
           refusals, reboots, runs, handled, bye, accept>>
A == INSTANCE Admin WITH Clients <- Nicks, Names <- Users, stored <- tables,
                         fails <- refusals, boots <- reboots

MCInputs ==
    {[verb |-> t[1], name |-> t[2], pass |-> t[3]] :
        t \in {<<"word", "root", "x">>, <<"word", "x", "x">>, <<"quit", "x", "x">>,
               <<"adduser", "ann", "x">>, <<"passwd", "ann", "y">>,
               <<"passwd", "ann", "long">>}}
ASSUME A!AdminConstants

CONSTANTS Settings, Raws, Releases, Parses, Default, MaxSets, MaxBootings
VARIABLES release, settings, valued, row, sets, troubles, bootings, pledged, blind
conf == <<release, settings, valued, row, sets, troubles, bootings, pledged, blind>>
S == INSTANCE Conf WITH stored <- valued, disk <- row, fails <- troubles, boots <- bootings,
                        promised <- pledged, MaxBoots <- MaxBootings

MCParses == [r \in Releases |->
    [n \in Settings |-> IF r = "new" /\ n = "rate" THEN {"4"} ELSE Raws]]
MCDefault == [r \in Releases |-> [n \in Settings |-> IF r = "new" THEN "4" ELSE "on"]]
ASSUME S!ConfConstants

VARIABLE running
others == <<pizza, pager, remind, guard, ticker, registry, admin, conf>>
MCInit ==
    /\ running \in {"bus", "pizza", "pager", "remind", "guard", "ticker",
                   "registry", "admin", "conf"}
    /\ Init /\ P!Init /\ G!Init /\ M!Init /\ W!Init /\ T!Init /\ C!Init /\ A!Init /\ S!Init
    /\ running # "conf" => release = "old"
MCNext ==
    /\ UNCHANGED running
    /\ \/ running = "bus" /\ Next /\ UNCHANGED others
       \/ running = "pizza" /\ P!Next
          /\ UNCHANGED <<vars, pager, remind, guard, ticker, registry, admin, conf>>
       \/ running = "pager" /\ G!Next
          /\ UNCHANGED <<vars, pizza, remind, guard, ticker, registry, admin, conf>>
       \/ running = "remind" /\ M!Next
          /\ UNCHANGED <<vars, pizza, pager, guard, ticker, registry, admin, conf>>
       \/ running = "guard" /\ W!Next
          /\ UNCHANGED <<vars, pizza, pager, remind, ticker, registry, admin, conf>>
       \/ running = "ticker" /\ T!Next
          /\ UNCHANGED <<vars, pizza, pager, remind, guard, registry, admin, conf>>
       \/ running = "registry" /\ C!Next
          /\ UNCHANGED <<vars, pizza, pager, remind, guard, ticker, admin, conf>>
       \/ running = "admin" /\ A!Next
          /\ UNCHANGED <<vars, pizza, pager, remind, guard, ticker, registry, conf>>
       \/ running = "conf" /\ S!Next
          /\ UNCHANGED <<vars, pizza, pager, remind, guard, ticker, registry, admin>>
MCSpec == MCInit /\ [][MCNext]_<<vars, others, running>>

\* Who stands still is where Init put it: its invariants need not be evaluated.
AlarmsKept == running = "pizza" => P!AlarmsKept
PagedInFull == running = "pager" => G!PagedInFull
RemindersKept == running = "remind" => M!RemindersKept
TrustHolds == running = "guard" => W!TrustHolds
TickersRun == running = "ticker" => T!TickersRun
CommandsKnown == running = "registry" => C!TableExact
SuggestionsRight == running = "registry" => C!SuggestionsRight
AdminHolds == running = "admin" => A!AdminHolds
SettingsKept == running = "conf" => S!SettingsKept
=============================================================================
