----------------------------- MODULE MCModules -----------------------------
(* The chat modules share no state, so one run takes them side by side:     *)
(* Init picks the one that runs, the others stand still.  (More of them:    *)
(* MCBus.)                                                                  *)
(*                                                                          *)
(* Feed: two urls so that ids are shared, guids 1 and 2 so that pruning,    *)
(* the two caps and id reuse happen.  Rvf: letters that hit and that miss,  *)
(* of both kinds; two players, and a game after another in one channel.     *)
(* Weather: two places, one of them out of reach of any station, that the   *)
(* geocoder gives one name; documents that go stale.  Report: days of four  *)
(* hours, and the clock goes forward in the second night.  Llm: two         *)
(* channels that ask two models, and as many turns as are kept plus one.    *)
EXTENDS Feed, TLC

CONSTANTS u, v, c
MCUrls == {u, v}
MCTargets == {c}
MCItems == (u :> {1, 2}) @@ (v :> {3})

CONSTANTS Keys, Lineups, Consonants, Vowels, Count, Amounts,
          rvf_vowel_cost, rvf_max_missed_turns, topTen, MaxStarts, MaxMoves, a, b
VARIABLES games, gen, timers, hiscores, dirty, saved, unloaded, starts, moves, lives
rvf == <<games, gen, timers, hiscores, dirty, saved, unloaded, starts, moves, lives>>
R == INSTANCE Rvf WITH store <- saved, restarts <- lives

MCKeys == {c}
MCLineups == c :> {<<a, b>>}
MCCount == ("B" :> 2) @@ ("X" :> 0) @@ ("A" :> 1) @@ ("E" :> 0)
ASSUME RvfAssumption == R!RvfConstants

CONSTANTS Nicks, Places, Kind, Named, Home, Alerts, feedTTL, rainTTL, warnTTL, warnPoll,
          Forget, Life, MaxClock, MaxEvents, here, away
VARIABLES clock, asked, landed, geos, geoStored, feedAt, rainAt, warnAt, warnings, homes,
          homeStored, alerts, seen, seenStored, unsaved, pollAt, on, asks, events, replies,
          refused, warned, retold, unmarked
weather == <<clock, asked, landed, geos, geoStored, feedAt, rainAt, warnAt, warnings, homes,
             homeStored, alerts, seen, seenStored, unsaved, pollAt, on, asks, events, replies,
             refused, warned, retold, unmarked>>
W == INSTANCE Weather WITH dirty <- unsaved, answers <- replies, told <- warned

MCNicks == {a}
MCPlaces == {here, away}
MCKind == (here :> "near") @@ (away :> "abroad")
MCNamed == (here :> here) @@ (away :> here)
ASSUME WeatherAssumption == W!WeatherConstants

CONSTANTS Times, Day, ShiftAt, Shift, MaxHour, MaxChanges
VARIABLES hour, weather_report_time, reportGen, mornings, channels, changes, reported, twice
report == <<hour, weather_report_time, reportGen, mornings, channels, changes, reported, twice>>
D == INSTANCE Report WITH timers <- mornings

MCTimes == {-1, 2, 3}    \* -1 is NoTime
MCForward == -1
ASSUME ReportAssumption == D!ReportConstants
ASSUME ForwardAssumption == D!OnlyForward

CONSTANTS Channels, Models, Bounded, maxHistory, MaxQuestions
VARIABLES talks, pending, arrived, questions, resets, said, settled, lost
llm == <<talks, pending, arrived, questions, resets, said, settled, lost>>
L == INSTANCE Llm WITH Urls <- Models, history <- talks, asked <- pending,
                       landed <- arrived, restarts <- resets, turns <- said
ASSUME L!LlmConstants

VARIABLE running
others == <<rvf, weather, report, llm>>
MCInit ==
    /\ running \in {"feed", "rvf", "weather", "report", "llm"}
    /\ Init /\ R!Init /\ W!Init /\ D!Init /\ L!Init
    /\ running # "report" => weather_report_time = D!NoTime
MCNext ==
    /\ UNCHANGED running
    /\ \/ running = "feed" /\ Next /\ UNCHANGED others
       \/ running = "rvf" /\ R!Next /\ UNCHANGED <<vars, weather, report, llm>>
       \/ running = "weather" /\ W!Next /\ UNCHANGED <<vars, rvf, report, llm>>
       \/ running = "report" /\ D!Next /\ UNCHANGED <<vars, rvf, weather, llm>>
       \/ running = "llm" /\ L!Next /\ UNCHANGED <<vars, rvf, weather, report>>
MCSpec == MCInit /\ [][MCNext]_<<vars, others, running>>

FairTurns == R!FairTurns
\* Who stands still is where Init put it: its invariants need not be evaluated.
TurnsPaired == running = "llm" => L!TurnsPaired

\* Modules/weather: lookups are answered once and alerts told once, by the poll;
\* a morning has one report.
WeatherHolds == /\ running = "weather" => W!ToldOnce
                /\ running = "report" => D!OneADay

\* Modules/rvf, whatever happens to its table: what is in its bank, whose turn
\* it is in memory and in the store, and that a game is won once.
GamesKept == running = "rvf" => R!Ledger /\ R!Resumable /\ R!OnePrize
=============================================================================
