----------------------------- MODULE MCSession -----------------------------
(* Bounds for TLC: a user may take the bot's configured nick.  The keeper   *)
(* and the backoff that times its dials share no state with the session, or *)
(* each other, nor do the modules that count: Init picks the one that runs. *)
EXTENDS Session

CONSTANTS c, bot, bot1, bot2, guest, ann

MCChannels == {c}
MCSeed == <<c>>
MCNicks == {bot, bot1, bot2, guest, ann}
MCUserNicks == {bot, ann}
MCUnderscored == [n \in MCNicks |-> IF n = bot THEN bot1 ELSE bot2]

CONSTANTS MaxBuffer, MaxOutBuffer, SockCap, MaxIRC, MaxCores, MaxIn, MaxOpen, MaxLines
VARIABLES irc, core, buffer, outBuf, outDropped, closed, mu, ircPc, dialed, link, probed, sent,
          corePc, served, toIrc, ctx, backlog, made, coreOpen, cut, inbox, outbox, seen, lines,
          wire
keeper == <<irc, core, buffer, outBuf, outDropped, closed, mu, ircPc, dialed, link, probed, sent,
            corePc, served, toIrc, ctx, backlog, made, coreOpen, cut, inbox, outbox, seen, lines,
            wire>>
K == INSTANCE Keeper
ASSUME LinkAssumption == K!KeeperConstants

CONSTANTS Delays, Peace, Window, Lifetimes, MaxDials
VARIABLES delay, when, dials
backoff == <<delay, when, dials>>
B == INSTANCE Backoff
ASSUME BackoffAssumption == B!BackoffConstants

CONSTANTS Counted, Rooms, Hits, Kinds, saveInterval, reportRate, MaxHeard, MaxFails, MaxRestarts
VARIABLES mem, row, marked, msgCount, heard, fails, restarts, unsaved, misses, odd, misreported
counters == <<mem, row, marked, msgCount, heard, fails, restarts, unsaved, misses, odd,
              misreported>>
T == INSTANCE Counters WITH Nicks <- Counted, Items <- Counted, Channels <- Rooms, Bot <- bot,
                            MaxEvents <- MaxHeard, events <- heard
ASSUME CountersAssumption == T!CountersConstants

VARIABLE running
MCInit ==
    /\ running \in {"session", "keeper", "backoff", "counters"}
    /\ Init /\ K!Init /\ B!Init /\ T!Init
    /\ running # "session" => online = {}
MCNext ==
    /\ UNCHANGED running
    /\ \/ running = "session" /\ Next /\ UNCHANGED <<keeper, backoff, counters>>
       \/ running = "keeper" /\ K!Next /\ UNCHANGED <<vars, backoff, counters>>
       \/ running = "backoff" /\ B!Step /\ UNCHANGED <<vars, keeper, counters>>
       \/ running = "counters" /\ T!Next /\ UNCHANGED <<vars, keeper, backoff>>
MCSpec == MCInit /\ [][MCNext]_<<vars, keeper, backoff, counters, running>>

\* The keeper's link: its cores see one unbroken stretch of a session, their
\* registration arrives, nothing is installed after the shutdown, and it is
\* not dialed too often.
LinkHolds ==
    /\ running = "keeper" => K!OneStretch /\ K!RegistrationArrives /\ K!NoLateLink
    /\ running = "backoff" => B!NoHammering

\* What is counted adds up, in memory and in the store.
CountsHold == running = "counters" => T!CountsHold
=============================================================================
