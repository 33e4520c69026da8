------------------------------ MODULE MCSched ------------------------------
(* Timers; beside them the keeper's way to its shutdown, with cores that    *)
(* read; and what the talker learns, a line shorter than a window and one   *)
(* longer, that share words.  They share nothing: Init picks the one that   *)
(* runs, and only of that one are its goroutines scheduled.                 *)
EXTENDS Sched, TLC

CONSTANTS MaxBuffer, MaxOutBuffer, SockCap, MaxIRC, MaxCores, MaxIn, MaxOpen, MaxLines
VARIABLES irc, core, buffer, outBuf, outDropped, closed, mu, ircPc, dialed, link, probed,
          sent, corePc, served, toIrc, ctx, backlog, made, coreOpen, cut, inbox, outbox,
          seen, lines, wire
keeper == <<irc, core, buffer, outBuf, outDropped, closed, mu, ircPc, dialed, link, probed,
            sent, corePc, served, toIrc, ctx, backlog, made, coreOpen, cut, inbox, outbox,
            seen, lines, wire>>
L == INSTANCE Keeper
ASSUME LinkAssumption == L!KeeperConstants

CONSTANTS Talkers, Lines, Legacy, Start, End, Dot, Help, order, maxBack, maxLoop, timeout,
          MaxMinute, MaxHeard
VARIABLES dicts, rows, unwritten, blob, backup, loaded, walk, minute, lastAct, idleAt,
          idleTalk, heard
markov == <<dicts, rows, unwritten, blob, backup, loaded, walk, minute, lastAct, idleAt,
            idleTalk, heard>>
K == INSTANCE Markov WITH dirty <- unwritten, clock <- minute, events <- heard,
                          MaxClock <- MaxMinute, MaxEvents <- MaxHeard

MCLines == {<<Start, "a", End>>, <<Start, "b", "a", Dot, End>>}
MCLegacy == << <<"a", "b", Dot>>, <<"b", "a", "b", Dot>> >>
ASSUME TalkAssumption == K!MarkovConstants

VARIABLE running
others == <<keeper, markov>>
MCInit ==
    /\ running \in {"sched", "keeper", "markov"}
    /\ Init /\ L!Init /\ K!Init
    /\ running # "markov" => blob = K!NoTrie /\ ~idleTalk
MCNext ==
    /\ UNCHANGED running
    /\ \/ running = "sched" /\ Next /\ UNCHANGED others
       \/ running = "keeper" /\ L!Next /\ UNCHANGED <<vars, markov>>
       \/ running = "markov" /\ K!Next /\ UNCHANGED <<vars, keeper>>
MCSpec == MCInit /\ [][MCNext]_<<vars, others, running>>

MCFairSpec ==
    /\ MCSpec
    /\ \/ running = "sched" /\ Fairness
       \/ running = "keeper" /\ L!KeeperFairness /\ L!CoreFairness
       \/ running = "markov"

ShutdownEnds == L!ShutdownEnds
SilenceNoticed == L!SilenceNoticed
\* Modules/markov: what is learned forwards, backwards and of a talker is one corpus,
\* in memory and in the store.  (Standing still it is where Init put it.)
Mirrored == running = "markov" => K!Mirrored
=============================================================================
