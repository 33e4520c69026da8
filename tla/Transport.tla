----------------------------- MODULE Transport -----------------------------
(***************************************************************************)
(* The connection lifecycle of internal/core/transport.go: connect, the    *)
(* wait for the server's welcome, messages held until then, the autojoin   *)
(* set, connection loss, the reconnect timer and the shutdown; with the    *)
(* parts of internal/irc/session.go they rest on.                          *)
(*                                                                         *)
(* Everything the core does runs on the dispatcher, one item of the work   *)
(* channel (or a timer) at a time.  A connection and its session are a     *)
(* number; closures of an old one may still sit in the work channel.  The  *)
(* server is external: it answers the commands of out in order.  Behind a  *)
(* keeper it keeps the bot registered and in its channels while the core   *)
(* is away (resumed), otherwise every connection starts afresh.            *)
(***************************************************************************)
EXTENDS Naturals, Sequences, Functions, JoinList

CONSTANTS
    Channels,
    Seed,        \* the autojoin list at boot
    NoChannel,
    HeldCap,     \* 64 in the code
    WorkCap,     \* 256 in the code
    MaxConns,    \* bound: successful dials
    MaxMsgs,     \* bound: messages the server delivers
    MaxAdmin     \* bound: admin join and part commands

ASSUME TransportAssumption ==
    /\ Seed \in Seq(Channels) /\ NoChannel \notin Channels
    /\ HeldCap \in Nat /\ WorkCap \in Nat \ {0}
    /\ MaxConns \in Nat /\ MaxMsgs \in Nat /\ MaxAdmin \in Nat

VARIABLES
    phase,       \* Run: before the loop, in it, after it
    work,        \* c.work
    cur,         \* c.conn and c.session; 0 is nil
    dialed,      \* how many connections there were
    reader,      \* the connection whose readLoop runs; 0 is none
    timers,      \* pending reconnect timers
    welcomed,    \* per session: s.welcomed
    held,        \* per session: the closure's held
    tracked,     \* per session: the keys of s.channels
    channels,    \* c.channels
    out,         \* commands queued on the current connection, unanswered
    registered,  \* server: no, pending (USER seen), yes
    in,          \* server: the channels the bot is in
    received,    \* messages delivered so far
    dispatched,  \* messages given to bus and commands, in order
    admin        \* admin commands so far

vars == <<phase, work, cur, dialed, reader, timers, welcomed, held, tracked, channels,
          out, registered, in, received, dispatched, admin>>
server == <<registered, in, received>>
sessions == <<welcomed, held, tracked>>

Conns == 1..MaxConns
Line(g, k, ch, n) == [conn |-> g, kind |-> k, ch |-> ch, n |-> n]
Cmd(k, ch) == [kind |-> k, ch |-> ch]

Init ==
    /\ phase = "start"
    /\ work = <<>>
    /\ cur = 0 /\ dialed = 0 /\ reader = 0 /\ timers = 0
    /\ welcomed = [g \in Conns |-> FALSE]
    /\ held = [g \in Conns |-> <<>>]
    /\ tracked = [g \in Conns |-> {}]
    /\ channels = Seed
    /\ out = <<>>
    /\ registered \in {"no", "yes"}
    /\ in \in {{}, Range(Seed)} /\ (registered = "no" => in = {})
    /\ received = 0
    /\ dispatched = <<>>
    /\ admin = 0

-----------------------------------------------------------------------------
(* connect is called once before the loop and by every reconnect timer. *)
ConnectDue ==
    \/ phase = "start" /\ phase' = "run" /\ UNCHANGED timers
    \/ phase = "run" /\ timers > 0 /\ timers' = timers - 1 /\ UNCHANGED phase

ConnectDueRetry ==
    \/ phase = "start" /\ phase' = "run" /\ timers' = timers + 1
    \/ phase = "run" /\ timers > 0 /\ UNCHANGED <<phase, timers>>

(* The dial succeeds; Register queues NICK and USER.  The server side is a *)
(* new registration, or the keeper's session that never ended.             *)
ConnectOK ==
    /\ dialed < MaxConns
    /\ ConnectDue
    /\ dialed' = dialed + 1
    /\ cur' = dialed + 1 /\ reader' = dialed + 1
    /\ out' = <<Cmd("USER", NoChannel)>>
    /\ \/ registered' = "no" /\ in' = {}
       \/ registered = "yes" /\ UNCHANGED <<registered, in>>
    /\ UNCHANGED <<work, channels, received, dispatched, admin>>
    /\ UNCHANGED sessions

(* The dial fails: scheduleReconnect. *)
ConnectFails ==
    /\ ConnectDueRetry
    /\ UNCHANGED <<work, cur, dialed, reader, channels, out, dispatched, admin>>
    /\ UNCHANGED server /\ UNCHANGED sessions

-----------------------------------------------------------------------------
(* Mutant: the report of the end overtakes the lines. *)
PostGoneFirst(k, ch, n) ==
    /\ reader # 0
    /\ Len(work) < WorkCap
    /\ work' = IF k = "gone" THEN <<Line(reader, k, ch, n)>> \o work
               ELSE Append(work, Line(reader, k, ch, n))

(* The server, and the reader goroutine that puts its lines into the work  *)
(* channel, blocking while that is full.                                   *)
Post(k, ch, n) ==
    /\ reader # 0
    /\ Len(work) < WorkCap
    /\ work' = Append(work, Line(reader, k, ch, n))

(* USER: a second registration is refused with 462, a first one goes on. *)
ServerUser ==
    /\ registered # "pending"
    /\ out # <<>> /\ Head(out).kind = "USER"
    /\ out' = Tail(out)
    /\ \/ registered = "yes" /\ Post("welcome", NoChannel, 0) /\ UNCHANGED registered
       \/ registered = "no" /\ registered' = "pending" /\ reader # 0 /\ UNCHANGED work
    /\ UNCHANGED <<phase, cur, dialed, reader, timers, channels, in, received,
                   dispatched, admin>>
    /\ UNCHANGED sessions

(* Registration completes: 001. *)
ServerWelcome ==
    /\ registered = "pending"
    /\ Post("welcome", NoChannel, 0)
    /\ registered' = "yes"
    /\ UNCHANGED <<phase, cur, dialed, reader, timers, channels, out, in, received,
                   dispatched, admin>>
    /\ UNCHANGED sessions

(* JOIN and PART: refused before registration, echoed when they change     *)
(* something.                                                              *)
ServerJoinPart ==
    /\ reader # 0
    /\ out # <<>> /\ Head(out).kind \in {"JOIN", "PART"}
    /\ out' = Tail(out)
    /\ LET ch == Head(out).ch
           joins == Head(out).kind = "JOIN"
       IN  IF registered = "yes" /\ (joins <=> ch \notin in)
           THEN /\ in' = IF joins THEN in \cup {ch} ELSE in \ {ch}
                /\ Post(IF joins THEN "join" ELSE "part", ch, 0)
           ELSE UNCHANGED <<in, work>>
    /\ UNCHANGED <<phase, cur, dialed, reader, timers, channels, registered, received,
                   dispatched, admin>>
    /\ UNCHANGED sessions

(* Somebody speaks in a channel the bot is in. *)
ServerMsg(ch) ==
    /\ registered = "yes" /\ ch \in in
    /\ received < MaxMsgs
    /\ Post("msg", ch, received + 1)
    /\ received' = received + 1
    /\ UNCHANGED <<phase, cur, dialed, reader, timers, channels, out, registered, in,
                   dispatched, admin>>
    /\ UNCHANGED sessions

(* The connection dies: the reader reports it and ends. *)
ConnectionDies ==
    /\ Post("gone", NoChannel, 0)
    /\ reader' = 0
    /\ UNCHANGED <<phase, cur, dialed, timers, channels, out, dispatched, admin>>
    /\ UNCHANGED server /\ UNCHANGED sessions

-----------------------------------------------------------------------------
(* The dispatcher takes the next item of the work channel. *)
Takes(k) ==
    /\ phase = "run"
    /\ work # <<>> /\ Head(work).kind = k
    /\ work' = Tail(work)

JoinCmds(chs) == [i \in 1..Len(chs) |-> Cmd("JOIN", chs[i])]

(* Mutant: welcomed is not consulted, as before the hold existed. *)
DispatchesAlways(g) == TRUE

(* sess.Emit: messages wait for the welcome. *)
Dispatches(g) == welcomed[g]

HandleMsg ==
    /\ Takes("msg")
    /\ LET m == Head(work)
           g == m.conn
       IN  IF Dispatches(g)
           THEN dispatched' = Append(dispatched, m) /\ UNCHANGED held
           ELSE /\ held' = IF Len(held[g]) < HeldCap
                           THEN [held EXCEPT ![g] = Append(@, m)] ELSE held
                /\ UNCHANGED dispatched
    /\ UNCHANGED <<phase, cur, dialed, reader, timers, welcomed, tracked, channels, out,
                   admin>>
    /\ UNCHANGED server

Unheld(g) == [held EXCEPT ![g] = <<>>]

Replayed(g) == dispatched \o held[g]

(* Mutant: the channels are joined without marking them. *)
MarkedNone(g, chs) == tracked[g]

(* JoinChannels marks each channel before the server confirms. *)
Marked(g, chs) == tracked[g] \cup Range(chs)

(* 001 or 462: the first one joins the channels and replays what was held, *)
(* unless the connection was superseded.                                   *)
HandleWelcome ==
    /\ Takes("welcome")
    /\ LET g == Head(work).conn
       IN  /\ welcomed' = [welcomed EXCEPT ![g] = TRUE]
           /\ IF ~welcomed[g] /\ cur = g
              THEN /\ out' = out \o JoinCmds(channels)
                   /\ tracked' = [tracked EXCEPT ![g] = Marked(g, channels)]
                   /\ dispatched' = Replayed(g)
                   /\ held' = Unheld(g)
              ELSE UNCHANGED <<out, tracked, dispatched, held>>
    /\ UNCHANGED <<phase, cur, dialed, reader, timers, channels, admin>>
    /\ UNCHANGED server

(* The bot's own JOIN and PART, as the server reports them. *)
HandleJoin ==
    /\ Takes("join")
    /\ tracked' = [tracked EXCEPT ![Head(work).conn] = @ \cup {Head(work).ch}]
    /\ UNCHANGED <<phase, cur, dialed, reader, timers, welcomed, held, channels, out,
                   dispatched, admin>>
    /\ UNCHANGED server

HandlePart ==
    /\ Takes("part")
    /\ tracked' = [tracked EXCEPT ![Head(work).conn] = @ \ {Head(work).ch}]
    /\ UNCHANGED <<phase, cur, dialed, reader, timers, welcomed, held, channels, out,
                   dispatched, admin>>
    /\ UNCHANGED server

(* Mutant: the reader's report and the failed write both schedule. *)
RescheduledTwice == timers + 2

(* Mutant: the lost connection schedules nothing. *)
RescheduledNone == timers

Rescheduled == timers + 1

(* disconnected closes whatever connection is current. *)
Disconnected ==
    /\ Takes("gone")
    /\ cur' = 0
    /\ out' = <<>>
    /\ reader' = IF reader = cur THEN 0 ELSE reader
    /\ timers' = Rescheduled
    /\ UNCHANGED <<phase, dialed, channels, dispatched, admin>>
    /\ UNCHANGED server /\ UNCHANGED sessions

-----------------------------------------------------------------------------
(* The admin commands, on the dispatcher.  join persists the channel and   *)
(* joins it at once when there is a session, registered or not.            *)
AdminJoin(ch) ==
    /\ phase = "run" /\ admin < MaxAdmin
    /\ admin' = admin + 1
    /\ channels' = addChannel(channels, ch)
    /\ IF cur # 0
       THEN /\ out' = Append(out, Cmd("JOIN", ch))
            /\ tracked' = [tracked EXCEPT ![cur] = Marked(cur, <<ch>>)]
       ELSE UNCHANGED <<out, tracked>>
    /\ UNCHANGED <<phase, work, cur, dialed, reader, timers, welcomed, held, dispatched>>
    /\ UNCHANGED server

AdminPart(ch) ==
    /\ phase = "run" /\ admin < MaxAdmin
    /\ ch \in Range(channels)
    /\ admin' = admin + 1
    /\ channels' = removeChannel(channels, ch)
    /\ out' = IF cur # 0 THEN Append(out, Cmd("PART", ch)) ELSE out
    /\ UNCHANGED <<phase, work, cur, dialed, reader, timers, dispatched>>
    /\ UNCHANGED server /\ UNCHANGED sessions

(* The context ends the loop; shutdown submits QUIT and closes, or returns *)
(* at once when there is no connection.                                    *)
Shutdown ==
    /\ phase = "run"
    /\ phase' = "stopped"
    /\ reader' = 0
    /\ UNCHANGED <<work, cur, dialed, timers, channels, out, dispatched, admin>>
    /\ UNCHANGED server /\ UNCHANGED sessions

Next ==
    \/ ConnectOK \/ ConnectFails
    \/ ServerUser \/ ServerWelcome \/ ServerJoinPart \/ ConnectionDies
    \/ \E ch \in Channels : ServerMsg(ch) \/ AdminJoin(ch) \/ AdminPart(ch)
    \/ HandleMsg \/ HandleWelcome \/ HandleJoin \/ HandlePart \/ Disconnected
    \/ Shutdown

Spec == Init /\ [][Next]_vars

(* The loop serves the work channel and its timers; a dial that is tried   *)
(* again and again succeeds in the end; the server answers.                *)
Fairness ==
    /\ WF_vars(HandleMsg \/ HandleWelcome \/ HandleJoin \/ HandlePart \/ Disconnected)
    /\ SF_vars(ConnectOK)
    /\ WF_vars(ServerUser) /\ WF_vars(ServerWelcome) /\ WF_vars(ServerJoinPart)

FairSpec == Spec /\ Fairness

-----------------------------------------------------------------------------
Gone == {i \in 1..Len(work) : work[i].kind = "gone"}

(* While the bot runs it hangs by exactly one thread: a reader that will   *)
(* report the end, that report in the work channel, or a reconnect timer.  *)
(* None would leave it offline for good, two would make two connections    *)
(* that tear each other down.                                              *)
OneLifeline ==
    phase = "run" =>
        \/ reader # 0 /\ reader = cur /\ Gone = {} /\ timers = 0
        \/ reader = 0 /\ cur # 0 /\ timers = 0 /\ \E i \in Gone : Gone = {i}
        \/ reader = 0 /\ cur = 0 /\ timers = 1 /\ Gone = {}

(* No line is handled by a session that is not the current one, though the *)
(* work channel carries the closures of any: a connection's lines come     *)
(* before its own end, and the next one is dialed after that.              *)
NoStaleLine == phase = "run" => \A i \in 1..Len(work) : work[i].conn = cur

(* What the messages' handlers would answer is not swallowed: a message    *)
(* from an autojoin channel is dispatched only when privmsg lets replies   *)
(* to that channel through.                                                *)
Speaks(ch) == cur # 0 /\ welcomed[cur] /\ ch \in tracked[cur]
Answerable ==
    [][\A ch \in Channels :
         /\ ch \in Range(channels)
         /\ \E i \in (Len(dispatched) + 1)..Len(dispatched') : dispatched'[i].ch = ch
         => Speaks(ch)']_vars

(* Messages reach the modules in the order they arrived and none twice,    *)
(* held ones included; nothing stays held once the server has welcomed us. *)
InOrder ==
    /\ \A i \in 1..(Len(dispatched) - 1) : dispatched[i].n < dispatched[i + 1].n
    /\ \A g \in Conns : welcomed[g] => held[g] = <<>>

(* The session's lines and messages together: none stale, none out of turn. *)
Orderly == NoStaleLine /\ InOrder

(* When everything sent is answered and handled, the bot is in every       *)
(* channel of its autojoin set and knows it, whenever join and part were   *)
(* given: a JOIN the server refused before registration is sent again.     *)
AutojoinHolds ==
    phase = "run" /\ reader # 0 /\ welcomed[cur] /\ work = <<>> /\ out = <<>>
      => Range(channels) \subseteq tracked[cur] \cap in

(* The bot comes back: it is welcomed again and again, until the dials are *)
(* used up or it is shut down.                                             *)
ComesBack ==
    phase = "run" ~> (cur # 0 /\ welcomed[cur]) \/ phase = "stopped" \/ dialed = MaxConns

=============================================================================
