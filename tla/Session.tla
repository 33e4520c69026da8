------------------------------ MODULE Session ------------------------------
(***************************************************************************)
(* The per-network protocol state of internal/irc/session.go: the nick the *)
(* bot answers to, the channels it takes itself to be in and who is there. *)
(*                                                                         *)
(* The server is external.  It answers the commands of out in order and    *)
(* sends lines through pipe, which HandleLine takes one at a time; what it *)
(* knows itself (online, present, sNick) is what the session should know   *)
(* once the pipe is empty.  A new session starts afresh, or behind a       *)
(* keeper resumes a connection whose unread lines it inherits in part.     *)
(* Topics, modes, the motd and texts are data and left out.                *)
(***************************************************************************)
EXTENDS Naturals, Sequences, SequencesExt, JoinList

CONSTANTS
    Channels,
    Seed,         \* the channels of the configuration
    Nicks,        \* every nick, NoNick apart
    UserNicks,    \* those other users may take
    CfgNick,      \* cfg.Nick
    Underscored,  \* Underscored[n] is n with a "_" appended
    NoNick, NoChannel,
    MaxEvents,    \* bound: what other users and operators do
    MaxSessions,  \* bound: connections
    MaxCalls      \* bound: joins and parts the owner asks for

ASSUME SessionAssumption ==
    /\ Seed \in Seq(Channels)
    /\ CfgNick \in Nicks /\ UserNicks \subseteq Nicks /\ NoNick \notin Nicks
    /\ Underscored \in [Nicks -> Nicks] /\ NoChannel \notin Channels
    /\ MaxEvents \in Nat /\ MaxSessions \in Nat /\ MaxCalls \in Nat

VARIABLES
    \* the session
    nick, welcomed,
    chans,        \* the keys of s.channels
    members, pending,
    answered,     \* channels whose NAMES reply this session asked for is in
    channels,     \* c.channels, the autojoin list
    \* the connection
    out, pipe,
    sessions,
    disputed,     \* the connection was inherited under another nick, or the
                  \* server refused one once the bot had a nick
    \* the server
    gotUser,      \* USER was accepted
    sNick,        \* the bot's nick there
    online,       \* the nicks of the other users
    present,      \* who is in a channel, the bot included
    events, calls

sess == <<nick, welcomed, chans, members, pending, answered>>
server == <<gotUser, sNick, online, present>>
owner == <<channels, calls>>
vars == <<sess, out, pipe, sessions, disputed, server, events, owner>>

Registered == gotUser /\ sNick # NoNick

Cmd(k, n, ch) == [kind |-> k, nick |-> n, ch |-> ch]
Line(k, n, to, ch, list) ==
    [kind |-> k, nick |-> n, to |-> to, ch |-> ch, list |-> list,
     me |-> sNick, gen |-> sessions]

(* Register *)
Registration == <<Cmd("NICK", CfgNick, NoChannel), Cmd("USER", NoNick, NoChannel)>>

Nobody == [ch \in Channels |-> {}]

Init ==
    /\ nick = CfgNick /\ welcomed = FALSE
    /\ chans = {} /\ members = Nobody /\ pending = Nobody /\ answered = {}
    /\ out = Registration /\ pipe = <<>>
    /\ sessions = 1 /\ disputed = FALSE
    /\ gotUser = FALSE /\ sNick = NoNick
    /\ online \in SUBSET UserNicks
    /\ present = [ch \in Channels |-> online]
    /\ events = 0 /\ calls = 0 /\ channels = Seed

-----------------------------------------------------------------------------
(* The server's side. *)
Sends(lines) == pipe' = pipe \o lines

Renamed(old, new) ==
    [ch \in Channels |-> IF old \in present[ch] THEN (present[ch] \ {old}) \cup {new}
                         ELSE present[ch]]

Takes(k) == out # <<>> /\ Head(out).kind = k /\ out' = Tail(out)

Welcome(n) == [Line("WELCOME", NoNick, NoNick, NoChannel, {}) EXCEPT !.me = n]

ServerNick ==
    /\ Takes("NICK")
    /\ LET n == Head(out).nick
       IN  IF n = sNick THEN UNCHANGED <<pipe, sNick, present, disputed>>
           ELSE IF n \in online
           THEN /\ Sends(<<Line("NICKINUSE", NoNick, n, NoChannel, {})>>)
                /\ disputed' = (disputed \/ sNick # NoNick)
                /\ UNCHANGED <<sNick, present>>
           ELSE /\ sNick' = n
                /\ present' = Renamed(sNick, n)
                /\ Sends(IF Registered THEN <<Line("NICK", sNick, n, NoChannel, {})>>
                         ELSE IF gotUser THEN <<Welcome(n)>> ELSE <<>>)
                /\ UNCHANGED disputed
    /\ UNCHANGED <<sess, sessions, gotUser, online, events, owner>>

(* 001 when the registration is complete, 462 when it was already. *)
ServerUser ==
    /\ Takes("USER")
    /\ gotUser' = TRUE
    /\ Sends(IF sNick # NoNick THEN <<Welcome(sNick)>> ELSE <<>>)
    /\ UNCHANGED <<sess, sessions, disputed, sNick, online, present, events, owner>>

(* The 353 lines and the 366 of one NAMES reply. *)
Burst(ch, who) ==
    <<Line("NAMES", NoNick, NoNick, ch, who \cap {sNick}),
      Line("NAMES", NoNick, NoNick, ch, who \ {sNick}),
      Line("ENDOFNAMES", NoNick, NoNick, ch, {})>>

(* JOIN: ignored when the bot is in, refused at the server's discretion.   *)
(* A topic that follows (332) finds the channel tracked.                   *)
ServerJoin ==
    /\ Takes("JOIN")
    /\ LET ch == Head(out).ch
       IN  \/ /\ Registered /\ sNick \notin present[ch]
              /\ present' = [present EXCEPT ![ch] = @ \cup {sNick}]
              /\ Sends(<<Line("JOIN", sNick, NoNick, ch, {})>>
                       \o Burst(ch, present[ch] \cup {sNick}))
           \/ UNCHANGED <<present, pipe>>
    /\ UNCHANGED <<sess, sessions, disputed, gotUser, sNick, online, events, owner>>

(* NAMES: an outsider is shown the list or nothing. *)
ServerNames ==
    /\ Takes("NAMES")
    /\ LET ch == Head(out).ch
       IN  IF ~Registered THEN UNCHANGED pipe
           ELSE \/ Sends(Burst(ch, present[ch]))
                \/ /\ sNick \notin present[ch]
                   /\ Sends(<<Line("ENDOFNAMES", NoNick, NoNick, ch, {})>>)
    /\ UNCHANGED <<sess, sessions, disputed, server, events, owner>>

ServerPart ==
    /\ Takes("PART")
    /\ LET ch == Head(out).ch
       IN  IF Registered /\ sNick \in present[ch]
           THEN /\ present' = [present EXCEPT ![ch] = @ \ {sNick}]
                /\ Sends(<<Line("PART", sNick, NoNick, ch, {})>>)
           ELSE UNCHANGED <<present, pipe>>
    /\ UNCHANGED <<sess, sessions, disputed, gotUser, sNick, online, events, owner>>

-----------------------------------------------------------------------------
(* Other users and operators.  The bot is told what it can see. *)
Seen(ch) == sNick # NoNick /\ sNick \in present[ch]
Tells(visible, line) == pipe' = IF visible THEN Append(pipe, line) ELSE pipe

Event ==
    /\ events < MaxEvents /\ events' = events + 1
    /\ UNCHANGED <<sess, out, sessions, disputed, gotUser, owner>>

UserJoins(n, ch) ==
    /\ Event
    /\ n # sNick /\ n \notin present[ch]
    /\ online' = online \cup {n}
    /\ present' = [present EXCEPT ![ch] = @ \cup {n}]
    /\ Tells(Seen(ch), Line("JOIN", n, NoNick, ch, {}))
    /\ UNCHANGED sNick

(* A user leaves; it or the bot is kicked. *)
Leaves(n, ch) ==
    /\ Event
    /\ n \in present[ch]
    /\ present' = [present EXCEPT ![ch] = @ \ {n}]
    /\ \/ n # sNick /\ Tells(Seen(ch), Line("PART", n, NoNick, ch, {}))
       \/ Tells(Seen(ch), Line("KICK", NoNick, n, ch, {}))
    /\ UNCHANGED <<sNick, online>>

UserQuits(n) ==
    /\ Event
    /\ n \in online
    /\ online' = online \ {n}
    /\ present' = [ch \in Channels |-> present[ch] \ {n}]
    /\ Tells(\E ch \in Channels : n \in present[ch] /\ Seen(ch),
             Line("QUIT", n, NoNick, NoChannel, {}))
    /\ UNCHANGED sNick

UserRenames(n, m) ==
    /\ Event
    /\ n \in online /\ m \notin online \cup {sNick}
    /\ online' = (online \ {n}) \cup {m}
    /\ present' = Renamed(n, m)
    /\ Tells(\E ch \in Channels : n \in present[ch] /\ Seen(ch),
             Line("NICK", n, m, NoChannel, {}))
    /\ UNCHANGED sNick

(* Services give the bot another nick. *)
ForcedRename(m) ==
    /\ Event
    /\ Registered /\ m \notin online \cup {sNick}
    /\ sNick' = m
    /\ present' = Renamed(sNick, m)
    /\ Tells(TRUE, Line("NICK", sNick, m, NoChannel, {}))
    /\ UNCHANGED online

TopicChanges(ch) ==
    /\ Event
    /\ Tells(Seen(ch), Line("TOPIC", NoNick, NoNick, ch, {}))
    /\ UNCHANGED <<sNick, online, present>>

-----------------------------------------------------------------------------
(* HandleLine, one action per command. *)
Handles(k) ==
    /\ pipe # <<>> /\ Head(pipe).kind = k
    /\ pipe' = Tail(pipe)
    /\ UNCHANGED <<sessions, disputed, server, events, owner>>

SenderMe(l) == l.nick = nick

Tracks(ch) == ch \in chans

Added(f, ch, n) == [f EXCEPT ![ch] = @ \cup {n}]
Removed(f, ch, n) == [f EXCEPT ![ch] = @ \ {n}]
Forgotten(f, ch) == [f EXCEPT ![ch] = {}]

(* The bot's own JOIN starts the channel's state over. *)
OnJoin ==
    /\ Handles("JOIN")
    /\ LET l == Head(pipe)
       IN  IF SenderMe(l)
           THEN /\ chans' = chans \cup {l.ch}
                /\ members' = Forgotten(members, l.ch)
                /\ pending' = Forgotten(pending, l.ch)
                /\ answered' = answered \ {l.ch}
           ELSE /\ members' = IF Tracks(l.ch) THEN Added(members, l.ch, l.nick)
                              ELSE members
                /\ UNCHANGED <<chans, pending, answered>>
    /\ UNCHANGED <<nick, welcomed, out>>

OnPart ==
    /\ Handles("PART")
    /\ LET l == Head(pipe)
       IN  IF SenderMe(l)
           THEN /\ chans' = chans \ {l.ch}
                /\ members' = Forgotten(members, l.ch)
                /\ pending' = Forgotten(pending, l.ch)
                /\ answered' = answered \ {l.ch}
           ELSE /\ members' = Removed(members, l.ch, l.nick)
                /\ UNCHANGED <<chans, pending, answered>>
    /\ UNCHANGED <<nick, welcomed, out>>

(* A kick of the bot itself leaves the channel tracked. *)
OnKick ==
    /\ Handles("KICK")
    /\ LET l == Head(pipe)
       IN  members' = IF l.to # nick THEN Removed(members, l.ch, l.to) ELSE members
    /\ UNCHANGED <<nick, welcomed, chans, pending, answered, out>>

Without(n) == [ch \in Channels |-> members[ch] \ {n}]

OnQuit ==
    /\ Handles("QUIT")
    /\ members' = Without(Head(pipe).nick)
    /\ UNCHANGED <<nick, welcomed, chans, pending, answered, out>>

NickAfter(l) == IF SenderMe(l) THEN l.to ELSE nick

OnNick ==
    /\ Handles("NICK")
    /\ LET l == Head(pipe)
       IN  /\ nick' = NickAfter(l)
           /\ members' = [ch \in Channels |->
                            IF l.nick \in members[ch] THEN (members[ch] \ {l.nick}) \cup {l.to}
                            ELSE members[ch]]
    /\ UNCHANGED <<welcomed, chans, pending, answered, out>>

(* TOPIC and 332 make a channel state where there is none. *)
OnTopic ==
    /\ Handles("TOPIC")
    /\ chans' = chans \cup {Head(pipe).ch}
    /\ UNCHANGED <<nick, welcomed, members, pending, answered, out>>

OnNamReply ==
    /\ Handles("NAMES")
    /\ LET l == Head(pipe)
       IN  pending' = IF Tracks(l.ch) THEN [pending EXCEPT ![l.ch] = @ \cup l.list]
                      ELSE pending
    /\ UNCHANGED <<nick, welcomed, chans, members, answered, out>>

(* Mutant: pending is not reset. *)
PendingAfterKept(ch) == pending

PendingAfter(ch) == Forgotten(pending, ch)

OnEndOfNames ==
    /\ Handles("ENDOFNAMES")
    /\ LET l == Head(pipe)
       IN  IF Tracks(l.ch)
           THEN /\ members' = [members EXCEPT ![l.ch] = pending[l.ch]]
                /\ pending' = PendingAfter(l.ch)
                /\ answered' = IF l.gen = sessions THEN answered \cup {l.ch} ELSE answered
           ELSE UNCHANGED <<members, pending, answered>>
    /\ UNCHANGED <<nick, welcomed, chans, out>>

OnNickInUse ==
    /\ Handles("NICKINUSE")
    /\ nick' = Underscored[nick]
    /\ out' = Append(out, Cmd("NICK", Underscored[nick], NoChannel))
    /\ UNCHANGED <<welcomed, chans, members, pending, answered>>

JoinCmds(ch) == <<Cmd("JOIN", NoNick, ch), Cmd("NAMES", NoNick, ch)>>

(* The commands of JoinCmds for one channel after the other. *)
JoinAll(chs) ==
    [i \in 1..(2 * Len(chs)) |->
        Cmd(IF i % 2 = 1 THEN "JOIN" ELSE "NAMES", NoNick, chs[(i + 1) \div 2])]

Marked(chs) == chans \cup Range(chs)

(* The first 001 or 462 joins the channels, each marked before the server  *)
(* confirms it.                                                            *)
OnWelcome ==
    /\ Handles("WELCOME")
    /\ welcomed' = TRUE
    /\ IF welcomed THEN UNCHANGED <<chans, out>>
       ELSE chans' = Marked(channels) /\ out' = out \o JoinAll(channels)
    /\ UNCHANGED <<nick, members, pending, answered>>

-----------------------------------------------------------------------------
(* The owner: admin join and part, an invite that is the same as a join,   *)
(* and connect.                                                            *)
Call == calls < MaxCalls /\ calls' = calls + 1

OwnerJoins(ch) ==
    /\ Call
    /\ channels' = addChannel(channels, ch)
    /\ out' = out \o JoinCmds(ch)
    /\ chans' = Marked(<<ch>>)
    /\ UNCHANGED <<nick, welcomed, members, pending, answered, pipe, sessions, disputed,
                   server, events>>

OwnerParts(ch) ==
    /\ Call
    /\ ch \in Range(channels)
    /\ channels' = removeChannel(channels, ch)
    /\ out' = Append(out, Cmd("PART", NoNick, ch))
    /\ UNCHANGED <<sess, pipe, sessions, disputed, server, events>>

NewSession ==
    /\ sessions < MaxSessions
    /\ sessions' = sessions + 1
    /\ nick' = CfgNick /\ welcomed' = FALSE
    /\ chans' = {} /\ members' = Nobody /\ pending' = Nobody /\ answered' = {}
    /\ out' = Registration
    /\ UNCHANGED <<online, events, owner>>

(* A new connection to the server; the old one's channels are left. *)
Reconnect ==
    /\ NewSession
    /\ disputed' = FALSE
    /\ gotUser' = FALSE /\ sNick' = NoNick
    /\ present' = [ch \in Channels |-> present[ch] \ {sNick}]
    /\ pipe' = <<>>

(* The keeper's connection goes on; the oldest unread lines may be gone. *)
Resume ==
    /\ NewSession
    /\ \E k \in 0..Len(pipe) : pipe' = SubSeq(pipe, k + 1, Len(pipe))
    /\ disputed' = (sNick # CfgNick
                    \/ \E i \in 1..Len(pipe') :
                          pipe'[i].me # CfgNick \/ pipe'[i].kind = "NICKINUSE")
    /\ UNCHANGED <<gotUser, sNick, present>>

Next ==
    \/ ServerNick \/ ServerUser \/ ServerJoin \/ ServerNames \/ ServerPart
    \/ \E ch \in Channels : TopicChanges(ch) \/ OwnerJoins(ch) \/ OwnerParts(ch)
    \/ \E ch \in Channels, n \in UserNicks : UserJoins(n, ch)
    \/ \E ch \in Channels, n \in UserNicks \cup {sNick} : Leaves(n, ch)
    \/ \E n \in UserNicks : UserQuits(n) \/ \E m \in UserNicks : UserRenames(n, m)
    \/ \E m \in Nicks : ForcedRename(m)
    \/ OnJoin \/ OnPart \/ OnKick \/ OnQuit \/ OnNick \/ OnTopic
    \/ OnNamReply \/ OnEndOfNames \/ OnNickInUse \/ OnWelcome
    \/ Reconnect \/ Resume

Spec == Init /\ [][Next]_vars

-----------------------------------------------------------------------------
(* Once a channel's NAMES reply is in, the member list is exact whenever   *)
(* every line is handled: joins, parts, kicks, quits and renames between,  *)
(* before and after the bursts are all accounted for (Members, NickIn);    *)
(* unless the nick is in dispute.                                          *)
MembersAgree ==
    pipe = <<>> /\ ~disputed =>
        \A ch \in answered : Seen(ch) => members[ch] = present[ch]

(* The nick the session answers to is the one the server knows it by, once *)
(* every line is handled, through collisions at the registration and       *)
(* forced renames; unless the nick is in dispute: 433 changes it at once,  *)
(* and another user's rename may then be taken for the bot's.              *)
NickAgrees == pipe = <<>> /\ Registered /\ ~disputed => nick = sNick

(* "Our own rename (server-forced, or the 433 retry echo) updates the nick  *)
(* the session answers to" (session.go:363): with nothing left to answer   *)
(* or to handle, the nicks are the same.                                   *)
AnswersToItsNick == pipe = <<>> /\ out = <<>> /\ Registered => nick = sNick

(* No reply is swallowed by privmsg's test of InChannel: the channels of   *)
(* the list the bot sits in are tracked, whether the server echoed a JOIN  *)
(* or the bot was there already; unless the nick is in dispute.            *)
TrackedWhereIn ==
    pipe = <<>> /\ welcomed /\ ~disputed =>
        \A ch \in Range(channels) : Seen(ch) => ch \in chans

(* Of a channel that is not tracked nothing is remembered: a later join    *)
(* does not start from the members of an earlier stay.                     *)
NothingLeft == \A ch \in Channels \ chans : members[ch] = {} /\ pending[ch] = {}

(* The session mirrors the server: members, nick and channels together.    *)
Mirrors == MembersAgree /\ NickAgrees /\ TrackedWhereIn /\ NothingLeft

=============================================================================
