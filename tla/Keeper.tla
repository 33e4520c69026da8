------------------------------- MODULE Keeper ------------------------------
(***************************************************************************)
(* The connection keeper, internal/keeper/keeper.go: a byte relay between  *)
(* one IRC connection and one core, that outlives the core.  Three         *)
(* goroutines share the state under k.mu: ircLoop (dial, pump, drop), the  *)
(* serial serveCore (accept, attach, pump, detach) and the shutdown.       *)
(*                                                                         *)
(* Connections are numbers; 0 is nil.  Bytes are tokens: inbound ones are  *)
(* numbered halves of lines (2n-1 and 2n make line n), outbound ones are   *)
(* a core's registration or a later line.  toCore and attachCore write to  *)
(* the core with k.mu held, so a core that does not read blocks whoever    *)
(* needs the lock.  Cores and the ircd are external.                       *)
(***************************************************************************)
EXTENDS Naturals, Sequences, FiniteSets

CONSTANTS
    MaxBuffer,   \* inbound tokens held for an absent core
    MaxOutBuffer,\* outbound tokens held while IRC is away
    SockCap,     \* tokens a core's socket takes before a write blocks
    MaxIRC,      \* bound: IRC connections
    MaxCores,    \* bound: core connections
    MaxIn,       \* bound: tokens the ircd sends on one connection
    MaxOpen,     \* bound: cores running at the same time
    MaxLines     \* bound: lines a core sends after its registration

KeeperConstants ==
    /\ MaxBuffer \in Nat \ {0} /\ MaxOutBuffer \in Nat \ {0} /\ SockCap \in Nat \ {0}
    /\ MaxIRC \in Nat /\ MaxCores \in Nat /\ MaxIn \in Nat
    /\ MaxOpen \in Nat /\ MaxLines \in Nat

IRCs == 1..MaxIRC
Cores == 1..MaxCores

VARIABLES
    \* the keeper's fields
    irc, core, buffer, outBuf, outDropped, closed,
    mu,          \* who writes to the core with k.mu held
    \* ircLoop
    ircPc,       \* where it is
    dialed,      \* the connection it works on
    link,        \* per IRC connection: up, hung (silent for good) or dead
    probed, sent,\* its watchdog; tokens the ircd sent on it
    \* serveCore
    corePc,
    served,      \* the core connection it works on
    toIrc,       \* the connection and token of a write under way in toIRC
    \* shutdown
    ctx,         \* running, cancelled, said goodbye
    \* the cores and their sockets
    backlog,     \* connections not accepted yet
    made,        \* how many cores connected
    coreOpen,    \* per core: the core has its end open
    cut,         \* per core: the keeper closed its end
    inbox,       \* per core: written by the keeper, unread
    outbox,      \* per core: written by the core, unread
    seen,        \* per core: what it has read
    lines,       \* per core: lines sent after the registration
    \* the ircd
    wire         \* per IRC connection: what reached the ircd

ircVars == <<ircPc, dialed, link, probed, sent>>
servVars == <<corePc, served, toIrc>>
sockVars == <<backlog, made, coreOpen, cut, inbox, outbox, seen, lines>>
vars == <<irc, core, buffer, outBuf, outDropped, closed, mu, ctx, wire,
          ircVars, servVars, sockVars>>

Reg(c) == [core |-> c, kind |-> "REG"]
Say(c) == [core |-> c, kind |-> "LINE"]
In(i, n) == [irc |-> i, n |-> n]

Init ==
    /\ irc = 0 /\ core = 0 /\ buffer = <<>> /\ outBuf = <<>>
    /\ outDropped = FALSE /\ closed = FALSE /\ mu = "free"
    /\ ircPc = "dial" /\ dialed = 0 /\ link = [i \in IRCs |-> "dead"]
    /\ probed = FALSE /\ sent = 0
    /\ corePc = "accept" /\ served = 0 /\ toIrc = <<>>
    /\ ctx = "running"
    /\ backlog = <<>> /\ made = 0
    /\ coreOpen = [c \in Cores |-> FALSE] /\ cut = [c \in Cores |-> FALSE]
    /\ inbox = [c \in Cores |-> <<>>] /\ outbox = [c \in Cores |-> <<>>]
    /\ seen = [c \in Cores |-> <<>>] /\ lines = [c \in Cores |-> 0]
    /\ wire = [i \in IRCs |-> <<>>]

Unlocked == mu = "free"
Broken(c) == ~coreOpen[c] \/ cut[c]    \* a write to c fails

-----------------------------------------------------------------------------
(* ircLoop *)
Dial ==
    /\ ircPc = "dial" /\ ctx = "running"
    /\ \/ /\ dialed < MaxIRC
          /\ dialed' = dialed + 1
          /\ link' = [link EXCEPT ![dialed + 1] = "up"]
          /\ sent' = 0 /\ probed' = FALSE
          /\ ircPc' = "set"
       \/ ircPc' = "sleep" /\ UNCHANGED <<dialed, link, sent, probed>>
    /\ UNCHANGED <<irc, core, buffer, outBuf, outDropped, closed, mu, ctx, wire>>
    /\ UNCHANGED servVars /\ UNCHANGED sockVars

(* sleep, then the loop's test of the context.  The shortest delay, 3 s,   *)
(* is ample for serveCore to let go of a core that is gone.               *)
SleepOver ==
    /\ ircPc \in {"sleep", "dial"}
    /\ ctx = "running" /\ served # 0 => ~Broken(served)
    /\ ircPc' = IF ctx # "running" THEN "done" ELSE "dial"
    /\ ircPc # ircPc'
    /\ UNCHANGED <<irc, core, buffer, outBuf, outDropped, closed, mu, ctx, wire,
                   dialed, link, probed, sent>>
    /\ UNCHANGED servVars /\ UNCHANGED sockVars

(* What arrives when tokens are written to an IRC connection. *)
Wired(i, toks) == IF link[i] = "up" THEN [wire EXCEPT ![i] = @ \o toks] ELSE wire

(* Mutant: the held bytes are not delivered. *)
FlushedNone(i) == wire

Flushed(i) == Wired(i, outBuf)

(* setIRC(conn): installs it and delivers what the core queued meanwhile,  *)
(* or refuses it when the shutdown came first.                             *)
SetIRC ==
    /\ ircPc = "set" /\ Unlocked
    /\ ircPc' = "pump"
    /\ IF closed
       THEN /\ link' = [link EXCEPT ![dialed] = "dead"]
            /\ UNCHANGED <<irc, outBuf, outDropped, wire>>
       ELSE /\ irc' = dialed
            /\ wire' = Flushed(dialed)
            /\ outBuf' = <<>> /\ outDropped' = FALSE
            /\ UNCHANGED link
    /\ UNCHANGED <<core, buffer, closed, mu, ctx, dialed, probed, sent>>
    /\ UNCHANGED servVars /\ UNCHANGED sockVars

Newest(s, cap) == IF Len(s) > cap THEN SubSeq(s, Len(s) - cap + 1, Len(s)) ELSE s

(* bufferLocked: the oldest bytes go, wherever their lines end. *)
Buffered(tok) == Newest(Append(buffer, tok), MaxBuffer)

Token == In(dialed, sent + 1)

(* pumpIRC reads a token and hands it to toCore: no core, a broken one, or *)
(* one that is written to with the lock held.                              *)
ReadIRC ==
    /\ ircPc = "pump" /\ Unlocked
    /\ link[dialed] = "up" /\ sent < MaxIn
    /\ sent' = sent + 1 /\ probed' = FALSE
    /\ IF core = 0 \/ Broken(core)
       THEN core' = 0 /\ buffer' = Buffered(Token) /\ UNCHANGED mu
       ELSE mu' = "toCore" /\ UNCHANGED <<core, buffer>>
    /\ UNCHANGED <<irc, outBuf, outDropped, closed, ctx, wire, ircPc, dialed, link>>
    /\ UNCHANGED servVars /\ UNCHANGED sockVars

ToCore ==
    /\ mu = "toCore"
    /\ mu' = "free"
    /\ IF Broken(core)
       THEN /\ core' = 0 /\ buffer' = Buffered(In(dialed, sent))
            /\ UNCHANGED inbox
       ELSE /\ Len(inbox[core]) < SockCap
            /\ inbox' = [inbox EXCEPT ![core] = Append(@, In(dialed, sent))]
            /\ UNCHANGED <<core, buffer>>
    /\ UNCHANGED <<irc, outBuf, outDropped, closed, ctx, wire, backlog, made, coreOpen,
                   cut, outbox, seen, lines>>
    /\ UNCHANGED ircVars /\ UNCHANGED servVars

(* Half the window passed in silence: the probe, which a live ircd answers *)
(* with a token of ReadIRC.                                                *)
Probe ==
    /\ ircPc = "pump" /\ Unlocked /\ ~probed /\ link[dialed] # "dead"
    /\ probed' = TRUE
    /\ UNCHANGED <<irc, core, buffer, outBuf, outDropped, closed, mu, ctx, wire,
                   ircPc, dialed, link, sent>>
    /\ UNCHANGED servVars /\ UNCHANGED sockVars

(* Mutant: only a read error ends the pump. *)
PumpIsOverOnError == link[dialed] = "dead"

(* A read error, or silence after the probe. *)
PumpIsOver == link[dialed] = "dead" \/ (probed /\ link[dialed] = "hung")

PumpIRCEnds ==
    /\ ircPc = "pump" /\ mu # "toCore" /\ PumpIsOver
    /\ ircPc' = "unset"
    /\ UNCHANGED <<irc, core, buffer, outBuf, outDropped, closed, mu, ctx, wire,
                   dialed, link, probed, sent>>
    /\ UNCHANGED servVars /\ UNCHANGED sockVars

(* setIRC(nil) closes the connection. *)
UnsetIRC ==
    /\ ircPc = "unset" /\ Unlocked
    /\ irc' = 0
    /\ outBuf' = <<>> /\ outDropped' = FALSE
    /\ link' = [link EXCEPT ![dialed] = "dead"]
    /\ ircPc' = IF ctx # "running" THEN "done" ELSE "drop"
    /\ UNCHANGED <<core, buffer, closed, mu, ctx, wire, dialed, probed, sent>>
    /\ UNCHANGED servVars /\ UNCHANGED sockVars

Cut(c) == IF c = 0 THEN cut ELSE [cut EXCEPT ![c] = TRUE]

(* Mutant: the inbound buffer outlives the session. *)
DropSessionKeepsBuffer ==
    /\ ircPc = "drop" /\ Unlocked
    /\ cut' = Cut(core)
    /\ ircPc' = "sleep"
    /\ UNCHANGED <<irc, core, buffer, outBuf, outDropped, closed, mu, ctx, wire, dialed,
                   link, probed, sent, backlog, made, coreOpen, inbox, outbox, seen, lines>>
    /\ UNCHANGED servVars

(* dropSession: the buffered inbound and the attached core belong to the   *)
(* session that died.                                                      *)
DropSession ==
    /\ ircPc = "drop" /\ Unlocked
    /\ buffer' = <<>>
    /\ cut' = Cut(core)
    /\ ircPc' = "sleep"
    /\ UNCHANGED <<irc, core, outBuf, outDropped, closed, mu, ctx, wire, dialed, link,
                   probed, sent, backlog, made, coreOpen, inbox, outbox, seen, lines>>
    /\ UNCHANGED servVars

-----------------------------------------------------------------------------
(* serveCore *)
Accept ==
    /\ corePc = "accept"
    /\ \/ /\ ctx = "running" /\ backlog # <<>>
          /\ served' = Head(backlog) /\ backlog' = Tail(backlog)
          /\ corePc' = "attach"
       \/ ctx # "running" /\ corePc' = "done" /\ UNCHANGED <<served, backlog>>
    /\ UNCHANGED <<irc, core, buffer, outBuf, outDropped, closed, mu, ctx, wire, toIrc,
                   made, coreOpen, cut, inbox, outbox, seen, lines>>
    /\ UNCHANGED ircVars

AttachCore ==
    /\ corePc = "attach" /\ Unlocked
    /\ cut' = Cut(core)
    /\ core' = served
    /\ IF buffer = <<>> THEN corePc' = "pump" /\ UNCHANGED mu
       ELSE corePc' = "flush" /\ mu' = "attach"
    /\ UNCHANGED <<irc, buffer, outBuf, outDropped, closed, ctx, wire, served, toIrc,
                   backlog, made, coreOpen, inbox, outbox, seen, lines>>
    /\ UNCHANGED ircVars

(* The buffered bytes go to the new core, as fast as its socket takes      *)
(* them; an error is ignored and the buffer emptied all the same.          *)
FlushToCore ==
    /\ corePc = "flush"
    /\ \/ Broken(served) /\ buffer' = <<>> /\ UNCHANGED inbox
       \/ /\ ~Broken(served) /\ Len(inbox[served]) < SockCap
          /\ inbox' = [inbox EXCEPT ![served] = Append(@, Head(buffer))]
          /\ buffer' = Tail(buffer)
    /\ IF buffer' = <<>> THEN corePc' = "pump" /\ mu' = "free" ELSE UNCHANGED <<corePc, mu>>
    /\ UNCHANGED <<irc, core, outBuf, outDropped, closed, ctx, wire, served, toIrc,
                   backlog, made, coreOpen, cut, outbox, seen, lines>>
    /\ UNCHANGED ircVars

(* pumpCore reads a token. *)
ReadCore ==
    /\ corePc = "pump"
    /\ outbox[served] # <<>> /\ ~cut[served]
    /\ outbox' = [outbox EXCEPT ![served] = Tail(@)]
    /\ toIrc' = <<0, Head(outbox[served])>>
    /\ corePc' = "read"
    /\ UNCHANGED <<irc, core, buffer, outBuf, outDropped, closed, mu, ctx, wire, served,
                   backlog, made, coreOpen, cut, inbox, seen, lines>>
    /\ UNCHANGED ircVars

(* bufferOutLocked: on overflow the head is kept. *)
Held(tok) ==
    IF outDropped \/ Len(outBuf) >= MaxOutBuffer THEN outBuf ELSE Append(outBuf, tok)

(* toIRC holds the token while IRC is away, or takes the connection and    *)
(* writes without the lock.                                                *)
ToIRC ==
    /\ corePc = "read" /\ Unlocked
    /\ \/ /\ irc # 0
          /\ toIrc' = <<irc, toIrc[2]>> /\ corePc' = "write"
          /\ UNCHANGED <<outBuf, outDropped>>
       \/ /\ irc = 0
          /\ outBuf' = Held(toIrc[2])
          /\ outDropped' = (outDropped \/ Len(outBuf) >= MaxOutBuffer)
          /\ toIrc' = <<>> /\ corePc' = "pump"
    /\ UNCHANGED <<irc, core, buffer, closed, mu, ctx, wire, served>>
    /\ UNCHANGED ircVars /\ UNCHANGED sockVars

WriteIRC ==
    /\ corePc = "write"
    /\ wire' = Wired(toIrc[1], <<toIrc[2]>>)
    /\ toIrc' = <<>> /\ corePc' = "pump"
    /\ UNCHANGED <<irc, core, buffer, outBuf, outDropped, closed, mu, ctx, served>>
    /\ UNCHANGED ircVars /\ UNCHANGED sockVars

PumpCoreEnds ==
    /\ corePc = "pump"
    /\ cut[served] \/ (~coreOpen[served] /\ outbox[served] = <<>>)
    /\ corePc' = "detach"
    /\ UNCHANGED <<irc, core, buffer, outBuf, outDropped, closed, mu, ctx, wire, served,
                   toIrc>>
    /\ UNCHANGED ircVars /\ UNCHANGED sockVars

DetachCore ==
    /\ corePc = "detach" /\ Unlocked
    /\ IF core = served
       THEN core' = 0 /\ outBuf' = <<>> /\ outDropped' = FALSE
       ELSE UNCHANGED <<core, outBuf, outDropped>>
    /\ cut' = Cut(served)
    /\ served' = 0 /\ corePc' = "accept"
    /\ UNCHANGED <<irc, buffer, closed, mu, ctx, wire, toIrc, backlog, made, coreOpen,
                   inbox, outbox, seen, lines>>
    /\ UNCHANGED ircVars

-----------------------------------------------------------------------------
(* The shutdown goroutine: the listener closes, goodbye, closeConns. *)
Cancel ==
    /\ ctx = "running" /\ ctx' = "cancelled"
    /\ UNCHANGED <<irc, core, buffer, outBuf, outDropped, closed, mu, wire>>
    /\ UNCHANGED ircVars /\ UNCHANGED servVars /\ UNCHANGED sockVars

Goodbye ==
    /\ ctx = "cancelled" /\ Unlocked /\ ctx' = "goodbye"
    /\ UNCHANGED <<irc, core, buffer, outBuf, outDropped, closed, mu, wire>>
    /\ UNCHANGED ircVars /\ UNCHANGED servVars /\ UNCHANGED sockVars

(* Mutant: closeConns does not mark the keeper closed. *)
ClosedKept == closed

Closed == TRUE

(* Mutant: the IRC connection is left to the process exit. *)
LinksKept == link

LinksClosed == IF irc = 0 THEN link ELSE [link EXCEPT ![irc] = "dead"]

CloseConns ==
    /\ ctx = "goodbye" /\ Unlocked /\ ctx' = "closed"
    /\ closed' = Closed
    /\ link' = LinksClosed
    /\ cut' = Cut(core)
    /\ UNCHANGED <<irc, core, buffer, outBuf, outDropped, mu, wire, ircPc, dialed, probed,
                   sent, backlog, made, coreOpen, inbox, outbox, seen, lines>>
    /\ UNCHANGED servVars

-----------------------------------------------------------------------------
(* The outside: cores come, register, read, speak once they have heard     *)
(* from the server, and go at any time; the network fails.                 *)
keeperVars == <<irc, core, buffer, outBuf, outDropped, closed, mu, ctx, wire>>

CoreConnects ==
    /\ made < MaxCores /\ ctx = "running"
    /\ Cardinality({c \in Cores : coreOpen[c]}) < MaxOpen
    /\ made' = made + 1
    /\ backlog' = Append(backlog, made + 1)
    /\ coreOpen' = [coreOpen EXCEPT ![made + 1] = TRUE]
    /\ outbox' = [outbox EXCEPT ![made + 1] = <<Reg(made + 1)>>]
    /\ UNCHANGED <<cut, inbox, seen, lines>>
    /\ UNCHANGED keeperVars /\ UNCHANGED ircVars /\ UNCHANGED servVars

CoreReads(c) ==
    /\ coreOpen[c] /\ inbox[c] # <<>>
    /\ seen' = [seen EXCEPT ![c] = Append(@, Head(inbox[c]))]
    /\ inbox' = [inbox EXCEPT ![c] = Tail(@)]
    /\ UNCHANGED <<backlog, made, coreOpen, cut, outbox, lines>>
    /\ UNCHANGED keeperVars /\ UNCHANGED ircVars /\ UNCHANGED servVars

CoreSpeaks(c) ==
    /\ coreOpen[c] /\ ~cut[c] /\ seen[c] # <<>> /\ lines[c] < MaxLines
    /\ lines' = [lines EXCEPT ![c] = @ + 1]
    /\ outbox' = [outbox EXCEPT ![c] = Append(@, Say(c))]
    /\ UNCHANGED <<backlog, made, coreOpen, cut, inbox, seen>>
    /\ UNCHANGED keeperVars /\ UNCHANGED ircVars /\ UNCHANGED servVars

CoreGoes(c) ==
    /\ coreOpen[c]
    /\ coreOpen' = [coreOpen EXCEPT ![c] = FALSE]
    /\ inbox' = [inbox EXCEPT ![c] = <<>>]
    /\ UNCHANGED <<backlog, made, cut, outbox, seen, lines>>
    /\ UNCHANGED keeperVars /\ UNCHANGED ircVars /\ UNCHANGED servVars

LinkFails ==
    /\ \E i \in IRCs, how \in {"hung", "dead"} :
         link[i] = "up" /\ link' = [link EXCEPT ![i] = how]
    /\ UNCHANGED <<ircPc, dialed, probed, sent>>
    /\ UNCHANGED keeperVars /\ UNCHANGED servVars /\ UNCHANGED sockVars

Next ==
    \/ Dial \/ SleepOver \/ SetIRC \/ ReadIRC \/ ToCore \/ Probe \/ PumpIRCEnds
    \/ UnsetIRC \/ DropSession
    \/ Accept \/ AttachCore \/ FlushToCore \/ ReadCore \/ ToIRC \/ WriteIRC
    \/ PumpCoreEnds \/ DetachCore
    \/ Cancel \/ Goodbye \/ CloseConns
    \/ CoreConnects \/ LinkFails
    \/ \E c \in Cores : CoreReads(c) \/ CoreSpeaks(c) \/ CoreGoes(c)

Spec == Init /\ [][Next]_vars

(* Every goroutine of the keeper runs on; a blocked lock is granted to each *)
(* that waits for it.                                                      *)
KeeperFairness ==
    /\ WF_vars(Dial \/ SleepOver \/ ToCore \/ Probe \/ PumpIRCEnds)
    /\ SF_vars(SetIRC \/ UnsetIRC \/ DropSession)
    /\ WF_vars(Accept \/ FlushToCore \/ ReadCore \/ WriteIRC \/ PumpCoreEnds)
    /\ SF_vars(AttachCore \/ ToIRC \/ DetachCore)
    /\ SF_vars(Goodbye \/ CloseConns)

KeeperSpec == Spec /\ KeeperFairness

(* Cores read what they are sent, and go when the keeper hangs up. *)
CoreFairness ==
    \A c \in Cores : WF_vars(CoreReads(c)) /\ WF_vars(cut[c] /\ CoreGoes(c))

FairSpec == KeeperSpec /\ CoreFairness

-----------------------------------------------------------------------------
Got(c) == seen[c] \o inbox[c]

(* What one core connection is sent is one unbroken stretch of one IRC     *)
(* session: nothing left over from a session that died, no gap, nothing    *)
(* twice, though buffer, socket and pump hand over to each other; and what *)
(* is kept for either side in between stays within its limit.              *)
OneStretch ==
    /\ Len(buffer) <= MaxBuffer /\ Len(outBuf) <= MaxOutBuffer
    /\ \A c \in Cores : \A k \in 1..(Len(Got(c)) - 1) :
         /\ Got(c)[k].irc = Got(c)[k + 1].irc
         /\ Got(c)[k + 1].n = Got(c)[k].n + 1

Settled ==
    /\ ircPc = "pump" /\ corePc = "pump" /\ ctx = "running"
    /\ ~cut[served] /\ coreOpen[served] /\ outbox[served] = <<>>
    /\ core = served /\ link[irc] = "up"

(* No core is left attached and mute: when everything is relayed, the      *)
(* registration of the attached core has reached the IRC connection that   *)
(* is up, whichever of the two came first.                                 *)
RegistrationArrives ==
    Settled => \E k \in 1..Len(wire[irc]) : wire[irc][k] = Reg(served)

(* After the shutdown closed the connections no live one is installed, not *)
(* even one whose dial was under way when it struck.                       *)
NoLateLink == ctx = "closed" => irc = 0 \/ link[irc] = "dead"

(* The shutdown ends: ircLoop returns.                                     *)
ShutdownEnds == ctx # "running" ~> ircPc = "done"

(* A connection that went silent for good is noticed: the watchdog.        *)
SilenceNoticed ==
    \A i \in IRCs : link[i] = "hung" ~> irc # i

(* What detachCore says of outbound bytes: those of an abandoned core are  *)
(* dropped and the next core starts with its own registration.             *)
RegistersFirst == \A i \in IRCs : wire[i] # <<>> => wire[i][1].kind = "REG"

=============================================================================
