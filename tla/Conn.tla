------------------------------- MODULE Conn --------------------------------
(***************************************************************************)
(* One live IRC connection, internal/irc/conn.go: the owner (dispatcher)   *)
(* queues lines under the mutex and kicks the writer, the writer goroutine *)
(* drains the flood queue, the reader goroutine reports the end.           *)
(***************************************************************************)
EXTENDS Flood

VARIABLES
    kicking,    \* the owner is between the unlock and the kick of a write
    wake,       \* a token is in c.wake
    done,       \* c.done is closed
    sock,       \* the socket: up, dead (peer gone) or closed (by Close)
    writer,     \* where writeLoop is
    left,     \* what is left of its time.After
    reader,     \* where readLoop is
    reports     \* how many times OnDisconnect was called

connVars == <<kicking, wake, done, sock, writer, left, reader, reports>>
vars == <<floodVars, connVars>>

ConnInit ==
    /\ Init
    /\ kicking = FALSE
    /\ wake = FALSE
    /\ done = FALSE
    /\ sock = "up"
    /\ writer = "ask" /\ left = 0
    /\ reader = "read" /\ reports = 0

-----------------------------------------------------------------------------
(* Write and WriteHigh, up to the unlock. *)
Write(b, e) ==
    /\ ~kicking
    /\ Push(b, e)
    /\ kicking' = TRUE
    /\ UNCHANGED <<wake, done, sock, writer, left, reader, reports>>

WriteHigh(e) ==
    /\ ~kicking
    /\ PushHigh(e)
    /\ kicking' = TRUE
    /\ UNCHANGED <<wake, done, sock, writer, left, reader, reports>>

(* Mutant: the kick is skipped unless the writer waits already. *)
TokenIfWaiting == wake \/ writer = "wait"

(* A send that never blocks: the token is there afterwards in any case. *)
Token == TRUE

Kick ==
    /\ kicking
    /\ kicking' = FALSE
    /\ wake' = Token
    /\ UNCHANGED floodVars
    /\ UNCHANGED <<done, sock, writer, left, reader, reports>>

Close ==
    /\ ~kicking
    /\ done' = TRUE
    /\ sock' = "closed"
    /\ UNCHANGED floodVars
    /\ UNCHANGED <<kicking, wake, writer, left, reader, reports>>

-----------------------------------------------------------------------------
AskSends ==
    /\ writer = "ask"
    /\ NextSends
    /\ writer' = "write"
    /\ UNCHANGED <<kicking, wake, done, sock, left, reader, reports>>

AskWaits ==
    /\ writer = "ask"
    /\ NextWaits
    /\ writer' = "sleep"
    /\ left' = Wait
    /\ UNCHANGED floodVars
    /\ UNCHANGED <<kicking, wake, done, sock, reader, reports>>

AskEmpty ==
    /\ writer = "ask"
    /\ Empty
    /\ writer' = "idle"
    /\ UNCHANGED floodVars
    /\ UNCHANGED <<kicking, wake, done, sock, left, reader, reports>>

(* It has unlocked with an empty answer and now blocks in the select. *)
Park ==
    /\ writer = "idle"
    /\ writer' = "wait"
    /\ UNCHANGED floodVars
    /\ UNCHANGED <<kicking, wake, done, sock, left, reader, reports>>

(* sock.Write; on a dead socket it may still succeed, on a closed one it   *)
(* fails and writeLoop returns.                                            *)
SockWrite ==
    /\ writer = "write"
    /\ \/ sock # "closed" /\ writer' = "ask"
       \/ sock # "up" /\ writer' = "gone"
    /\ UNCHANGED floodVars
    /\ UNCHANGED <<kicking, wake, done, sock, left, reader, reports>>

SleepOver ==
    /\ writer = "sleep"
    /\ left = 0
    /\ writer' = "ask"
    /\ UNCHANGED floodVars
    /\ UNCHANGED <<kicking, wake, done, sock, left, reader, reports>>

Woken ==
    /\ writer = "wait"
    /\ wake
    /\ wake' = FALSE
    /\ writer' = "ask"
    /\ UNCHANGED floodVars
    /\ UNCHANGED <<kicking, done, sock, left, reader, reports>>

(* Mutant: only the select on the timer looks at c.done. *)
StoppableSleeping == {"sleep"}

Stoppable == {"sleep", "wait"}

WriterStops ==
    /\ writer \in Stoppable
    /\ done
    /\ writer' = "gone" /\ left' = 0
    /\ UNCHANGED floodVars
    /\ UNCHANGED <<kicking, wake, done, sock, reader, reports>>

-----------------------------------------------------------------------------
(* The peer or the network ends the connection. *)
SockDies ==
    /\ sock = "up"
    /\ sock' = "dead"
    /\ UNCHANGED floodVars
    /\ UNCHANGED <<kicking, wake, done, writer, left, reader, reports>>

(* Read fails and the reader looks at c.done. *)
ReadError ==
    /\ reader = "read"
    /\ sock # "up"
    /\ reader' = IF done THEN "gone" ELSE "report"
    /\ UNCHANGED floodVars
    /\ UNCHANGED <<kicking, wake, done, sock, writer, left, reports>>

(* Mutant: the reader reports without closing c.done. *)
ReportKeepsDone ==
    /\ reader = "report"
    /\ reader' = "gone"
    /\ reports' = reports + 1
    /\ UNCHANGED floodVars
    /\ UNCHANGED <<kicking, wake, done, sock, writer, left>>

Report ==
    /\ reader = "report"
    /\ done' = TRUE
    /\ reader' = "gone"
    /\ reports' = reports + 1
    /\ UNCHANGED floodVars
    /\ UNCHANGED <<kicking, wake, sock, writer, left>>

TimePasses ==
    /\ Tick
    /\ left' = IF left > 0 THEN left - 1 ELSE 0
    /\ UNCHANGED <<kicking, wake, done, sock, writer, reader, reports>>

Next ==
    \/ \E e \in Extras : WriteHigh(e) \/ \E b \in Buckets : Write(b, e)
    \/ Kick \/ Close
    \/ AskSends \/ AskWaits \/ AskEmpty \/ Park
    \/ SockWrite \/ SleepOver \/ Woken \/ WriterStops
    \/ SockDies \/ ReadError \/ Report
    \/ TimePasses

ConnSpec == ConnInit /\ [][Next]_vars

(* Both goroutines run, the owner finishes its call, time passes. *)
Fairness ==
    /\ WF_vars(Kick)
    /\ WF_vars(AskSends \/ AskWaits \/ AskEmpty)
    /\ WF_vars(Park)
    /\ WF_vars(SockWrite) /\ WF_vars(SleepOver) /\ WF_vars(Woken) /\ WF_vars(WriterStops)
    /\ WF_vars(ReadError) /\ WF_vars(Report)
    /\ WF_vars(TimePasses)

FairSpec == ConnSpec /\ Fairness

-----------------------------------------------------------------------------
(* The writer gives up only on a connection that is over, and the owner    *)
(* hears of the end exactly when it did not ask for it first.              *)
EndReported ==
    /\ writer = "gone" => sock # "up"
    /\ reports = 1 => done /\ sock # "up"
    /\ reader = "gone" => (reports = 1 \/ sock = "closed")

(* What is pushed is what is sent, in turn, and the end of it is reported.  *)
ConnExact == QueueExact /\ EndReported

(* Every line leaves the queue in the end, on a connection that lives.     *)
Drains == ~Empty ~> Empty \/ sock # "up"

(* A connection that is over takes both its goroutines with it.            *)
GoroutinesEnd == done ~> writer = "gone" /\ reader = "gone"

=============================================================================
