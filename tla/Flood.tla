------------------------------- MODULE Flood -------------------------------
(***************************************************************************)
(* The outbound queue of internal/irc/flood/flood.go: high-priority lines  *)
(* first, then one bucket per PRIVMSG target drained round-robin, behind   *)
(* the rate limit of the event window.                                     *)
(*                                                                         *)
(* A line is its serial number within its bucket and its length class, the *)
(* number of extra events it costs.  A time stamp is its age in ticks,     *)
(* Second of them to a second; ages beyond MaxAge look the same.           *)
(***************************************************************************)
EXTENDS Naturals, Sequences

CONSTANTS
    Buckets,    \* the targets, genericBucket among them
    High,       \* stands for q.high where lines are counted
    Extras,     \* the extra events a line may cost: int(len/80 + 0.5) over 80 bytes
    Second,     \* clock ticks in a second
    MaxWait,    \* maxWait, in ticks
    MaxLines,   \* bound: lines pushed to one bucket
    MaxAge      \* bound: no older than a full window makes a difference

ASSUME FloodAssumption ==
    /\ High \notin Buckets
    /\ Extras \subseteq Nat
    /\ Second \in Nat \ {0} /\ MaxWait \in Nat \ {0}
    /\ MaxLines \in Nat /\ MaxAge \in Nat

VARIABLES
    high,      \* q.high
    queue,     \* q.buckets; an absent bucket is <<>>
    order,     \* q.order
    window,    \* q.window: the ages of the events, the oldest first
    pushed,    \* how many lines were pushed, per bucket
    passed     \* passed[b]: the buckets served since b was, or since b joined

floodVars == <<high, queue, order, window, pushed, passed>>

Queues == Buckets \cup {High}
Lines == [n : 1..MaxLines, extra : Extras]

Init ==
    /\ high = <<>>
    /\ queue = [b \in Buckets |-> <<>>]
    /\ order = <<>>
    /\ window = <<>>
    /\ pushed = [b \in Queues |-> 0]
    /\ passed = [b \in Buckets |-> {}]

-----------------------------------------------------------------------------
NewLine(b, e) == [n |-> pushed[b] + 1, extra |-> e]

(* Mutant: a bucket joins the rotation on every push. *)
JoinedAlways(b) == Append(order, b)

(* A bucket joins the rotation when it was absent. *)
Joined(b) == IF queue[b] = <<>> THEN Append(order, b) ELSE order

Push(b, e) ==
    /\ pushed[b] < MaxLines
    /\ pushed' = [pushed EXCEPT ![b] = @ + 1]
    /\ order' = Joined(b)
    /\ queue' = [queue EXCEPT ![b] = Append(@, NewLine(b, e))]
    /\ passed' = IF queue[b] = <<>> THEN [passed EXCEPT ![b] = {}] ELSE passed
    /\ UNCHANGED <<high, window>>

PushHigh(e) ==
    /\ pushed[High] < MaxLines
    /\ pushed' = [pushed EXCEPT ![High] = @ + 1]
    /\ high' = Append(high, NewLine(High, e))
    /\ UNCHANGED <<queue, order, window, passed>>

-----------------------------------------------------------------------------
Empty == high = <<>> /\ order = <<>>

(* delay: whole seconds until the window's oldest event plus one second    *)
(* per event, capped at MaxWait.                                           *)
Wait ==
    IF window = <<>> THEN 0
    ELSE LET due == Len(window) * Second
             whole == IF due > window[1] THEN ((due - window[1]) \div Second) * Second
                      ELSE 0
         IN  IF whole > MaxWait THEN MaxWait ELSE whole

(* Next answers a wait. *)
NextWaits == ~Empty /\ Wait > 0

(* The window after a send: the oldest event is spent, the line's are new. *)
Spent(line) ==
    (IF window = <<>> THEN <<>> ELSE Tail(window))
      \o [i \in 1..(1 + line.extra) |-> 0]

PopHigh ==
    /\ high # <<>>
    /\ high' = Tail(high)
    /\ window' = Spent(Head(high))
    /\ UNCHANGED <<queue, order, pushed, passed>>

(* Mutant: the served bucket stays at the front while it has lines. *)
RotatedNone(b) == IF Len(queue[b]) > 1 THEN order ELSE Tail(order)

(* A bucket with more lines goes to the back, an emptied one leaves. *)
Rotated(b) == IF Len(queue[b]) > 1 THEN Append(Tail(order), b) ELSE Tail(order)

Rest(b) == Tail(queue[b])

PopRoundRobin ==
    /\ high = <<>>
    /\ LET b == order[1]
       IN  /\ window' = Spent(Head(queue[b]))
           /\ queue' = [queue EXCEPT ![b] = Rest(b)]
           /\ order' = Rotated(b)
           /\ passed' = [c \in Buckets |-> IF c = b THEN {} ELSE passed[c] \cup {b}]
    /\ UNCHANGED <<high, pushed>>

(* Next answers a line. *)
NextSends ==
    /\ ~Empty
    /\ Wait = 0
    /\ PopHigh \/ PopRoundRobin

Tick ==
    /\ window' = [i \in 1..Len(window) |->
                   IF window[i] < MaxAge THEN window[i] + 1 ELSE MaxAge]
    /\ UNCHANGED <<high, queue, order, pushed, passed>>

FloodNext ==
    \/ \E e \in Extras : PushHigh(e) \/ \E b \in Buckets : Push(b, e)
    \/ NextSends
    \/ Tick

Spec == Init /\ [][FloodNext]_floodVars

-----------------------------------------------------------------------------
TypeOK ==
    /\ high \in Seq(Lines)
    /\ queue \in [Buckets -> Seq(Lines)]
    /\ order \in Seq(Buckets)
    /\ window \in Seq(0..MaxAge)
    /\ pushed \in [Queues -> 0..MaxLines]
    /\ passed \in [Buckets -> SUBSET Buckets]

(* The rotation holds exactly the buckets with lines, each once.  Without  *)
(* this popRoundRobin would index an empty slice, or serve a bucket twice  *)
(* per round.                                                              *)
RotationExact ==
    /\ \A b \in Buckets : queue[b] # <<>> <=> \E i \in 1..Len(order) : order[i] = b
    /\ \A i, j \in 1..Len(order) : order[i] = order[j] => i = j

(* The lines of one queue leave in the order they were pushed, none lost   *)
(* and none twice: what is queued are the last lines pushed, in order.     *)
InSequence ==
    /\ \A b \in Buckets : \A i \in 1..Len(queue[b]) :
         queue[b][i].n = pushed[b] - Len(queue[b]) + i
    /\ \A i \in 1..Len(high) : high[i].n = pushed[High] - Len(high) + i

(* Both at once: the flood queue is what was pushed and has not left.      *)
QueueExact == RotationExact /\ InSequence

(* No busy channel starves the others: while a bucket waits, no other one  *)
(* is served twice.                                                        *)
NoOvertaking ==
    [][\A b, c \in Buckets :
         queue[b] # <<>> /\ c \in passed[b] /\ b # c
           => Len(queue'[c]) >= Len(queue[c]) \/ queue'[b] # queue[b]]_floodVars
=============================================================================
