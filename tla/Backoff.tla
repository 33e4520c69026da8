------------------------------- MODULE Backoff -------------------------------
(* The Backoff of irc/session.go, which core and keeper ask how long to      *)
(* wait before they dial again.  Time is in seconds; it moves from call to   *)
(* call: who called sleeps, dials, and calls again when the dial has failed  *)
(* or the connection it made is lost.                                        *)
EXTENDS Integers, Sequences, FiniteSetsExt

CONSTANTS
    Delays,         \* {3, 60, 180, 300}
    Peace,          \* 300
    Window,         \* 420: seven minutes
    Lifetimes,      \* what a dial and the connection it makes may last
    MaxDials        \* bound of the model

BackoffConstants ==
    /\ Delays \subseteq Nat \ {0} /\ IsFiniteSet(Delays) /\ Delays # {}
    /\ Peace \in Nat /\ Lifetimes \subseteq Nat

VARIABLES
    delay, when,    \* the fields; when is 0 before the first call
    dials           \* history: when who waited dialed

vars == <<delay, when, dials>>

\* Mutant: measured from the call, the wait itself is taken for peace.
RestedFromCall(now) == when # 0 /\ (when - delay) + Peace < now

\* The last attempt was long ago: start over.
Rested(now) == when # 0 /\ when + Peace < now

\* The attempt lasted that long; the next one is at when.
Next(life) ==
    LET now == when + life
        before == IF Rested(now) THEN 0 ELSE delay
        longer == {d \in Delays : d > before}
        wait == Min(IF longer = {} THEN {before} ELSE longer) IN
    /\ Len(dials) < MaxDials
    /\ delay' = wait
    /\ when' = now + wait
    /\ dials' = Append(dials, when')

Init == delay = 0 /\ when = 0 /\ dials = <<>>
Step == \E life \in Lifetimes : Next(life)
Spec == Init /\ [][Step]_vars

(* However long connections last, the server never sees four dials within     *)
(* seven minutes: the ladder slows them down, and to start it over takes a    *)
(* connection that lasts, not a wait that does.                               *)
NoHammering ==
    \A i \in 4..Len(dials) : dials[i] - dials[i - 3] >= Window
=============================================================================
