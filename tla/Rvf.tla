-------------------------------- MODULE Rvf --------------------------------
(***************************************************************************)
(* The wheel of fortune of modules/rvf: one game per channel or query, its *)
(* turns and their timeouts, the money, the top ten, and what the saver    *)
(* keeps of them across a restart.                                         *)
(*                                                                         *)
(* Everything runs on the dispatcher: a message, a command and a timer are *)
(* one step each.  A turn timer is never cancelled; it carries the         *)
(* generation it was armed with and does nothing when that has passed.     *)
(* Which puzzle is drawn matters to no property, so there is one; answers, *)
(* refusals and out-of-turn chatter change nothing and are not steps.  A   *)
(* game whose puzzle is solved leaves the map at once, so Done is never    *)
(* seen set.                                                               *)
(***************************************************************************)
EXTENDS Integers, SequencesExt, FiniteSetsExt

CONSTANTS
    Keys, Lineups,                  \* channels and queries; key -> player lists it may start with
    Consonants, Vowels, Count,      \* letters, and how often the puzzle has each
    Amounts,                        \* the money segments of the wheel
    rvf_vowel_cost, rvf_max_missed_turns,
    topTen,                         \* 10
    MaxStarts, MaxMoves, MaxRestarts  \* bounds of the model

RvfConstants ==
    /\ \A k \in Keys : \A s \in Lineups[k] : s # <<>> /\ s \in Seq(Range(s)) /\ IsInjective(s)
    /\ Vowels \cap Consonants = {} /\ Count \in [Consonants \cup Vowels -> Nat]
    /\ Amounts \subseteq Nat \ {0} /\ Amounts # {} /\ IsFiniteSet(Amounts)
    /\ {rvf_vowel_cost, topTen} \subseteq Nat /\ rvf_max_missed_turns \in Nat \ {0}

VARIABLES
    games,      \* key -> game
    gen,        \* key -> generation of its turn timer
    timers,     \* armed turn timers, <<key, generation>>, as they will fire
    hiscores,   \* best first
    dirty,      \* of "games" and "hiscores", what is marked for saving
    store,      \* what the database holds of both
    unloaded,
    starts, moves, restarts

mem == <<games, hiscores, dirty>>
bounds == <<starts, moves, restarts>>
vars == <<mem, gen, timers, store, unloaded, bounds>>

(***************************************************************************)
(* A game (game.go).  id, spinner and slept are history, for the           *)
(* properties only: the how-manieth game, who last spun money, and how     *)
(* many own turns in a row a player let pass.                              *)
(***************************************************************************)
NewPlayer(n) == [Nick |-> n, Money |-> 0, Joker |-> FALSE, Missed |-> 0, slept |-> 0]
NewGame(nicks, n) ==
    [Guessed |-> {}, Players |-> [i \in DOMAIN nicks |-> NewPlayer(nicks[i])],
     Turn |-> 1, State |-> "action", Pending |-> 0, id |-> n, spinner |-> nicks[1]]

Current(g) == g.Players[g.Turn]

\* Mutant: the next player inherits the spin.
AdvanceOnly(g) == [g EXCEPT !.Turn = (@ % Len(g.Players)) + 1]

advance(g) == [g EXCEPT !.Turn = (@ % Len(g.Players)) + 1, !.State = "action", !.Pending = 0]

\* The joker saves the turn, once.
loseTurn(g) ==
    IF Current(g).Joker
    THEN [g EXCEPT !.Players[g.Turn].Joker = FALSE, !.State = "action", !.Pending = 0]
    ELSE advance(g)

Segments == [Kind : {"money"}, Amount : Amounts]
            \cup [Kind : {"bankrupt", "loseTurn", "joker"}, Amount : {0}]
Spun(g, seg) ==
    CASE seg.Kind = "money"    -> [g EXCEPT !.State = "letter", !.Pending = seg.Amount,
                                            !.spinner = Current(g).Nick]
      [] seg.Kind = "bankrupt" -> loseTurn([g EXCEPT !.Players[g.Turn].Money = 0])
      [] seg.Kind = "loseTurn" -> loseTurn(g)
      [] seg.Kind = "joker"    -> [g EXCEPT !.Players[g.Turn].Joker = TRUE]

\* CallLetter: a vowel costs nothing, a letter called before costs the turn.
LetterCalled(g, l) ==
    IF l \notin Consonants THEN g
    ELSE LET h == [g EXCEPT !.Guessed = @ \cup {l}] IN
         IF l \in g.Guessed \/ Count[l] = 0 THEN loseTurn(h)
         ELSE [h EXCEPT !.Players[g.Turn].Money = @ + g.Pending * Count[l],
                        !.State = "action", !.Pending = 0]

\* BuyVowel: an absent vowel costs the money and the turn.
VowelBought(g, l) ==
    IF l \notin Vowels \/ l \in g.Guessed \/ Current(g).Money < rvf_vowel_cost THEN g
    ELSE LET h == [g EXCEPT !.Guessed = @ \cup {l},
                            !.Players[g.Turn].Money = @ - rvf_vowel_cost] IN
         IF Count[l] = 0 THEN loseTurn(h) ELSE h

TurnAfter(g, rest) == IF g.Turn > Len(rest) THEN 1 ELSE g.Turn
DropCurrent(g) ==
    LET rest == RemoveAt(g.Players, g.Turn) IN
    [g EXCEPT !.Players = rest, !.Turn = TurnAfter(g, rest),
              !.State = "action", !.Pending = 0]

(***************************************************************************)
(* Timers and saving                                                       *)
(***************************************************************************)
\* armTimer, with T the timers still armed.
armTimer(k, T) ==
    /\ gen' = [gen EXCEPT ![k] = @ + 1]
    /\ timers' = Append(T, <<k, gen[k] + 1>>)

With(f, x, v) == [y \in DOMAIN f \cup {x} |-> IF y = x THEN v ELSE f[y]]

\* endGame: the timer stays armed but is a generation behind.
endGame(k, T) ==
    /\ games' = [y \in DOMAIN games \ {k} |-> games[y]]
    /\ gen' = [gen EXCEPT ![k] = @ + 1]
    /\ timers' = T

\* The saver writes the marked entries of a namespace in one transaction.
Written == dirty

Flush ==
    /\ dirty # {}
    /\ store' = [games |-> IF "games" \in Written THEN games ELSE store.games,
                 hiscores |-> IF "hiscores" \in Written THEN hiscores ELSE store.hiscores]
    /\ dirty' = dirty \ Written
    /\ UNCHANGED <<games, hiscores, gen, timers, unloaded, bounds>>

(***************************************************************************)
(* Commands                                                                *)
(***************************************************************************)
\* cbStart: the nicks given, without doubles, or the sender's; all refusals
\* but that of a second game are in Lineups.
cbStart(k) ==
    /\ ~unloaded /\ starts < MaxStarts /\ starts' = starts + 1
    /\ k \notin DOMAIN games
    /\ \E nicks \in Lineups[k] : games' = With(games, k, NewGame(nicks, starts'))
    /\ dirty' = dirty \cup {"games"}
    /\ armTimer(k, timers)
    /\ UNCHANGED <<hiscores, store, unloaded, moves, restarts>>

cbStop(k) ==
    /\ ~unloaded /\ moves < MaxMoves /\ moves' = moves + 1
    /\ k \in DOMAIN games
    /\ endGame(k, timers)
    /\ dirty' = dirty \cup {"games"}
    /\ UNCHANGED <<hiscores, store, unloaded, starts, restarts>>

(***************************************************************************)
(* Moves of the current player (handleMove)                                *)
(***************************************************************************)
\* moveDone: the mover proved awake.
moveDone(g, mover) == [g EXCEPT !.Players[mover].Missed = 0]

CanMove(k, s) ==
    /\ ~unloaded /\ moves < MaxMoves
    /\ k \in DOMAIN games /\ games[k].State = s

\* A move that left game g at k; also a refused buy or call restarts the clock.
Move(k, g) ==
    LET mover == games[k].Turn IN
    /\ moves' = moves + 1
    /\ games' = [games EXCEPT ![k] =
                   [moveDone(g, mover) EXCEPT !.Players[mover].slept = 0]]
    /\ dirty' = dirty \cup {"games"}
    /\ armTimer(k, timers)
    /\ UNCHANGED <<hiscores, store, unloaded, starts, restarts>>

CallLetter(k) ==
    CanMove(k, "letter") /\ \E l \in Consonants \cup Vowels : Move(k, LetterCalled(games[k], l))
Spin(k) ==
    CanMove(k, "action") /\ \E seg \in Segments : Move(k, Spun(games[k], seg))
BuyVowel(k) ==
    CanMove(k, "action") /\ \E l \in Consonants \cup Vowels : Move(k, VowelBought(games[k], l))
\* pas, or a solution that is wrong.
Pass(k) ==
    CanMove(k, "action") /\ Move(k, advance(games[k]))

\* recordScore: behind the equals, cut at ten; nothing is won with nothing.
recordScore(s) ==
    LET pos == 1 + Cardinality({i \in DOMAIN hiscores : hiscores[i].Score >= s.Score})
        all == InsertAt(hiscores, pos, s) IN
    IF s.Score <= 0 THEN hiscores
    ELSE SubSeq(all, 1, IF Len(all) > topTen THEN topTen ELSE Len(all))

\* The right solution: score, then the game ends.
Solve(k) ==
    /\ CanMove(k, "action")
    /\ moves' = moves + 1
    /\ hiscores' = recordScore([id |-> games[k].id, Score |-> Current(games[k]).Money])
    /\ endGame(k, timers)
    /\ dirty' = dirty \cup {"games"}
                      \cup (IF Current(games[k]).Money > 0 THEN {"hiscores"} ELSE {})
    /\ UNCHANGED <<store, unloaded, starts, restarts>>

(***************************************************************************)
(* Timeouts, unloading and restarts                                        *)
(***************************************************************************)
turnTimeout(k, T) ==
    LET g == [games[k] EXCEPT !.Players[games[k].Turn].Missed = @ + 1,
                              !.Players[games[k].Turn].slept = @ + 1]
        drop == Current(g).Missed >= rvf_max_missed_turns IN
    /\ IF drop /\ Len(g.Players) = 1
       THEN endGame(k, T)
       ELSE /\ games' = [games EXCEPT ![k] = IF drop THEN DropCurrent(g) ELSE advance(g)]
            /\ armTimer(k, T)
    /\ dirty' = dirty \cup {"games"}

\* Mutant: the generation is not compared.
LiveAny(t) == ~unloaded

Live(t) == ~unloaded /\ gen[t[1]] = t[2]

\* All turns are equally long and the scheduler fires in order.
Fire ==
    /\ timers # <<>>
    /\ LET t == Head(timers) IN
       IF Live(t) /\ t[1] \in DOMAIN games
       THEN turnTimeout(t[1], Tail(timers))
       ELSE timers' = Tail(timers) /\ UNCHANGED <<games, gen, dirty>>
    /\ UNCHANGED <<hiscores, store, unloaded, bounds>>

Unload ==
    /\ ~unloaded /\ restarts < MaxRestarts
    /\ unloaded' = TRUE
    /\ UNCHANGED <<mem, gen, timers, store, bounds>>

\* The process ends, unloaded or crashed; Load takes up the stored games
\* and gives each a full turn.
Restart ==
    /\ restarts < MaxRestarts /\ restarts' = restarts + 1
    /\ games' = store.games /\ hiscores' = store.hiscores
    /\ gen' = [k \in Keys |-> IF k \in DOMAIN store.games THEN 1 ELSE 0]
    /\ timers' \in SetToSeqs({<<k, 1>> : k \in DOMAIN store.games})
    /\ dirty' = {} /\ unloaded' = FALSE
    /\ UNCHANGED <<store, starts, moves>>

Init ==
    /\ games = [k \in {} |-> 0] /\ hiscores = <<>> /\ dirty = {}
    /\ gen = [k \in Keys |-> 0] /\ timers = <<>>
    /\ store = [games |-> games, hiscores |-> hiscores]
    /\ unloaded = FALSE
    /\ starts = 0 /\ moves = 0 /\ restarts = 0

Next ==
    \/ \E k \in Keys : \/ cbStart(k) \/ cbStop(k)
                       \/ Spin(k) \/ CallLetter(k) \/ BuyVowel(k) \/ Pass(k) \/ Solve(k)
    \/ Fire \/ Flush \/ Unload \/ Restart

Spec == Init /\ [][Next]_vars

(***************************************************************************)
(* Properties                                                              *)
(***************************************************************************)
\* Money comes from called consonants only, each paid once and to whoever
\* spun for it: what the players hold and what the vowels cost never exceeds
\* what the called letters were worth, nobody is in debt, and a letter is
\* owed by the very player whose spin is pending, whoever was dropped, timed
\* out or saved by a joker in between (game.go).
Purse(g) == MapThenSumSet(LAMBDA i : g.Players[i].Money, DOMAIN g.Players)
Worth(g) == MapThenSumSet(LAMBDA l : Max(Amounts) * Count[l], g.Guessed \cap Consonants)
Ledger == \A k \in DOMAIN games : LET g == games[k] IN
    /\ Purse(g) + rvf_vowel_cost * Cardinality(g.Guessed \cap Vowels) <= Worth(g)
    /\ \A i \in DOMAIN g.Players : g.Players[i].Money >= 0
    /\ IF g.State = "letter" THEN g.Pending > 0 /\ Current(g).Nick = g.spinner
       ELSE g.Pending = 0

\* A game goes on, or comes to its end, after any timeout and any restart:
\* the games in memory and those the store would bring back have a seated
\* current player and nobody who slept through all the turns allowed, a
\* change not stored is marked, and exactly one armed timer of each running
\* game counts.  So abandoned games end: each timeout brings a player nearer
\* to the door, and the timer of the next is armed (turnTimeout, armTimer).
Seated(gs) == \A k \in DOMAIN gs :
    /\ gs[k].Players # <<>> /\ gs[k].Turn \in DOMAIN gs[k].Players
    /\ \A i \in DOMAIN gs[k].Players : gs[k].Players[i].slept < rvf_max_missed_turns
Resumable ==
    /\ Seated(games) /\ Seated(store.games)
    /\ "games" \in dirty \/ store.games = games
    /\ "hiscores" \in dirty \/ store.hiscores = hiscores
    /\ ~unloaded => \A k \in DOMAIN games :
         Cardinality({i \in DOMAIN timers : timers[i] = <<k, gen[k]>>}) = 1

\* A game wins one place in the top ten, a crash between the win and the
\* save included: no game still running, or still stored beside the list, has
\* a score (Solve's two marks, one PutMany).
Ids(hs) == {hs[i].id : i \in DOMAIN hs}
OnePrize ==
    /\ \A k \in DOMAIN games : games[k].id \notin Ids(hiscores)
    /\ \A k \in DOMAIN store.games : store.games[k].id \notin Ids(store.hiscores)

\* A timer of an earlier turn or game changes nothing, and a player is
\* dropped only for sleeping through rvf_max_missed_turns own turns in a row,
\* the others' moves and timeouts not counted (turnTimeout, moveDone).
FairTurns == [][restarts' = restarts =>
    /\ \A i \in DOMAIN timers :
         i > 1 /\ timers[i][1] = timers[1][1] /\ timers[1] \notin Range(timers')
         => games' = games
    /\ \A k \in DOMAIN games \cap DOMAIN games' :
         \A i \in DOMAIN games[k].Players :
            LET p == games[k].Players[i] IN
            games'[k].id = games[k].id /\ p.slept + 1 < rvf_max_missed_turns
            => \E j \in DOMAIN games'[k].Players : games'[k].Players[j].Nick = p.Nick]_vars
=============================================================================
