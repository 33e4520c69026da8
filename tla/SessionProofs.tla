---------------------------- MODULE SessionProofs ----------------------------
(***************************************************************************)
(* The session and what MCSession runs beside it, each part proved on its  *)
(* own; last, what that says of the run.                                   *)
(***************************************************************************)
EXTENDS MCSession, Lemmas, FunctionTheorems, SequenceTheorems, FiniteSetTheorems, TLAPS

(***************************************************************************)
(* The backoff.  However long dials and connections last: never four dials *)
(* in seven minutes.  This one is about the ladder of the code, not any.   *)
(***************************************************************************)
Ladder ==
    /\ Delays = {3, 60, 180, 300} /\ Peace = 300 /\ Window = 420
    /\ Lifetimes \subseteq Nat

BackoffType ==
    /\ dials \in Seq(Nat) /\ when \in Nat /\ delay \in {0, 3, 60, 180, 300}
    /\ delay = 0 <=> dials = <<>>
    /\ when = IF dials = <<>> THEN 0 ELSE dials[Len(dials)]

(* Where the ladder stands and what it took to get there: to be at its     *)
(* foot takes a peace, unless the process is new.                          *)
LadderAt(rung, s) ==
    LET n == Len(s) IN
    /\ \A i \in 1..(n - 1) : s[i + 1] - s[i] >= 60
    /\ rung = 3 => n = 1 \/ (n > 1 /\ s[n] - s[n - 1] > 300)
    /\ rung = 60 => n = 2 \/ (n > 2 /\ s[n - 1] - s[n - 2] > 300)
    /\ rung = 180 => n > 2
    /\ \A i \in 4..n : s[i] - s[i - 3] >= 420

BackoffInv == BackoffType /\ LadderAt(delay, dials)

(* The rung above another one.                                             *)
Above(before) ==
    LET longer == {d \in Delays : d > before} IN
    B!Min(IF longer = {} THEN {before} ELSE longer)

LEMMA Rungs ==
  ASSUME Ladder, NEW before \in {0} \cup Delays, NEW wait, wait = Above(before)
  PROVE  /\ before = 0 => wait = 3
         /\ before = 3 => wait = 60
         /\ before = 60 => wait = 180
         /\ before \in {180, 300} => wait = 300
<1> DEFINE longer == {d \in Delays : d > before}
           S == IF longer = {} THEN {before} ELSE longer
<1>1. ASSUME NEW Z, NEW m \in Z, Z \subseteq Int, \A x \in Z : m <= x
      PROVE  B!Min(Z) = m
  <2>1. B!Min(Z) \in Z /\ \A x \in Z : B!Min(Z) <= x
    BY <1>1, Zenon DEF B!Min
  <2>2. PICK k : k = B!Min(Z)
    OBVIOUS
  <2>3. k \in Int /\ m \in Int /\ k <= m /\ m <= k
    BY <2>1, <2>2, <1>1
  <2> QED BY <2>2, <2>3
<1>2. wait = B!Min(S)
  BY DEF Above
<1>3. ASSUME before = 0 PROVE wait = 3
  <2>1. S = {3, 60, 180, 300}
    BY <1>3 DEF Ladder
  <2>2. B!Min({3, 60, 180, 300}) = 3
    BY <1>1
  <2> QED BY <2>1, <2>2, <1>2
<1>4. ASSUME before = 3 PROVE wait = 60
  <2>1. S = {60, 180, 300}
    BY <1>4 DEF Ladder
  <2>2. B!Min({60, 180, 300}) = 60
    BY <1>1
  <2> QED BY <2>1, <2>2, <1>2
<1>5. ASSUME before = 60 PROVE wait = 180
  <2>1. S = {180, 300}
    BY <1>5 DEF Ladder
  <2>2. B!Min({180, 300}) = 180
    BY <1>1
  <2> QED BY <2>1, <2>2, <1>2
<1>6. ASSUME before \in {180, 300} PROVE wait = 300
  <2>1. S = {300}
    BY <1>6 DEF Ladder
  <2>2. B!Min({300}) = 300
    BY <1>1
  <2> QED BY <2>1, <2>2, <1>2
<1> QED BY <1>3, <1>4, <1>5, <1>6

(* One more dial, at x, after a climb from rung to next.                   *)
LEMMA Climb ==
  ASSUME NEW s \in Seq(Nat), NEW rung, NEW next \in {3, 60, 180, 300}, NEW x \in Nat,
         LadderAt(rung, s),
         Len(s) > 0 => x - s[Len(s)] >= next,
         next = 3 => Len(s) = 0 \/ x - s[Len(s)] > 300,
         next = 60 => rung = 3,
         next = 180 => rung = 60,
         next = 300 => Len(s) > 0
  PROVE  LadderAt(next, Append(s, x))
<1>1. PICK n \in Nat : n = Len(s)
  BY LenProperties
<1>2. PICK t : t = Append(s, x)
  OBVIOUS
<1>3. /\ Len(t) = n + 1 /\ t[n + 1] = x
      /\ \A i \in 1..n : t[i] = s[i]
  BY <1>1, <1>2, AppendProperties
<1>4. \A i \in 1..(n + 1) : t[i] \in Nat
  BY <1>1, <1>3, ElementOfSeq
<1>5. \A i \in 1..n : t[i + 1] - t[i] >= 60
  <2> SUFFICES ASSUME NEW i \in 1..n PROVE t[i + 1] - t[i] >= 60
    OBVIOUS
  <2>1. CASE i \in 1..(n - 1)
    <3>1. s[i + 1] - s[i] >= 60
      BY <2>1, <1>1 DEF LadderAt
    <3>2. t[i + 1] = s[i + 1] /\ t[i] = s[i]
      BY <2>1, <1>3
    <3> QED BY <3>1, <3>2
  <2>2. CASE i = n
    <3>1. t[i + 1] = x /\ t[i] = s[n]
      BY <2>2, <1>3
    <3> QED BY <3>1, <2>2, <1>1, <1>4
  <2> QED BY <2>1, <2>2
<1>6. next = 3 => n + 1 = 1 \/ (n + 1 > 1 /\ t[n + 1] - t[n] > 300)
  BY <1>1, <1>3
<1>7. next = 60 => n + 1 = 2 \/ (n + 1 > 2 /\ t[n] - t[n - 1] > 300)
  <2> SUFFICES ASSUME next = 60, n # 1 PROVE n > 1 /\ t[n] - t[n - 1] > 300
    BY <1>1
  <2>1. n > 1 /\ s[n] - s[n - 1] > 300
    BY <1>1 DEF LadderAt
  <2> QED BY <2>1, <1>3
<1>8. next = 180 => n + 1 > 2
  BY <1>1 DEF LadderAt
<1>9. n > 2 => t[n + 1] - t[n - 2] >= 420
  <2> SUFFICES ASSUME n > 2 PROVE t[n + 1] - t[n - 2] >= 420
    OBVIOUS
  <2>1. /\ t[n + 1] \in Nat /\ t[n] \in Nat /\ t[n - 1] \in Nat /\ t[n - 2] \in Nat
    BY <1>4
  <2>2. /\ t[n + 1] - t[n] >= 60 /\ t[n] - t[n - 1] >= 60
        /\ t[n - 1] - t[n - 2] >= 60
    <3>1. n \in 1..n /\ n - 1 \in 1..n /\ n - 2 \in 1..n
      OBVIOUS
    <3>2. (n - 1) + 1 = n /\ (n - 2) + 1 = n - 1
      OBVIOUS
    <3>3. t[(n - 1) + 1] - t[n - 1] >= 60 /\ t[(n - 2) + 1] - t[n - 2] >= 60
      BY <1>5, <3>1
    <3> QED BY <3>1, <3>2, <3>3, <1>5
  <2>3. CASE next = 3
    BY <2>1, <2>2, <2>3, <1>6, SMTT(30)
  <2>4. CASE next = 60
    BY <2>1, <2>2, <2>4, <1>7, SMTT(30)
  <2>5. CASE next = 180
    <3>1. rung = 60
      BY <2>5
    <3>2. LadderAt(60, s)
      BY <3>1
    <3>3. n = 2 \/ s[n - 1] - s[n - 2] > 300
      BY <3>2, <1>1 DEF LadderAt
    <3>4. t[n - 1] = s[n - 1] /\ t[n - 2] = s[n - 2]
      BY <1>3
    <3>5. t[n - 1] - t[n - 2] > 300
      BY <3>3, <3>4
    <3>6. t[n + 1] - t[n] >= 180
      BY <2>5, <1>1, <1>3
    <3> QED BY <2>1, <2>2, <3>5, <3>6, SMTT(30)
  <2>6. CASE next = 300
    <3>1. t[n + 1] - t[n] >= 300
      BY <2>6, <1>1, <1>3
    <3> QED BY <2>1, <2>2, <3>1, SMTT(30)
  <2> QED BY <2>3, <2>4, <2>5, <2>6
<1>10. \A i \in 4..(n + 1) : t[i] - t[i - 3] >= 420
  <2> SUFFICES ASSUME NEW i \in 4..(n + 1) PROVE t[i] - t[i - 3] >= 420
    OBVIOUS
  <2>1. CASE i \in 4..n
    <3>1. s[i] - s[i - 3] >= 420
      BY <2>1, <1>1 DEF LadderAt
    <3>2. t[i] = s[i] /\ t[i - 3] = s[i - 3]
      BY <2>1, <1>3
    <3> QED BY <3>1, <3>2
  <2>2. CASE i = n + 1
    <3>1. n > 2 /\ i - 3 = n - 2
      BY <2>2
    <3> QED BY <2>2, <3>1, <1>9
  <2> QED BY <2>1, <2>2
<1>11. LadderAt(next, t)
  <2>1. Len(t) = n + 1 /\ Len(t) - 1 = n /\ Len(t) - 2 = n - 1
    BY <1>3
  <2>2. \A i \in 1..(Len(t) - 1) : t[i + 1] - t[i] >= 60
    BY <2>1, <1>5
  <2>3. next = 3 => Len(t) = 1 \/ (Len(t) > 1 /\ t[Len(t)] - t[Len(t) - 1] > 300)
    BY <2>1, <1>6
  <2>4. next = 60 => Len(t) = 2 \/ (Len(t) > 2 /\ t[Len(t) - 1] - t[Len(t) - 2] > 300)
    BY <2>1, <1>7
  <2>5. next = 180 => Len(t) > 2
    BY <2>1, <1>8
  <2>6. \A i \in 4..Len(t) : t[i] - t[i - 3] >= 420
    BY <2>1, <1>10
  <2> QED BY <2>2, <2>3, <2>4, <2>5, <2>6 DEF LadderAt
<1> QED BY <1>2, <1>11

LEMMA NextStep ==
  ASSUME Ladder, BackoffInv, NEW life \in Lifetimes, B!Next(life)
  PROVE  BackoffInv'
<1>1. PICK before : before = IF B!Rested(when + life) THEN 0 ELSE delay
  OBVIOUS
<1>2. PICK wait : wait = Above(before)
  OBVIOUS
<1>3. PICK x : x = when + life + wait
  OBVIOUS
<1>4. life \in Nat /\ when \in Nat /\ dials \in Seq(Nat) /\ before \in {0} \cup Delays
  BY <1>1 DEF Ladder, BackoffInv, BackoffType
<1>5. /\ before = 0 => wait = 3
      /\ before = 3 => wait = 60
      /\ before = 60 => wait = 180
      /\ before \in {180, 300} => wait = 300
  BY <1>2, <1>4, Rungs
<1>6. wait \in {3, 60, 180, 300}
  BY <1>4, <1>5 DEF Ladder
<1>7. x \in Nat
  BY <1>3, <1>4, <1>6
<1>8. delay' = wait /\ when' = x /\ dials' = Append(dials, x)
  BY <1>1, <1>2, <1>3 DEF B!Next, Above
<1>9. LadderAt(wait, Append(dials, x))
  <2>1. Len(dials) > 0 => dials[Len(dials)] = when /\ delay # 0
    BY <1>4 DEF BackoffInv, BackoffType
  <2>2. Len(dials) > 0 => x - dials[Len(dials)] >= wait
    BY <2>1, <1>3, <1>4, <1>6
  <2>3. Len(dials) = 0 => before = 0
    <3>1. Len(dials) = 0 => dials = <<>>
      BY <1>4, EmptySeq
    <3> QED BY <3>1, <1>1 DEF BackoffInv, BackoffType
  <2>4. wait = 3 => Len(dials) = 0 \/ x - dials[Len(dials)] > 300
    <3> SUFFICES ASSUME wait = 3, Len(dials) # 0 PROVE x - dials[Len(dials)] > 300
      OBVIOUS
    <3>1. before = 0
      BY <1>4, <1>5 DEF Ladder
    <3>2. Len(dials) > 0
      BY <1>4, LenProperties
    <3>3. B!Rested(when + life)
      BY <3>1, <3>2, <2>1, <1>1
    <3>4. life > 300
      BY <3>3, <1>4 DEF B!Rested, Ladder
    <3> QED BY <3>2, <3>4, <2>1, <1>3, <1>4
  <2>5. wait # 3 => before = delay /\ Len(dials) > 0
    <3>1. wait # 3 => before # 0
      BY <1>5
    <3> QED BY <3>1, <2>3, <1>1, <1>4, LenProperties
  <2>6. (wait = 60 => delay = 3) /\ (wait = 180 => delay = 60)
    BY <2>5, <1>4, <1>5 DEF Ladder
  <2>7. LadderAt(delay, dials)
    BY DEF BackoffInv
  <2> QED BY <2>2, <2>4, <2>5, <2>6, <2>7, <1>4, <1>6, <1>7, Climb
<1>10. BackoffType'
  BY <1>4, <1>6, <1>7, <1>8, AppendProperties DEF BackoffType
<1> QED BY <1>8, <1>9, <1>10 DEF BackoffInv

(* The ladder and its quiet period keep dials apart, whatever fails        *)
(* (Backoff.Next).                                                         *)
THEOREM BackoffNoHammering ==
  ASSUME Ladder
  PROVE  B!Spec => []B!NoHammering
<1>1. B!Init => BackoffInv
  <2> SUFFICES ASSUME B!Init PROVE BackoffInv
    OBVIOUS
  <2>1. dials = <<>> /\ Len(dials) = 0 /\ dials \in Seq(Nat) /\ delay = 0 /\ when = 0
    BY EmptySeq DEF B!Init
  <2>2. LadderAt(0, dials)
    BY <2>1 DEF LadderAt
  <2> QED BY <2>1, <2>2 DEF BackoffInv, BackoffType
<1>2. BackoffInv /\ [B!Step]_B!vars => BackoffInv'
  <2>1. ASSUME BackoffInv, B!Step PROVE BackoffInv'
    BY <2>1, NextStep DEF B!Step
  <2>2. ASSUME BackoffInv, UNCHANGED B!vars PROVE BackoffInv'
    BY <2>2 DEF B!vars, BackoffInv, BackoffType
  <2> QED BY <2>1, <2>2
<1>3. BackoffInv => B!NoHammering
  BY DEF BackoffInv, LadderAt, B!NoHammering, Ladder
<1> QED BY <1>1, <1>2, <1>3, PTL DEF B!Spec

(***************************************************************************)
(* The counters.  CountsHold is not inductive: what the next save may lose *)
(* depends on the messages since the last, and what a flush leaves on the  *)
(* tallies that are not marked (CountersInv).                              *)
(***************************************************************************)
Parts == {"karma", "ego", "lastseen", "stats"}

(* A book adds up.                                                         *)
ByChannel(book, n) == [ch \in Rooms |-> book.local[<<n, ch>>]]
Booked(book, names) ==
    /\ book \in [local : [names \X Rooms -> Int], global : [names -> Int]]
    /\ \A n \in names : book.global[n] = Total(ByChannel(book, n), Rooms)

(* Kicks given and got agree, but for those of the bot.                    *)
Tallies == [Counted \X Rooms -> [given : Nat, got : Nat]]
Surplus(tallies, ch) == [n \in Counted |-> tallies[<<n, ch>>].got - tallies[<<n, ch>>].given]
Bots == [Rooms -> Int]
Paired(tallies, bots) ==
    /\ tallies \in Tallies /\ bots \in Bots
    /\ \A ch \in Rooms : Total(Surplus(tallies, ch), Counted) = bots[ch]

Sound(data, bots) ==
    /\ DOMAIN data = Parts
    /\ Booked(data.karma, Counted) /\ Booked(data.ego, Counted)
    /\ data.ego.local \in [Counted \X Rooms -> Nat]
    /\ Paired(data.stats, bots)

LEMMA CounterSizes ==
  /\ bot \notin Counted /\ IsFiniteSet(Counted) /\ IsFiniteSet(Rooms)
  /\ saveInterval \in Nat \ {0} /\ reportRate \in Nat \ {0} /\ Hits \subseteq Nat
BY CountersAssumption DEF T!CountersConstants, T!IsFiniteSet, IsFiniteSet

Moved(after, book, names, entry, amount) ==
    \A k \in names \X Rooms : after.local[k] = book.local[k] + (IF k = entry THEN amount ELSE 0)

LEMMA Adjusted ==
  ASSUME NEW names, NEW book, Booked(book, names), NEW name \in names, NEW channel \in Rooms,
         NEW amount \in Int, NEW after, after = T!adjust(book, name, channel, amount)
  PROVE  Booked(after, names) /\ Moved(after, book, names, <<name, channel>>, amount)
<1>1. /\ book.local \in [names \X Rooms -> Int] /\ book.global \in [names -> Int]
      /\ book \in [local : [names \X Rooms -> Int], global : [names -> Int]]
  BY DEF Booked
<1>2. PICK k : k = <<name, channel>>
  OBVIOUS
<1>3. k \in names \X Rooms
  BY <1>2
<1>4. PICK l, g : /\ l = [book.local EXCEPT ![k] = @ + amount]
                  /\ g = [book.global EXCEPT ![name] = @ + amount]
  OBVIOUS
<1>5. /\ l \in [names \X Rooms -> Int] /\ l[k] = book.local[k] + amount
      /\ \A j \in names \X Rooms : j # k => l[j] = book.local[j]
  BY <1>1, <1>3, <1>4
<1>6. /\ g \in [names -> Int] /\ g[name] = book.global[name] + amount
      /\ \A n \in names : n # name => g[n] = book.global[n]
  BY <1>1, <1>4
<1>7. after = [book EXCEPT !.local = l, !.global = g]
  BY <1>2, <1>4 DEF T!adjust
<1>8. after \in [local : [names \X Rooms -> Int], global : [names -> Int]]
      /\ after.local = l /\ after.global = g
  BY <1>1, <1>5, <1>6, <1>7
<1>9. ASSUME NEW n \in names PROVE g[n] = Total(ByChannel(after, n), Rooms)
  <2>1. PICK F, G : F = ByChannel(book, n) /\ G = ByChannel(after, n)
    OBVIOUS
  <2>2. \A ch \in Rooms : F[ch] = book.local[<<n, ch>>] /\ F[ch] \in Int
    BY <1>1, <2>1 DEF ByChannel
  <2>3. \A ch \in Rooms : G[ch] = l[<<n, ch>>] /\ G[ch] \in Int
    BY <1>5, <1>8, <2>1 DEF ByChannel
  <2>4. book.global[n] = Total(F, Rooms)
    BY <2>1 DEF Booked
  <2>5. CASE n = name
    <3>1. G[channel] = F[channel] + amount
      BY <1>2, <1>5, <2>2, <2>3, <2>5
    <3>2. \A ch \in Rooms \ {channel} : G[ch] = F[ch]
      BY <1>2, <1>5, <2>2, <2>3
    <3>3. \A ch \in Rooms : F[ch] \in Int
      BY <2>2
    <3>4. G[channel] \in Int /\ IsFiniteSet(Rooms)
      BY <2>3, CounterSizes
    <3>5. Total(G, Rooms) = Total(F, Rooms) + (G[channel] - F[channel])
      BY <3>2, <3>3, <3>4, TotalChange
    <3>6. Total(F, Rooms) \in Int
      BY <1>1, <2>4
    <3>7. F[channel] \in Int
      BY <3>3
    <3>8. Total(G, Rooms) = Total(F, Rooms) + amount
      BY <3>1, <3>5, <3>6, <3>7
    <3> QED BY <1>6, <2>1, <2>4, <2>5, <3>8
  <2>6. CASE n # name
    <3>1. \A ch \in Rooms : F[ch] = G[ch]
      BY <1>2, <1>5, <2>2, <2>3, <2>6
    <3>2. Total(F, Rooms) = Total(G, Rooms)
      BY <3>1, TotalSame
    <3> QED BY <1>6, <2>1, <2>4, <2>6, <3>2
  <2> QED BY <2>5, <2>6
<1>10. \A j \in names \X Rooms : after.local[j] = book.local[j] + (IF j = k THEN amount ELSE 0)
  <2>1. \A j \in names \X Rooms : book.local[j] \in Int
    BY <1>1
  <2> QED BY <1>5, <1>8, <2>1
<1> QED BY <1>2, <1>8, <1>9, <1>10 DEF Booked, Moved

(* One more of a kind for x, if x counts.                                  *)
Raised(F, G, x, d) == \A n \in Counted : G[n] = F[n] + (IF n = x THEN d ELSE 0)
RaisedTotal(F, G, x, d) ==
    /\ \A n \in Counted : G[n] \in Int
    /\ Total(F, Counted) \in Int
    /\ Total(G, Counted) = Total(F, Counted) + (IF x \in Counted THEN d ELSE 0)

LEMMA Bumped ==
  ASSUME NEW F, \A n \in Counted : F[n] \in Int, NEW x, NEW d \in Int, NEW G, Raised(F, G, x, d)
  PROVE  RaisedTotal(F, G, x, d)
<1>0. \A n \in Counted : G[n] = F[n] + (IF n = x THEN d ELSE 0)
  BY DEF Raised
<1>1. \A n \in Counted : G[n] \in Int
  BY <1>0
<1>2. Total(F, Counted) \in Int
  BY CounterSizes, TotalInt
<1>3. CASE x \in Counted
  <2>1. \A n \in Counted \ {x} : G[n] = F[n]
    BY <1>0
  <2>2. IsFiniteSet(Counted) /\ G[x] \in Int /\ F[x] \in Int /\ G[x] = F[x] + d
    BY <1>0, <1>1, <1>3, CounterSizes
  <2>3. Total(G, Counted) = Total(F, Counted) + (G[x] - F[x])
    BY <1>3, <2>1, <2>2, TotalChange
  <2> QED BY <1>1, <1>2, <1>3, <2>2, <2>3 DEF RaisedTotal
<1>4. CASE x \notin Counted
  <2>1. \A n \in Counted : F[n] = G[n]
    BY <1>0, <1>4
  <2>2. Total(F, Counted) = Total(G, Counted)
    BY <2>1, TotalSame
  <2> QED BY <1>1, <1>2, <1>4, <2>2 DEF RaisedTotal
<1> QED BY <1>3, <1>4

On(who, channel) == {<<n, channel>> : n \in {who} \ {bot}}
Kicks(tallies, given, got) ==
    [k \in DOMAIN tallies |-> [given |-> tallies[k].given + (IF k \in given THEN 1 ELSE 0),
                               got |-> tallies[k].got + (IF k \in got THEN 1 ELSE 0)]]
BotKicks(bots, by, of, channel) ==
    [bots EXCEPT ![channel] = @ + (IF by = bot THEN 1 ELSE 0) - (IF of = bot THEN 1 ELSE 0)]

LEMMA Kicked ==
  ASSUME NEW tallies, NEW bots, Paired(tallies, bots), NEW by, NEW of, NEW channel \in Rooms,
         by \in Counted \cup {bot}, of \in Counted \cup {bot},
         NEW given, given = On(by, channel), NEW got, got = On(of, channel),
         NEW after, after = Kicks(tallies, given, got),
         NEW bots1, bots1 = BotKicks(bots, by, of, channel)
  PROVE  Paired(after, bots1)
<1>1. /\ tallies \in Tallies /\ bots \in Bots /\ DOMAIN tallies = Counted \X Rooms
      /\ \A k \in Counted \X Rooms : tallies[k].given \in Nat /\ tallies[k].got \in Nat
  BY DEF Paired, Tallies
<1>2. bot \notin Counted
  BY CounterSizes
<1>3. PICK gave, took : /\ gave = [k \in Counted \X Rooms |-> IF k \in given THEN 1 ELSE 0]
                        /\ took = [k \in Counted \X Rooms |-> IF k \in got THEN 1 ELSE 0]
  OBVIOUS
<1>4. \A n \in Counted, ch \in Rooms :
         /\ gave[<<n, ch>>] = IF n = by /\ ch = channel THEN 1 ELSE 0
         /\ took[<<n, ch>>] = IF n = of /\ ch = channel THEN 1 ELSE 0
  <2>1. SUFFICES ASSUME NEW n \in Counted, NEW ch \in Rooms
                 PROVE  /\ gave[<<n, ch>>] = IF n = by /\ ch = channel THEN 1 ELSE 0
                        /\ took[<<n, ch>>] = IF n = of /\ ch = channel THEN 1 ELSE 0
    OBVIOUS
  <2>2. <<n, ch>> \in given <=> n = by /\ ch = channel
    BY <1>2, <2>1 DEF On
  <2>3. <<n, ch>> \in got <=> n = of /\ ch = channel
    BY <1>2, <2>1 DEF On
  <2> QED BY <1>3, <2>2, <2>3
<1>5. after = [k \in Counted \X Rooms |-> [given |-> tallies[k].given + gave[k], got |-> tallies[k].got + took[k]]]
  BY <1>1, <1>3 DEF Kicks
<1>6. after \in Tallies
  <2>1. \A k \in Counted \X Rooms : gave[k] \in Nat /\ took[k] \in Nat
    BY <1>3
  <2>2. \A k \in Counted \X Rooms : tallies[k].given + gave[k] \in Nat /\ tallies[k].got + took[k] \in Nat
    BY <1>1, <2>1
  <2> QED BY <1>5, <2>2 DEF Tallies
<1>7. bots1 \in Bots /\ \A ch \in Rooms : ch # channel => bots1[ch] = bots[ch]
  BY <1>1 DEF Bots, BotKicks
<1>8. bots[channel] \in Int /\ bots1[channel] = bots[channel] + (IF by = bot THEN 1 ELSE 0) - (IF of = bot THEN 1 ELSE 0)
  BY <1>1 DEF Bots, BotKicks
<1>9. ASSUME NEW ch \in Rooms PROVE Total(Surplus(after, ch), Counted) = bots1[ch]
  <2>1. PICK F, H : F = Surplus(tallies, ch) /\ H = Surplus(after, ch)
    OBVIOUS
  <2>2. \A n \in Counted : F[n] = tallies[<<n, ch>>].got - tallies[<<n, ch>>].given /\ F[n] \in Int
    BY <1>1, <2>1 DEF Surplus
  <2>3. Total(F, Counted) = bots[ch]
    BY <2>1 DEF Paired
  <2>4. \A n \in Counted : H[n] = F[n] + (IF n = of /\ ch = channel THEN 1 ELSE 0)
                                     - (IF n = by /\ ch = channel THEN 1 ELSE 0)
    <3>1. SUFFICES ASSUME NEW n \in Counted
                   PROVE  H[n] = F[n] + (IF n = of /\ ch = channel THEN 1 ELSE 0)
                                      - (IF n = by /\ ch = channel THEN 1 ELSE 0)
      OBVIOUS
    <3>2. PICK k : k = <<n, ch>>
      OBVIOUS
    <3>3. PICK p, q : p = gave[k] /\ q = took[k]
      OBVIOUS
    <3>4. after[k].given = tallies[k].given + p /\ after[k].got = tallies[k].got + q
      BY <1>5, <3>1, <3>2, <3>3
    <3>5. H[n] = after[k].got - after[k].given
      BY <2>1, <3>2 DEF Surplus
    <3>6. /\ F[n] = tallies[k].got - tallies[k].given /\ tallies[k].got \in Int /\ tallies[k].given \in Int
      BY <1>1, <2>2, <3>2
    <3>7. /\ p = IF n = by /\ ch = channel THEN 1 ELSE 0
          /\ q = IF n = of /\ ch = channel THEN 1 ELSE 0
      BY <1>4, <3>2, <3>3
    <3> QED BY <3>4, <3>5, <3>6, <3>7
  <2>5. CASE ch # channel
    <3>1. \A n \in Counted : F[n] = H[n]
      <4>1. SUFFICES ASSUME NEW n \in Counted PROVE F[n] = H[n]
        OBVIOUS
      <4>2. F[n] \in Int /\ H[n] = F[n] + 0 - 0
        BY <2>2, <2>4, <2>5
      <4> QED BY <4>2
    <3>2. Total(F, Counted) = Total(H, Counted)
      BY <3>1, TotalSame
    <3> QED BY <1>7, <2>1, <2>3, <2>5, <3>2
  <2>6. CASE ch = channel
    <3>1. PICK G : G = [n \in Counted |-> F[n] + (IF n = of THEN 1 ELSE 0)]
      OBVIOUS
    <3>2. Raised(F, G, of, 1)
      BY <3>1 DEF Raised
    <3>3. \A n \in Counted : F[n] \in Int
      BY <2>2
    <3>4. RaisedTotal(F, G, of, 1)
      BY <3>2, <3>3, Bumped
    <3>5. Raised(G, H, by, -1)
      BY <2>4, <2>6, <3>1, <3>3 DEF Raised
    <3>6. RaisedTotal(G, H, by, -1)
      <4>1. \A n \in Counted : G[n] \in Int
        BY <3>4 DEF RaisedTotal
      <4>2. -1 \in Int
        OBVIOUS
      <4> QED BY <3>5, <4>1, <4>2, Bumped
    <3>7. (of \in Counted <=> of # bot) /\ (by \in Counted <=> by # bot)
      BY <1>2
    <3> QED BY <1>8, <2>1, <2>3, <2>6, <3>4, <3>6, <3>7 DEF RaisedTotal
  <2> QED BY <2>5, <2>6
<1> QED BY <1>6, <1>7, <1>9 DEF Paired

(***************************************************************************)
(* The inductive invariant: both copies add up, the stored tallies are     *)
(* those of memory but for the marked ones, and a count is behind by no    *)
(* more than its messages since the last attempt and an interval for each  *)
(* attempt that failed.                                                    *)
(***************************************************************************)
ByMessages == {"ego", "lastseen"}
Late(m) ==
    /\ msgCount[m] \in Nat /\ msgCount[m] < saveInterval
    /\ unsaved[m] <= msgCount[m] + saveInterval * misses[m]

CountersInv ==
    /\ Sound(mem, odd.mem) /\ Sound(row, odd.row) /\ odd \in [mem : Bots, row : Bots]
    /\ DOMAIN msgCount = ByMessages
    /\ unsaved \in [T!Modules -> Nat] /\ misses \in [T!Modules -> Nat]
    /\ unsaved.karma <= misses.karma
    /\ \A m \in ByMessages : Late(m)
    /\ \A m \in T!Modules : unsaved[m] = 0 => row[m] = mem[m]
    /\ \A k \in (Counted \X Rooms) \ marked : row.stats[k] = mem.stats[k]
    /\ ~misreported

LEMMA Rounded ==
  ASSUME NEW before \in Nat, NEW hits \in Nat
  PROVE  T!report(before, hits) <=> (before + hits) \div reportRate > before \div reportRate
<1>1. PICK r, q, p, n : /\ r = reportRate /\ q = before \div r /\ p = before % r
                        /\ n = (before + hits) \div r
  OBVIOUS
<1>2. r \in Nat \ {0}
  BY <1>1, CounterSizes
<1>3. q \in Nat /\ p \in Nat /\ before = r * q + p /\ p < r
  BY <1>1, <1>2
<1>4. n \in Nat /\ r * n <= before + hits /\ before + hits < r * n + r
  BY <1>1, <1>2
<1>5. T!report(before, hits) <=> hits > 0 /\ p + hits >= r
  BY <1>1 DEF T!report
<1>6. ASSUME hits > 0, p + hits >= r PROVE n > q
  <2>1. SUFFICES ASSUME n <= q PROVE FALSE
    BY <1>3, <1>4
  <2>2. q - n \in Nat /\ r * (q - n) \in Nat
    BY <1>2, <1>3, <1>4, <2>1
  <2>3. r * (q - n) = r * q - r * n
    BY <1>2, <1>3, <1>4
  <2>4. r * q \in Nat /\ r * n \in Nat
    BY <1>2, <1>3, <1>4
  <2> QED BY <1>2, <1>3, <1>4, <1>6, <2>2, <2>3, <2>4
<1>7. ASSUME n > q PROVE hits > 0 /\ p + hits >= r
  <2>1. n - (q + 1) \in Nat /\ r * (n - (q + 1)) \in Nat
    BY <1>2, <1>3, <1>4, <1>7
  <2>2. r * (n - (q + 1)) = r * n - r * q - r
    BY <1>2, <1>3, <1>4
  <2>3. r * q \in Nat /\ r * n \in Nat
    BY <1>2, <1>3, <1>4
  <2> QED BY <1>2, <1>3, <1>4, <2>1, <2>2, <2>3
<1> QED BY <1>1, <1>5, <1>6, <1>7

(* After its Put a module has nothing unsaved; otherwise it has what it     *)
(* counted now, and a miss if it tried.                                     *)
Written(m, counting, saving) ==
    \/ unsaved'[m] = 0 /\ misses'[m] = 0
    \/ /\ unsaved'[m] = unsaved[m] + (IF m \in counting THEN 1 ELSE 0)
       /\ misses'[m] = misses[m] + (IF m \in saving THEN 1 ELSE 0)

LEMMA SavedRows ==
  ASSUME CountersInv, NEW counting \in SUBSET T!Modules, NEW saving \in SUBSET T!Modules,
         T!Saved(counting, saving), Sound(mem', odd'.mem),
         \A m \in T!Modules \ counting : mem'[m] = mem[m]
  PROVE  /\ Sound(row', odd.row) /\ row'.stats = row.stats
         /\ unsaved' \in [T!Modules -> Nat] /\ misses' \in [T!Modules -> Nat]
         /\ \A m \in T!Modules : Written(m, counting, saving)
         /\ \A m \in T!Modules : unsaved'[m] = 0 => row'[m] = mem'[m]
<1>0. PICK failing \in SUBSET saving : \E landed \in SUBSET failing :
        /\ row' = [m \in DOMAIN row |-> IF m \in (saving \ failing) \cup landed THEN mem'[m] ELSE row[m]]
        /\ unsaved' = [m \in T!Modules |->
              IF m \in saving \ failing THEN 0
              ELSE unsaved[m] + (IF m \in counting THEN 1 ELSE 0)]
        /\ misses' = [m \in T!Modules |->
              IF m \in saving \ failing THEN 0
              ELSE misses[m] + (IF m \in failing THEN 1 ELSE 0)]
  BY DEF T!Saved
<1>1. PICK landed \in SUBSET failing :
        /\ row' = [m \in DOMAIN row |-> IF m \in (saving \ failing) \cup landed THEN mem'[m] ELSE row[m]]
        /\ unsaved' = [m \in T!Modules |->
              IF m \in saving \ failing THEN 0
              ELSE unsaved[m] + (IF m \in counting THEN 1 ELSE 0)]
        /\ misses' = [m \in T!Modules |->
              IF m \in saving \ failing THEN 0
              ELSE misses[m] + (IF m \in failing THEN 1 ELSE 0)]
  BY <1>0
<1>2. /\ DOMAIN row = Parts /\ DOMAIN row' = Parts /\ T!Modules \subseteq Parts /\ "stats" \notin T!Modules
      /\ Parts = T!Modules \cup {"stats"}
  BY <1>1 DEF CountersInv, Sound, Parts, T!Modules
<1>3. \A m \in T!Modules : unsaved[m] \in Nat /\ misses[m] \in Nat
  BY DEF CountersInv
<1>4. unsaved' \in [T!Modules -> Nat] /\ misses' \in [T!Modules -> Nat]
  <2>1. \A m \in T!Modules : /\ unsaved[m] + (IF m \in counting THEN 1 ELSE 0) \in Nat
                             /\ misses[m] + (IF m \in failing THEN 1 ELSE 0) \in Nat
    BY <1>3
  <2> QED BY <1>1, <2>1
<1>5. ASSUME NEW m \in T!Modules PROVE Written(m, counting, saving)
  <2>1. CASE m \in saving \ failing
    BY <1>1, <2>1 DEF Written
  <2>2. CASE m \notin saving \ failing
    <3>1. m \in failing <=> m \in saving
      BY <2>2
    <3>2. /\ unsaved'[m] = unsaved[m] + (IF m \in counting THEN 1 ELSE 0)
          /\ misses'[m] = misses[m] + (IF m \in failing THEN 1 ELSE 0)
      BY <1>1, <2>2
    <3> QED BY <3>1, <3>2 DEF Written
  <2> QED BY <2>1, <2>2
<1>6. ASSUME NEW m \in T!Modules, unsaved'[m] = 0 PROVE row'[m] = mem'[m]
  <2>1. CASE m \in saving \ failing
    BY <1>1, <1>2, <2>1
  <2>2. CASE m \notin saving \ failing
    <3>1. unsaved'[m] = unsaved[m] + (IF m \in counting THEN 1 ELSE 0)
      BY <1>1, <2>2
    <3>2. unsaved[m] = 0 /\ m \notin counting
      BY <1>3, <1>6, <3>1
    <3>3. row[m] = mem[m] /\ mem'[m] = mem[m]
      BY <3>2 DEF CountersInv
    <3> QED BY <1>1, <1>2, <3>3
  <2> QED BY <2>1, <2>2
<1>7. row'.stats = row.stats
  BY <1>1, <1>2
<1>8. \A m \in T!Modules : row'[m] = mem'[m] \/ row'[m] = row[m]
  BY <1>1, <1>2
<1>9. (row'.karma = mem'.karma \/ row'.karma = row.karma) /\ (row'.ego = mem'.ego \/ row'.ego = row.ego)
  BY <1>8 DEF T!Modules
<1>10. Booked(row'.karma, Counted)
  BY <1>9 DEF Sound, CountersInv
<1>11. Booked(row'.ego, Counted) /\ row'.ego.local \in [Counted \X Rooms -> Nat]
  BY <1>9 DEF Sound, CountersInv
<1>12. Paired(row'.stats, odd.row)
  BY <1>7 DEF Sound, CountersInv
<1> QED BY <1>2, <1>4, <1>5, <1>6, <1>7, <1>10, <1>11, <1>12 DEF Sound

LEMMA CountersStart == T!Init => CountersInv
<1>1. SUFFICES ASSUME T!Init PROVE CountersInv
  OBVIOUS
<1>2. IsFiniteSet(Counted) /\ IsFiniteSet(Rooms) /\ saveInterval \in Nat \ {0}
  BY CounterSizes
<1>3. ASSUME NEW names PROVE Booked(T!Book(names), names)
  <2>1. PICK book : book = T!Book(names)
    OBVIOUS
  <2>2. /\ book \in [local : [names \X Rooms -> Int], global : [names -> Int]]
        /\ \A n \in names : book.global[n] = 0
        /\ \A k \in names \X Rooms : book.local[k] = 0
    BY <2>1 DEF T!Book
  <2>3. ASSUME NEW n \in names PROVE Total(ByChannel(book, n), Rooms) = 0
    <3>1. PICK F : F = ByChannel(book, n)
      OBVIOUS
    <3>2. \A ch \in Rooms : F[ch] = 0
      BY <2>2, <3>1 DEF ByChannel
    <3> QED BY <1>2, <3>1, <3>2, TotalZero
  <2> QED BY <2>1, <2>2, <2>3 DEF Booked
<1>4. PICK tallies, bots : /\ tallies = [k \in Counted \X Rooms |-> [given |-> 0, got |-> 0]]
                           /\ bots = [ch \in Rooms |-> 0]
  OBVIOUS
<1>5. Paired(tallies, bots)
  <2>1. tallies \in Tallies /\ bots \in Bots
    BY <1>4 DEF Tallies, Bots
  <2>2. ASSUME NEW ch \in Rooms PROVE Total(Surplus(tallies, ch), Counted) = bots[ch]
    <3>1. PICK F : F = Surplus(tallies, ch)
      OBVIOUS
    <3>2. \A n \in Counted : F[n] = 0
      BY <1>4, <3>1 DEF Surplus
    <3>3. Total(F, Counted) = 0
      BY <1>2, <3>2, TotalZero
    <3> QED BY <1>4, <3>1, <3>3
  <2> QED BY <2>1, <2>2 DEF Paired
<1>6. /\ mem = T!Fresh /\ row = T!Fresh /\ marked = {} /\ odd = [mem |-> bots, row |-> bots]
      /\ msgCount = [m \in ByMessages |-> 0] /\ misreported = FALSE
      /\ unsaved = [m \in T!Modules |-> 0] /\ misses = [m \in T!Modules |-> 0]
  BY <1>1, <1>4 DEF T!Init, ByMessages
<1>7. /\ mem.karma = T!Book(Counted) /\ mem.ego = T!Book(Counted) /\ mem.stats = tallies
      /\ DOMAIN mem = Parts
  BY <1>4, <1>6 DEF T!Fresh, Parts
<1>8. mem.ego.local \in [Counted \X Rooms -> Nat]
  BY <1>7 DEF T!Book
<1>9. Sound(mem, odd.mem) /\ Sound(row, odd.row)
  BY <1>3, <1>5, <1>6, <1>7, <1>8 DEF Sound
<1>10. ASSUME NEW m \in ByMessages PROVE Late(m)
  <2>1. unsaved[m] = 0 /\ misses[m] = 0 /\ msgCount[m] = 0
    BY <1>6 DEF ByMessages, T!Modules
  <2> QED BY <1>2, <2>1 DEF Late
<1>11. odd \in [mem : Bots, row : Bots]
  BY <1>5, <1>6 DEF Paired
<1>12. /\ DOMAIN msgCount = ByMessages /\ unsaved \in [T!Modules -> Nat] /\ misses \in [T!Modules -> Nat]
       /\ unsaved.karma <= misses.karma
  BY <1>6 DEF T!Modules
<1> QED BY <1>6, <1>9, <1>10, <1>11, <1>12 DEF CountersInv

(* The copies apart: what the other counts say.                            *)
LEMMA CountersParts ==
  ASSUME CountersInv
  PROVE  /\ DOMAIN mem = Parts /\ DOMAIN row = Parts
         /\ Booked(mem.karma, Counted) /\ Booked(mem.ego, Counted) /\ Paired(mem.stats, odd.mem)
         /\ mem.stats \in Tallies /\ row.stats \in Tallies
         /\ mem.ego.local \in [Counted \X Rooms -> Nat]
         /\ odd \in [mem : Bots, row : Bots]
         /\ \A m \in T!Modules : unsaved[m] \in Nat /\ misses[m] \in Nat
         /\ \A m \in ByMessages : msgCount[m] \in Nat
         /\ T!Modules = {"karma"} \cup ByMessages /\ "karma" \notin ByMessages
BY DEF CountersInv, Sound, Paired, Late, T!Modules, ByMessages

(* One more for those that count, and none lost that is not written.       *)
LEMMA Later ==
  ASSUME NEW u \in Nat, NEW x \in Nat, NEW n \in Nat, n < saveInterval, u <= n + saveInterval * x,
         NEW u1, NEW x1, NEW n1, NEW s \in {0, 1}, NEW f \in {0, 1},
         f = 1 => s = 1 /\ n + 1 >= saveInterval, f = 0 => s = 0 \/ n + 1 < saveInterval,
         n1 = IF f = 1 THEN 0 ELSE n + s, (u1 = 0 /\ x1 = 0) \/ (u1 = u + s /\ x1 = x + f)
  PROVE  n1 \in Nat /\ n1 < saveInterval /\ u1 <= n1 + saveInterval * x1
<1>1. PICK r : r = saveInterval
  OBVIOUS
<1>2. r \in Nat \ {0}
  BY <1>1, CounterSizes
<1>3. r * x \in Nat /\ r * (x + 1) = r * x + r /\ r * 0 = 0
  BY <1>2
<1>4. n1 \in Nat /\ n1 < r
  BY <1>1, <1>2
<1>5. CASE u1 = 0 /\ x1 = 0
  BY <1>1, <1>3, <1>4, <1>5
<1>6. CASE u1 = u + s /\ x1 = x + f
  <2>1. CASE f = 1
    <3>1. u1 = u + 1 /\ x1 = x + 1 /\ n1 = 0 /\ n + 1 = r
      BY <1>1, <1>2, <1>6, <2>1
    <3> QED BY <1>1, <1>2, <1>3, <3>1
  <2>2. CASE f = 0
    <3>1. x1 = x /\ n1 = n + s /\ u1 = u + s
      BY <1>6, <2>2
    <3> QED BY <1>1, <1>3, <1>4, <3>1
  <2> QED BY <2>1, <2>2
<1> QED BY <1>5, <1>6

LEMMA CountersOnPrivmsg ==
  ASSUME CountersInv, NEW who \in Counted, NEW channel \in Rooms, NEW hits \in Hits,
         NEW item \in Counted, NEW kind \in Kinds, T!onPrivmsg(who, channel, hits, item, kind)
  PROVE  CountersInv'
<1>1. PICK voted, counting, before :
         /\ voted = IF T!Voted(kind) THEN {"karma"} ELSE {}
         /\ counting = {"ego"} \cup (IF kind = "talk" THEN {"lastseen"} ELSE {})
         /\ before = mem.ego.local[<<who, channel>>]
  OBVIOUS
<1>2. PICK K1, E1, L1 : /\ K1 = T!KarmaAfter(mem.karma, channel, item, kind)
                        /\ E1 = T!adjust(mem.ego, who, channel, hits)
                        /\ L1 = T!Seen(mem.lastseen, who, channel, hits, kind)
  OBVIOUS
<1>3. /\ mem' = [mem EXCEPT !.karma = K1, !.ego = E1, !.lastseen = L1]
      /\ T!Saved(voted \cup counting, voted \cup T!Full(counting))
      /\ marked' = T!tally({<<who, channel>>})
      /\ misreported' = (misreported \/
            T!report(before, hits) # ((before + hits) \div reportRate > before \div reportRate))
      /\ odd' = odd
  BY <1>1, <1>2 DEF T!onPrivmsg
<1>4. msgCount' = [m \in DOMAIN msgCount |->
          IF m \in T!Full(counting) THEN 0 ELSE msgCount[m] + (IF m \in counting THEN 1 ELSE 0)]
  BY <1>1 DEF T!onPrivmsg
<1>5. /\ voted \in SUBSET {"karma"} /\ counting \in SUBSET ByMessages /\ T!Full(counting) \in SUBSET counting
      /\ "ego" \in counting
  BY <1>1 DEF ByMessages, T!Full
<1>6. /\ mem'.karma = K1 /\ mem'.ego = E1 /\ mem'.lastseen = L1 /\ mem'.stats = mem.stats
      /\ DOMAIN mem' = Parts
  BY <1>3, CountersParts DEF Parts
<1>7. hits \in Nat /\ hits \in Int /\ before \in Nat /\ item \in Counted /\ who \in Counted
  BY <1>1, CounterSizes, CountersParts
<1>8. Booked(K1, Counted)
  <2>1. Booked(mem.karma, Counted)
    BY CountersParts
  <2>2. CASE T!Voted(kind)
    <3>1. PICK amount : amount = IF kind = "up" THEN 1 ELSE -1
      OBVIOUS
    <3>2. amount \in Int
      BY <3>1
    <3>3. K1 = T!adjust(mem.karma, item, channel, amount)
      BY <1>2, <2>2, <3>1 DEF T!KarmaAfter
    <3> QED BY <2>1, <3>2, <3>3, Adjusted
  <2>3. CASE ~T!Voted(kind)
    BY <1>2, <2>1, <2>3 DEF T!KarmaAfter
  <2> QED BY <2>2, <2>3
<1>9. /\ Booked(E1, Counted)
      /\ \A k \in Counted \X Rooms : E1.local[k] =
            mem.ego.local[k] + (IF k = <<who, channel>> THEN hits ELSE 0)
  <2>1. Booked(mem.ego, Counted)
    BY CountersParts
  <2>2. PICK amount : amount = hits
    OBVIOUS
  <2>3. E1 = T!adjust(mem.ego, who, channel, amount) /\ amount \in Int
    BY <1>2, <1>7, <2>2
  <2>4. Booked(E1, Counted) /\ Moved(E1, mem.ego, Counted, <<who, channel>>, amount)
    BY <2>1, <2>3, Adjusted
  <2> QED BY <2>2, <2>4 DEF Moved
<1>10. E1.local \in [Counted \X Rooms -> Nat]
  <2>1. E1.local \in [Counted \X Rooms -> Int]
    BY <1>9 DEF Booked
  <2>2. \A k \in Counted \X Rooms : mem.ego.local[k] \in Nat
    BY CountersParts
  <2>3. \A k \in Counted \X Rooms : E1.local[k] \in Nat
    BY <1>7, <1>9, <2>2
  <2> QED BY <2>1, <2>3
<1>11. Sound(mem', odd'.mem)
  BY <1>3, <1>6, <1>8, <1>9, <1>10, CountersParts DEF Sound
<1>12. PICK counts, saves : counts = voted \cup counting /\ saves = voted \cup T!Full(counting)
  OBVIOUS
<1>13. counts \in SUBSET T!Modules /\ saves \in SUBSET T!Modules
  BY <1>5, <1>12, CountersParts
<1>14. ASSUME NEW m \in T!Modules \ counts PROVE mem'[m] = mem[m]
  <2>1. CASE m = "karma"
    BY <1>1, <1>2, <1>6, <1>12, <1>14, <2>1 DEF T!KarmaAfter
  <2>2. CASE m = "ego"
    BY <1>5, <1>12, <1>14, <2>2
  <2>3. CASE m = "lastseen"
    BY <1>1, <1>2, <1>6, <1>12, <1>14, <2>3 DEF T!Seen
  <2> QED BY <1>14, <2>1, <2>2, <2>3 DEF T!Modules
<1>15. T!Saved(counts, saves)
  BY <1>3, <1>12
<1>16. /\ Sound(row', odd.row) /\ row'.stats = row.stats
       /\ unsaved' \in [T!Modules -> Nat] /\ misses' \in [T!Modules -> Nat]
       /\ \A m \in T!Modules : Written(m, counts, saves)
       /\ \A m \in T!Modules : unsaved'[m] = 0 => row'[m] = mem'[m]
  BY <1>11, <1>13, <1>14, <1>15, SavedRows
<1>17. unsaved'.karma <= misses'.karma
  <2>1. "karma" \in counts <=> "karma" \in saves
    BY <1>5, <1>12, CountersParts
  <2>2. Written("karma", counts, saves)
    BY <1>16, CountersParts
  <2>3. unsaved.karma \in Nat /\ misses.karma \in Nat /\ unsaved.karma <= misses.karma
    BY CountersParts DEF CountersInv
  <2> QED BY <2>1, <2>2, <2>3 DEF Written
<1>18. ASSUME NEW m \in ByMessages PROVE Late(m)'
  <2>1. /\ m \in counts <=> m \in counting
        /\ m \in saves <=> m \in T!Full(counting)
        /\ m \in T!Full(counting) <=> m \in counting /\ msgCount[m] + 1 >= saveInterval
    BY <1>5, <1>12, CountersParts DEF T!Full
  <2>2. Written(m, counts, saves) /\ unsaved'[m] \in Nat /\ misses'[m] \in Nat
    BY <1>16, CountersParts
  <2>3. /\ unsaved[m] \in Nat /\ misses[m] \in Nat /\ msgCount[m] \in Nat /\ msgCount[m] < saveInterval
        /\ unsaved[m] <= msgCount[m] + saveInterval * misses[m]
    BY CountersParts DEF CountersInv, Late
  <2>4. msgCount'[m] = IF m \in T!Full(counting) THEN 0 ELSE msgCount[m] + (IF m \in counting THEN 1 ELSE 0)
    BY <1>4 DEF CountersInv
  <2>5. PICK s, f : s = (IF m \in counting THEN 1 ELSE 0) /\ f = (IF m \in T!Full(counting) THEN 1 ELSE 0)
    OBVIOUS
  <2>6. PICK u, x, n, u1, x1, n1 :
           /\ u = unsaved[m] /\ x = misses[m] /\ n = msgCount[m]
           /\ u1 = unsaved'[m] /\ x1 = misses'[m] /\ n1 = msgCount'[m]
    OBVIOUS
  <2>7. (u1 = 0 /\ x1 = 0) \/ (u1 = u + s /\ x1 = x + f)
    BY <2>1, <2>2, <2>5, <2>6 DEF Written
  <2>8. /\ s \in {0, 1} /\ f \in {0, 1} /\ saveInterval \in Nat
        /\ f = 1 => s = 1 /\ n + 1 >= saveInterval
        /\ f = 0 => s = 0 \/ n + 1 < saveInterval
    BY <2>1, <2>3, <2>5, <2>6, CounterSizes
  <2>9. n1 = IF f = 1 THEN 0 ELSE n + s
    BY <2>4, <2>5, <2>6
  <2>10. u \in Nat /\ x \in Nat /\ n \in Nat /\ n < saveInterval /\ u <= n + saveInterval * x
    BY <2>3, <2>6
  <2>11. n1 \in Nat /\ n1 < saveInterval /\ u1 <= n1 + saveInterval * x1
    BY <2>7, <2>8, <2>9, <2>10, Later
  <2> QED BY <2>6, <2>11 DEF Late
<1>19. ASSUME NEW k \in (Counted \X Rooms) \ marked' PROVE row'.stats[k] = mem'.stats[k]
  BY <1>3, <1>6, <1>16, <1>19 DEF T!tally, CountersInv
<1>20. ~misreported'
  <2>1. T!report(before, hits) <=> (before + hits) \div reportRate > before \div reportRate
    BY <1>7, Rounded
  <2>2. PICK p, q : /\ p = T!report(before, hits)
                    /\ q = ((before + hits) \div reportRate > before \div reportRate)
    OBVIOUS
  <2>3. p = q
    BY <2>1, <2>2 DEF T!report
  <2>4. misreported' = (misreported \/ p # q)
    BY <1>3, <2>2, Zenon
  <2> QED BY <2>3, <2>4 DEF CountersInv
<1>21. DOMAIN msgCount' = ByMessages
  BY <1>4 DEF CountersInv
<1> QED BY <1>3, <1>11, <1>16, <1>17, <1>18, <1>19, <1>20, <1>21 DEF CountersInv

LEMMA CountersOnJoin ==
  ASSUME CountersInv, NEW who, NEW channel, T!onJoin(who, channel)
  PROVE  CountersInv'
<1>1. /\ marked' = T!tally({<<who, channel>>})
      /\ mem' = mem /\ row' = row /\ odd' = odd /\ msgCount' = msgCount /\ unsaved' = unsaved
      /\ misses' = misses /\ misreported' = misreported
  BY DEF T!onJoin
<1>2. \A m \in ByMessages : Late(m)'
  BY <1>1 DEF CountersInv, Late
<1>3. \A k \in (Counted \X Rooms) \ marked' : row'.stats[k] = mem'.stats[k]
  BY <1>1 DEF CountersInv, T!tally
<1> QED BY <1>1, <1>2, <1>3 DEF CountersInv

LEMMA CountersOnKick ==
  ASSUME CountersInv, NEW by \in Counted \cup {bot}, NEW of \in Counted \cup {bot},
         NEW channel \in Rooms, <<by, of>> # <<bot, bot>>, T!onKick(by, of, channel)
  PROVE  CountersInv'
<1>1. PICK given, got, voted :
         /\ given = On(by, channel) /\ got = On(of, channel)
         /\ voted = IF of = bot THEN {"karma"} ELSE {}
  OBVIOUS
<1>2. PICK K1, S1, O1 :
         /\ K1 = T!Blamed(mem.karma, by, of, channel)
         /\ S1 = Kicks(mem.stats, given, got)
         /\ O1 = BotKicks(odd.mem, by, of, channel)
  OBVIOUS
<1>3. /\ mem' = [mem EXCEPT !.karma = K1, !.stats = S1]
      /\ marked' = T!tally(given \cup got) /\ T!Saved(voted, voted)
      /\ msgCount' = msgCount /\ misreported' = misreported
  BY <1>1, <1>2 DEF T!onKick, On, Kicks
<1>4. odd' = [odd EXCEPT !.mem = O1]
  BY <1>2 DEF T!onKick, BotKicks
<1>5. odd'.mem = O1 /\ odd'.row = odd.row
  BY <1>4, CountersParts
<1>6. /\ mem'.karma = K1 /\ mem'.stats = S1 /\ mem'.ego = mem.ego /\ mem'.lastseen = mem.lastseen
      /\ DOMAIN mem' = Parts
  BY <1>3, CountersParts DEF Parts
<1>7. Paired(S1, O1)
  <2>1. Paired(mem.stats, odd.mem)
    BY CountersParts
  <2> QED BY <1>1, <1>2, <2>1, Kicked
<1>8. Booked(K1, Counted)
  <2>1. Booked(mem.karma, Counted)
    BY CountersParts
  <2>2. CASE of = bot
    <3>1. by \in Counted
      BY <2>2, CounterSizes
    <3>2. K1 = T!adjust(mem.karma, by, channel, -1) /\ -1 \in Int
      BY <1>2, <2>2 DEF T!Blamed
    <3> QED BY <2>1, <3>1, <3>2, Adjusted
  <2>3. CASE of # bot
    BY <1>2, <2>1, <2>3 DEF T!Blamed
  <2> QED BY <2>2, <2>3
<1>9. Sound(mem', odd'.mem)
  BY <1>5, <1>6, <1>7, <1>8, CountersParts DEF Sound
<1>10. voted \in SUBSET {"karma"} /\ voted \in SUBSET T!Modules
  BY <1>1, CountersParts
<1>11. ASSUME NEW m \in T!Modules \ voted PROVE mem'[m] = mem[m]
  <2>1. CASE m = "karma"
    BY <1>1, <1>2, <1>6, <1>11, <2>1 DEF T!Blamed
  <2>2. CASE m # "karma"
    BY <1>6, <1>11, <2>2 DEF T!Modules
  <2> QED BY <2>1, <2>2
<1>12. /\ Sound(row', odd.row) /\ row'.stats = row.stats
       /\ unsaved' \in [T!Modules -> Nat] /\ misses' \in [T!Modules -> Nat]
       /\ \A m \in T!Modules : Written(m, voted, voted)
       /\ \A m \in T!Modules : unsaved'[m] = 0 => row'[m] = mem'[m]
  BY <1>3, <1>9, <1>10, <1>11, SavedRows
<1>13. unsaved'.karma <= misses'.karma
  <2>1. Written("karma", voted, voted)
    BY <1>12, CountersParts
  <2>2. unsaved.karma \in Nat /\ misses.karma \in Nat /\ unsaved.karma <= misses.karma
    BY CountersParts DEF CountersInv
  <2> QED BY <2>1, <2>2 DEF Written
<1>14. ASSUME NEW m \in ByMessages PROVE Late(m)'
  <2>1. Written(m, voted, voted) /\ m \notin voted
    BY <1>10, <1>12, CountersParts
  <2>2. /\ unsaved[m] \in Nat /\ misses[m] \in Nat /\ msgCount[m] \in Nat /\ msgCount[m] < saveInterval
        /\ unsaved[m] <= msgCount[m] + saveInterval * misses[m] /\ saveInterval \in Nat
    BY CountersParts, CounterSizes DEF CountersInv, Late
  <2>3. saveInterval * 0 = 0
    BY <2>2
  <2>4. (unsaved'[m] = 0 /\ misses'[m] = 0) \/ (unsaved'[m] = unsaved[m] /\ misses'[m] = misses[m])
    BY <2>1, <2>2 DEF Written
  <2>5. unsaved'[m] <= msgCount'[m] + saveInterval * misses'[m]
    BY <1>3, <2>2, <2>3, <2>4
  <2> QED BY <1>3, <2>2, <2>5 DEF Late
<1>15. ASSUME NEW k \in (Counted \X Rooms) \ marked' PROVE row'.stats[k] = mem'.stats[k]
  <2>1. k \notin marked /\ k \notin given /\ k \notin got /\ k \in Counted \X Rooms
    BY <1>3, <1>15 DEF T!tally
  <2>2. /\ mem.stats \in [Counted \X Rooms -> [given : Nat, got : Nat]]
        /\ row.stats[k] = mem.stats[k]
    BY <2>1, CountersParts DEF CountersInv, Tallies
  <2>3. mem.stats[k] \in [given : Nat, got : Nat]
    BY <2>1, <2>2
  <2>4. S1[k] = [given |-> mem.stats[k].given + 0, got |-> mem.stats[k].got + 0]
    BY <1>2, <2>1, <2>2 DEF Kicks
  <2>5. S1[k] = mem.stats[k]
    BY <2>3, <2>4
  <2> QED BY <1>6, <1>12, <2>2, <2>5
<1>16. odd' \in [mem : Bots, row : Bots]
  <2>1. O1 \in Bots
    BY <1>7 DEF Paired
  <2> QED BY <1>4, <2>1, CountersParts
<1> QED BY <1>3, <1>5, <1>9, <1>12, <1>13, <1>14, <1>15, <1>16 DEF CountersInv

LEMMA CountersFlush ==
  ASSUME CountersInv, T!Flush
  PROVE  CountersInv'
<1>1. /\ row' = [row EXCEPT !.stats = [k \in DOMAIN @ |-> IF k \in marked THEN mem.stats[k] ELSE @[k]]]
      /\ odd' = [odd EXCEPT !.row = odd.mem] /\ marked' = {}
      /\ mem' = mem /\ msgCount' = msgCount /\ unsaved' = unsaved
      /\ misses' = misses /\ misreported' = misreported
  BY DEF T!Flush
<1>2. mem.stats \in [Counted \X Rooms -> [given : Nat, got : Nat]] /\ DOMAIN row.stats = Counted \X Rooms
  BY CountersParts DEF Tallies
<1>3. \A k \in (Counted \X Rooms) \ marked : row.stats[k] = mem.stats[k]
  BY DEF CountersInv
<1>4. [k \in DOMAIN row.stats |-> IF k \in marked THEN mem.stats[k] ELSE row.stats[k]] = mem.stats
  BY <1>2, <1>3
<1>5. row' = [row EXCEPT !.stats = mem.stats]
  BY <1>1, <1>4
<1>6. /\ row'.stats = mem.stats /\ row'.karma = row.karma /\ row'.ego = row.ego
      /\ row'.lastseen = row.lastseen /\ DOMAIN row' = Parts
  BY <1>5, CountersParts DEF Parts
<1>7. odd'.mem = odd.mem /\ odd'.row = odd.mem /\ odd' \in [mem : Bots, row : Bots]
  BY <1>1, CountersParts
<1>8. Sound(mem', odd'.mem)
  BY <1>1, <1>7 DEF CountersInv
<1>9. Sound(row', odd'.row)
  <2>1. Booked(row.karma, Counted) /\ Booked(row.ego, Counted) /\ row.ego.local \in [Counted \X Rooms -> Nat]
    BY DEF CountersInv, Sound
  <2> QED BY <1>6, <1>7, <2>1, CountersParts DEF Sound
<1>10. \A m \in ByMessages : Late(m)'
  BY <1>1 DEF CountersInv, Late
<1>11. \A m \in T!Modules : unsaved'[m] = 0 => row'[m] = mem'[m]
  <2>1. \A m \in T!Modules : row'[m] = row[m]
    BY <1>6 DEF T!Modules
  <2> QED BY <1>1, <2>1 DEF CountersInv
<1> QED BY <1>1, <1>6, <1>7, <1>8, <1>9, <1>10, <1>11 DEF CountersInv

LEMMA CountersRestart ==
  ASSUME CountersInv, T!Restart
  PROVE  CountersInv'
<1>1. /\ mem' = row /\ row' = row /\ marked' = {} /\ odd' = [odd EXCEPT !.mem = odd.row]
      /\ msgCount' = [m \in DOMAIN msgCount |-> 0]
      /\ unsaved' = [m \in T!Modules |-> 0] /\ misses' = [m \in T!Modules |-> 0]
      /\ misreported' = misreported
  BY DEF T!Restart
<1>2. odd'.mem = odd.row /\ odd'.row = odd.row /\ odd' \in [mem : Bots, row : Bots]
  BY <1>1, CountersParts
<1>3. DOMAIN msgCount' = ByMessages
  BY <1>1 DEF CountersInv
<1>4. \A m \in ByMessages : msgCount'[m] = 0 /\ unsaved'[m] = 0 /\ misses'[m] = 0
  BY <1>1, CountersParts DEF CountersInv
<1>5. \A m \in ByMessages : Late(m)'
  BY <1>4, CounterSizes DEF Late
<1>6. unsaved'.karma = 0 /\ misses'.karma = 0
  BY <1>1, CountersParts
<1>7. unsaved' \in [T!Modules -> Nat] /\ misses' \in [T!Modules -> Nat]
  BY <1>1
<1>8. Sound(mem', odd'.mem) /\ Sound(row', odd'.row)
  BY <1>1, <1>2 DEF CountersInv
<1>9. unsaved'.karma <= misses'.karma
  BY <1>6
<1> QED BY <1>1, <1>2, <1>3, <1>5, <1>7, <1>8, <1>9 DEF CountersInv

LEMMA CountersStep == CountersInv /\ [T!Next]_T!vars => CountersInv'
<1>1. SUFFICES ASSUME CountersInv, [T!Next]_T!vars PROVE CountersInv'
  OBVIOUS
<1>2. CASE UNCHANGED T!vars
  <2>1. /\ mem' = mem /\ row' = row /\ marked' = marked /\ odd' = odd /\ msgCount' = msgCount
        /\ unsaved' = unsaved /\ misses' = misses /\ misreported' = misreported
    BY <1>2 DEF T!vars
  <2>2. \A m \in ByMessages : Late(m)'
    BY <1>1, <2>1 DEF CountersInv, Late
  <2> QED BY <1>1, <2>1, <2>2 DEF CountersInv
<1>3. ASSUME NEW n \in Counted, NEW ch \in Rooms, NEW hits \in Hits, NEW item \in Counted,
             NEW kind \in Kinds, T!onPrivmsg(n, ch, hits, item, kind)
      PROVE  CountersInv'
  BY <1>1, <1>3, CountersOnPrivmsg
<1>4. ASSUME NEW n \in Counted, NEW ch \in Rooms, T!onJoin(n, ch) PROVE CountersInv'
  BY <1>1, <1>4, CountersOnJoin
<1>5. ASSUME NEW by \in Counted \cup {bot}, NEW of \in Counted \cup {bot}, NEW ch \in Rooms,
             <<by, of>> # <<bot, bot>>, T!onKick(by, of, ch)
      PROVE  CountersInv'
  BY <1>1, <1>5, CountersOnKick
<1>6. CASE T!Flush
  BY <1>1, <1>6, CountersFlush
<1>7. CASE T!Restart
  BY <1>1, <1>7, CountersRestart
<1> QED BY <1>1, <1>2, <1>3, <1>4, <1>5, <1>6, <1>7 DEF T!Next

LEMMA CountersAgree == CountersInv => T!CountsHold
<1>1. SUFFICES ASSUME CountersInv PROVE T!CountsHold
  OBVIOUS
<1>2. ASSUME NEW book, NEW names, Booked(book, names)
      PROVE  \A n \in DOMAIN book.global :
                book.global[n] = T!MapThenSumSet(LAMBDA ch : book.local[<<n, ch>>], Rooms)
  <2>0. DOMAIN book.global = names
    BY <1>2 DEF Booked
  <2>1. SUFFICES ASSUME NEW n \in names
                 PROVE  book.global[n] = T!MapThenSumSet(LAMBDA ch : book.local[<<n, ch>>], Rooms)
    BY <2>0, Zenon
  <2>2. book.global[n] = Total(ByChannel(book, n), Rooms)
    BY <1>2, <2>1 DEF Booked
  <2>3. T!MapThenSumSet(LAMBDA ch : book.local[<<n, ch>>], Rooms) = Total(ByChannel(book, n), Rooms)
    BY Zenon DEF T!MapThenSumSet, T!MapThenFoldSet, ByChannel, Total, AddsUp, AnyOf
  <2> QED BY <2>2, <2>3
<1>3. ASSUME NEW data, NEW bots, Sound(data, bots) PROVE T!SumsAgree(data)
  <2>1. Booked(data.karma, Counted) /\ Booked(data.ego, Counted)
    BY <1>3 DEF Sound
  <2>2. PICK books : books = {data.karma, data.ego}
    OBVIOUS
  <2>3. \A book \in books : book = data.karma \/ book = data.ego
    BY <2>2
  <2>4. \A book \in books : \A n \in DOMAIN book.global :
           book.global[n] = T!MapThenSumSet(LAMBDA ch : book.local[<<n, ch>>], Rooms)
    BY <1>2, <2>1, <2>3
  <2> QED BY <2>2, <2>4, Zenon DEF T!SumsAgree
<1>4. ASSUME NEW data, NEW bots, Sound(data, bots) PROVE T!KicksPaired(data, bots)
  <2>1. SUFFICES ASSUME NEW ch \in Rooms
                 PROVE  T!MapThenSumSet(LAMBDA n : data.stats[<<n, ch>>].got - data.stats[<<n, ch>>].given, Counted)
                        = bots[ch]
    BY Zenon DEF T!KicksPaired
  <2>2. Total(Surplus(data.stats, ch), Counted) = bots[ch]
    BY <1>4 DEF Sound, Paired
  <2>3. T!MapThenSumSet(LAMBDA n : data.stats[<<n, ch>>].got - data.stats[<<n, ch>>].given, Counted)
        = Total(Surplus(data.stats, ch), Counted)
    BY Zenon DEF T!MapThenSumSet, T!MapThenFoldSet, Surplus, Total, AddsUp, AnyOf
  <2> QED BY <2>2, <2>3
<1>5. T!SumsAgree(mem) /\ T!SumsAgree(row) /\ T!KicksPaired(mem, odd.mem) /\ T!KicksPaired(row, odd.row)
  <2>1. Sound(mem, odd.mem) /\ Sound(row, odd.row)
    BY <1>1 DEF CountersInv
  <2> QED BY <1>3, <1>4, <2>1
<1>6. ASSUME NEW m \in ByMessages PROVE unsaved[m] < saveInterval * (1 + misses[m])
  <2>1. PICK r, u, x, n : r = saveInterval /\ u = unsaved[m] /\ x = misses[m] /\ n = msgCount[m]
    OBVIOUS
  <2>2. r \in Nat /\ u \in Nat /\ x \in Nat /\ n \in Nat /\ n < r /\ u <= n + r * x
    BY <1>1, <2>1, CounterSizes, CountersParts DEF CountersInv, Late
  <2>3. r * (1 + x) = r + r * x /\ r * x \in Nat
    BY <2>2
  <2> QED BY <2>1, <2>2, <2>3
<1>7. /\ unsaved.karma <= misses.karma /\ ~misreported
      /\ \A m \in T!Modules : unsaved[m] = 0 => row[m] = mem[m]
  BY <1>1 DEF CountersInv
<1> QED BY <1>5, <1>6, <1>7 DEF T!CountsHold, ByMessages

(* What karma and ego count adds up, kicks agree on both sides, and a crash *)
(* loses no more than the intervals and failed Puts account for, as the     *)
(* modules store it (onPrivmsg, onKick, Flush, Restart).                   *)
THEOREM CountersHold == T!Spec => []T!CountsHold
<1>1. T!Spec => []CountersInv
  BY CountersStart, CountersStep, PTL DEF T!Spec
<1> QED BY <1>1, CountersAgree, PTL

(***************************************************************************)
(* The keeper.  OneStretch is not inductive: buffer, lock, socket and what  *)
(* the core read must join (Relayed), whoever holds them (Seats, Dialing);  *)
(* nor is RegistrationArrives, which asks where the registration is on its *)
(* way (Said) and that what is held back leaves room for it (Spare).       *)
(***************************************************************************)
(* What a core says before it hears from IRC fits in what is held for it.  *)
Roomy == MaxOutBuffer > MaxLines + 1

Inbound == [irc : Nat, n : Nat]
Outbound == [core : Nat, kind : {"REG", "LINE"}]

LinkTypes ==
    /\ irc \in 0..MaxIRC /\ dialed \in 0..MaxIRC /\ sent \in Nat
    /\ outDropped \in BOOLEAN /\ (closed <=> ctx = "closed")
    /\ link \in [K!IRCs -> {"up", "hung", "dead"}]
CoreTypes ==
    /\ made \in 0..MaxCores /\ core \in 0..made /\ served \in 0..made
    /\ coreOpen \in [K!Cores -> BOOLEAN] /\ cut \in [K!Cores -> BOOLEAN]
    /\ backlog \in Seq(Nat) /\ \A i \in 1..Len(backlog) : backlog[i] \in 1..made
    /\ lines \in [K!Cores -> 0..MaxLines]
QueueTypes ==
    /\ buffer \in Seq(Inbound) /\ outBuf \in Seq(Outbound)
    /\ wire \in [K!IRCs -> Seq(Outbound)]
SocketTypes ==
    /\ inbox \in [K!Cores -> Seq(Inbound)] /\ seen \in [K!Cores -> Seq(Inbound)]
    /\ outbox \in [K!Cores -> Seq(Outbound)]
KeeperType == LinkTypes /\ CoreTypes /\ QueueTypes /\ SocketTypes

(* Where the goroutines are, and what that says of the core and the lock.  *)
Serving == {"pump", "read", "write", "detach"}
Seats ==
    /\ mu \in {"free", "toCore", "attach"} /\ (mu = "attach" <=> corePc = "flush")
    /\ corePc \in {"accept", "attach", "flush", "done"} \cup Serving
    /\ IF corePc \in {"accept", "done"} THEN served = 0 ELSE served # 0
    /\ core \in {0, served} /\ (corePc \in {"accept", "attach", "done"} => core = 0)
    /\ corePc \in Serving /\ core = 0 => K!Broken(served)
    /\ corePc = "flush" => core = served /\ buffer # <<>>
    /\ buffer # <<>> => core = 0 \/ corePc = "flush"
    /\ mu = "toCore" => ircPc = "pump" /\ core # 0 /\ buffer = <<>> /\ sent # 0
    /\ corePc = "read" => toIrc \in {0} \X Outbound
    /\ corePc = "write" => toIrc \in K!IRCs \X Outbound

(* Where ircLoop is, and the connection it has installed.                  *)
Dialing ==
    /\ ircPc \in {"dial", "sleep", "set", "pump", "unset", "drop", "done"}
    /\ ircPc \in {"set", "pump", "unset"} => dialed # 0
    /\ ~closed => irc = IF ircPc \in {"pump", "unset"} THEN dialed ELSE 0
    /\ ctx = "closed" => irc = 0 \/ link[irc] = "dead"

(* The stretch a core is sent: up to what was read of the connection, or   *)
(* to where the buffer goes on.  A new connection finds no buffer and no   *)
(* core that heard from the last one and still listens.                    *)
Joined(x, y) == x.irc = y.irc /\ y.n = x.n + 1
Stretch(s) == \A k \in 1..(Len(s) - 1) : Joined(s[k], s[k + 1])
EndsAt(s, n) == s # <<>> => s[Len(s)] = K!In(dialed, n)
Stretches == \A p \in K!Cores : Stretch(K!Got(p))
Upto == Stretch(buffer) /\ Len(buffer) <= MaxBuffer /\ EndsAt(buffer, sent)
Attached ==
    /\ core # 0 /\ ~K!Broken(core) /\ mu # "attach" =>
          EndsAt(K!Got(core), IF mu = "toCore" THEN sent - 1 ELSE sent)
    /\ mu = "attach" /\ ~K!Broken(core) =>
          (K!Got(core) # <<>> => Joined(K!Got(core)[Len(K!Got(core))], buffer[1]))
Renewed ==
    ircPc \in {"dial", "sleep", "set"} =>
        buffer = <<>> /\ (core # 0 => K!Broken(core) \/ K!Got(core) = <<>>)
Relayed == Stretches /\ Upto /\ Attached /\ Renewed

(* A core that waits has said who it is, and no more.                      *)
Waits(p) == (\E i \in 1..Len(backlog) : backlog[i] = p) \/ (p = served /\ corePc = "attach")
Waiting ==
    /\ \A i, j \in 1..Len(backlog) : backlog[i] = backlog[j] => i = j
    /\ \A i \in 1..Len(backlog) : backlog[i] # served
    /\ \A p \in K!Cores : p > made \/ Waits(p) => seen[p] = <<>> /\ inbox[p] = <<>>
    /\ \A p \in K!Cores : Waits(p) => outbox[p] = <<K!Reg(p)>>

(* What is held back of a core that is gone is no more than it sent.       *)
Carried == IF corePc \in {"read", "write"} THEN 1 ELSE 0
Unread == IF served = 0 THEN 0 ELSE Len(outbox[served])
Left == Carried + Unread
WithinLimits == Len(outBuf) <= MaxOutBuffer /\ (irc # 0 => outBuf = <<>> /\ ~outDropped)
Sending ==
    /\ \A p \in K!Cores : Len(outbox[p]) <= 1 + lines[p]
    /\ served # 0 => Left <= 1 + lines[served]
Backed == WithinLimits /\ Sending
(* A core registers once, before anything else it says.                    *)
OnlyLines(s, n) == \A k \in n..Len(s) : s[k].kind = "LINE"
SaidOnce ==
    /\ \A p \in K!Cores : OnlyLines(outbox[p], 2)
    /\ corePc \in {"read", "write"} => OnlyLines(outbox[served], 1)
Unsaid ==
    \/ corePc \in {"flush", "pump"} /\ outbox[served] # <<>> /\ outbox[served][1] = K!Reg(served)
    \/ corePc = "read" /\ toIrc[2] = K!Reg(served)
Spare ==
    /\ corePc \in Serving /\ core = 0 => Len(outBuf) + Left <= 1 + lines[served] /\ ~outDropped
    /\ corePc \in {"accept", "attach", "done"} \/ (core # 0 /\ Unsaid) =>
          Len(outBuf) <= 1 + MaxLines /\ ~outDropped

(* Where the registration of the core is that is attached.                 *)
Arrived == irc # 0 /\ (link[irc] = "up" => \E k \in 1..Len(wire[irc]) : wire[irc][k] = K!Reg(served))
Kept == \E k \in 1..Len(outBuf) : outBuf[k] = K!Reg(served)
Said ==
    (* of what is under way nothing goes to a connection that is gone       *)
    /\ corePc = "write" => toIrc[1] = irc \/ ircPc = "drop"
    /\ corePc \in {"flush", "pump", "read", "write"} =>
          \/ Unsaid \/ (corePc = "write" /\ toIrc[2] = K!Reg(served))
          \/ Kept \/ Arrived \/ ircPc = "drop"
Registering ==
    ctx = "running" => Spare /\ (served # 0 /\ ~K!Broken(served) => Said)

KeeperInv == KeeperType /\ Seats /\ Dialing /\ Relayed /\ Waiting /\ Backed /\ SaidOnce
AllInv == KeeperInv /\ Registering

(* The bounds, and those of the code.                                      *)
LEMMA KeeperSizes ==
  /\ MaxBuffer \in Nat \ {0} /\ MaxOutBuffer \in Nat \ {0} /\ SockCap \in Nat \ {0}
  /\ MaxIRC \in Nat /\ MaxCores \in Nat /\ MaxIn \in Nat /\ MaxOpen \in Nat /\ MaxLines \in Nat
BY LinkAssumption DEF K!KeeperConstants

(* One more token, or one less, of a sequence.                             *)
LEMMA OneMore ==
  ASSUME NEW S, NEW s \in Seq(S), NEW x \in S, NEW t, t = Append(s, x)
  PROVE  /\ t \in Seq(S) /\ t # <<>> /\ Len(t) = Len(s) + 1 /\ Len(s) \in Nat
         /\ t[Len(t)] = x /\ \A i \in 1..Len(s) : t[i] = s[i]
BY AppendProperties, LenProperties

(* One token less of a sequence.                                           *)
LEMMA OneLess ==
  ASSUME NEW S, NEW s \in Seq(S), s # <<>>, NEW t, t = Tail(s)
  PROVE  /\ Head(s) = s[1] /\ Head(s) \in S /\ t \in Seq(S) /\ Len(s) \in Nat \ {0}
         /\ Len(t) = Len(s) - 1 /\ \A i \in 1..Len(t) : t[i] = s[i + 1]
<1>1. Len(s) \in Nat \ {0}
  BY EmptySeq
<1>2. Head(s) = s[1]
  OBVIOUS
<1> QED BY <1>1, <1>2, HeadTailProperties

(* Who is dialed, installed, served or waits is one of them.               *)
LEMMA Coming ==
  ASSUME KeeperType, Seats, Dialing
  PROVE  /\ irc # 0 => irc \in K!IRCs
         /\ ircPc \in {"set", "pump", "unset"} => dialed \in K!IRCs
         /\ core # 0 => core \in K!Cores
         /\ served # 0 => served \in K!Cores
         /\ \A i \in 1..Len(backlog) : backlog[i] \in K!Cores /\ backlog[i] # 0
         /\ corePc \notin {"accept", "done"} => served # 0
<1>1. /\ irc \in 0..MaxIRC /\ dialed \in 0..MaxIRC /\ made \in 0..MaxCores /\ core \in 0..made
      /\ served \in 0..made /\ \A i \in 1..Len(backlog) : backlog[i] \in 1..made
  BY DEF KeeperType, LinkTypes, CoreTypes
<1>2. ircPc \in {"set", "pump", "unset"} => dialed # 0
  BY DEF Dialing
<1>3. corePc \notin {"accept", "done"} => served # 0
  BY DEF Seats
<1> QED BY <1>1, <1>2, <1>3, KeeperSizes DEF K!IRCs, K!Cores

(* What reaches the ircd.                                                  *)
LEMMA WiredOn ==
  ASSUME QueueTypes, LinkTypes, NEW i \in K!IRCs, NEW toks \in Seq(Outbound), NEW w, w = K!Wired(i, toks)
  PROVE  /\ w \in [K!IRCs -> Seq(Outbound)] /\ \A j \in K!IRCs : j # i => w[j] = wire[j]
         /\ link[i] # "up" => w[i] = wire[i]
         /\ link[i] = "up" => w[i] = wire[i] \o toks
<1>1. wire[i] \in Seq(Outbound) /\ wire \in [K!IRCs -> Seq(Outbound)]
  BY DEF QueueTypes
<1>2. PICK v : v = wire[i] \o toks
  OBVIOUS
<1>3. v \in Seq(Outbound)
  BY <1>1, <1>2, ConcatProperties
<1>4. w = IF link[i] = "up" THEN [wire EXCEPT ![i] = v] ELSE wire
  BY <1>2 DEF K!Wired
<1> QED BY <1>1, <1>2, <1>3, <1>4

(* The newest of what is buffered.                                         *)
LEMMA NewestOf ==
  ASSUME NEW s \in Seq(Inbound), s # <<>>, NEW t, t = K!Newest(s, MaxBuffer)
  PROVE  /\ t \in Seq(Inbound) /\ t # <<>> /\ Len(t) <= MaxBuffer /\ t[Len(t)] = s[Len(s)]
         /\ Stretch(s) => Stretch(t)
<1>1. PICK n, b : n = Len(s) /\ b = MaxBuffer
  OBVIOUS
<1>2. n \in Nat \ {0} /\ b \in Nat \ {0}
  BY <1>1, EmptySeq, KeeperSizes
<1>3. \A i \in 1..n : s[i] \in Inbound
  BY <1>1, ElementOfSeq
<1>4. CASE n > b
  <2>1. t = SubSeq(s, n - b + 1, n)
    BY <1>1, <1>4 DEF K!Newest
  <2>2. t \in Seq(Inbound) /\ Len(t) = b /\ \A i \in 1..b : t[i] = s[n - b + i]
    <3>1. PICK m : m = n - b + 1
      OBVIOUS
    <3>2. m \in Int /\ n \in Int /\ m <= n /\ n - m + 1 = b /\ \A i \in m..n : s[i] \in Inbound
      BY <1>2, <1>3, <1>4, <3>1
    <3>3. t = SubSeq(s, m, n)
      BY <2>1, <3>1
    <3>4. /\ t \in Seq(Inbound) /\ Len(t) = n - m + 1
          /\ \A i \in 1..n - m + 1 : t[i] = s[m + i - 1]
      BY <3>2, <3>3, SubSeqProperties, SMTT(60)
    <3>5. ASSUME NEW i \in 1..b PROVE t[i] = s[n - b + i]
      <4>1. m + i - 1 = n - b + i /\ i \in 1..n - m + 1
        BY <1>2, <3>1, <3>2
      <4> QED BY <3>4, <4>1
    <3> QED BY <3>2, <3>4, <3>5
  <2>3. t[b] = s[n] /\ t # <<>>
    <3>1. b \in 1..b /\ n - b + b = n
      BY <1>2
    <3>2. t # <<>>
      <4>1. SUFFICES ASSUME t = <<>> PROVE FALSE
        OBVIOUS
      <4>2. Len(t) = 0
        BY <4>1
      <4> QED BY <1>2, <2>2, <4>2
    <3> QED BY <2>2, <3>1, <3>2
  <2>4. ASSUME Stretch(s), NEW k \in 1..(b - 1) PROVE Joined(t[k], t[k + 1])
    <3>1. PICK j : j = n - b + k
      OBVIOUS
    <3>2. j \in 1..(n - 1) /\ n - b + (k + 1) = j + 1 /\ k \in 1..b /\ k + 1 \in 1..b
      BY <1>2, <1>4, <3>1
    <3>3. t[k] = s[j] /\ t[k + 1] = s[j + 1]
      BY <2>2, <3>1, <3>2
    <3> QED BY <1>1, <2>4, <3>2, <3>3 DEF Stretch
  <2> QED BY <1>1, <1>2, <2>2, <2>3, <2>4 DEF Stretch
<1>5. CASE ~(n > b)
  BY <1>1, <1>2, <1>5 DEF K!Newest
<1> QED BY <1>4, <1>5

(* A stretch goes on,                                                      *)
LEMMA StretchMore ==
  ASSUME NEW s \in Seq(Inbound), NEW x \in Inbound, NEW t, t = Append(s, x),
         Stretch(s), s # <<>> => Joined(s[Len(s)], x)
  PROVE  Stretch(t)
<1>1. /\ Len(t) = Len(s) + 1 /\ Len(s) \in Nat
      /\ t[Len(t)] = x /\ \A i \in 1..Len(s) : t[i] = s[i]
  BY OneMore
<1>2. SUFFICES ASSUME NEW k \in 1..Len(s) PROVE Joined(t[k], t[k + 1])
  BY <1>1 DEF Stretch
<1>3. CASE k = Len(s)
  <2>1. s # <<>>
    BY <1>2
  <2> QED BY <1>1, <1>3, <2>1
<1>4. CASE k # Len(s)
  <2>1. k \in 1..(Len(s) - 1) /\ k + 1 \in 1..Len(s)
    BY <1>1, <1>4
  <2> QED BY <1>1, <2>1 DEF Stretch
<1> QED BY <1>3, <1>4

(* or loses its first token.                                               *)
LEMMA StretchLess ==
  ASSUME NEW s \in Seq(Inbound), s # <<>>, NEW t, t = Tail(s), Stretch(s)
  PROVE  /\ Stretch(t)
         /\ t # <<>> => t[Len(t)] = s[Len(s)] /\ Joined(s[1], t[1])
         /\ t = <<>> => s[1] = s[Len(s)]
<1>1. /\ t \in Seq(Inbound) /\ Len(s) \in Nat \ {0}
      /\ Len(t) = Len(s) - 1 /\ \A i \in 1..Len(t) : t[i] = s[i + 1]
  BY OneLess
<1>2. ASSUME NEW k \in 1..(Len(t) - 1) PROVE Joined(t[k], t[k + 1])
  <2>1. k + 1 \in 1..(Len(s) - 1) /\ k \in 1..Len(t) /\ k + 1 \in 1..Len(t)
    BY <1>1
  <2>2. Joined(s[k + 1], s[(k + 1) + 1])
    BY <2>1 DEF Stretch
  <2> QED BY <1>1, <2>1, <2>2
<1>3. ASSUME t # <<>> PROVE t[Len(t)] = s[Len(s)] /\ Joined(s[1], t[1])
  <2>1. Len(t) \in Nat \ {0}
    BY <1>1, <1>3, EmptySeq
  <2>2. Joined(s[1], s[1 + 1])
    BY <1>1, <2>1 DEF Stretch
  <2> QED BY <1>1, <2>1, <2>2
<1>4. ASSUME t = <<>> PROVE s[1] = s[Len(s)]
  <2>1. Len(t) = 0
    BY <1>1, <1>4, EmptySeq
  <2> QED BY <1>1, <2>1
<1> QED BY <1>2, <1>3, <1>4 DEF Stretch

(* What a core was sent: what it read, or did not yet.                     *)
LEMMA Reread ==
  ASSUME NEW s \in Seq(Inbound), NEW t \in Seq(Inbound), t # <<>>
  PROVE  Append(s, Head(t)) \o Tail(t) = s \o t
<1>1. Head(t) \in Inbound /\ Tail(t) \in Seq(Inbound) /\ Len(t) \in Nat \ {0}
  BY OneLess
<1>2. <<Head(t)>> \in Seq(Inbound) /\ Append(s, Head(t)) = s \o <<Head(t)>>
  BY <1>1, AppendIsConcat
<1>3. PICK u : u = <<Head(t)>> \o Tail(t)
  OBVIOUS
<1>4. u = t
  <2>1. /\ Len(Tail(t)) = Len(t) - 1 /\ \A i \in 1..Len(Tail(t)) : Tail(t)[i] = t[i + 1]
        /\ Head(t) = t[1]
    BY OneLess
  <2>2. /\ u \in Seq(Inbound) /\ Len(u) = 1 + Len(Tail(t))
        /\ \A i \in 1..1 + Len(Tail(t)) : u[i] = IF i <= 1 THEN <<Head(t)>>[i] ELSE Tail(t)[i - 1]
    <3>1. Len(<<Head(t)>>) = 1
      OBVIOUS
    <3> QED BY <1>1, <1>2, <1>3, <3>1, ConcatProperties
  <2>3. Len(u) = Len(t)
    BY <1>1, <2>1, <2>2
  <2>4. ASSUME NEW i \in 1..Len(u) PROVE u[i] = t[i]
    <3>1. CASE i = 1
      BY <2>1, <2>2, <3>1
    <3>2. CASE i # 1
      <4>1. i - 1 \in 1..Len(Tail(t)) /\ (i - 1) + 1 = i /\ ~(i <= 1)
        BY <1>1, <2>1, <2>2, <3>2
      <4> QED BY <2>1, <2>2, <4>1
    <3> QED BY <3>1, <3>2
  <2> QED BY <2>2, <2>3, <2>4, SeqEqual
<1>5. (s \o <<Head(t)>>) \o Tail(t) = s \o (<<Head(t)>> \o Tail(t))
  BY <1>1, <1>2, ConcatAssociative
<1> QED BY <1>2, <1>3, <1>4, <1>5

(* One more is sent.                                                       *)
LEMMA SentMore ==
  ASSUME NEW s \in Seq(Inbound), NEW t \in Seq(Inbound), NEW x \in Inbound
  PROVE  s \o Append(t, x) = Append(s \o t, x)
<1>1. <<x>> \in Seq(Inbound) /\ s \o t \in Seq(Inbound)
  BY ConcatProperties
<1>2. Append(t, x) = t \o <<x>> /\ Append(s \o t, x) = (s \o t) \o <<x>>
  BY <1>1, AppendIsConcat
<1> QED BY <1>1, <1>2, ConcatAssociative

(* Who went has read a part of what it was sent.                           *)
LEMMA SentLess ==
  ASSUME NEW s \in Seq(Inbound), NEW t \in Seq(Inbound), Stretch(s \o t)
  PROVE  Stretch(s \o <<>>)
<1>1. s \o <<>> = s /\ Len(s) \in Nat /\ Len(t) \in Nat
  BY ConcatEmptySeq, LenProperties
<1>2. PICK u : u = s \o t
  OBVIOUS
<1>3. Len(u) = Len(s) + Len(t) /\ \A i \in 1..Len(s) : u[i] = s[i]
  BY <1>1, <1>2, ConcatProperties
<1>4. ASSUME NEW k \in 1..(Len(s) - 1) PROVE Joined(s[k], s[k + 1])
  <2>1. k \in 1..(Len(u) - 1) /\ k \in 1..Len(s) /\ k + 1 \in 1..Len(s)
    BY <1>1, <1>3
  <2>2. Joined(u[k], u[k + 1])
    BY <1>2, <2>1 DEF Stretch
  <2> QED BY <1>3, <2>1, <2>2
<1> QED BY <1>1, <1>4 DEF Stretch

(* Every step keeps the types: the link to the ircd,                       *)
LEMMA LinkTypeStep ==
  ASSUME KeeperInv, K!Next
  PROVE  LinkTypes'
<1>1. CASE UNCHANGED <<irc, dialed, sent, outDropped, closed, ctx, link>>
  BY <1>1 DEF KeeperInv, KeeperType, LinkTypes
<1>2. CASE K!SleepOver \/ K!ToCore \/ K!Probe \/ K!PumpIRCEnds \/ K!DropSession \/ K!Accept
  BY <1>1, <1>2 DEF K!SleepOver, K!ToCore, K!Probe, K!PumpIRCEnds, K!DropSession, K!Accept,
     K!ircVars, K!servVars, K!sockVars, K!keeperVars
<1>3. CASE K!AttachCore \/ K!FlushToCore \/ K!ReadCore \/ K!WriteIRC \/ K!PumpCoreEnds \/ K!CoreConnects
  BY <1>1, <1>3 DEF K!AttachCore, K!FlushToCore, K!ReadCore, K!WriteIRC, K!PumpCoreEnds,
     K!CoreConnects, K!ircVars, K!servVars, K!sockVars, K!keeperVars
<1>4. ASSUME NEW p \in K!Cores, K!CoreReads(p) \/ K!CoreSpeaks(p) \/ K!CoreGoes(p) PROVE LinkTypes'
  BY <1>1, <1>4 DEF K!CoreReads, K!CoreSpeaks, K!CoreGoes, K!ircVars, K!servVars, K!sockVars,
     K!keeperVars
<1>5. CASE K!Dial
  BY <1>5, KeeperSizes DEF K!Dial, K!ircVars, K!servVars, K!sockVars, K!keeperVars, KeeperInv,
     KeeperType, LinkTypes, K!IRCs
<1>6. CASE K!SetIRC
  BY <1>6, KeeperSizes DEF K!SetIRC, K!ircVars, K!servVars, K!sockVars, K!keeperVars, KeeperInv,
     KeeperType, LinkTypes, K!IRCs
<1>7. CASE K!ReadIRC
  BY <1>7, KeeperSizes DEF K!ReadIRC, K!ircVars, K!servVars, K!sockVars, K!keeperVars, KeeperInv,
     KeeperType, LinkTypes, K!IRCs
<1>8. CASE K!UnsetIRC
  <2>1. irc' = 0 /\ outDropped' = FALSE /\ link' = [link EXCEPT ![dialed] = "dead"] /\ UNCHANGED <<closed, ctx, dialed, sent>>
    BY <1>8 DEF K!UnsetIRC
  <2>2. irc' \in 0..MaxIRC
    BY <2>1, KeeperSizes
  <2>3. link' \in [K!IRCs -> {"up", "hung", "dead"}]
    BY <2>1 DEF KeeperInv, KeeperType, LinkTypes
  <2> QED BY <2>1, <2>2, <2>3 DEF KeeperInv, KeeperType, LinkTypes
<1>9. CASE K!ToIRC
  BY <1>9, KeeperSizes DEF K!ToIRC, K!ircVars, K!servVars, K!sockVars, K!keeperVars, KeeperInv,
     KeeperType, LinkTypes, K!IRCs
<1>10. CASE K!DetachCore
  BY <1>10, KeeperSizes DEF K!DetachCore, K!ircVars, K!servVars, K!sockVars, K!keeperVars,
     KeeperInv, KeeperType, LinkTypes, K!IRCs
<1>11. CASE K!Cancel
  BY <1>11, KeeperSizes DEF K!Cancel, K!ircVars, K!servVars, K!sockVars, K!keeperVars, KeeperInv,
     KeeperType, LinkTypes, K!IRCs
<1>12. CASE K!Goodbye
  BY <1>12, KeeperSizes DEF K!Goodbye, K!ircVars, K!servVars, K!sockVars, K!keeperVars,
     KeeperInv, KeeperType, LinkTypes, K!IRCs
<1>13. CASE K!CloseConns
  BY <1>13, KeeperSizes DEF K!CloseConns, K!LinksClosed, K!Closed, K!ircVars, K!servVars,
     K!sockVars, K!keeperVars, KeeperInv, KeeperType, LinkTypes, K!IRCs
<1>14. CASE K!LinkFails
  BY <1>14, KeeperSizes DEF K!LinkFails, K!ircVars, K!servVars, K!sockVars, K!keeperVars,
     KeeperInv, KeeperType, LinkTypes, K!IRCs
<1> QED BY <1>1, <1>2, <1>3, <1>4, <1>5, <1>6, <1>7, <1>8, <1>9, <1>10, <1>11, <1>12, <1>13,
   <1>14 DEF K!Next

(* the cores,                                                              *)
LEMMA CoreTypeStep ==
  ASSUME KeeperInv, K!Next
  PROVE  CoreTypes'
<1>1. CASE UNCHANGED <<made, core, served, coreOpen, cut, backlog, lines>>
  BY <1>1 DEF KeeperInv, KeeperType, CoreTypes
<1>2. CASE K!Dial \/ K!SleepOver \/ K!SetIRC \/ K!Probe \/ K!PumpIRCEnds \/ K!UnsetIRC
  BY <1>1, <1>2 DEF K!Dial, K!SleepOver, K!SetIRC, K!Probe, K!PumpIRCEnds, K!UnsetIRC, K!ircVars,
     K!servVars, K!sockVars, K!keeperVars
<1>3. CASE K!FlushToCore \/ K!ReadCore \/ K!ToIRC \/ K!WriteIRC \/ K!PumpCoreEnds \/ K!Cancel
  BY <1>1, <1>3 DEF K!FlushToCore, K!ReadCore, K!ToIRC, K!WriteIRC, K!PumpCoreEnds, K!Cancel,
     K!ircVars, K!servVars, K!sockVars, K!keeperVars
<1>4. CASE K!Goodbye \/ K!LinkFails
  BY <1>1, <1>4 DEF K!Goodbye, K!LinkFails, K!ircVars, K!servVars, K!sockVars, K!keeperVars
<1>5. ASSUME NEW p \in K!Cores, K!CoreReads(p) PROVE CoreTypes'
  BY <1>1, <1>5 DEF K!CoreReads, K!ircVars, K!servVars, K!sockVars, K!keeperVars
<1>6. CASE K!ReadIRC
  BY <1>6, KeeperSizes DEF K!ReadIRC, K!ircVars, K!servVars, K!sockVars, K!keeperVars, KeeperInv,
     KeeperType, CoreTypes, K!Cores
<1>7. CASE K!ToCore
  BY <1>7, KeeperSizes DEF K!ToCore, K!ircVars, K!servVars, K!sockVars, K!keeperVars, KeeperInv,
     KeeperType, CoreTypes, K!Cores
<1>8. CASE K!DropSession
  BY <1>8, KeeperSizes DEF K!DropSession, K!Cut, K!ircVars, K!servVars, K!sockVars, K!keeperVars,
     KeeperInv, KeeperType, CoreTypes, K!Cores
<1>9. CASE K!Accept
  <2>1. /\ UNCHANGED <<made, core, coreOpen, cut, lines>>
        /\ UNCHANGED <<served, backlog>> \/ (backlog # <<>> /\ served' = Head(backlog) /\ backlog' = Tail(backlog))
    BY <1>9 DEF K!Accept, K!ircVars
  <2>2. CASE backlog # <<>> /\ served' = Head(backlog) /\ backlog' = Tail(backlog)
    <3>1. backlog \in Seq(Nat) /\ \A i \in 1..Len(backlog) : backlog[i] \in 1..made
      BY DEF KeeperInv, KeeperType, CoreTypes
    <3>2. PICK t : t = Tail(backlog)
      OBVIOUS
    <3>3. /\ Head(backlog) = backlog[1] /\ t \in Seq(Nat) /\ Len(backlog) \in Nat \ {0}
          /\ Len(t) = Len(backlog) - 1 /\ \A i \in 1..Len(t) : t[i] = backlog[i + 1]
      BY <2>2, <3>1, <3>2, OneLess
    <3>4. served' \in 1..made
      BY <2>2, <3>1, <3>3
    <3>5. ASSUME NEW i \in 1..Len(t) PROVE t[i] \in 1..made
      <4>1. i + 1 \in 1..Len(backlog)
        BY <3>3
      <4> QED BY <3>1, <3>3, <4>1
    <3>6. backlog' = t /\ made' = made
      BY <2>1, <2>2, <3>2
    <3>7. backlog' \in Seq(Nat) /\ \A i \in 1..Len(backlog') : backlog'[i] \in 1..made'
      BY <3>3, <3>5, <3>6
    <3>8. served' \in 0..made'
      BY <3>4, <3>6 DEF KeeperInv, KeeperType, CoreTypes
    <3> QED BY <2>1, <3>7, <3>8 DEF KeeperInv, KeeperType, CoreTypes
  <2> QED BY <1>1, <2>1, <2>2
<1>10. CASE K!AttachCore
  BY <1>10, KeeperSizes DEF K!AttachCore, K!Cut, K!ircVars, K!servVars, K!sockVars, K!keeperVars,
     KeeperInv, KeeperType, CoreTypes, K!Cores
<1>11. CASE K!DetachCore
  BY <1>11, KeeperSizes DEF K!DetachCore, K!Cut, K!ircVars, K!servVars, K!sockVars, K!keeperVars,
     KeeperInv, KeeperType, CoreTypes, K!Cores
<1>12. CASE K!CloseConns
  BY <1>12, KeeperSizes DEF K!CloseConns, K!Cut, K!ircVars, K!servVars, K!sockVars, K!keeperVars,
     KeeperInv, KeeperType, CoreTypes, K!Cores
<1>13. CASE K!CoreConnects
  BY <1>13, KeeperSizes, SMTT(30) DEF K!CoreConnects, K!ircVars, K!servVars, K!sockVars, K!keeperVars,
     KeeperInv, KeeperType, CoreTypes, K!Cores
<1>14. ASSUME NEW p \in K!Cores, K!CoreSpeaks(p) PROVE CoreTypes'
  BY <1>14, KeeperSizes DEF K!CoreSpeaks, K!ircVars, K!servVars, K!sockVars, K!keeperVars,
     KeeperInv, KeeperType, CoreTypes, K!Cores
<1>15. ASSUME NEW p \in K!Cores, K!CoreGoes(p) PROVE CoreTypes'
  BY <1>15, KeeperSizes DEF K!CoreGoes, K!ircVars, K!servVars, K!sockVars, K!keeperVars,
     KeeperInv, KeeperType, CoreTypes, K!Cores
<1> QED BY <1>1, <1>2, <1>3, <1>4, <1>5, <1>6, <1>7, <1>8, <1>9, <1>10, <1>11, <1>12, <1>13,
   <1>14, <1>15 DEF K!Next

(* bufferLocked: what is buffered is of the kind of what was.              *)
LEMMA BufferedOn ==
  ASSUME KeeperInv, ircPc = "pump", NEW n \in Nat
  PROVE  /\ K!Token \in Inbound
         /\ K!Buffered(K!In(dialed, n)) \in Seq(Inbound) /\ K!Buffered(K!Token) \in Seq(Inbound)
<1>1. K!In(dialed, n) \in Inbound /\ K!Token \in Inbound
  BY DEF KeeperInv, KeeperType, LinkTypes, K!In, Inbound, K!Token
<1>2. ASSUME NEW x \in Inbound PROVE K!Buffered(x) \in Seq(Inbound)
  <2>1. PICK s : s = Append(buffer, x)
    OBVIOUS
  <2>2. s \in Seq(Inbound) /\ s # <<>>
    BY <2>1, OneMore DEF KeeperInv, KeeperType, QueueTypes
  <2> QED BY <2>1, <2>2, NewestOf DEF K!Buffered
<1> QED BY <1>1, <1>2

(* what is held for either side,                                           *)
LEMMA QueueTypeStep ==
  ASSUME KeeperInv, K!Next
  PROVE  QueueTypes'
<1>1. CASE UNCHANGED <<buffer, outBuf, wire>>
  BY <1>1 DEF KeeperInv, KeeperType, QueueTypes
<1>2. CASE K!Dial \/ K!SleepOver \/ K!Probe \/ K!PumpIRCEnds \/ K!Accept \/ K!AttachCore
  BY <1>1, <1>2 DEF K!Dial, K!SleepOver, K!Probe, K!PumpIRCEnds, K!Accept, K!AttachCore,
     K!ircVars, K!servVars, K!sockVars, K!keeperVars
<1>3. CASE K!ReadCore \/ K!PumpCoreEnds \/ K!Cancel \/ K!Goodbye \/ K!CloseConns \/ K!CoreConnects
  BY <1>1, <1>3 DEF K!ReadCore, K!PumpCoreEnds, K!Cancel, K!Goodbye, K!CloseConns,
     K!CoreConnects, K!ircVars, K!servVars, K!sockVars, K!keeperVars
<1>4. CASE K!LinkFails
  BY <1>1, <1>4 DEF K!LinkFails, K!ircVars, K!servVars, K!sockVars, K!keeperVars
<1>5. ASSUME NEW p \in K!Cores, K!CoreReads(p) \/ K!CoreSpeaks(p) \/ K!CoreGoes(p) PROVE QueueTypes'
  BY <1>1, <1>5 DEF K!CoreReads, K!CoreSpeaks, K!CoreGoes, K!ircVars, K!servVars, K!sockVars,
     K!keeperVars
<1>6. CASE K!SetIRC
  <2>1. closed => UNCHANGED <<buffer, outBuf, wire>>
    BY <1>6 DEF K!SetIRC, K!sockVars
  <2>2. ASSUME ~closed PROVE QueueTypes'
    <3>1. dialed \in K!IRCs /\ outBuf \in Seq(Outbound)
      BY <1>6, Coming DEF KeeperInv, KeeperType, QueueTypes, K!SetIRC
    <3>2. wire' = K!Wired(dialed, outBuf) /\ outBuf' = <<>> /\ buffer' = buffer
      BY <1>6, <2>2 DEF K!SetIRC, K!Flushed
    <3>3. wire' \in [K!IRCs -> Seq(Outbound)]
      BY <3>1, <3>2, WiredOn DEF KeeperInv, KeeperType
    <3> QED BY <3>2, <3>3 DEF KeeperInv, KeeperType, QueueTypes
  <2> QED BY <1>1, <2>1, <2>2
<1>7. CASE K!ReadIRC
  <2>1. CASE buffer' = K!Buffered(K!Token)
    BY <1>7, <2>1, BufferedOn DEF K!ReadIRC, KeeperInv, KeeperType, QueueTypes
  <2> QED BY <1>1, <1>7, <2>1 DEF K!ReadIRC
<1>8. CASE K!ToCore
  <2>1. CASE buffer' = K!Buffered(K!In(dialed, sent))
    <3>1. ircPc = "pump" /\ sent \in Nat
      BY <1>8 DEF K!ToCore, KeeperInv, Seats, KeeperType, LinkTypes
    <3> QED BY <1>8, <2>1, <3>1, BufferedOn DEF K!ToCore, KeeperInv, KeeperType, QueueTypes
  <2> QED BY <1>1, <1>8, <2>1 DEF K!ToCore
<1>9. CASE K!UnsetIRC
  BY <1>9 DEF K!UnsetIRC, KeeperInv, KeeperType, QueueTypes
<1>10. CASE K!DropSession
  BY <1>10 DEF K!DropSession, KeeperInv, KeeperType, QueueTypes
<1>11. CASE K!FlushToCore
  <2>1. buffer # <<>>
    BY <1>11 DEF K!FlushToCore, KeeperInv, Seats
  <2>2. buffer \in Seq(Inbound)
    BY DEF KeeperInv, KeeperType, QueueTypes
  <2>3. Tail(buffer) \in Seq(Inbound)
    BY <2>1, <2>2, OneLess
  <2>4. <<>> \in Seq(Inbound)
    OBVIOUS
  <2>5. buffer' \in Seq(Inbound) /\ UNCHANGED <<outBuf, wire>>
    BY <1>11, <2>3, <2>4 DEF K!FlushToCore
  <2> QED BY <2>5 DEF KeeperInv, KeeperType, QueueTypes
<1>12. CASE K!ToIRC
  <2>1. CASE irc = 0
    <3>1. toIrc[2] \in Outbound
      BY <1>12 DEF K!ToIRC, KeeperInv, Seats
    <3>2. outBuf \in Seq(Outbound)
      BY DEF KeeperInv, KeeperType, QueueTypes
    <3>3. PICK x : x = toIrc[2]
      OBVIOUS
    <3>4. Append(outBuf, x) \in Seq(Outbound)
      BY <3>1, <3>2, <3>3, OneMore
    <3>5. outBuf' \in Seq(Outbound)
      BY <1>12, <2>1, <3>2, <3>3, <3>4 DEF K!ToIRC, K!Held
    <3> QED BY <1>12, <3>5 DEF K!ToIRC, KeeperInv, KeeperType, QueueTypes
  <2> QED BY <1>1, <1>12, <2>1 DEF K!ToIRC
<1>13. CASE K!WriteIRC
  <2>1. PICK i, x : i = toIrc[1] /\ x = toIrc[2]
    OBVIOUS
  <2>2. i \in K!IRCs /\ x \in Outbound
    BY <1>13, <2>1 DEF K!WriteIRC, KeeperInv, Seats
  <2>3. <<x>> \in Seq(Outbound)
    BY <2>2
  <2>4. wire' \in [K!IRCs -> Seq(Outbound)]
    BY <1>13, <2>1, <2>2, <2>3, WiredOn DEF K!WriteIRC, KeeperInv, KeeperType
  <2> QED BY <1>13, <2>4 DEF K!WriteIRC, KeeperInv, KeeperType, QueueTypes
<1>14. CASE K!DetachCore
  <2>1. outBuf' \in {outBuf, <<>>} /\ UNCHANGED <<buffer, wire>>
    BY <1>14 DEF K!DetachCore
  <2>2. outBuf' \in Seq(Outbound)
    BY <2>1, EmptySeq DEF KeeperInv, KeeperType, QueueTypes
  <2> QED BY <2>1, <2>2 DEF KeeperInv, KeeperType, QueueTypes
<1> QED BY <1>1, <1>2, <1>3, <1>4, <1>5, <1>6, <1>7, <1>8, <1>9, <1>10, <1>11, <1>12, <1>13,
   <1>14 DEF K!Next

(* and the cores' sockets.                                                 *)
LEMMA SocketTypeStep ==
  ASSUME KeeperInv, K!Next
  PROVE  SocketTypes'
<1>1. CASE UNCHANGED <<inbox, outbox, seen>>
  BY <1>1 DEF KeeperInv, KeeperType, SocketTypes
<1>2. CASE K!Dial \/ K!SleepOver \/ K!SetIRC \/ K!ReadIRC \/ K!Probe \/ K!PumpIRCEnds
  BY <1>1, <1>2 DEF K!Dial, K!SleepOver, K!SetIRC, K!ReadIRC, K!Probe, K!PumpIRCEnds, K!ircVars,
     K!servVars, K!sockVars, K!keeperVars
<1>3. CASE K!UnsetIRC \/ K!DropSession \/ K!Accept \/ K!AttachCore \/ K!ToIRC \/ K!WriteIRC
  BY <1>1, <1>3 DEF K!UnsetIRC, K!DropSession, K!Accept, K!AttachCore, K!ToIRC, K!WriteIRC,
     K!ircVars, K!servVars, K!sockVars, K!keeperVars
<1>4. CASE K!PumpCoreEnds \/ K!DetachCore \/ K!Cancel \/ K!Goodbye \/ K!CloseConns \/ K!LinkFails
  BY <1>1, <1>4 DEF K!PumpCoreEnds, K!DetachCore, K!Cancel, K!Goodbye, K!CloseConns, K!LinkFails,
     K!ircVars, K!servVars, K!sockVars, K!keeperVars
<1>5. CASE K!ToCore
  <2>1. CASE inbox' = [inbox EXCEPT ![core] = Append(@, K!In(dialed, sent))] /\ UNCHANGED <<outbox, seen>>
    <3>1. core \in K!Cores /\ K!In(dialed, sent) \in Inbound
      BY <1>5, Coming DEF K!ToCore, KeeperInv, Seats, KeeperType, LinkTypes, K!In, Inbound
    <3>2. PICK x : x = Append(inbox[core], K!In(dialed, sent))
      OBVIOUS
    <3>3. x \in Seq(Inbound)
      BY <3>1, <3>2, OneMore DEF KeeperInv, KeeperType, SocketTypes
    <3> QED BY <2>1, <3>1, <3>2, <3>3 DEF KeeperInv, KeeperType, SocketTypes
  <2> QED BY <1>1, <1>5, <2>1 DEF K!ToCore
<1>6. CASE K!FlushToCore
  <2>1. CASE inbox' = [inbox EXCEPT ![served] = Append(@, Head(buffer))] /\ UNCHANGED <<outbox, seen>>
    <3>1. served \in K!Cores /\ buffer # <<>> /\ buffer \in Seq(Inbound)
      BY <1>6, Coming DEF K!FlushToCore, KeeperInv, Seats, KeeperType, QueueTypes
    <3>2. PICK x : x = Append(inbox[served], Head(buffer))
      OBVIOUS
    <3>3. x \in Seq(Inbound)
      <4>1. PICK h : h = Head(buffer)
        OBVIOUS
      <4>2. h \in Inbound
        BY <3>1, <4>1, OneLess
      <4> QED BY <3>1, <3>2, <4>1, <4>2, OneMore DEF KeeperInv, KeeperType, SocketTypes
    <3> QED BY <2>1, <3>1, <3>2, <3>3 DEF KeeperInv, KeeperType, SocketTypes
  <2> QED BY <1>1, <1>6, <2>1 DEF K!FlushToCore
<1>7. CASE K!ReadCore
  <2>1. served \in K!Cores /\ outbox[served] # <<>>
    BY <1>7, Coming DEF K!ReadCore, KeeperInv
  <2>2. PICK x : x = Tail(outbox[served])
    OBVIOUS
  <2>3. x \in Seq(Outbound)
    BY <2>1, <2>2, OneLess DEF KeeperInv, KeeperType, SocketTypes
  <2> QED BY <1>7, <2>1, <2>2, <2>3 DEF K!ReadCore, KeeperInv, KeeperType, SocketTypes
<1>8. CASE K!CoreConnects
  <2>1. PICK x : x = <<K!Reg(made + 1)>>
    OBVIOUS
  <2>2. K!Reg(made + 1) \in Outbound
    BY DEF KeeperInv, KeeperType, CoreTypes, K!Reg, Outbound
  <2>3. x \in Seq(Outbound)
    BY <2>1, <2>2
  <2> QED BY <1>8, <2>1, <2>3 DEF K!CoreConnects, KeeperInv, KeeperType, SocketTypes
<1>9. ASSUME NEW p \in K!Cores, K!CoreReads(p) PROVE SocketTypes'
  <2>1. inbox[p] \in Seq(Inbound) /\ seen[p] \in Seq(Inbound) /\ inbox[p] # <<>>
    BY <1>9 DEF K!CoreReads, KeeperInv, KeeperType, SocketTypes
  <2>2. PICK x, y : x = Append(seen[p], Head(inbox[p])) /\ y = Tail(inbox[p])
    OBVIOUS
  <2>3. x \in Seq(Inbound) /\ y \in Seq(Inbound)
    <3>1. PICK h : h = Head(inbox[p])
      OBVIOUS
    <3>2. h \in Inbound /\ y \in Seq(Inbound)
      BY <2>1, <2>2, <3>1, OneLess
    <3> QED BY <2>1, <2>2, <3>1, <3>2, OneMore
  <2> QED BY <1>9, <2>2, <2>3 DEF K!CoreReads, KeeperInv, KeeperType, SocketTypes
<1>10. ASSUME NEW p \in K!Cores, K!CoreSpeaks(p) PROVE SocketTypes'
  <2>1. K!Say(p) \in Outbound
    BY DEF K!Say, Outbound, K!Cores
  <2>2. PICK x : x = Append(outbox[p], K!Say(p))
    OBVIOUS
  <2>3. x \in Seq(Outbound)
    BY <2>1, <2>2, OneMore DEF KeeperInv, KeeperType, SocketTypes
  <2> QED BY <1>10, <2>2, <2>3 DEF K!CoreSpeaks, KeeperInv, KeeperType, SocketTypes
<1>11. ASSUME NEW p \in K!Cores, K!CoreGoes(p) PROVE SocketTypes'
  BY <1>11 DEF K!CoreGoes, KeeperInv, KeeperType, SocketTypes
<1> QED BY <1>1, <1>2, <1>3, <1>4, <1>5, <1>6, <1>7, <1>8, <1>9, <1>10, <1>11 DEF K!Next

(* Every step keeps what the seats of the goroutines say,                  *)
LEMMA SeatsStep ==
  ASSUME KeeperInv, K!Next
  PROVE  Seats'
<1>1. CASE UNCHANGED <<mu, corePc, served, core, coreOpen, cut, buffer, toIrc, ircPc, sent>>
  BY <1>1 DEF KeeperInv, Seats, K!Broken
<1>2. CASE K!Probe \/ K!Cancel \/ K!Goodbye \/ K!LinkFails
  BY <1>1, <1>2 DEF K!Probe, K!Cancel, K!Goodbye, K!LinkFails, K!ircVars, K!servVars, K!sockVars,
     K!keeperVars
<1>3. ASSUME NEW p \in K!Cores, K!CoreReads(p) \/ K!CoreSpeaks(p) PROVE Seats'
  BY <1>1, <1>3 DEF K!CoreReads, K!CoreSpeaks, K!ircVars, K!servVars, K!sockVars, K!keeperVars
<1>4. CASE K!Dial
  BY <1>4, KeeperSizes DEF K!Dial, K!ircVars, K!servVars, K!sockVars, K!keeperVars, KeeperInv,
     KeeperType, CoreTypes, LinkTypes, K!Cores, K!IRCs, Seats, Serving, K!Broken
<1>5. CASE K!SleepOver
  BY <1>5, KeeperSizes DEF K!SleepOver, K!ircVars, K!servVars, K!sockVars, K!keeperVars,
     KeeperInv, KeeperType, CoreTypes, LinkTypes, K!Cores, K!IRCs, Seats, Serving, K!Broken
<1>6. CASE K!SetIRC
  BY <1>6, KeeperSizes DEF K!SetIRC, K!ircVars, K!servVars, K!sockVars, K!keeperVars, KeeperInv,
     KeeperType, CoreTypes, LinkTypes, K!Cores, K!IRCs, Seats, Serving, K!Broken
<1>7. CASE K!ReadIRC
  BY <1>7, KeeperSizes DEF K!ReadIRC, K!ircVars, K!servVars, K!sockVars, K!keeperVars, KeeperInv,
     KeeperType, CoreTypes, LinkTypes, K!Cores, K!IRCs, Seats, Serving, K!Broken, K!Unlocked
<1>8. CASE K!ToCore
  BY <1>8, KeeperSizes DEF K!ToCore, K!ircVars, K!servVars, K!sockVars, K!keeperVars, KeeperInv,
     KeeperType, CoreTypes, LinkTypes, K!Cores, K!IRCs, Seats, Serving, K!Broken
<1>9. CASE K!PumpIRCEnds
  BY <1>9, KeeperSizes DEF K!PumpIRCEnds, K!ircVars, K!servVars, K!sockVars, K!keeperVars,
     KeeperInv, KeeperType, CoreTypes, LinkTypes, K!Cores, K!IRCs, Seats, Serving, K!Broken
<1>10. CASE K!UnsetIRC
  BY <1>10, KeeperSizes DEF K!UnsetIRC, K!ircVars, K!servVars, K!sockVars, K!keeperVars,
     KeeperInv, KeeperType, CoreTypes, LinkTypes, K!Cores, K!IRCs, Seats, Serving, K!Broken
<1>11. CASE K!DropSession
  BY <1>11, KeeperSizes DEF K!DropSession, K!Cut, K!ircVars, K!servVars, K!sockVars,
     K!keeperVars, KeeperInv, KeeperType, CoreTypes, LinkTypes, K!Cores, K!IRCs, Seats, Serving,
     K!Broken, K!Unlocked
<1>12. CASE K!Accept
  BY <1>12, KeeperSizes DEF K!Accept, K!ircVars, K!servVars, K!sockVars, K!keeperVars, KeeperInv,
     KeeperType, CoreTypes, LinkTypes, K!Cores, K!IRCs, Seats, Serving, K!Broken
<1>13. CASE K!AttachCore
  BY <1>13, KeeperSizes DEF K!AttachCore, K!Cut, K!ircVars, K!servVars, K!sockVars, K!keeperVars,
     KeeperInv, KeeperType, CoreTypes, LinkTypes, K!Cores, K!IRCs, Seats, Serving, K!Broken
<1>14. CASE K!FlushToCore
  BY <1>14, KeeperSizes DEF K!FlushToCore, K!ircVars, K!servVars, K!sockVars, K!keeperVars,
     KeeperInv, KeeperType, CoreTypes, LinkTypes, K!Cores, K!IRCs, Seats, Serving, K!Broken
<1>15. CASE K!ReadCore
  <2>1. served \in K!Cores
    BY <1>15, Coming DEF K!ReadCore, KeeperInv
  <2>2. outbox[served] \in Seq(Outbound) /\ outbox[served] # <<>>
    BY <1>15, <2>1 DEF K!ReadCore, KeeperInv, KeeperType, SocketTypes
  <2>3. PICK h : h = Head(outbox[served])
    OBVIOUS
  <2>4. h \in Outbound
    BY <2>2, <2>3, OneLess
  <2>5. toIrc' \in {0} \X Outbound /\ corePc = "pump" /\ corePc' = "read"
    BY <1>15, <2>3, <2>4 DEF K!ReadCore
  <2>6. UNCHANGED <<mu, served, core, coreOpen, cut, buffer, ircPc, sent>>
    BY <1>15 DEF K!ReadCore, K!ircVars
  <2> QED BY <2>5, <2>6 DEF KeeperInv, Seats, Serving, K!Broken
<1>16. CASE K!ToIRC
  BY <1>16, KeeperSizes DEF K!ToIRC, K!ircVars, K!servVars, K!sockVars, K!keeperVars, KeeperInv,
     KeeperType, CoreTypes, LinkTypes, K!Cores, K!IRCs, Seats, Serving, K!Broken
<1>17. CASE K!WriteIRC
  BY <1>17, KeeperSizes DEF K!WriteIRC, K!ircVars, K!servVars, K!sockVars, K!keeperVars,
     KeeperInv, KeeperType, CoreTypes, LinkTypes, K!Cores, K!IRCs, Seats, Serving, K!Broken
<1>18. CASE K!PumpCoreEnds
  BY <1>18, KeeperSizes DEF K!PumpCoreEnds, K!ircVars, K!servVars, K!sockVars, K!keeperVars,
     KeeperInv, KeeperType, CoreTypes, LinkTypes, K!Cores, K!IRCs, Seats, Serving, K!Broken
<1>19. CASE K!DetachCore
  BY <1>19, KeeperSizes DEF K!DetachCore, K!Cut, K!ircVars, K!servVars, K!sockVars, K!keeperVars,
     KeeperInv, KeeperType, CoreTypes, LinkTypes, K!Cores, K!IRCs, Seats, Serving, K!Broken,
     K!Unlocked
<1>20. CASE K!CloseConns
  BY <1>20, KeeperSizes DEF K!CloseConns, K!Cut, K!ircVars, K!servVars, K!sockVars, K!keeperVars,
     KeeperInv, KeeperType, CoreTypes, LinkTypes, K!Cores, K!IRCs, Seats, Serving, K!Broken
<1>21. CASE K!CoreConnects
  BY <1>21, KeeperSizes DEF K!CoreConnects, K!ircVars, K!servVars, K!sockVars, K!keeperVars,
     KeeperInv, KeeperType, CoreTypes, LinkTypes, K!Cores, K!IRCs, Seats, Serving, K!Broken
<1>22. ASSUME NEW p \in K!Cores, K!CoreGoes(p) PROVE Seats'
  BY <1>22, KeeperSizes DEF K!CoreGoes, K!ircVars, K!servVars, K!sockVars, K!keeperVars,
     KeeperInv, KeeperType, CoreTypes, LinkTypes, K!Cores, K!IRCs, Seats, Serving, K!Broken
<1> QED BY <1>1, <1>2, <1>3, <1>4, <1>5, <1>6, <1>7, <1>8, <1>9, <1>10, <1>11, <1>12, <1>13,
   <1>14, <1>15, <1>16, <1>17, <1>18, <1>19, <1>20, <1>21, <1>22 DEF K!Next

(* and where ircLoop is.                                                   *)
LEMMA DialingStep ==
  ASSUME KeeperInv, K!Next
  PROVE  Dialing'
<1>1. CASE UNCHANGED <<ircPc, dialed, closed, ctx, irc, link>>
  BY <1>1 DEF KeeperInv, Dialing
<1>2. CASE K!ReadIRC \/ K!ToCore \/ K!Probe \/ K!Accept \/ K!AttachCore \/ K!FlushToCore
  BY <1>1, <1>2 DEF K!ReadIRC, K!ToCore, K!Probe, K!Accept, K!AttachCore, K!FlushToCore,
     K!ircVars, K!servVars, K!sockVars, K!keeperVars
<1>3. CASE K!ReadCore \/ K!ToIRC \/ K!WriteIRC \/ K!PumpCoreEnds \/ K!DetachCore \/ K!CoreConnects
  BY <1>1, <1>3 DEF K!ReadCore, K!ToIRC, K!WriteIRC, K!PumpCoreEnds, K!DetachCore,
     K!CoreConnects, K!ircVars, K!servVars, K!sockVars, K!keeperVars
<1>4. ASSUME NEW p \in K!Cores, K!CoreReads(p) \/ K!CoreSpeaks(p) \/ K!CoreGoes(p) PROVE Dialing'
  BY <1>1, <1>4 DEF K!CoreReads, K!CoreSpeaks, K!CoreGoes, K!ircVars, K!servVars, K!sockVars,
     K!keeperVars
<1>5. CASE K!Dial
  BY <1>5, KeeperSizes DEF K!Dial, K!ircVars, K!servVars, K!sockVars, K!keeperVars, KeeperInv,
     KeeperType, LinkTypes, K!IRCs, Dialing, Seats
<1>6. CASE K!SleepOver
  BY <1>6, KeeperSizes DEF K!SleepOver, K!ircVars, K!servVars, K!sockVars, K!keeperVars,
     KeeperInv, KeeperType, LinkTypes, K!IRCs, Dialing, Seats
<1>7. CASE K!SetIRC
  BY <1>7, KeeperSizes DEF K!SetIRC, K!ircVars, K!servVars, K!sockVars, K!keeperVars, KeeperInv,
     KeeperType, LinkTypes, K!IRCs, Dialing, Seats
<1>8. CASE K!PumpIRCEnds
  BY <1>8, KeeperSizes DEF K!PumpIRCEnds, K!ircVars, K!servVars, K!sockVars, K!keeperVars,
     KeeperInv, KeeperType, LinkTypes, K!IRCs, Dialing, Seats
<1>9. CASE K!UnsetIRC
  BY <1>9, KeeperSizes DEF K!UnsetIRC, K!ircVars, K!servVars, K!sockVars, K!keeperVars,
     KeeperInv, KeeperType, LinkTypes, K!IRCs, Dialing, Seats
<1>10. CASE K!DropSession
  BY <1>10, KeeperSizes DEF K!DropSession, K!ircVars, K!servVars, K!sockVars, K!keeperVars,
     KeeperInv, KeeperType, LinkTypes, K!IRCs, Dialing, Seats
<1>11. CASE K!Cancel
  BY <1>11, KeeperSizes DEF K!Cancel, K!ircVars, K!servVars, K!sockVars, K!keeperVars, KeeperInv,
     KeeperType, LinkTypes, K!IRCs, Dialing, Seats
<1>12. CASE K!Goodbye
  BY <1>12, KeeperSizes DEF K!Goodbye, K!ircVars, K!servVars, K!sockVars, K!keeperVars,
     KeeperInv, KeeperType, LinkTypes, K!IRCs, Dialing, Seats
<1>13. CASE K!CloseConns
  BY <1>13, KeeperSizes DEF K!CloseConns, K!LinksClosed, K!Closed, K!ircVars, K!servVars,
     K!sockVars, K!keeperVars, KeeperInv, KeeperType, LinkTypes, K!IRCs, Dialing, Seats
<1>14. CASE K!LinkFails
  BY <1>14, KeeperSizes DEF K!LinkFails, K!ircVars, K!servVars, K!sockVars, K!keeperVars,
     KeeperInv, KeeperType, LinkTypes, K!IRCs, Dialing, Seats
<1> QED BY <1>1, <1>2, <1>3, <1>4, <1>5, <1>6, <1>7, <1>8, <1>9, <1>10, <1>11, <1>12, <1>13,
   <1>14 DEF K!Next

(* Only the core that is served is written to.                             *)
OnlyServed ==
  /\ \A p \in K!Cores : p # served => inbox'[p] = inbox[p]
  /\ UNCHANGED <<backlog, served, made, seen, outbox>>

LEMMA WaitingOnWrite ==
  ASSUME KeeperInv, corePc \in Serving \/ corePc = "flush", OnlyServed, corePc' # "attach"
  PROVE  Waiting'
<1>1. /\ served \in K!Cores /\ served <= made /\ made \in Nat
      /\ ~Waits(served)
  BY Coming DEF KeeperInv, KeeperType, CoreTypes, Waiting, Waits, Seats, Serving
<1>2. \A p \in K!Cores : Waits(p)' => Waits(p)
  BY DEF Waits, OnlyServed
<1>3. ASSUME NEW p \in K!Cores, p > made' \/ Waits(p)' PROVE seen'[p] = <<>> /\ inbox'[p] = <<>>
  <2>1. p # served
    BY <1>1, <1>2, <1>3, KeeperSizes DEF K!Cores, OnlyServed
  <2> QED BY <1>1, <1>2, <1>3, <2>1 DEF KeeperInv, Waiting, OnlyServed
<1> QED BY <1>2, <1>3 DEF KeeperInv, Waiting, OnlyServed

(* Every step: a core that waits heard nothing and has only registered.    *)
LEMMA WaitingStep ==
  ASSUME KeeperInv, K!Next
  PROVE  Waiting'
<1>1. CASE UNCHANGED <<backlog, served, corePc, made, seen, inbox, outbox>>
  BY <1>1 DEF KeeperInv, Waiting, Waits
<1>2. CASE K!Dial \/ K!SleepOver \/ K!SetIRC \/ K!ReadIRC \/ K!Probe \/ K!PumpIRCEnds
  BY <1>1, <1>2 DEF K!Dial, K!SleepOver, K!SetIRC, K!ReadIRC, K!Probe, K!PumpIRCEnds, K!ircVars,
     K!servVars, K!sockVars, K!keeperVars
<1>3. CASE K!UnsetIRC \/ K!DropSession \/ K!Cancel \/ K!Goodbye \/ K!CloseConns \/ K!LinkFails
  BY <1>1, <1>3 DEF K!UnsetIRC, K!DropSession, K!Cancel, K!Goodbye, K!CloseConns, K!LinkFails,
     K!ircVars, K!servVars, K!sockVars, K!keeperVars
<1>4. CASE K!ToCore
  <2>1. core = served /\ (corePc \in Serving \/ corePc = "flush")
    BY <1>4 DEF K!ToCore, KeeperInv, Seats
  <2>2. UNCHANGED <<backlog, made, seen, outbox, corePc, served>>
    BY <1>4 DEF K!ToCore, K!servVars
  <2>3. CASE inbox' = [inbox EXCEPT ![core] = Append(@, K!In(dialed, sent))]
    <3>1. PICK x : x = Append(inbox[core], K!In(dialed, sent))
      OBVIOUS
    <3>2. OnlyServed /\ corePc' # "attach"
      BY <2>1, <2>2, <2>3, <3>1 DEF OnlyServed, KeeperInv, Seats, Serving, KeeperType, SocketTypes
    <3> QED BY <2>1, <2>2, <3>2, WaitingOnWrite
  <2> QED BY <1>1, <1>4, <2>2, <2>3 DEF K!ToCore
<1>5. CASE K!Accept
  <2>1. CASE UNCHANGED <<served, backlog>> /\ corePc' = "done"
    <3>1. UNCHANGED <<made, seen, inbox, outbox>>
      BY <1>5 DEF K!Accept
    <3> QED BY <2>1, <3>1 DEF KeeperInv, Waiting, Waits
  <2>2. CASE backlog # <<>> /\ served' = Head(backlog) /\ backlog' = Tail(backlog) /\ corePc' = "attach"
    <3>1. backlog \in Seq(Nat) /\ \A i, j \in 1..Len(backlog) : backlog[i] = backlog[j] => i = j
      BY DEF KeeperInv, KeeperType, CoreTypes, Waiting
    <3>2. PICK t, h : t = Tail(backlog) /\ h = Head(backlog)
      OBVIOUS
    <3>3. /\ h = backlog[1] /\ t \in Seq(Nat) /\ Len(backlog) \in Nat \ {0}
          /\ Len(t) = Len(backlog) - 1 /\ \A i \in 1..Len(t) : t[i] = backlog[i + 1]
      BY <2>2, <3>1, <3>2, OneLess
    <3>4. \A i \in 1..Len(t) : i + 1 \in 1..Len(backlog) /\ 1 \in 1..Len(backlog)
      BY <3>3
    <3>5. ASSUME NEW i \in 1..Len(t), NEW j \in 1..Len(t), t[i] = t[j] PROVE i = j
      <4>1. i + 1 = j + 1
        BY <3>1, <3>3, <3>4, <3>5
      <4> QED BY <4>1
    <3>6. ASSUME NEW i \in 1..Len(t) PROVE t[i] # h
      <4>1. 1 # i + 1
        OBVIOUS
      <4> QED BY <3>1, <3>3, <3>4, <4>1
    <3>7. /\ backlog' = t /\ served' = h /\ UNCHANGED <<made, seen, inbox, outbox>>
      BY <1>5, <2>2, <3>2 DEF K!Accept
    <3>8. ASSUME NEW p \in K!Cores, Waits(p)' PROVE Waits(p)
      <4>1. 1 \in 1..Len(backlog)
        BY <3>3
      <4>2. (\E i \in 1..Len(t) : t[i] = p) \/ p = backlog[1]
        BY <3>3, <3>7, <3>8 DEF Waits
      <4> QED BY <3>3, <3>4, <4>1, <4>2 DEF Waits
    <3> QED BY <3>5, <3>6, <3>7, <3>8 DEF KeeperInv, Waiting
  <2> QED BY <1>5, <2>1, <2>2 DEF K!Accept
<1>6. CASE K!AttachCore
  BY <1>6, KeeperSizes, Coming DEF K!AttachCore, K!ircVars, K!servVars, K!sockVars, K!keeperVars,
     KeeperInv, KeeperType, CoreTypes, Waiting, Waits, Seats, Serving
<1>7. CASE K!FlushToCore
  <2>1. corePc = "flush" /\ corePc' \in {"pump", "flush"} /\ UNCHANGED <<backlog, made, seen, outbox, served>>
    BY <1>7 DEF K!FlushToCore
  <2>2. CASE inbox' = [inbox EXCEPT ![served] = Append(@, Head(buffer))]
    <3>1. PICK x : x = Append(inbox[served], Head(buffer))
      OBVIOUS
    <3>2. OnlyServed /\ corePc' # "attach"
      BY <2>1, <2>2, <3>1 DEF OnlyServed, KeeperInv, KeeperType, SocketTypes
    <3> QED BY <2>1, <3>2, WaitingOnWrite
  <2>3. CASE UNCHANGED inbox
    <3>1. OnlyServed
      BY <2>1, <2>3 DEF OnlyServed
    <3>2. corePc' # "attach"
      BY <2>1
    <3> QED BY <2>1, <3>1, <3>2, WaitingOnWrite
  <2> QED BY <1>7, <2>2, <2>3 DEF K!FlushToCore
<1>8. CASE K!ReadCore
  BY <1>8, KeeperSizes, Coming DEF K!ReadCore, K!ircVars, K!servVars, K!sockVars, K!keeperVars,
     KeeperInv, KeeperType, CoreTypes, Waiting, Waits, Seats, Serving
<1>9. CASE K!ToIRC
  BY <1>9, KeeperSizes, Coming DEF K!ToIRC, K!ircVars, K!servVars, K!sockVars, K!keeperVars,
     KeeperInv, KeeperType, CoreTypes, Waiting, Waits, Seats, Serving
<1>10. CASE K!WriteIRC
  BY <1>10, KeeperSizes, Coming DEF K!WriteIRC, K!ircVars, K!servVars, K!sockVars, K!keeperVars,
     KeeperInv, KeeperType, CoreTypes, Waiting, Waits, Seats, Serving
<1>11. CASE K!PumpCoreEnds
  BY <1>11, KeeperSizes, Coming DEF K!PumpCoreEnds, K!ircVars, K!servVars, K!sockVars,
     K!keeperVars, KeeperInv, KeeperType, CoreTypes, Waiting, Waits, Seats, Serving
<1>12. CASE K!DetachCore
  BY <1>12, KeeperSizes, Coming DEF K!DetachCore, K!ircVars, K!servVars, K!sockVars,
     K!keeperVars, KeeperInv, KeeperType, CoreTypes, Waiting, Waits, Seats, Serving
<1>13. CASE K!CoreConnects
  <2>1. backlog \in Seq(Nat) /\ made \in Nat /\ served \in 0..made /\ \A i \in 1..Len(backlog) : backlog[i] \in 1..made
    BY KeeperSizes DEF KeeperInv, KeeperType, CoreTypes
  <2>2. PICK m, t : m = made + 1 /\ t = Append(backlog, made + 1)
    OBVIOUS
  <2>3. /\ Len(t) = Len(backlog) + 1 /\ Len(backlog) \in Nat /\ t[Len(t)] = m
        /\ \A i \in 1..Len(backlog) : t[i] = backlog[i]
    BY <2>1, <2>2, OneMore
  <2>4. m \in K!Cores /\ m \in Nat
    BY <1>13, <2>1, <2>2, KeeperSizes DEF K!CoreConnects, K!Cores
  <2>5. /\ backlog' = t /\ made' = m /\ outbox' = [outbox EXCEPT ![m] = <<K!Reg(m)>>]
        /\ UNCHANGED <<inbox, seen, served, corePc>>
    BY <1>13, <2>2 DEF K!CoreConnects, K!servVars
  <2>6. \A i \in 1..Len(t) : i = Len(t) \/ i \in 1..Len(backlog)
    BY <2>3
  <2>7. \A i, j \in 1..Len(t) : t[i] = t[j] => i = j
    <3>1. \A i \in 1..Len(backlog) : backlog[i] # m
      BY <2>1, <2>2
    <3>2. \A i, j \in 1..Len(backlog) : backlog[i] = backlog[j] => i = j
      BY DEF KeeperInv, Waiting
    <3> QED BY <2>3, <2>6, <3>1, <3>2
  <2>8. \A i \in 1..Len(t) : t[i] # served
    <3>1. served # m
      BY <2>1, <2>2
    <3> QED BY <2>3, <2>6, <3>1 DEF KeeperInv, Waiting
  <2>9. ASSUME NEW p \in K!Cores, Waits(p)' PROVE p = m \/ Waits(p)
    <3>1. (\E i \in 1..Len(t) : t[i] = p) \/ (p = served /\ corePc = "attach")
      BY <2>5, <2>9 DEF Waits
    <3> QED BY <2>3, <2>6, <3>1 DEF Waits
  <2>10. \A p \in K!Cores : p > m => p > made
    BY <2>1, <2>2, KeeperSizes DEF K!Cores
  <2>11. m > made
    BY <2>1, <2>2
  <2>12. /\ \A p \in K!Cores : p > made \/ Waits(p) => seen[p] = <<>> /\ inbox[p] = <<>>
         /\ \A p \in K!Cores : Waits(p) => outbox[p] = <<K!Reg(p)>>
    BY DEF KeeperInv, Waiting
  <2>13. \A p \in K!Cores : p > made' \/ Waits(p)' => seen'[p] = <<>> /\ inbox'[p] = <<>>
    BY <2>4, <2>5, <2>9, <2>10, <2>11, <2>12
  <2>14. \A p \in K!Cores : Waits(p)' => outbox'[p] = <<K!Reg(p)>>
    BY <2>4, <2>5, <2>9, <2>12 DEF KeeperInv, KeeperType, SocketTypes
  <2> QED BY <2>5, <2>7, <2>8, <2>13, <2>14 DEF Waiting
<1>14. ASSUME NEW p \in K!Cores, K!CoreReads(p) PROVE Waiting'
  <2>1. /\ inbox[p] # <<>> /\ UNCHANGED <<backlog, served, corePc, made, outbox>>
        /\ seen' = [seen EXCEPT ![p] = Append(@, Head(inbox[p]))]
        /\ inbox' = [inbox EXCEPT ![p] = Tail(@)]
    BY <1>14 DEF K!CoreReads, K!servVars
  <2>2. ~Waits(p) /\ ~(p > made)
    BY <2>1 DEF KeeperInv, Waiting
  <2>3. /\ \A d \in K!Cores : Waits(d)' <=> Waits(d)
        /\ \A d \in K!Cores : d # p => seen'[d] = seen[d] /\ inbox'[d] = inbox[d]
    BY <2>1 DEF KeeperInv, KeeperType, SocketTypes, CoreTypes, Waits
  <2> QED BY <2>1, <2>2, <2>3 DEF KeeperInv, Waiting
<1>15. ASSUME NEW p \in K!Cores, K!CoreSpeaks(p) PROVE Waiting'
  <2>1. seen[p] # <<>> /\ UNCHANGED <<backlog, served, corePc, made, seen, inbox>> /\ outbox' = [outbox EXCEPT ![p] = Append(@, K!Say(p))]
    BY <1>15 DEF K!CoreSpeaks, K!servVars
  <2>2. ~Waits(p) /\ outbox \in [K!Cores -> Seq(Outbound)]
    BY <2>1 DEF KeeperInv, Waiting, KeeperType, SocketTypes
  <2>3. \A d \in K!Cores : Waits(d)' => Waits(d) /\ outbox'[d] = outbox[d]
    BY <2>1, <2>2 DEF Waits
  <2> QED BY <2>1, <2>3 DEF KeeperInv, Waiting, Waits
<1>16. ASSUME NEW p \in K!Cores, K!CoreGoes(p) PROVE Waiting'
  BY <1>16, KeeperSizes, Coming DEF K!CoreGoes, SocketTypes, K!ircVars, K!servVars, K!sockVars,
     K!keeperVars, KeeperInv, KeeperType, CoreTypes, Waiting, Waits, Seats, Serving
<1> QED BY <1>1, <1>2, <1>3, <1>4, <1>5, <1>6, <1>7, <1>8, <1>9, <1>10, <1>11, <1>12, <1>13,
   <1>14, <1>15, <1>16 DEF K!Next

(* What is held back stays within its limit and is gone once IRC is there. *)
LEMMA WithinStep ==
  ASSUME KeeperInv, K!Next
  PROVE  WithinLimits'
<1>1. CASE UNCHANGED <<outBuf, irc, outDropped>>
  BY <1>1 DEF KeeperInv, Backed, WithinLimits
<1>2. CASE K!Dial \/ K!SleepOver \/ K!ReadIRC \/ K!ToCore \/ K!Probe \/ K!PumpIRCEnds
  BY <1>1, <1>2 DEF K!Dial, K!SleepOver, K!ReadIRC, K!ToCore, K!Probe, K!PumpIRCEnds, K!ircVars,
     K!servVars, K!sockVars, K!keeperVars
<1>3. CASE K!DropSession \/ K!Accept \/ K!AttachCore \/ K!FlushToCore \/ K!ReadCore \/ K!WriteIRC
  BY <1>1, <1>3 DEF K!DropSession, K!Accept, K!AttachCore, K!FlushToCore, K!ReadCore, K!WriteIRC,
     K!ircVars, K!servVars, K!sockVars, K!keeperVars
<1>4. CASE K!PumpCoreEnds \/ K!Cancel \/ K!Goodbye \/ K!CloseConns \/ K!CoreConnects \/ K!LinkFails
  BY <1>1, <1>4 DEF K!PumpCoreEnds, K!Cancel, K!Goodbye, K!CloseConns, K!CoreConnects,
     K!LinkFails, K!ircVars, K!servVars, K!sockVars, K!keeperVars
<1>5. ASSUME NEW p \in K!Cores, K!CoreReads(p) \/ K!CoreSpeaks(p) \/ K!CoreGoes(p) PROVE WithinLimits'
  BY <1>1, <1>5 DEF K!CoreReads, K!CoreSpeaks, K!CoreGoes, K!ircVars, K!servVars, K!sockVars,
     K!keeperVars
<1>6. CASE K!SetIRC
  <2>1. CASE closed
    BY <1>6, <1>1, <2>1 DEF K!SetIRC
  <2>2. CASE ~closed
    <3>1. outBuf' = <<>> /\ ~outDropped'
      BY <1>6, <2>2 DEF K!SetIRC
    <3> QED BY <3>1, KeeperSizes DEF WithinLimits
  <2> QED BY <2>1, <2>2
<1>7. CASE K!UnsetIRC
  <2>1. outBuf' = <<>> /\ ~outDropped'
    BY <1>7 DEF K!UnsetIRC
  <2> QED BY <2>1, KeeperSizes DEF WithinLimits
<1>8. CASE K!ToIRC
  <2>1. CASE irc = 0
    <3>1. outBuf \in Seq(Outbound) /\ Len(outBuf) <= MaxOutBuffer
      BY DEF KeeperInv, KeeperType, QueueTypes, Backed, WithinLimits
    <3>2. PICK x, t : x = toIrc[2] /\ t = Append(outBuf, x)
      OBVIOUS
    <3>3. x \in Outbound
      BY <1>8, <3>2 DEF K!ToIRC, KeeperInv, Seats
    <3>4. Len(t) = Len(outBuf) + 1 /\ Len(outBuf) \in Nat
      BY <3>1, <3>2, <3>3, OneMore
    <3>5. outBuf' \in {outBuf, t} /\ (outBuf' = t => ~(Len(outBuf) >= MaxOutBuffer)) /\ irc' = irc
      BY <1>8, <2>1, <3>2 DEF K!ToIRC, K!Held
    <3>6. Len(outBuf') <= MaxOutBuffer
      BY <3>1, <3>4, <3>5, KeeperSizes
    <3> QED BY <2>1, <3>5, <3>6 DEF WithinLimits
  <2>2. CASE irc # 0
    BY <1>8, <1>1, <2>2 DEF K!ToIRC
  <2> QED BY <2>1, <2>2
<1>9. CASE K!DetachCore
  <2>1. irc' = irc
    BY <1>9 DEF K!DetachCore
  <2>2. CASE outBuf' = <<>> /\ ~outDropped'
    BY <2>2, KeeperSizes DEF WithinLimits
  <2> QED BY <1>1, <1>9, <2>1, <2>2 DEF K!DetachCore
<1> QED BY <1>1, <1>2, <1>3, <1>4, <1>5, <1>6, <1>7, <1>8, <1>9 DEF K!Next

(* Only the outbox of the core that is served counts, and what was read.   *)
LEMMA HeldSizes ==
  ASSUME KeeperInv
  PROVE  /\ Carried \in {0, 1} /\ Unread \in Nat /\ Left \in Nat
         /\ \A p \in K!Cores : lines[p] \in Nat /\ Len(outbox[p]) \in Nat
<1>1. Carried \in {0, 1}
  BY DEF Carried
<1>2. \A p \in K!Cores : Len(outbox[p]) \in Nat
  BY LenProperties DEF KeeperInv, KeeperType, SocketTypes
<1>3. Unread \in Nat
  BY <1>2, Coming DEF Unread, KeeperInv
<1>4. \A p \in K!Cores : lines[p] \in Nat
  BY KeeperSizes DEF KeeperInv, KeeperType, CoreTypes
<1> QED BY <1>1, <1>2, <1>3, <1>4 DEF Left

(* Nothing is added to what it said.                                       *)
LEMMA SendingKept ==
  ASSUME KeeperInv, UNCHANGED <<outbox, lines>>, served' \in {0, served},
         corePc \in {"read", "write"} \/ corePc' \notin {"read", "write"}
  PROVE  Sending'
<1>1. Carried' \in {0, 1} /\ Carried' <= Carried
  BY DEF Carried
<1>2. ASSUME served' # 0 PROVE Left' <= 1 + lines'[served']
  <2>1. served' = served /\ served \in K!Cores
    BY <1>2, Coming DEF KeeperInv
  <2>2. Unread' = Unread
    BY <2>1 DEF Unread
  <2>3. Left <= 1 + lines[served]
    BY <1>2, <2>1 DEF KeeperInv, Backed, Sending
  <2> QED BY <1>1, <2>1, <2>2, <2>3, HeldSizes DEF Left
<1> QED BY <1>2 DEF KeeperInv, Backed, Sending

(* No core is owed more than it said.                                      *)
LEMMA SendingStep ==
  ASSUME KeeperInv, K!Next
  PROVE  Sending'
<1>1. CASE UNCHANGED <<outbox, lines, served, corePc>>
  BY <1>1 DEF KeeperInv, Backed, Sending, Left, Carried, Unread
<1>2. CASE K!Dial \/ K!SleepOver \/ K!SetIRC \/ K!ReadIRC \/ K!ToCore \/ K!Probe
  BY <1>1, <1>2 DEF K!Dial, K!SleepOver, K!SetIRC, K!ReadIRC, K!ToCore, K!Probe, K!ircVars,
     K!servVars, K!sockVars, K!keeperVars
<1>3. CASE K!PumpIRCEnds \/ K!UnsetIRC \/ K!DropSession \/ K!Cancel \/ K!Goodbye \/ K!CloseConns
  BY <1>1, <1>3 DEF K!PumpIRCEnds, K!UnsetIRC, K!DropSession, K!Cancel, K!Goodbye, K!CloseConns,
     K!ircVars, K!servVars, K!sockVars, K!keeperVars
<1>4. CASE K!LinkFails
  BY <1>1, <1>4 DEF K!LinkFails, K!ircVars, K!servVars, K!sockVars, K!keeperVars
<1>5. ASSUME NEW p \in K!Cores, K!CoreReads(p) \/ K!CoreGoes(p) PROVE Sending'
  BY <1>1, <1>5 DEF K!CoreReads, K!CoreGoes, K!ircVars, K!servVars, K!sockVars, K!keeperVars
<1>6. CASE K!Accept
  <2>1. CASE UNCHANGED <<served, backlog>> /\ corePc' = "done"
    BY <1>6, <2>1, SendingKept DEF K!Accept
  <2>2. CASE backlog # <<>> /\ served' = Head(backlog) /\ backlog' = Tail(backlog) /\ corePc' = "attach"
    <3>1. served' = backlog[1] /\ 1 \in 1..Len(backlog)
      BY <2>2, OneLess DEF KeeperInv, KeeperType, CoreTypes
    <3>2. served' \in K!Cores /\ Waits(served')
      BY <3>1, Coming DEF KeeperInv, Waits
    <3>3. Left' = Len(outbox[served']) /\ UNCHANGED <<outbox, lines>>
      <4>1. Len(outbox[served']) \in Nat
        BY <3>2, HeldSizes
      <4>2. served' # 0 /\ UNCHANGED <<outbox, lines>>
        BY <1>6, <3>2, KeeperSizes DEF K!Accept, K!Cores
      <4> QED BY <2>2, <4>1, <4>2 DEF Left, Carried, Unread
    <3> QED BY <3>2, <3>3 DEF KeeperInv, Backed, Sending
  <2> QED BY <1>6, <2>1, <2>2 DEF K!Accept
<1>7. CASE K!AttachCore
  BY <1>7, SendingKept DEF K!AttachCore, K!ircVars, K!sockVars
<1>8. CASE K!FlushToCore
  BY <1>8, SendingKept DEF K!FlushToCore, K!ircVars, K!sockVars
<1>9. CASE K!ReadCore
  <2>1. served \in K!Cores /\ served # 0 /\ outbox \in [K!Cores -> Seq(Outbound)] /\ lines \in [K!Cores -> Nat]
    BY <1>9, Coming, KeeperSizes DEF K!ReadCore, KeeperInv, KeeperType, CoreTypes, SocketTypes
  <2>2. PICK t : t = Tail(outbox[served])
    OBVIOUS
  <2>3. Len(t) = Len(outbox[served]) - 1 /\ Len(outbox[served]) \in Nat \ {0}
    BY <1>9, <2>1, <2>2, OneLess DEF K!ReadCore
  <2>4. outbox' = [outbox EXCEPT ![served] = t] /\ UNCHANGED <<lines, served>> /\ corePc = "pump" /\ corePc' = "read"
    BY <1>9, <2>2 DEF K!ReadCore
  <2>5. Left' = Len(outbox[served]) /\ Left = Len(outbox[served])
    BY <2>1, <2>3, <2>4 DEF Left, Carried, Unread
  <2>6. \A p \in K!Cores : Len(outbox'[p]) <= Len(outbox[p]) /\ Len(outbox[p]) \in Nat /\ Len(outbox'[p]) \in Nat
    BY <2>1, <2>3, <2>4, LenProperties
  <2> QED BY <2>1, <2>4, <2>5, <2>6 DEF KeeperInv, Backed, Sending
<1>10. CASE K!ToIRC
  BY <1>10, SendingKept DEF K!ToIRC, K!ircVars, K!sockVars
<1>11. CASE K!WriteIRC
  BY <1>11, SendingKept DEF K!WriteIRC, K!ircVars, K!sockVars
<1>12. CASE K!PumpCoreEnds
  BY <1>12, SendingKept DEF K!PumpCoreEnds, K!ircVars, K!sockVars
<1>13. CASE K!DetachCore
  BY <1>13, SendingKept DEF K!DetachCore, K!ircVars, K!sockVars
<1>14. CASE K!CoreConnects
  <2>1. PICK m : m = made + 1
    OBVIOUS
  <2>2. m \in K!Cores /\ m # served
    BY <1>14, <2>1, KeeperSizes DEF K!CoreConnects, K!Cores, KeeperInv, KeeperType, CoreTypes
  <2>3. outbox' = [outbox EXCEPT ![m] = <<K!Reg(m)>>] /\ UNCHANGED <<lines, served, corePc>>
    BY <1>14, <2>1 DEF K!CoreConnects, K!servVars
  <2>4. outbox \in [K!Cores -> Seq(Outbound)] /\ lines[m] \in Nat /\ Len(<<K!Reg(m)>>) = 1
    BY <2>2, KeeperSizes DEF KeeperInv, KeeperType, SocketTypes, CoreTypes
  <2>5. \A p \in K!Cores : Len(outbox'[p]) <= 1 + lines'[p]
    BY <2>2, <2>3, <2>4 DEF KeeperInv, Backed, Sending
  <2>6. Left' = Left
    BY <2>2, <2>3, <2>4, Coming DEF Left, Carried, Unread, KeeperInv
  <2> QED BY <2>3, <2>5, <2>6 DEF KeeperInv, Backed, Sending
<1>15. ASSUME NEW p \in K!Cores, K!CoreSpeaks(p) PROVE Sending'
  <2>1. outbox \in [K!Cores -> Seq(Outbound)] /\ lines \in [K!Cores -> Nat]
    BY KeeperSizes DEF KeeperInv, KeeperType, CoreTypes, SocketTypes
  <2>2. PICK t, x : t = Append(outbox[p], x) /\ x = K!Say(p)
    OBVIOUS
  <2>3. Len(t) = Len(outbox[p]) + 1
    <3>1. x \in Outbound
      BY <2>2 DEF K!Say, Outbound, K!Cores
    <3> QED BY <2>1, <2>2, <3>1, OneMore
  <2>4. /\ outbox' = [outbox EXCEPT ![p] = t] /\ lines' = [lines EXCEPT ![p] = @ + 1]
        /\ UNCHANGED <<served, corePc>>
    BY <1>15, <2>2 DEF K!CoreSpeaks, K!servVars
  <2>5. \A d \in K!Cores : Len(outbox[d]) \in Nat /\ lines[d] \in Nat
    BY <2>1, LenProperties
  <2>6. /\ \A d \in K!Cores : Len(outbox'[d]) = Len(outbox[d]) + (IF d = p THEN 1 ELSE 0)
        /\ \A d \in K!Cores : lines'[d] = lines[d] + (IF d = p THEN 1 ELSE 0)
    BY <2>1, <2>3, <2>4, <2>5
  <2>7. \A d \in K!Cores : Len(outbox'[d]) <= 1 + lines'[d]
    <3>1. \A d \in K!Cores : Len(outbox[d]) <= 1 + lines[d]
      BY DEF KeeperInv, Backed, Sending
    <3>2. ASSUME NEW d \in K!Cores PROVE Len(outbox'[d]) <= 1 + lines'[d]
      <4>1. PICK a, b, e : a = Len(outbox[d]) /\ b = lines[d] /\ e = IF d = p THEN 1 ELSE 0
        OBVIOUS
      <4>2. a \in Nat /\ b \in Nat /\ e \in {0, 1} /\ a <= 1 + b
        BY <2>5, <3>1, <4>1
      <4>3. Len(outbox'[d]) = a + e /\ lines'[d] = b + e
        BY <2>6, <4>1
      <4> QED BY <4>2, <4>3
    <3> QED BY <3>2
  <2>8. ASSUME served # 0 PROVE Left' <= 1 + lines'[served]
    <3>1. served \in K!Cores /\ Left <= 1 + lines[served]
      BY <2>8, Coming DEF KeeperInv, Backed, Sending
    <3>2. Unread' = Unread + (IF served = p THEN 1 ELSE 0) /\ Carried' = Carried
      BY <2>4, <2>6, <2>8, <3>1 DEF Unread, Carried
    <3>3. lines'[served] = lines[served] + (IF served = p THEN 1 ELSE 0)
      BY <2>6, <3>1
    <3> QED BY <2>5, <3>1, <3>2, <3>3, HeldSizes DEF Left
  <2> QED BY <2>4, <2>7, <2>8 DEF Sending
<1> QED BY <1>1, <1>2, <1>3, <1>4, <1>5, <1>6, <1>7, <1>8, <1>9, <1>10, <1>11, <1>12, <1>13,
   <1>14, <1>15 DEF K!Next

(* What a core was sent is an unbroken stretch.                            *)
LEMMA HeardOf ==
  ASSUME KeeperInv, NEW p \in K!Cores
  PROVE  /\ seen[p] \in Seq(Inbound) /\ inbox[p] \in Seq(Inbound) /\ K!Got(p) \in Seq(Inbound)
         /\ Stretch(K!Got(p))
<1>1. seen[p] \in Seq(Inbound) /\ inbox[p] \in Seq(Inbound)
  BY DEF KeeperInv, KeeperType, SocketTypes
<1> QED BY <1>1, ConcatProperties DEF K!Got, KeeperInv, Relayed, Stretches

(* What each step adds to what the cores were sent.                        *)
SameHeard(p) == K!Got(p)' = K!Got(p)

(* What a core reads it was sent already.                                  *)
LEMMA ReadsSame ==
  ASSUME KeeperInv, NEW p \in K!Cores, K!CoreReads(p), NEW d \in K!Cores
  PROVE  SameHeard(d)
<1>1. PICK x, t : x = Append(seen[p], Head(inbox[p])) /\ t = Tail(inbox[p])
  OBVIOUS
<1>2. x \o t = K!Got(p)
  BY <1>1, HeardOf, Reread DEF K!CoreReads, K!Got
<1>3. seen' = [seen EXCEPT ![p] = x] /\ inbox' = [inbox EXCEPT ![p] = t]
  BY <1>1 DEF K!CoreReads
<1>4. seen \in [K!Cores -> Seq(Inbound)] /\ inbox \in [K!Cores -> Seq(Inbound)]
  BY DEF KeeperInv, KeeperType, SocketTypes
<1>5. CASE d = p
  <2>1. seen'[d] = x /\ inbox'[d] = t
    BY <1>3, <1>4, <1>5
  <2> QED BY <1>2, <1>5, <2>1 DEF SameHeard, K!Got
<1>6. CASE d # p
  <2>1. seen'[d] = seen[d] /\ inbox'[d] = inbox[d]
    BY <1>3, <1>4, <1>6
  <2> QED BY <2>1 DEF SameHeard, K!Got
<1> QED BY <1>5, <1>6

(* A core that goes has read a part of it.                                 *)
LEMMA GoesLess ==
  ASSUME KeeperInv, NEW p \in K!Cores, K!CoreGoes(p), NEW d \in K!Cores
  PROVE  Stretch(K!Got(d))' /\ (d # p => SameHeard(d))
<1>1. seen' = seen /\ inbox' = [inbox EXCEPT ![p] = <<>>] /\ inbox \in [K!Cores -> Seq(Inbound)]
  BY DEF K!CoreGoes, KeeperInv, KeeperType, SocketTypes
<1>2. CASE d = p
  <2>1. seen'[d] = seen[d] /\ inbox'[d] = <<>>
    BY <1>1, <1>2
  <2>2. Stretch(seen[d] \o <<>>)
    BY HeardOf, SentLess DEF K!Got
  <2>3. K!Got(d)' = seen[d] \o <<>>
    BY <2>1 DEF K!Got
  <2> QED BY <1>2, <2>2, <2>3 DEF Stretch, K!Got
<1>3. CASE d # p
  <2>1. seen'[d] = seen[d] /\ inbox'[d] = inbox[d]
    BY <1>1, <1>3
  <2>2. SameHeard(d)
    BY <2>1 DEF SameHeard, K!Got
  <2> QED BY <2>2, HeardOf DEF SameHeard, Stretch
<1> QED BY <1>2, <1>3

(* A token is written to a core.                                           *)
SentTo(p, x) == inbox'[p] = Append(inbox[p], x) /\ seen'[p] = seen[p]

(* What it is sent goes on.                                                *)
LEMMA SentToOn ==
  ASSUME KeeperInv, NEW p \in K!Cores, NEW x \in Inbound, SentTo(p, x),
         K!Got(p) # <<>> => Joined(K!Got(p)[Len(K!Got(p))], x)
  PROVE  /\ Stretch(K!Got(p))' /\ K!Got(p)' # <<>> /\ K!Got(p)'[Len(K!Got(p)')] = x
<1>1. PICK g, h : g = K!Got(p) /\ h = K!Got(p)'
  OBVIOUS
<1>2. h = Append(g, x) /\ g \in Seq(Inbound) /\ Stretch(g)
  <2>1. g \in Seq(Inbound) /\ Stretch(g) /\ seen[p] \in Seq(Inbound) /\ inbox[p] \in Seq(Inbound)
    BY <1>1, HeardOf
  <2>2. seen[p] \o Append(inbox[p], x) = Append(seen[p] \o inbox[p], x)
    BY <2>1, SentMore
  <2>3. h = seen[p] \o Append(inbox[p], x)
    BY <1>1 DEF SentTo, K!Got
  <2> QED BY <1>1, <2>1, <2>2, <2>3 DEF K!Got
<1>3. Stretch(h)
  BY <1>1, <1>2, StretchMore
<1>4. h # <<>> /\ h[Len(h)] = x
  BY <1>2, OneMore
<1> QED BY <1>1, <1>3, <1>4 DEF Stretch

(* toCore: the core is let go, or hears what comes next.                   *)
LEMMA ToCoreSent ==
  ASSUME KeeperInv, K!ToCore
  PROVE  \/ core' = 0 /\ K!Broken(core) /\ UNCHANGED <<seen, inbox>>
         \/ /\ UNCHANGED <<core, buffer>>
            /\ Stretch(K!Got(core))' /\ EndsAt(K!Got(core), sent)' /\ core \in K!Cores
            /\ \A d \in K!Cores : d # core => SameHeard(d)
<1>1. core \in K!Cores /\ sent \in Nat /\ dialed \in Nat /\ sent # 0 /\ mu = "toCore" /\ core # 0
  BY Coming, KeeperSizes DEF KeeperInv, Seats, K!ToCore, KeeperType, LinkTypes
<1>2. CASE ~K!Broken(core)
  <2>1. PICK x : x = K!In(dialed, sent)
    OBVIOUS
  <2>2. x \in Inbound
    BY <1>1, <2>1 DEF K!In, Inbound
  <2>3. /\ inbox' = [inbox EXCEPT ![core] = Append(@, x)] /\ UNCHANGED <<seen, core, buffer, sent, dialed>>
        /\ inbox \in [K!Cores -> Seq(Inbound)]
    BY <1>2, <2>1 DEF K!ToCore, K!ircVars, KeeperInv, KeeperType, SocketTypes
  <2>4. SentTo(core, x)
    BY <1>1, <2>3 DEF SentTo
  <2>5. EndsAt(K!Got(core), sent - 1)
    BY <1>1, <1>2 DEF KeeperInv, Relayed, Attached
  <2>6. K!Got(core) # <<>> => Joined(K!Got(core)[Len(K!Got(core))], x)
    BY <1>1, <2>1, <2>5 DEF EndsAt, Joined, K!In
  <2>7. Stretch(K!Got(core))' /\ K!Got(core)' # <<>> /\ K!Got(core)'[Len(K!Got(core)')] = x
    <3>1. PICK p : p = core /\ p \in K!Cores
      BY <1>1
    <3>2. Stretch(K!Got(p))' /\ K!Got(p)' # <<>> /\ K!Got(p)'[Len(K!Got(p)')] = x
      BY <2>2, <2>4, <2>6, <3>1, SentToOn
    <3> QED BY <2>3, <3>1, <3>2 DEF K!Got, Stretch
  <2>8. \A d \in K!Cores : d # core => SameHeard(d)
    BY <2>3 DEF SameHeard, K!Got
  <2>9. EndsAt(K!Got(core), sent)'
    BY <2>1, <2>3, <2>7 DEF EndsAt, K!In
  <2> QED BY <1>1, <2>3, <2>7, <2>8, <2>9
<1>3. CASE K!Broken(core)
  BY <1>3 DEF K!ToCore
<1> QED BY <1>2, <1>3

(* attachCore's write of the buffer: lost with the core, or what comes     *)
(* next.                                                                   *)
LEMMA FlushSent ==
  ASSUME KeeperInv, K!FlushToCore
  PROVE  /\ served \in K!Cores /\ core = served /\ buffer # <<>> /\ mu = "attach"
         /\ \/ K!Broken(served) /\ buffer' = <<>> /\ UNCHANGED <<seen, inbox>>
            \/ /\ ~K!Broken(served) /\ buffer' = Tail(buffer) /\ UNCHANGED seen
               /\ Stretch(K!Got(served))' /\ K!Got(served)' # <<>>
               /\ K!Got(served)'[Len(K!Got(served)')] = buffer[1]
               /\ \A d \in K!Cores : d # served => SameHeard(d)
<1>1. served \in K!Cores /\ core = served /\ buffer # <<>> /\ mu = "attach" /\ buffer \in Seq(Inbound)
  BY Coming DEF KeeperInv, Seats, K!FlushToCore, KeeperType, QueueTypes
<1>2. CASE ~K!Broken(served) /\ inbox' = [inbox EXCEPT ![served] = Append(@, Head(buffer))] /\ buffer' = Tail(buffer)
  <2>1. PICK x, p : x = Head(buffer) /\ p = served
    OBVIOUS
  <2>2. x \in Inbound /\ x = buffer[1] /\ p \in K!Cores
    BY <1>1, <2>1, OneLess
  <2>3. /\ inbox' = [inbox EXCEPT ![p] = Append(@, x)] /\ UNCHANGED <<seen, served>>
        /\ inbox \in [K!Cores -> Seq(Inbound)]
    BY <1>2, <2>1 DEF K!FlushToCore, KeeperInv, KeeperType, SocketTypes
  <2>4. SentTo(p, x)
    BY <2>2, <2>3 DEF SentTo
  <2>5. K!Got(p) # <<>> => Joined(K!Got(p)[Len(K!Got(p))], x)
    BY <1>1, <1>2, <2>1, <2>2 DEF KeeperInv, Relayed, Attached
  <2>6. Stretch(K!Got(p))' /\ K!Got(p)' # <<>> /\ K!Got(p)'[Len(K!Got(p)')] = x
    BY <2>2, <2>4, <2>5, SentToOn
  <2>7. \A d \in K!Cores : d # served => SameHeard(d)
    BY <2>1, <2>3 DEF SameHeard, K!Got
  <2>8. /\ Stretch(K!Got(served))' /\ K!Got(served)' # <<>>
        /\ K!Got(served)'[Len(K!Got(served)')] = buffer[1]
    BY <2>1, <2>2, <2>3, <2>6 DEF K!Got, Stretch
  <2> QED BY <1>1, <1>2, <2>3, <2>7, <2>8
<1>3. CASE K!Broken(served) /\ buffer' = <<>> /\ UNCHANGED inbox
  BY <1>1, <1>3 DEF K!FlushToCore
<1> QED BY <1>2, <1>3 DEF K!FlushToCore

(* Every step: no core is sent a gap, or anything twice;                   *)
LEMMA StretchesStep ==
  ASSUME KeeperInv, K!Next
  PROVE  Stretches'
<1>1. CASE UNCHANGED <<seen, inbox>>
  BY <1>1 DEF KeeperInv, Relayed, Stretches, Stretch, K!Got
<1>2. CASE K!Dial \/ K!SleepOver \/ K!SetIRC \/ K!ReadIRC \/ K!Probe \/ K!PumpIRCEnds
  BY <1>1, <1>2 DEF K!Dial, K!SleepOver, K!SetIRC, K!ReadIRC, K!Probe, K!PumpIRCEnds, K!ircVars,
     K!servVars, K!sockVars, K!keeperVars
<1>3. CASE K!UnsetIRC \/ K!DropSession \/ K!Accept \/ K!AttachCore \/ K!ReadCore \/ K!ToIRC
  BY <1>1, <1>3 DEF K!UnsetIRC, K!DropSession, K!Accept, K!AttachCore, K!ReadCore, K!ToIRC,
     K!ircVars, K!servVars, K!sockVars, K!keeperVars
<1>4. CASE K!WriteIRC \/ K!PumpCoreEnds \/ K!DetachCore \/ K!Cancel \/ K!Goodbye \/ K!CloseConns
  BY <1>1, <1>4 DEF K!WriteIRC, K!PumpCoreEnds, K!DetachCore, K!Cancel, K!Goodbye, K!CloseConns,
     K!ircVars, K!servVars, K!sockVars, K!keeperVars
<1>5. CASE K!CoreConnects \/ K!LinkFails
  BY <1>1, <1>5 DEF K!CoreConnects, K!LinkFails, K!ircVars, K!servVars, K!sockVars, K!keeperVars
<1>6. ASSUME NEW p \in K!Cores, K!CoreSpeaks(p) PROVE Stretches'
  BY <1>1, <1>6 DEF K!CoreSpeaks, K!ircVars, K!servVars, K!sockVars, K!keeperVars
<1>7. CASE K!ToCore
  <2>1. CASE UNCHANGED <<seen, inbox>>
    BY <1>1, <2>1
  <2>2. CASE /\ Stretch(K!Got(core))' /\ core \in K!Cores /\ core' = core
             /\ \A d \in K!Cores : d # core => SameHeard(d)
    <3>1. \A d \in K!Cores : d # core => Stretch(K!Got(d))'
      BY <2>2, HeardOf DEF SameHeard, Stretch
    <3> QED BY <2>2, <3>1 DEF Stretches, Stretch, K!Got
  <2> QED BY <1>7, <2>1, <2>2, ToCoreSent
<1>8. CASE K!FlushToCore
  <2>1. CASE UNCHANGED <<seen, inbox>>
    BY <1>1, <2>1
  <2>2. CASE /\ Stretch(K!Got(served))' /\ served' = served
             /\ \A d \in K!Cores : d # served => SameHeard(d)
    <3>1. \A d \in K!Cores : d # served => Stretch(K!Got(d))'
      BY <2>2, HeardOf DEF SameHeard, Stretch
    <3> QED BY <2>2, <3>1 DEF Stretches, Stretch, K!Got
  <2>3. served' = served
    BY <1>8 DEF K!FlushToCore
  <2> QED BY <1>8, <2>1, <2>2, <2>3, FlushSent
<1>9. ASSUME NEW p \in K!Cores, K!CoreReads(p) PROVE Stretches'
  <2>1. \A d \in K!Cores : SameHeard(d)
    BY <1>9, ReadsSame
  <2>2. \A d \in K!Cores : Stretch(K!Got(d))'
    BY <2>1, HeardOf DEF SameHeard, Stretch
  <2> QED BY <2>2 DEF Stretches, Stretch, K!Got
<1>10. ASSUME NEW p \in K!Cores, K!CoreGoes(p) PROVE Stretches'
  <2>1. \A d \in K!Cores : Stretch(K!Got(d))'
    BY <1>10, GoesLess
  <2> QED BY <2>1 DEF Stretches, Stretch, K!Got
<1> QED BY <1>1, <1>2, <1>3, <1>4, <1>5, <1>6, <1>7, <1>8, <1>9, <1>10 DEF K!Next

(* A token that joins what is buffered.                                    *)
LEMMA UptoMore ==
  ASSUME KeeperInv, NEW n \in Nat, buffer # <<>> => Joined(buffer[Len(buffer)], K!In(dialed, n)),
         NEW b, b = K!Buffered(K!In(dialed, n))
  PROVE  Stretch(b) /\ Len(b) <= MaxBuffer /\ b[Len(b)] = K!In(dialed, n)
<1>1. PICK x, t : x = K!In(dialed, n) /\ t = Append(buffer, x)
  OBVIOUS
<1>2. x \in Inbound
  BY <1>1 DEF KeeperInv, KeeperType, LinkTypes, K!In, Inbound
<1>3. buffer \in Seq(Inbound) /\ Stretch(buffer)
  BY DEF KeeperInv, KeeperType, QueueTypes, Relayed, Upto
<1>4. t \in Seq(Inbound) /\ t # <<>> /\ t[Len(t)] = x
  BY <1>1, <1>2, <1>3, OneMore
<1>5. Stretch(t)
  BY <1>1, <1>2, <1>3, StretchMore
<1> QED BY <1>1, <1>4, <1>5, NewestOf DEF K!Buffered

(* the buffer goes up to what was read of the connection (bufferLocked);   *)
LEMMA UptoStep ==
  ASSUME KeeperInv, K!Next
  PROVE  Upto'
<1>1. CASE UNCHANGED <<buffer, sent, dialed>>
  BY <1>1 DEF KeeperInv, Relayed, Upto, EndsAt, Stretch, K!In
<1>2. CASE K!SleepOver \/ K!SetIRC \/ K!Probe \/ K!PumpIRCEnds \/ K!UnsetIRC \/ K!Accept
  BY <1>1, <1>2 DEF K!SleepOver, K!SetIRC, K!Probe, K!PumpIRCEnds, K!UnsetIRC, K!Accept,
     K!ircVars, K!servVars, K!sockVars, K!keeperVars
<1>3. CASE K!AttachCore \/ K!ReadCore \/ K!ToIRC \/ K!WriteIRC \/ K!PumpCoreEnds \/ K!DetachCore
  BY <1>1, <1>3 DEF K!AttachCore, K!ReadCore, K!ToIRC, K!WriteIRC, K!PumpCoreEnds, K!DetachCore,
     K!ircVars, K!servVars, K!sockVars, K!keeperVars
<1>4. CASE K!Cancel \/ K!Goodbye \/ K!CloseConns \/ K!CoreConnects \/ K!LinkFails
  BY <1>1, <1>4 DEF K!Cancel, K!Goodbye, K!CloseConns, K!CoreConnects, K!LinkFails, K!ircVars,
     K!servVars, K!sockVars, K!keeperVars
<1>5. ASSUME NEW p \in K!Cores, K!CoreReads(p) \/ K!CoreSpeaks(p) \/ K!CoreGoes(p) PROVE Upto'
  BY <1>1, <1>5 DEF K!CoreReads, K!CoreSpeaks, K!CoreGoes, K!ircVars, K!servVars, K!sockVars,
     K!keeperVars
<1>6. CASE K!Dial
  <2>1. buffer = <<>> /\ buffer' = buffer
    BY <1>6 DEF K!Dial, KeeperInv, Relayed, Renewed
  <2> QED BY <2>1 DEF KeeperInv, Relayed, Upto, EndsAt, Stretch
<1>7. CASE K!ReadIRC
  <2>1. sent' = sent + 1 /\ dialed' = dialed /\ sent \in Nat
    BY <1>7 DEF K!ReadIRC, KeeperInv, KeeperType, LinkTypes
  <2>2. CASE buffer' = K!Buffered(K!Token)
    <3>1. PICK n : n = sent + 1 /\ n \in Nat
      BY <2>1
    <3>2. buffer # <<>> => Joined(buffer[Len(buffer)], K!In(dialed, n))
      BY <2>1, <3>1 DEF KeeperInv, Relayed, Upto, EndsAt, Joined, K!In
    <3>3. buffer' = K!Buffered(K!In(dialed, n))
      BY <2>2, <3>1 DEF K!Token
    <3>4. Stretch(buffer') /\ Len(buffer') <= MaxBuffer /\ buffer'[Len(buffer')] = K!In(dialed, n)
      BY <3>1, <3>2, <3>3, UptoMore
    <3> QED BY <2>1, <3>1, <3>4 DEF Upto, EndsAt, K!In, Stretch
  <2>3. CASE UNCHANGED buffer /\ core # 0
    <3>1. buffer = <<>>
      BY <1>7, <2>3 DEF K!ReadIRC, KeeperInv, Seats, K!Unlocked
    <3> QED BY <2>3, <3>1 DEF KeeperInv, Relayed, Upto, EndsAt, Stretch
  <2> QED BY <1>7, <2>2, <2>3 DEF K!ReadIRC
<1>8. CASE K!ToCore
  <2>1. UNCHANGED <<sent, dialed>> /\ sent \in Nat /\ buffer = <<>>
    BY <1>8 DEF K!ToCore, K!ircVars, KeeperInv, KeeperType, LinkTypes, Seats
  <2>2. CASE buffer' = K!Buffered(K!In(dialed, sent))
    <3>1. PICK n : n = sent /\ n \in Nat
      BY <2>1
    <3>2. Stretch(buffer') /\ Len(buffer') <= MaxBuffer /\ buffer'[Len(buffer')] = K!In(dialed, n)
      BY <2>1, <2>2, <3>1, UptoMore
    <3> QED BY <2>1, <3>1, <3>2 DEF Upto, EndsAt, K!In, Stretch
  <2> QED BY <1>1, <1>8, <2>1, <2>2 DEF K!ToCore
<1>9. CASE K!DropSession
  <2>1. buffer' = <<>>
    BY <1>9 DEF K!DropSession
  <2>2. Len(<<>>) = 0
    OBVIOUS
  <2> QED BY <2>1, <2>2, KeeperSizes DEF Upto, EndsAt, Stretch
<1>10. CASE K!FlushToCore
  <2>1. buffer # <<>> /\ buffer \in Seq(Inbound) /\ UNCHANGED <<sent, dialed>>
    BY <1>10, FlushSent DEF K!FlushToCore, K!ircVars, KeeperInv, KeeperType, QueueTypes
  <2>2. CASE buffer' = <<>>
    <3>1. Len(<<>>) = 0
      OBVIOUS
    <3> QED BY <2>2, <3>1, KeeperSizes DEF Upto, EndsAt, Stretch
  <2>3. CASE buffer' = Tail(buffer)
    <3>1. PICK t : t = Tail(buffer)
      OBVIOUS
    <3>2. Stretch(buffer) /\ EndsAt(buffer, sent) /\ Len(buffer) <= MaxBuffer
      BY DEF KeeperInv, Relayed, Upto
    <3>3. Stretch(t) /\ (t # <<>> => t[Len(t)] = buffer[Len(buffer)])
      BY <2>1, <3>1, <3>2, StretchLess
    <3>4. Len(t) <= MaxBuffer
      BY <2>1, <3>1, <3>2, OneLess, KeeperSizes
    <3> QED BY <2>1, <2>3, <3>1, <3>2, <3>3, <3>4 DEF Upto, EndsAt, K!In, Stretch
  <2> QED BY <1>10, <2>2, <2>3, FlushSent
<1> QED BY <1>1, <1>2, <1>3, <1>4, <1>5, <1>6, <1>7, <1>8, <1>9, <1>10 DEF K!Next

(* and so does what the attached core was sent (toCore, attachCore).       *)
LEMMA AttachedStep ==
  ASSUME KeeperInv, K!Next
  PROVE  Attached'
<1>1. CASE UNCHANGED <<core, seen, inbox, coreOpen, cut, mu, dialed, sent, buffer>>
  BY <1>1 DEF KeeperInv, Relayed, Attached, EndsAt, K!Got, K!In, K!Broken
<1>2. CASE K!SleepOver \/ K!SetIRC \/ K!Probe \/ K!PumpIRCEnds \/ K!UnsetIRC \/ K!Accept
  BY <1>1, <1>2 DEF K!SleepOver, K!SetIRC, K!Probe, K!PumpIRCEnds, K!UnsetIRC, K!Accept,
     K!ircVars, K!servVars, K!sockVars, K!keeperVars
<1>3. CASE K!ReadCore \/ K!ToIRC \/ K!WriteIRC \/ K!PumpCoreEnds \/ K!Cancel \/ K!Goodbye
  BY <1>1, <1>3 DEF K!ReadCore, K!ToIRC, K!WriteIRC, K!PumpCoreEnds, K!Cancel, K!Goodbye,
     K!ircVars, K!servVars, K!sockVars, K!keeperVars
<1>4. CASE K!LinkFails
  BY <1>1, <1>4 DEF K!LinkFails, K!ircVars, K!servVars, K!sockVars, K!keeperVars
<1>5. ASSUME NEW p \in K!Cores, K!CoreSpeaks(p) PROVE Attached'
  BY <1>1, <1>5 DEF K!CoreSpeaks, K!ircVars, K!servVars, K!sockVars, K!keeperVars
<1>6. CASE K!Dial
  <2>1. buffer = <<>> /\ mu # "attach" /\ mu # "toCore" /\ (core # 0 => K!Broken(core) \/ K!Got(core) = <<>>)
    BY <1>6 DEF K!Dial, KeeperInv, Relayed, Renewed, Seats
  <2>2. UNCHANGED <<core, seen, inbox, coreOpen, cut, mu, buffer>>
    BY <1>6 DEF K!Dial, K!sockVars
  <2> QED BY <2>1, <2>2 DEF Attached, EndsAt, K!Broken, K!Got
<1>7. CASE K!ReadIRC
  <2>1. sent' = sent + 1 /\ dialed' = dialed /\ sent \in Nat /\ mu = "free"
    BY <1>7 DEF K!ReadIRC, KeeperInv, KeeperType, LinkTypes, K!Unlocked
  <2>2. UNCHANGED <<seen, inbox, coreOpen, cut>>
    BY <1>7 DEF K!ReadIRC, K!sockVars
  <2>3. CASE core' = 0 /\ UNCHANGED mu
    BY <2>1, <2>3 DEF Attached
  <2>4. CASE core' = core /\ mu' = "toCore" /\ ~K!Broken(core) /\ core # 0
    <3>1. EndsAt(K!Got(core), sent) /\ sent' - 1 = sent
      BY <2>1, <2>4 DEF KeeperInv, Relayed, Attached
    <3> QED BY <2>1, <2>2, <2>4, <3>1 DEF Attached, EndsAt, K!In, K!Got
  <2> QED BY <1>7, <2>3, <2>4 DEF K!ReadIRC
<1>8. CASE K!ToCore
  <2>1. mu' = "free" /\ sent' = sent
    BY <1>8 DEF K!ToCore, K!ircVars
  <2>2. CASE core' = 0
    BY <2>1, <2>2 DEF Attached
  <2>3. CASE core' = core /\ EndsAt(K!Got(core), sent)'
    BY <2>1, <2>3 DEF Attached, EndsAt, K!Got, K!In
  <2> QED BY <1>8, <2>2, <2>3, ToCoreSent
<1>9. CASE K!DropSession
  <2>1. mu' = "free" /\ core' = core /\ cut' = K!Cut(core)
    BY <1>9 DEF K!DropSession, K!Unlocked
  <2>2. ASSUME core # 0 PROVE K!Broken(core)'
    BY <2>1, <2>2, Coming DEF K!Cut, K!Broken, KeeperInv, KeeperType, CoreTypes
  <2> QED BY <2>1, <2>2 DEF Attached, K!Broken
<1>10. CASE K!AttachCore
  <2>1. served \in K!Cores /\ Waits(served) /\ served' = served /\ core' = served /\ mu' # "toCore"
    BY <1>10, Coming DEF K!AttachCore, KeeperInv, Waits, K!Unlocked
  <2>2. seen[served] = <<>> /\ inbox[served] = <<>> /\ UNCHANGED <<seen, inbox>>
    BY <1>10, <2>1 DEF K!AttachCore, KeeperInv, Waiting
  <2>3. <<>> \o <<>> = <<>>
    <3>1. <<>> \in Seq(Inbound)
      OBVIOUS
    <3> QED BY <3>1, ConcatEmptySeq
  <2>4. K!Got(core)' = <<>>
    BY <2>1, <2>2, <2>3 DEF K!Got
  <2> QED BY <2>1, <2>4 DEF Attached, EndsAt
<1>11. CASE K!FlushToCore
  <2>1. /\ core' = core /\ UNCHANGED <<sent, dialed, coreOpen, cut, served>> /\ mu' = IF buffer' = <<>> THEN "free" ELSE "attach"
    BY <1>11, FlushSent DEF K!FlushToCore, K!ircVars
  <2>2. CASE K!Broken(served)
    BY <1>11, <2>1, <2>2, FlushSent DEF Attached, K!Broken
  <2>3. CASE /\ buffer' = Tail(buffer) /\ K!Got(served)' # <<>>
             /\ K!Got(served)'[Len(K!Got(served)')] = buffer[1]
    <3>1. buffer \in Seq(Inbound) /\ Stretch(buffer) /\ EndsAt(buffer, sent) /\ buffer # <<>> /\ core = served
      BY <1>11, FlushSent DEF KeeperInv, KeeperType, QueueTypes, Relayed, Upto
    <3>2. /\ buffer' # <<>> => Joined(buffer[1], buffer'[1])
          /\ buffer' = <<>> => buffer[1] = K!In(dialed, sent)
      <4>1. PICK t : t = buffer'
        OBVIOUS
      <4>2. /\ t # <<>> => Joined(buffer[1], t[1])
            /\ t = <<>> => buffer[1] = buffer[Len(buffer)]
        BY <2>3, <3>1, <4>1, StretchLess
      <4> QED BY <3>1, <4>1, <4>2 DEF EndsAt
    <3>3. K!Got(core)' = K!Got(served)'
      BY <2>1, <3>1 DEF K!Got
    <3> QED BY <2>1, <2>3, <3>2, <3>3 DEF Attached, EndsAt, K!In
  <2> QED BY <1>11, <2>2, <2>3, FlushSent
<1>12. CASE K!DetachCore
  <2>1. core' = 0 /\ mu' = "free"
    BY <1>12, Coming DEF K!DetachCore, KeeperInv, Seats, K!Unlocked
  <2> QED BY <2>1 DEF Attached
<1>13. CASE K!CloseConns
  <2>1. mu' = "free" /\ core' = core /\ cut' = K!Cut(core)
    BY <1>13 DEF K!CloseConns, K!Unlocked
  <2>2. ASSUME core # 0 PROVE K!Broken(core)'
    BY <2>1, <2>2, Coming DEF K!Cut, K!Broken, KeeperInv, KeeperType, CoreTypes
  <2> QED BY <2>1, <2>2 DEF Attached, K!Broken
<1>14. CASE K!CoreConnects
  <2>1. UNCHANGED <<core, seen, inbox, cut, mu, dialed, sent, buffer>>
    BY <1>14 DEF K!CoreConnects, K!keeperVars, K!ircVars
  <2>2. core # 0 => (K!Broken(core)' <=> K!Broken(core))
    <3>1. core # made + 1
      BY KeeperSizes DEF KeeperInv, KeeperType, CoreTypes
    <3>2. coreOpen' = [coreOpen EXCEPT ![made + 1] = TRUE]
      BY <1>14 DEF K!CoreConnects
    <3> QED BY <2>1, <3>1, <3>2, Coming DEF K!Broken, KeeperInv, KeeperType, CoreTypes
  <2>3. mu = "attach" => core # 0
    BY Coming DEF KeeperInv, Seats
  <2> QED BY <2>1, <2>2, <2>3 DEF KeeperInv, Relayed, Attached, EndsAt, K!Got, K!In, K!Broken
<1>15. ASSUME NEW p \in K!Cores, K!CoreReads(p) PROVE Attached'
  <2>1. UNCHANGED <<core, coreOpen, cut, mu, dialed, sent, buffer>>
    BY <1>15 DEF K!CoreReads, K!keeperVars, K!ircVars
  <2>2. core # 0 => SameHeard(core)
    BY <1>15, ReadsSame, Coming DEF KeeperInv
  <2>3. mu = "attach" => core # 0
    BY Coming DEF KeeperInv, Seats
  <2>4. K!Got(core)' = seen'[core] \o inbox'[core]
    BY <2>1 DEF K!Got
  <2> QED BY <2>1, <2>2, <2>3 DEF KeeperInv, Relayed, Attached, EndsAt, SameHeard, K!In,
     K!Broken, K!Got
<1>16. ASSUME NEW p \in K!Cores, K!CoreGoes(p) PROVE Attached'
  <2>1. UNCHANGED <<core, cut, mu, dialed, sent, buffer>> /\ coreOpen' = [coreOpen EXCEPT ![p] = FALSE]
    BY <1>16 DEF K!CoreGoes, K!keeperVars, K!ircVars
  <2>2. mu = "attach" => core # 0
    BY Coming DEF KeeperInv, Seats
  <2>3. CASE core = p
    <3>1. K!Broken(core)'
      BY <2>1, <2>3 DEF K!Broken, KeeperInv, KeeperType, CoreTypes
    <3> QED BY <2>1, <3>1 DEF Attached, K!Broken
  <2>4. CASE core # p
    <3>1. core # 0 => SameHeard(core) /\ (K!Broken(core)' <=> K!Broken(core))
      BY <1>16, <2>1, <2>4, GoesLess, Coming DEF KeeperInv, KeeperType, CoreTypes, K!Broken
    <3> QED BY <2>1, <2>2, <3>1 DEF KeeperInv, Relayed, Attached, EndsAt, SameHeard, K!In,
       K!Broken, K!Got
  <2> QED BY <2>3, <2>4
<1> QED BY <1>1, <1>2, <1>3, <1>4, <1>5, <1>6, <1>7, <1>8, <1>9, <1>10, <1>11, <1>12, <1>13,
   <1>14, <1>15, <1>16 DEF K!Next

(* A new connection finds nobody who listens to the last (dropSession).    *)
LEMMA RenewedStep ==
  ASSUME KeeperInv, K!Next
  PROVE  Renewed'
<1>1. CASE UNCHANGED <<ircPc, buffer, core, seen, inbox, coreOpen, cut>>
  BY <1>1 DEF KeeperInv, Relayed, Renewed, K!Got, K!Broken
<1>2. CASE K!Probe \/ K!Accept \/ K!ReadCore \/ K!ToIRC \/ K!WriteIRC \/ K!PumpCoreEnds
  BY <1>1, <1>2 DEF K!Probe, K!Accept, K!ReadCore, K!ToIRC, K!WriteIRC, K!PumpCoreEnds,
     K!ircVars, K!servVars, K!sockVars, K!keeperVars
<1>3. CASE K!Cancel \/ K!Goodbye \/ K!LinkFails
  BY <1>1, <1>3 DEF K!Cancel, K!Goodbye, K!LinkFails, K!ircVars, K!servVars, K!sockVars,
     K!keeperVars
<1>4. ASSUME NEW p \in K!Cores, K!CoreSpeaks(p) PROVE Renewed'
  BY <1>1, <1>4 DEF K!CoreSpeaks, K!ircVars, K!servVars, K!sockVars, K!keeperVars
<1>5. CASE K!Dial
  BY <1>5 DEF K!Dial, K!ircVars, K!servVars, K!sockVars, K!keeperVars, KeeperInv, Relayed,
     Renewed, K!Broken, K!Got
<1>6. CASE K!SleepOver
  BY <1>6 DEF K!SleepOver, K!ircVars, K!servVars, K!sockVars, K!keeperVars, KeeperInv, Relayed,
     Renewed, K!Broken, K!Got
<1>7. CASE K!SetIRC
  BY <1>7 DEF K!SetIRC, K!ircVars, K!servVars, K!sockVars, K!keeperVars, KeeperInv, Relayed,
     Renewed, K!Broken, K!Got
<1>8. CASE K!ReadIRC
  BY <1>8 DEF K!ReadIRC, K!ircVars, K!servVars, K!sockVars, K!keeperVars, KeeperInv, Relayed,
     Renewed, K!Broken, K!Got
<1>9. CASE K!ToCore
  <2>1. ircPc' = "pump"
    BY <1>9 DEF K!ToCore, K!ircVars, KeeperInv, Seats
  <2> QED BY <2>1 DEF Renewed
<1>10. CASE K!PumpIRCEnds
  BY <1>10 DEF K!PumpIRCEnds, K!ircVars, K!servVars, K!sockVars, K!keeperVars, KeeperInv,
     Relayed, Renewed, K!Broken, K!Got
<1>11. CASE K!UnsetIRC
  BY <1>11 DEF K!UnsetIRC, K!ircVars, K!servVars, K!sockVars, K!keeperVars, KeeperInv, Relayed,
     Renewed, K!Broken, K!Got
<1>12. CASE K!DropSession
  <2>1. buffer' = <<>> /\ core' = core /\ cut' = K!Cut(core)
    BY <1>12 DEF K!DropSession
  <2>2. ASSUME core # 0 PROVE K!Broken(core)'
    BY <2>1, <2>2, Coming DEF K!Cut, K!Broken, KeeperInv, KeeperType, CoreTypes
  <2> QED BY <2>1, <2>2 DEF Renewed, K!Broken
<1>13. CASE K!AttachCore
  <2>1. served \in K!Cores /\ Waits(served) /\ served' = served /\ core' = served /\ mu' # "toCore"
    BY <1>13, Coming DEF K!AttachCore, KeeperInv, Waits, K!Unlocked
  <2>2. seen[served] = <<>> /\ inbox[served] = <<>> /\ UNCHANGED <<seen, inbox>>
    BY <1>13, <2>1 DEF K!AttachCore, KeeperInv, Waiting
  <2>3. <<>> \o <<>> = <<>>
    <3>1. <<>> \in Seq(Inbound)
      OBVIOUS
    <3> QED BY <3>1, ConcatEmptySeq
  <2>4. K!Got(core)' = <<>>
    BY <2>1, <2>2, <2>3 DEF K!Got
  <2>5. UNCHANGED <<ircPc, buffer>>
    BY <1>13 DEF K!AttachCore, K!ircVars
  <2> QED BY <2>4, <2>5 DEF KeeperInv, Relayed, Renewed
<1>14. CASE K!FlushToCore
  <2>1. ircPc \notin {"dial", "sleep", "set"} /\ ircPc' = ircPc
    BY <1>14, FlushSent DEF K!FlushToCore, K!ircVars, KeeperInv, Relayed, Renewed
  <2> QED BY <2>1 DEF Renewed
<1>15. CASE K!DetachCore
  <2>1. core' = 0 /\ UNCHANGED <<ircPc, buffer>>
    BY <1>15, Coming DEF K!DetachCore, KeeperInv, Seats, K!ircVars
  <2> QED BY <2>1 DEF KeeperInv, Relayed, Renewed
<1>16. CASE K!CloseConns
  <2>1. mu' = "free" /\ core' = core /\ cut' = K!Cut(core)
    BY <1>16 DEF K!CloseConns, K!Unlocked
  <2>2. ASSUME core # 0 PROVE K!Broken(core)'
    BY <2>1, <2>2, Coming DEF K!Cut, K!Broken, KeeperInv, KeeperType, CoreTypes
  <2>3. UNCHANGED <<ircPc, buffer>>
    BY <1>16 DEF K!CloseConns
  <2> QED BY <2>1, <2>2, <2>3 DEF KeeperInv, Relayed, Renewed, K!Broken
<1>17. CASE K!CoreConnects
  <2>1. UNCHANGED <<core, seen, inbox, cut, mu, dialed, sent, buffer>>
    BY <1>17 DEF K!CoreConnects, K!keeperVars, K!ircVars
  <2>2. core # 0 => (K!Broken(core)' <=> K!Broken(core))
    <3>1. core # made + 1
      BY KeeperSizes DEF KeeperInv, KeeperType, CoreTypes
    <3>2. coreOpen' = [coreOpen EXCEPT ![made + 1] = TRUE]
      BY <1>17 DEF K!CoreConnects
    <3> QED BY <2>1, <3>1, <3>2, Coming DEF K!Broken, KeeperInv, KeeperType, CoreTypes
  <2>3. ircPc' = ircPc
    BY <1>17 DEF K!CoreConnects, K!ircVars
  <2> QED BY <2>1, <2>2, <2>3 DEF KeeperInv, Relayed, Renewed, K!Got, K!Broken
<1>18. ASSUME NEW p \in K!Cores, K!CoreReads(p) PROVE Renewed'
  <2>1. UNCHANGED <<core, coreOpen, cut, ircPc, buffer>>
    BY <1>18 DEF K!CoreReads, K!keeperVars, K!ircVars
  <2>2. core # 0 => SameHeard(core)
    BY <1>18, ReadsSame, Coming DEF KeeperInv
  <2> QED BY <2>1, <2>2 DEF KeeperInv, Relayed, Renewed, SameHeard, K!Broken, K!Got
<1>19. ASSUME NEW p \in K!Cores, K!CoreGoes(p) PROVE Renewed'
  <2>1. UNCHANGED <<core, cut, ircPc, buffer>> /\ coreOpen' = [coreOpen EXCEPT ![p] = FALSE]
    BY <1>19 DEF K!CoreGoes, K!keeperVars, K!ircVars
  <2>2. CASE core = p
    <3>1. K!Broken(core)'
      BY <2>1, <2>2 DEF K!Broken, KeeperInv, KeeperType, CoreTypes
    <3> QED BY <2>1, <3>1 DEF KeeperInv, Relayed, Renewed, K!Broken
  <2>3. CASE core # p
    <3>1. core # 0 => SameHeard(core) /\ (K!Broken(core)' <=> K!Broken(core))
      BY <1>19, <2>1, <2>3, GoesLess, Coming DEF KeeperInv, KeeperType, CoreTypes, K!Broken
    <3> QED BY <2>1, <3>1 DEF KeeperInv, Relayed, Renewed, SameHeard, K!Broken, K!Got
  <2> QED BY <2>2, <2>3
<1> QED BY <1>1, <1>2, <1>3, <1>4, <1>5, <1>6, <1>7, <1>8, <1>9, <1>10, <1>11, <1>12, <1>13,
   <1>14, <1>15, <1>16, <1>17, <1>18, <1>19 DEF K!Next

(* What follows a registration.                                            *)
LEMMA LinesMore ==
  ASSUME NEW s \in Seq(Outbound), NEW x \in Outbound, x.kind = "LINE", NEW t, t = Append(s, x),
         NEW n \in Nat \ {0}, OnlyLines(s, n)
  PROVE  OnlyLines(t, n)
<1>1. /\ Len(t) = Len(s) + 1 /\ Len(s) \in Nat
      /\ t[Len(t)] = x /\ \A i \in 1..Len(s) : t[i] = s[i]
  BY OneMore
<1>2. ASSUME NEW k \in n..Len(t) PROVE t[k].kind = "LINE"
  <2>1. k = Len(t) \/ (k \in 1..Len(s) /\ k \in n..Len(s))
    BY <1>1
  <2> QED BY <1>1, <2>1 DEF OnlyLines
<1> QED BY <1>2 DEF OnlyLines

(* What follows a registration.                                            *)
LEMMA LinesLess ==
  ASSUME NEW s \in Seq(Outbound), s # <<>>, OnlyLines(s, 2), NEW t, t = Tail(s)
  PROVE  OnlyLines(t, 1) /\ OnlyLines(t, 2)
<1>1. Len(s) \in Nat \ {0} /\ Len(t) = Len(s) - 1 /\ \A i \in 1..Len(t) : t[i] = s[i + 1]
  BY OneLess
<1>2. ASSUME NEW k \in 1..Len(t) PROVE t[k].kind = "LINE"
  <2>1. k + 1 \in 2..Len(s)
    BY <1>1
  <2> QED BY <1>1, <2>1 DEF OnlyLines
<1>3. \A k \in 2..Len(t) : k \in 1..Len(t)
  BY <1>1
<1> QED BY <1>2, <1>3 DEF OnlyLines

LEMMA OnceStep ==
  ASSUME KeeperInv, K!Next
  PROVE  SaidOnce'
<1>1. CASE UNCHANGED <<outbox, corePc, served>>
  BY <1>1 DEF KeeperInv, SaidOnce, OnlyLines
<1>2. CASE K!Dial \/ K!SleepOver \/ K!SetIRC \/ K!ReadIRC \/ K!ToCore \/ K!Probe
  BY <1>1, <1>2 DEF K!Dial, K!SleepOver, K!SetIRC, K!ReadIRC, K!ToCore, K!Probe, K!ircVars,
     K!servVars, K!sockVars, K!keeperVars
<1>3. CASE K!PumpIRCEnds \/ K!UnsetIRC \/ K!DropSession \/ K!Cancel \/ K!Goodbye \/ K!CloseConns
  BY <1>1, <1>3 DEF K!PumpIRCEnds, K!UnsetIRC, K!DropSession, K!Cancel, K!Goodbye, K!CloseConns,
     K!ircVars, K!servVars, K!sockVars, K!keeperVars
<1>4. CASE K!LinkFails
  BY <1>1, <1>4 DEF K!LinkFails, K!ircVars, K!servVars, K!sockVars, K!keeperVars
<1>5. ASSUME NEW p \in K!Cores, K!CoreReads(p) \/ K!CoreGoes(p) PROVE SaidOnce'
  BY <1>1, <1>5 DEF K!CoreReads, K!CoreGoes, K!ircVars, K!servVars, K!sockVars, K!keeperVars
<1>6. CASE K!Accept
  BY <1>6 DEF K!Accept, K!ircVars, K!servVars, K!sockVars, K!keeperVars, KeeperInv, SaidOnce,
     OnlyLines
<1>7. CASE K!AttachCore
  BY <1>7 DEF K!AttachCore, K!ircVars, K!servVars, K!sockVars, K!keeperVars, KeeperInv, SaidOnce,
     OnlyLines
<1>8. CASE K!FlushToCore
  BY <1>8 DEF K!FlushToCore, K!ircVars, K!servVars, K!sockVars, K!keeperVars, KeeperInv,
     SaidOnce, OnlyLines
<1>9. CASE K!ReadCore
  <2>1. served \in K!Cores /\ outbox \in [K!Cores -> Seq(Outbound)] /\ outbox[served] # <<>>
    BY <1>9, Coming DEF K!ReadCore, KeeperInv, KeeperType, SocketTypes
  <2>2. PICK t : t = Tail(outbox[served])
    OBVIOUS
  <2>3. OnlyLines(t, 1) /\ OnlyLines(t, 2)
    BY <2>1, <2>2, LinesLess DEF KeeperInv, SaidOnce
  <2>4. outbox' = [outbox EXCEPT ![served] = t] /\ served' = served
    BY <1>9, <2>2 DEF K!ReadCore
  <2>5. ASSUME NEW p \in K!Cores PROVE OnlyLines(outbox'[p], 2)
    BY <2>1, <2>3, <2>4 DEF KeeperInv, SaidOnce
  <2>6. OnlyLines(outbox'[served'], 1)
    BY <2>1, <2>3, <2>4
  <2> QED BY <2>5, <2>6 DEF SaidOnce, OnlyLines
<1>10. CASE K!ToIRC
  BY <1>10 DEF K!ToIRC, K!ircVars, K!servVars, K!sockVars, K!keeperVars, KeeperInv, SaidOnce,
     OnlyLines
<1>11. CASE K!WriteIRC
  BY <1>11 DEF K!WriteIRC, K!ircVars, K!servVars, K!sockVars, K!keeperVars, KeeperInv, SaidOnce,
     OnlyLines
<1>12. CASE K!PumpCoreEnds
  BY <1>12 DEF K!PumpCoreEnds, K!ircVars, K!servVars, K!sockVars, K!keeperVars, KeeperInv,
     SaidOnce, OnlyLines
<1>13. CASE K!DetachCore
  BY <1>13 DEF K!DetachCore, K!ircVars, K!servVars, K!sockVars, K!keeperVars, KeeperInv,
     SaidOnce, OnlyLines
<1>14. CASE K!CoreConnects
  <2>1. PICK m, x : m = made + 1 /\ x = <<K!Reg(m)>>
    OBVIOUS
  <2>2. outbox' = [outbox EXCEPT ![m] = x] /\ UNCHANGED <<served, corePc>> /\ outbox \in [K!Cores -> Seq(Outbound)]
    BY <1>14, <2>1 DEF K!CoreConnects, K!servVars, KeeperInv, KeeperType, SocketTypes
  <2>3. OnlyLines(x, 2)
    BY <2>1 DEF OnlyLines
  <2>4. ASSUME NEW p \in K!Cores PROVE OnlyLines(outbox'[p], 2)
    BY <2>2, <2>3 DEF KeeperInv, SaidOnce
  <2>5. served # m /\ (corePc \in {"read", "write"} => served \in K!Cores)
    BY <2>1, Coming, KeeperSizes DEF KeeperInv, KeeperType, CoreTypes
  <2>6. corePc \in {"read", "write"} => OnlyLines(outbox'[served'], 1)
    BY <2>2, <2>5 DEF KeeperInv, SaidOnce
  <2> QED BY <2>2, <2>4, <2>6 DEF SaidOnce, OnlyLines
<1>15. ASSUME NEW p \in K!Cores, K!CoreSpeaks(p) PROVE SaidOnce'
  <2>1. PICK x, t : x = K!Say(p) /\ t = Append(outbox[p], x)
    OBVIOUS
  <2>2. outbox' = [outbox EXCEPT ![p] = t] /\ UNCHANGED <<served, corePc>> /\ outbox \in [K!Cores -> Seq(Outbound)]
    BY <1>15, <2>1 DEF K!CoreSpeaks, K!servVars, KeeperInv, KeeperType, SocketTypes
  <2>3. x \in Outbound /\ x.kind = "LINE"
    BY <2>1 DEF K!Say, Outbound, K!Cores
  <2>4. (OnlyLines(outbox[p], 1) => OnlyLines(t, 1)) /\ (OnlyLines(outbox[p], 2) => OnlyLines(t, 2))
    <3>1. PICK s, n, m : s = outbox[p] /\ n = 1 /\ m = 2
      OBVIOUS
    <3>2. s \in Seq(Outbound) /\ t = Append(s, x) /\ n \in Nat \ {0} /\ m \in Nat \ {0}
      BY <2>1, <2>2, <3>1
    <3>3. (OnlyLines(s, n) => OnlyLines(t, n)) /\ (OnlyLines(s, m) => OnlyLines(t, m))
      BY <2>3, <3>2, LinesMore
    <3> QED BY <3>1, <3>3
  <2>5. ASSUME NEW d \in K!Cores PROVE OnlyLines(outbox'[d], 2)
    BY <2>2, <2>4 DEF KeeperInv, SaidOnce
  <2>6. ASSUME corePc \in {"read", "write"} PROVE OnlyLines(outbox'[served'], 1)
    <3>1. served \in K!Cores
      BY <2>6, Coming DEF KeeperInv
    <3> QED BY <2>2, <2>4, <2>6, <3>1 DEF KeeperInv, SaidOnce
  <2> QED BY <2>2, <2>5, <2>6 DEF SaidOnce, OnlyLines
<1> QED BY <1>1, <1>2, <1>3, <1>4, <1>5, <1>6, <1>7, <1>8, <1>9, <1>10, <1>11, <1>12, <1>13,
   <1>14, <1>15 DEF K!Next

(* The keeper's invariant, whatever fails and whoever comes and goes       *)
(* (ircLoop, serveCore).                                                   *)
THEOREM KeeperInvHolds == K!Spec => []KeeperInv
<1>1. ASSUME K!Init PROVE KeeperInv
  <2>1. Len(<<>>) = 0 /\ <<>> \o <<>> = <<>>
    OBVIOUS
  <2>2. KeeperType
    <3>1. LinkTypes
      <4>1. irc = 0 /\ dialed = 0 /\ sent = 0 /\ outDropped = FALSE /\ closed = FALSE /\ ctx = "running"
        BY <1>1 DEF K!Init
      <4>2. 0 \in 0..MaxIRC
        BY KeeperSizes
      <4>3. link \in [K!IRCs -> {"up", "hung", "dead"}]
        BY <1>1 DEF K!Init
      <4> QED BY <4>1, <4>2, <4>3 DEF LinkTypes
    <3>4. CoreTypes
      <4>1. made = 0 /\ core = 0 /\ served = 0 /\ backlog = <<>> /\ Len(<<>>) = 0 /\ <<>> \in Seq(Nat)
        BY <1>1 DEF K!Init
      <4>2. lines \in [K!Cores -> 0..MaxLines] /\ 0 \in 0..MaxCores
        BY <1>1, KeeperSizes DEF K!Init
      <4>3. coreOpen \in [K!Cores -> BOOLEAN] /\ cut \in [K!Cores -> BOOLEAN]
        BY <1>1 DEF K!Init
      <4> QED BY <4>1, <4>2, <4>3 DEF CoreTypes
    <3>2. QueueTypes
      BY <1>1 DEF K!Init, QueueTypes
    <3>3. SocketTypes
      BY <1>1 DEF K!Init, SocketTypes
    <3> QED BY <3>1, <3>2, <3>3, <3>4 DEF KeeperType
  <2>3. Seats /\ Dialing
    BY <1>1 DEF K!Init, Seats, Serving, Dialing
  <2>4. \A p \in K!Cores : K!Got(p) = <<>>
    BY <1>1, <2>1 DEF K!Init, K!Got
  <2>5. Relayed
    BY <1>1, <2>1, <2>4, KeeperSizes
    DEF K!Init, Relayed, Stretches, Upto, Attached, Renewed, Stretch, EndsAt
  <2>6. Waiting
    BY <1>1, <2>1 DEF K!Init, Waiting, Waits
  <2>7. Backed /\ SaidOnce
    BY <1>1, <2>1, KeeperSizes DEF K!Init, Backed, WithinLimits, Sending, SaidOnce, OnlyLines
  <2> QED BY <2>2, <2>3, <2>5, <2>6, <2>7 DEF KeeperInv
<1>2. ASSUME KeeperInv, K!Next PROVE KeeperInv'
  <2>1. KeeperType'
    BY <1>2, LinkTypeStep, CoreTypeStep, QueueTypeStep, SocketTypeStep DEF KeeperType
  <2>2. Seats' /\ Dialing' /\ Waiting' /\ SaidOnce'
    BY <1>2, SeatsStep, DialingStep, WaitingStep, OnceStep
  <2>3. Relayed'
    BY <1>2, StretchesStep, UptoStep, AttachedStep, RenewedStep DEF Relayed
  <2>4. Backed'
    BY <1>2, WithinStep, SendingStep DEF Backed
  <2> QED BY <2>1, <2>2, <2>3, <2>4 DEF KeeperInv
<1>3. ASSUME KeeperInv, UNCHANGED K!vars PROVE KeeperInv'
  <2> USE <1>3 DEF K!vars, K!ircVars, K!servVars, K!sockVars, KeeperInv
  <2>1. KeeperType'
    BY DEF KeeperType, LinkTypes, CoreTypes, QueueTypes, SocketTypes
  <2>2. Seats' /\ Dialing'
    BY DEF Seats, Dialing, K!Broken
  <2>3. Relayed'
    BY DEF Relayed, Stretches, Upto, Attached, Renewed, Stretch, EndsAt, K!Got, K!Broken, K!In
  <2>4. Waiting' /\ SaidOnce'
    BY DEF Waiting, Waits, SaidOnce, OnlyLines
  <2>5. Backed'
    BY DEF Backed, WithinLimits, Sending, Left, Carried, Unread
  <2> QED BY <2>1, <2>2, <2>3, <2>4, <2>5
<1> QED BY <1>1, <1>2, <1>3, PTL DEF K!Spec

(* What a core is sent is one unbroken stretch of one session, what is     *)
(* held stays within its limits, and nothing is installed after closeConns *)
(* (toCore, attachCore, dropSession, setIRC).                              *)
THEOREM StretchHolds == K!Spec => [](K!OneStretch /\ K!NoLateLink)
<1>1. ASSUME KeeperInv PROVE K!OneStretch
  <2>1. Len(buffer) <= MaxBuffer /\ Len(outBuf) <= MaxOutBuffer
    BY <1>1 DEF KeeperInv, Relayed, Upto, Backed, WithinLimits
  <2>2. ASSUME NEW p \in K!Cores, NEW k \in 1..(Len(K!Got(p)) - 1)
        PROVE  K!Got(p)[k].irc = K!Got(p)[k + 1].irc /\ K!Got(p)[k + 1].n = K!Got(p)[k].n + 1
    BY <1>1 DEF KeeperInv, Relayed, Stretches, Stretch, Joined
  <2> QED BY <2>1, <2>2 DEF K!OneStretch
<1>2. KeeperInv => K!NoLateLink
  BY DEF KeeperInv, Dialing, K!NoLateLink
<1> QED BY <1>1, <1>2, KeeperInvHolds, PTL

(* The same after a step.                                                  *)
LEMMA HeldSizesNext ==
  ASSUME KeeperInv'
  PROVE  /\ Carried' \in {0, 1} /\ Unread' \in Nat /\ Left' \in Nat
         /\ \A p \in K!Cores : lines'[p] \in Nat /\ lines'[p] <= MaxLines /\ Len(outbox'[p]) \in Nat
         /\ served' # 0 => served' \in K!Cores /\ Left' <= 1 + lines'[served']
<1>1. Carried' \in {0, 1}
  BY DEF Carried
<1>2. \A p \in K!Cores : Len(outbox'[p]) \in Nat
  BY LenProperties DEF KeeperInv, KeeperType, SocketTypes
<1>3. served' # 0 => served' \in K!Cores
  BY KeeperSizes DEF KeeperInv, KeeperType, CoreTypes, K!Cores
<1>4. Unread' \in Nat
  BY <1>2, <1>3 DEF Unread
<1>5. \A p \in K!Cores : lines'[p] \in Nat /\ lines'[p] <= MaxLines
  BY KeeperSizes DEF KeeperInv, KeeperType, CoreTypes
<1>6. Left' \in Nat
  <2>1. Left' = Carried' + Unread'
    BY DEF Left
  <2>2. PICK a, b : a = Carried' /\ b = Unread'
    OBVIOUS
  <2>3. a \in Nat /\ b \in Nat /\ Left' = a + b
    BY <1>1, <1>4, <2>1, <2>2
  <2>4. a + b \in Nat
    BY <2>3
  <2> QED BY <2>3, <2>4
<1>7. served' # 0 => Left' <= 1 + lines'[served']
  BY DEF KeeperInv, Backed, Sending
<1> QED BY <1>1, <1>2, <1>3, <1>4, <1>5, <1>6, <1>7

(* Nothing is held back.                                                   *)
LEMMA NothingHeld ==
  ASSUME KeeperInv', outBuf' = <<>>, ~outDropped'
  PROVE  Spare'
<1>1. Len(outBuf') = 0
  OBVIOUS
<1>2. corePc' \in Serving => served' # 0
  BY DEF KeeperInv, Seats, Serving
<1>3. corePc' \in Serving => Left' <= 1 + lines'[served'] /\ Left' \in Nat
  BY <1>2, HeldSizesNext
<1> QED BY <1>1, <1>3, KeeperSizes DEF Spare, Serving

(* setIRC left nothing to hold back.                                       *)
LEMMA PumpingHeld ==
  ASSUME KeeperInv, ircPc = "pump", ctx = "running"
  PROVE  outBuf = <<>> /\ ~outDropped /\ irc # 0
BY DEF KeeperInv, Backed, WithinLimits, Dialing, KeeperType, LinkTypes

(* Nothing more of it comes.                                               *)
LEMMA SaidAll ==
  ASSUME KeeperInv, corePc \in {"read", "write"}, served \in K!Cores, outbox[served] # <<>>
  PROVE  outbox[served][1] # K!Reg(served)
<1>1. Len(outbox[served]) \in Nat \ {0}
  BY EmptySeq DEF KeeperInv, KeeperType, SocketTypes
<1>2. outbox[served][1].kind = "LINE"
  BY <1>1 DEF KeeperInv, SaidOnce, OnlyLines
<1> QED BY <1>2 DEF K!Reg

(* Every step leaves room for the registration that is on its way          *)
(* (bufferOutLocked).                                                      *)
LEMMA SpareStep ==
  ASSUME Roomy, KeeperInv, K!Next, KeeperInv', Registering, ctx' = "running"
  PROVE  Spare'
<1>1. CASE UNCHANGED <<outBuf, outDropped, corePc, core, served, toIrc, outbox, lines, ctx>>
  BY <1>1 DEF Registering, Spare, Left, Carried, Unread, Unsaid, K!Reg, Serving
<1>2. CASE K!Dial \/ K!SleepOver \/ K!Probe \/ K!PumpIRCEnds \/ K!DropSession \/ K!Cancel
  BY <1>1, <1>2 DEF K!Dial, K!SleepOver, K!Probe, K!PumpIRCEnds, K!DropSession, K!Cancel,
     K!ircVars, K!servVars, K!sockVars, K!keeperVars
<1>3. CASE K!Goodbye \/ K!CloseConns \/ K!LinkFails
  BY <1>1, <1>3 DEF K!Goodbye, K!CloseConns, K!LinkFails, K!ircVars, K!servVars, K!sockVars,
     K!keeperVars
<1>4. ASSUME NEW p \in K!Cores, K!CoreReads(p) \/ K!CoreGoes(p) PROVE Spare'
  BY <1>1, <1>4 DEF K!CoreReads, K!CoreGoes, K!ircVars, K!servVars, K!sockVars, K!keeperVars
<1>5. CASE K!SetIRC
  <2>1. CASE closed
    BY <1>5, <1>1, <2>1 DEF K!SetIRC, K!servVars, K!sockVars
  <2>2. CASE ~closed
    BY <1>5, <2>2, NothingHeld DEF K!SetIRC
  <2> QED BY <2>1, <2>2
<1>6. CASE K!ReadIRC
  <2>1. UNCHANGED <<outBuf, outDropped, ctx>> /\ ircPc = "pump"
    BY <1>6 DEF K!ReadIRC
  <2> QED BY <2>1, PumpingHeld, NothingHeld
<1>7. CASE K!ToCore
  <2>1. UNCHANGED <<outBuf, outDropped, ctx>> /\ ircPc = "pump"
    BY <1>7 DEF K!ToCore, KeeperInv, Seats
  <2> QED BY <2>1, PumpingHeld, NothingHeld
<1>8. CASE K!UnsetIRC
  BY <1>8, NothingHeld DEF K!UnsetIRC
<1>9. CASE K!Accept
  <2>1. corePc = "accept" /\ corePc' = "attach" /\ UNCHANGED <<outBuf, outDropped, core, ctx>>
    BY <1>9 DEF K!Accept
  <2> QED BY <2>1 DEF Registering, Spare, Serving, Unsaid
<1>10. CASE K!AttachCore
  <2>1. corePc = "attach" /\ core' # 0 /\ UNCHANGED <<outBuf, outDropped, ctx>>
    BY <1>10, Coming DEF K!AttachCore, KeeperInv
  <2> QED BY <2>1 DEF Registering, Spare
<1>11. CASE K!FlushToCore
  <2>1. /\ corePc = "flush" /\ corePc' \in {"flush", "pump"} /\ core # 0
        /\ UNCHANGED <<outBuf, outDropped, ctx, core, served, outbox>>
    BY <1>11, FlushSent, KeeperSizes DEF K!FlushToCore, K!Cores
  <2> QED BY <2>1 DEF Registering, Spare, Unsaid
<1>12. CASE K!ReadCore
  <2>1. /\ corePc = "pump" /\ corePc' = "read" /\ served # 0 /\ served \in K!Cores
        /\ UNCHANGED <<outBuf, outDropped, ctx, core, served, lines>>
        /\ outbox \in [K!Cores -> Seq(Outbound)] /\ outbox[served] # <<>>
    BY <1>12, Coming DEF K!ReadCore, KeeperInv, KeeperType, SocketTypes
  <2>2. PICK t, h : t = Tail(outbox[served]) /\ h = Head(outbox[served])
    OBVIOUS
  <2>3. Len(t) = Len(outbox[served]) - 1 /\ h = outbox[served][1] /\ Len(outbox[served]) \in Nat
    BY <2>1, <2>2, OneLess
  <2>4. outbox' = [outbox EXCEPT ![served] = t] /\ toIrc' = <<0, h>>
    BY <1>12, <2>2 DEF K!ReadCore
  <2>5. Left' = Left
    BY <2>1, <2>3, <2>4 DEF Left, Carried, Unread
  <2>6. Unsaid' => Unsaid
    BY <2>1, <2>3, <2>4 DEF Unsaid, K!Reg
  <2> QED BY <2>1, <2>5, <2>6 DEF Registering, Spare, Serving
<1>13. CASE K!ToIRC
  <2>1. /\ corePc = "read" /\ served # 0 /\ served \in K!Cores
        /\ UNCHANGED <<ctx, core, served, lines, outbox>>
    BY <1>13, Coming DEF K!ToIRC, KeeperInv, K!sockVars
  <2>2. CASE irc # 0
    <3>1. outBuf' = <<>> /\ ~outDropped'
      BY <1>13, <2>2 DEF K!ToIRC, KeeperInv, Backed, WithinLimits
    <3> QED BY <3>1, NothingHeld
  <2>3. CASE irc = 0 /\ corePc' = "pump"
    <3>1. ~Unsaid'
      BY <2>1, <2>3, SaidAll DEF Unsaid, K!Reg
    <3>2. CASE core = 0
      <4>1. Len(outBuf) + Left <= 1 + lines[served] /\ ~outDropped
        BY <2>1, <3>2 DEF Registering, Spare, Serving
      <4>2. PICK x, t : x = toIrc[2] /\ t = Append(outBuf, x)
        OBVIOUS
      <4>3. Len(t) = Len(outBuf) + 1 /\ Len(outBuf) \in Nat
        <5>1. x \in Outbound
          BY <2>1, <4>2 DEF KeeperInv, Seats
        <5> QED BY <4>2, <5>1, OneMore DEF KeeperInv, KeeperType, QueueTypes
      <4>4. Left' = Left - 1 /\ Left \in Nat /\ Left >= 1 /\ lines[served] \in Nat
        <5>1. Carried = 1 /\ Carried' = 0 /\ Unread' = Unread
          BY <2>1, <2>3 DEF Carried, Unread
        <5> QED BY <2>1, <5>1, HeldSizes DEF Left
      <4>5. lines[served] <= MaxLines
        BY <2>1, HeldSizesNext
      <4>6. ~(Len(outBuf) >= MaxOutBuffer)
        BY <4>1, <4>3, <4>4, <4>5, KeeperSizes DEF Roomy
      <4>7. outBuf' = t /\ ~outDropped'
        BY <1>13, <2>3, <4>1, <4>2, <4>6 DEF K!ToIRC, K!Held
      <4>8. Len(outBuf') + Left' <= 1 + lines'[served']
        BY <2>1, <4>1, <4>3, <4>4, <4>7
      <4> QED BY <2>1, <2>3, <3>1, <4>7, <4>8 DEF Spare, Serving
    <3>3. CASE core # 0
      BY <2>1, <2>3, <3>1, <3>3 DEF Spare, Serving
    <3> QED BY <3>2, <3>3
  <2> QED BY <1>13, <2>2, <2>3 DEF K!ToIRC
<1>14. CASE K!WriteIRC
  <2>1. /\ corePc = "write" /\ corePc' = "pump" /\ served # 0 /\ served \in K!Cores
        /\ UNCHANGED <<outBuf, outDropped, ctx, core, served, lines, outbox>>
    BY <1>14, Coming DEF K!WriteIRC, KeeperInv, K!sockVars
  <2>2. ~Unsaid'
    BY <2>1, SaidAll DEF Unsaid, K!Reg
  <2>3. Left' = Left - 1
    BY <2>1, HeldSizes DEF Left, Carried, Unread
  <2>4. Len(outBuf) \in Nat /\ Left \in Nat /\ lines[served] \in Nat
    BY <2>1, HeldSizes, LenProperties DEF KeeperInv, KeeperType, QueueTypes
  <2>5. core = 0 => Len(outBuf) + Left <= 1 + lines[served] /\ ~outDropped
    BY <2>1 DEF Registering, Spare, Serving
  <2> QED BY <2>1, <2>2, <2>3, <2>4, <2>5 DEF Spare, Serving
<1>15. CASE K!PumpCoreEnds
  <2>1. /\ corePc = "pump" /\ corePc' = "detach"
        /\ UNCHANGED <<outBuf, outDropped, ctx, core, served, lines, outbox>>
    BY <1>15 DEF K!PumpCoreEnds, K!sockVars
  <2>2. ~Unsaid'
    BY <2>1 DEF Unsaid
  <2>3. Left' = Left
    BY <2>1 DEF Left, Carried, Unread
  <2> QED BY <2>1, <2>2, <2>3 DEF Registering, Spare, Serving
<1>16. CASE K!DetachCore
  <2>1. corePc = "detach" /\ corePc' = "accept" /\ served # 0 /\ served \in K!Cores /\ UNCHANGED <<ctx, lines>>
    BY <1>16, Coming DEF K!DetachCore, KeeperInv
  <2>2. CASE core = served
    BY <1>16, <2>2, NothingHeld DEF K!DetachCore
  <2>3. CASE core # served
    <3>1. core = 0 /\ UNCHANGED <<outBuf, outDropped>>
      BY <1>16, <2>3 DEF K!DetachCore, KeeperInv, Seats
    <3>2. Len(outBuf) + Left <= 1 + lines[served] /\ ~outDropped
      BY <2>1, <3>1 DEF Registering, Spare, Serving
    <3>3. Len(outBuf) <= 1 + MaxLines
      <4>1. Left \in Nat /\ lines[served] \in Nat /\ lines[served] <= MaxLines /\ Len(outBuf) \in Nat
        BY <2>1, HeldSizes, HeldSizesNext, LenProperties DEF KeeperInv, KeeperType, QueueTypes
      <4> QED BY <3>2, <4>1, KeeperSizes
    <3> QED BY <2>1, <3>1, <3>2, <3>3 DEF Spare, Serving
  <2> QED BY <2>2, <2>3
<1>17. CASE K!CoreConnects
  <2>1. UNCHANGED <<outBuf, outDropped, corePc, core, served, toIrc, lines, ctx>>
    BY <1>17 DEF K!CoreConnects, K!keeperVars, K!servVars
  <2>2. served # 0 => outbox'[served] = outbox[served]
    <3>1. served # made + 1
      BY KeeperSizes DEF KeeperInv, KeeperType, CoreTypes
    <3> QED BY <1>17, <3>1, Coming DEF K!CoreConnects, KeeperInv, KeeperType, SocketTypes
  <2>3. Left' = Left
    BY <2>1, <2>2 DEF Left, Carried, Unread
  <2>4. core # 0 => (Unsaid' <=> Unsaid)
    BY <2>1, <2>2 DEF Unsaid, KeeperInv, Seats
  <2> QED BY <2>1, <2>3, <2>4 DEF Registering, Spare
<1>18. ASSUME NEW p \in K!Cores, K!CoreSpeaks(p) PROVE Spare'
  <2>1. /\ UNCHANGED <<outBuf, outDropped, corePc, core, served, toIrc, ctx>>
        /\ lines' = [lines EXCEPT ![p] = @ + 1] /\ outbox' = [outbox EXCEPT ![p] = Append(@, K!Say(p))]
        /\ outbox \in [K!Cores -> Seq(Outbound)] /\ lines \in [K!Cores -> 0..MaxLines]
    BY <1>18 DEF K!CoreSpeaks, K!keeperVars, K!servVars, KeeperInv, KeeperType, SocketTypes,
       CoreTypes
  <2>2. PICK x, t, s : x = K!Say(p) /\ s = outbox[p] /\ t = Append(s, x)
    OBVIOUS
  <2>3. x \in Outbound /\ x # K!Reg(p)
    BY <2>2 DEF K!Say, K!Reg, Outbound, K!Cores
  <2>4. Len(t) = Len(s) + 1 /\ Len(s) \in Nat /\ t[Len(t)] = x /\ \A i \in 1..Len(s) : t[i] = s[i]
    BY <2>1, <2>2, <2>3, OneMore
  <2>5. outbox'[p] = t /\ lines'[p] = lines[p] + 1 /\ \A d \in K!Cores : d # p => outbox'[d] = outbox[d] /\ lines'[d] = lines[d]
    BY <2>1, <2>2
  <2>6. served # 0 => Left' - lines'[served] = Left - lines[served]
    <3>1. served # 0 => served \in K!Cores
      BY Coming DEF KeeperInv
    <3>2. Carried' = Carried
      BY <2>1 DEF Carried
    <3>3. CASE served = p
      <4>1. Unread' = Unread + 1
        BY <2>1, <2>2, <2>4, <2>5, <3>3, KeeperSizes DEF Unread, K!Cores
      <4> QED BY <2>5, <3>2, <3>3, <4>1, HeldSizes DEF Left
    <3>4. CASE served # p
      <4>1. Unread' = Unread
        BY <2>1, <2>5, <3>1, <3>4 DEF Unread
      <4> QED BY <2>5, <3>1, <3>2, <3>4, <4>1, HeldSizes DEF Left
    <3> QED BY <3>3, <3>4
  <2>7. core # 0 /\ Unsaid' => Unsaid
    <3>1. CASE served = p
      <4>1. t[1] = K!Reg(p) => s # <<>> /\ s[1] = K!Reg(p)
        <5>1. s = <<>> => Len(s) = 0
          OBVIOUS
        <5>2. s # <<>> => Len(s) # 0
          BY <2>1, <2>2, EmptySeq
        <5> QED BY <2>3, <2>4, <5>1, <5>2
      <4> QED BY <2>1, <2>2, <2>5, <3>1, <4>1 DEF Unsaid, K!Reg
    <3>2. CASE served # p
      <4>1. core # 0 => outbox'[served] = outbox[served]
        BY <2>5, <3>2, Coming DEF KeeperInv, Seats
      <4> QED BY <2>1, <4>1 DEF Unsaid, K!Reg
    <3> QED BY <3>1, <3>2
  <2>8. ASSUME corePc \in Serving, core = 0
        PROVE  Len(outBuf') + Left' <= 1 + lines'[served'] /\ ~outDropped'
    <3>1. Len(outBuf) + Left <= 1 + lines[served] /\ ~outDropped
      BY <2>1, <2>8 DEF Registering, Spare
    <3>2. served # 0 /\ served \in K!Cores
      BY <2>8, Coming DEF KeeperInv, Seats, Serving
    <3>3. Left \in Nat /\ Left' \in Nat /\ lines[served] \in Nat /\ lines'[served] \in Nat /\ Len(outBuf) \in Nat
      BY <3>2, HeldSizes, HeldSizesNext, LenProperties DEF KeeperInv, KeeperType, QueueTypes
    <3>4. PICK a, b, e, f, g : a = Left /\ b = Left' /\ e = lines[served] /\ f = lines'[served] /\ g = Len(outBuf)
      OBVIOUS
    <3>5. a \in Nat /\ b \in Nat /\ e \in Nat /\ f \in Nat /\ g \in Nat /\ b - f = a - e /\ g + a <= 1 + e
      BY <2>6, <3>1, <3>2, <3>3, <3>4
    <3>6. g + b <= 1 + f
      BY <3>5
    <3> QED BY <2>1, <3>1, <3>4, <3>6
  <2> QED BY <2>1, <2>7, <2>8 DEF Registering, Spare
<1> QED BY <1>1, <1>2, <1>3, <1>4, <1>5, <1>6, <1>7, <1>8, <1>9, <1>10, <1>11, <1>12, <1>13,
   <1>14, <1>15, <1>16, <1>17, <1>18 DEF K!Next

(* The same core is served, and it is still there.                         *)
LEMMA StillThere ==
  ASSUME KeeperInv, K!Next, served' # 0, ~K!Broken(served)', served' = served
  PROVE  ~K!Broken(served) /\ served \in K!Cores
<1>1. served \in K!Cores /\ served # made + 1
  BY Coming, KeeperSizes DEF KeeperInv, KeeperType, CoreTypes
<1>2. cut[served] => cut'[served]
  BY <1>1 DEF K!Next, K!Dial, K!SleepOver, K!SetIRC, K!ReadIRC, K!ToCore, K!Probe, K!PumpIRCEnds,
     K!UnsetIRC, K!DropSession,
     K!Accept, K!AttachCore, K!FlushToCore, K!ReadCore, K!ToIRC, K!WriteIRC, K!PumpCoreEnds, K!DetachCore, K!Cancel, K!Goodbye,
     K!CloseConns, K!CoreConnects, K!LinkFails, K!CoreReads, K!CoreSpeaks, K!CoreGoes, K!Cut,
     K!ircVars, K!servVars, K!sockVars, K!keeperVars, KeeperInv, KeeperType, CoreTypes
<1>3. ~coreOpen[served] => ~coreOpen'[served]
  BY <1>1 DEF K!Next, K!Dial, K!SleepOver, K!SetIRC, K!ReadIRC, K!ToCore, K!Probe, K!PumpIRCEnds,
     K!UnsetIRC, K!DropSession,
     K!Accept, K!AttachCore, K!FlushToCore, K!ReadCore, K!ToIRC, K!WriteIRC, K!PumpCoreEnds, K!DetachCore, K!Cancel, K!Goodbye,
     K!CloseConns, K!CoreConnects, K!LinkFails, K!CoreReads, K!CoreSpeaks, K!CoreGoes,
     K!ircVars, K!servVars, K!sockVars, K!keeperVars, KeeperInv, KeeperType, CoreTypes
<1> QED BY <1>1, <1>2, <1>3 DEF K!Broken

(* What holds of the core that stays.                                      *)
LEMMA Was ==
  ASSUME KeeperInv, K!Next, Registering, ctx = "running", served' # 0, ~K!Broken(served)', served' = served
  PROVE  Said /\ Spare /\ ~K!Broken(served) /\ served \in K!Cores /\ served # 0 /\ ~closed
BY StillThere, KeeperSizes DEF Registering, KeeperInv, KeeperType, LinkTypes

(* What reached the ircd stays there.                                      *)
LEMMA ArrivedMore ==
  ASSUME KeeperInv, NEW i \in K!IRCs, NEW toks \in Seq(Outbound), link[i] = "up",
         NEW x, (\E k \in 1..Len(wire[i]) : wire[i][k] = x) \/ (\E k \in 1..Len(toks) : toks[k] = x)
  PROVE  \E k \in 1..Len(K!Wired(i, toks)[i]) : K!Wired(i, toks)[i][k] = x
<1>1. PICK w, u, v : w = K!Wired(i, toks) /\ u = wire[i] /\ v = w[i]
  OBVIOUS
<1>2. v = u \o toks /\ u \in Seq(Outbound)
  BY <1>1, WiredOn DEF KeeperInv, KeeperType, QueueTypes
<1>3. /\ Len(v) = Len(u) + Len(toks) /\ Len(u) \in Nat /\ Len(toks) \in Nat
      /\ \A k \in 1..(Len(u) + Len(toks)) : v[k] = IF k <= Len(u) THEN u[k] ELSE toks[k - Len(u)]
  BY <1>2, ConcatProperties, LenProperties
<1>4. CASE \E k \in 1..Len(u) : u[k] = x
  <2>1. PICK k \in 1..Len(u) : u[k] = x
    BY <1>4
  <2>2. k \in 1..(Len(u) + Len(toks)) /\ k <= Len(u)
    BY <1>3
  <2> QED BY <1>1, <1>3, <2>1, <2>2
<1>5. CASE \E k \in 1..Len(toks) : toks[k] = x
  <2>1. PICK k \in 1..Len(toks) : toks[k] = x
    BY <1>5
  <2>2. PICK j : j = Len(u) + k
    OBVIOUS
  <2>3. j \in 1..(Len(u) + Len(toks)) /\ ~(j <= Len(u)) /\ j - Len(u) = k
    BY <1>3, <2>2
  <2>4. v[j] = x
    BY <1>3, <2>1, <2>3
  <2> QED BY <1>1, <1>3, <2>3, <2>4
<1> QED BY <1>1, <1>4, <1>5

(* Every step brings the registration on, or the session is over (toIRC,   *)
(* setIRC).                                                                *)
LEMMA SaidStep ==
  ASSUME Roomy, KeeperInv, KeeperInv', K!Next, Registering, ctx = "running", ctx' = "running",
         served' # 0, ~K!Broken(served)', served' = served
  PROVE  Said'
<1>0. Said /\ Spare /\ ~K!Broken(served) /\ served \in K!Cores /\ served # 0 /\ ~closed
  BY Was
<1>1. CASE UNCHANGED <<ircPc, irc, toIrc, corePc, served, outbox, outBuf, link, wire>>
  BY <1>0, <1>1 DEF Said, Unsaid, Kept, Arrived, K!Reg
<1>2. CASE K!ReadIRC \/ K!ToCore \/ K!Probe \/ K!Cancel \/ K!Goodbye
  BY <1>1, <1>2 DEF K!ReadIRC, K!ToCore, K!Probe, K!Cancel, K!Goodbye, K!ircVars, K!servVars,
     K!sockVars, K!keeperVars
<1>3. ASSUME NEW p \in K!Cores, K!CoreReads(p) \/ K!CoreGoes(p) PROVE Said'
  BY <1>1, <1>3 DEF K!CoreReads, K!CoreGoes, K!ircVars, K!servVars, K!sockVars, K!keeperVars
<1>4. CASE K!Dial
  <2>1. irc = 0 /\ ircPc = "dial" /\ UNCHANGED <<irc, toIrc, corePc, outbox, outBuf>>
    BY <1>0, <1>4 DEF K!Dial, K!servVars, K!sockVars, KeeperInv, Dialing
  <2>2. Unsaid' <=> Unsaid
    BY <2>1 DEF Unsaid, K!Reg
  <2>3. Kept' <=> Kept
    BY <2>1 DEF Kept, K!Reg
  <2> QED BY <1>0, <2>1, <2>2, <2>3 DEF Said, Arrived, K!Reg
<1>5. CASE K!SleepOver
  <2>1. ircPc # "drop" /\ UNCHANGED <<irc, toIrc, corePc, outbox, outBuf, link, wire>>
    BY <1>5 DEF K!SleepOver, K!servVars, K!sockVars
  <2>2. (Unsaid' <=> Unsaid) /\ (Kept' <=> Kept) /\ (Arrived' <=> Arrived)
    BY <2>1 DEF Unsaid, Kept, Arrived, K!Reg
  <2> QED BY <1>0, <2>1, <2>2 DEF Said, K!Reg
<1>6. CASE K!SetIRC
  <2>1. /\ ircPc = "set" /\ ircPc' = "pump" /\ irc = 0 /\ irc' = dialed /\ dialed \in K!IRCs
        /\ wire' = K!Wired(dialed, outBuf) /\ UNCHANGED <<toIrc, corePc, outbox, link>>
    BY <1>0, <1>6, Coming DEF K!SetIRC, K!Flushed, K!servVars, K!sockVars, KeeperInv, Dialing
  <2>2. Unsaid' <=> Unsaid
    BY <2>1 DEF Unsaid, K!Reg
  <2>3. corePc # "write"
    <3>1. SUFFICES ASSUME corePc = "write" PROVE FALSE
      OBVIOUS
    <3>2. toIrc[1] \in K!IRCs /\ toIrc[1] = 0
      BY <1>0, <2>1, <3>1 DEF Said, KeeperInv, Seats
    <3> QED BY <3>2, KeeperSizes DEF K!IRCs
  <2>4. ASSUME Kept PROVE Arrived'
    <3>1. PICK i, x : i = dialed /\ x = K!Reg(served)
      OBVIOUS
    <3>2. ASSUME link[i] = "up" PROVE \E k \in 1..Len(wire'[i]) : wire'[i][k] = x
      <4>1. outBuf \in Seq(Outbound) /\ i \in K!IRCs /\ \E k \in 1..Len(outBuf) : outBuf[k] = x
        BY <2>1, <2>4, <3>1 DEF Kept, KeeperInv, KeeperType, QueueTypes
      <4>2. wire' = K!Wired(i, outBuf)
        BY <2>1, <3>1
      <4> QED BY <3>2, <4>1, <4>2, ArrivedMore
    <3> QED BY <2>1, <3>1, <3>2, KeeperSizes DEF Arrived, K!Reg, K!IRCs
  <2>5. ~Arrived
    BY <2>1 DEF Arrived
  <2> QED BY <1>0, <2>1, <2>2, <2>3, <2>4, <2>5 DEF Said
<1>7. CASE K!PumpIRCEnds
  <2>1. ircPc # "drop" /\ UNCHANGED <<irc, toIrc, corePc, outbox, outBuf, link, wire>>
    BY <1>7 DEF K!PumpIRCEnds, K!servVars, K!sockVars
  <2>2. (Unsaid' <=> Unsaid) /\ (Kept' <=> Kept) /\ (Arrived' <=> Arrived)
    BY <2>1 DEF Unsaid, Kept, Arrived, K!Reg
  <2> QED BY <1>0, <2>1, <2>2 DEF Said, K!Reg
<1>8. CASE K!UnsetIRC
  <2>1. ircPc' = "drop"
    BY <1>8 DEF K!UnsetIRC
  <2> QED BY <2>1 DEF Said
<1>9. CASE K!DropSession
  <2>1. cut' = K!Cut(core) /\ mu = "free" /\ UNCHANGED <<core, corePc>>
    BY <1>9 DEF K!DropSession, K!Unlocked, K!servVars
  <2>2. core # served \/ core = 0
    <3>1. core # 0 => cut'[core]
      BY <2>1, Coming DEF K!Cut, KeeperInv, KeeperType, CoreTypes
    <3> QED BY <3>1 DEF K!Broken
  <2>3. core = 0
    BY <2>2 DEF KeeperInv, Seats
  <2>4. corePc \notin {"flush", "pump", "read", "write"}
    BY <1>0, <2>1, <2>3 DEF KeeperInv, Seats, Serving
  <2> QED BY <2>1, <2>4 DEF Said
<1>10. CASE K!Accept
  <2>1. corePc' \notin {"flush", "pump", "read", "write"}
    BY <1>10 DEF K!Accept
  <2> QED BY <2>1 DEF Said
<1>11. CASE K!AttachCore
  <2>1. corePc = "attach" /\ corePc' \in {"pump", "flush"} /\ UNCHANGED <<outbox, served>>
    BY <1>11 DEF K!AttachCore
  <2>2. outbox[served] = <<K!Reg(served)>>
    BY <1>0, <2>1 DEF KeeperInv, Waiting, Waits
  <2>3. Unsaid'
    BY <2>1, <2>2 DEF Unsaid, K!Reg
  <2> QED BY <2>1, <2>3 DEF Said
<1>12. CASE K!FlushToCore
  <2>1. corePc = "flush" /\ corePc' \in {"pump", "flush"} /\ UNCHANGED <<outbox, irc, ircPc, outBuf, link, wire>>
    BY <1>12 DEF K!FlushToCore, K!ircVars
  <2>2. (Unsaid' <=> Unsaid) /\ (Kept' <=> Kept) /\ (Arrived' <=> Arrived)
    BY <2>1 DEF Unsaid, Kept, Arrived, K!Reg
  <2> QED BY <1>0, <2>1, <2>2 DEF Said
<1>13. CASE K!ReadCore
  <2>1. corePc = "pump" /\ corePc' = "read" /\ UNCHANGED <<irc, ircPc, outBuf, link, wire>> /\ toIrc' = <<0, Head(outbox[served])>>
    BY <1>13 DEF K!ReadCore, K!ircVars
  <2>2. (Kept' <=> Kept) /\ (Arrived' <=> Arrived)
    BY <2>1 DEF Kept, Arrived, K!Reg
  <2>3. Unsaid => Unsaid'
    <3>1. PICK h : h = Head(outbox[served])
      OBVIOUS
    <3>2. outbox[served] # <<>> => h = outbox[served][1]
      BY <1>0, <3>1, OneLess DEF KeeperInv, KeeperType, SocketTypes
    <3> QED BY <2>1, <3>1, <3>2 DEF Unsaid, K!Reg
  <2> QED BY <1>0, <2>1, <2>2, <2>3 DEF Said
<1>14. CASE K!ToIRC
  <2>1. corePc = "read" /\ UNCHANGED <<irc, ircPc, link, wire, core>>
    BY <1>14 DEF K!ToIRC, K!ircVars
  <2>2. Arrived' <=> Arrived
    BY <2>1 DEF Arrived, K!Reg
  <2>3. CASE irc # 0 /\ toIrc' = <<irc, toIrc[2]>> /\ corePc' = "write" /\ UNCHANGED outBuf
    <3>1. Kept' <=> Kept
      BY <2>3 DEF Kept, K!Reg
    <3>2. Unsaid => toIrc'[2] = K!Reg(served) /\ served' = served
      BY <2>1, <2>3 DEF Unsaid
    <3> QED BY <1>0, <2>1, <2>2, <2>3, <3>1, <3>2 DEF Said, K!Reg
  <2>4. CASE irc = 0 /\ outBuf' = K!Held(toIrc[2]) /\ corePc' = "pump"
    <3>1. PICK x, t : x = toIrc[2] /\ t = Append(outBuf, x)
      OBVIOUS
    <3>2. /\ Len(t) = Len(outBuf) + 1 /\ Len(outBuf) \in Nat
          /\ t[Len(t)] = x /\ \A i \in 1..Len(outBuf) : t[i] = outBuf[i]
      <4>1. x \in Outbound
        BY <2>1, <3>1 DEF KeeperInv, Seats
      <4> QED BY <3>1, <4>1, OneMore DEF KeeperInv, KeeperType, QueueTypes
    <3>3. outBuf' \in {outBuf, t}
      BY <2>4, <3>1 DEF K!Held
    <3>4. Kept => Kept'
      <4>1. ASSUME Kept, outBuf' = t PROVE Kept'
        <5>1. PICK k \in 1..Len(outBuf) : outBuf[k] = K!Reg(served)
          BY <4>1 DEF Kept
        <5>2. k \in 1..Len(t) /\ t[k] = K!Reg(served)
          BY <3>2, <5>1
        <5> QED BY <4>1, <5>2 DEF Kept, K!Reg
      <4>2. ASSUME Kept, outBuf' = outBuf PROVE Kept'
        BY <4>2 DEF Kept, K!Reg
      <4> QED BY <3>3, <4>1, <4>2
    <3>5. ASSUME Unsaid PROVE Kept'
      <4>1. core # 0
        BY <1>0, <2>1 DEF KeeperInv, Seats, Serving
      <4>2. Len(outBuf) <= 1 + MaxLines /\ ~outDropped
        BY <1>0, <3>5, <4>1 DEF Spare
      <4>3. outBuf' = t
        BY <2>4, <3>1, <3>2, <4>2, KeeperSizes DEF K!Held, Roomy
      <4>4. x = K!Reg(served)
        BY <2>1, <3>1, <3>5 DEF Unsaid
      <4>5. Len(t) \in 1..Len(t)
        BY <3>2
      <4> QED BY <3>2, <4>3, <4>4, <4>5 DEF Kept, K!Reg
    <3> QED BY <1>0, <2>1, <2>2, <2>4, <3>4, <3>5 DEF Said
  <2> QED BY <1>14, <2>3, <2>4 DEF K!ToIRC
<1>15. CASE K!WriteIRC
  <2>1. /\ corePc = "write" /\ corePc' = "pump" /\ UNCHANGED <<irc, ircPc, link, outBuf, outbox>>
        /\ wire' = K!Wired(toIrc[1], <<toIrc[2]>>)
    BY <1>15 DEF K!WriteIRC, K!ircVars, K!sockVars
  <2>2. (Kept' <=> Kept) /\ ~Unsaid
    BY <2>1 DEF Kept, Unsaid, K!Reg
  <2>3. ASSUME ircPc # "drop", Arrived \/ toIrc[2] = K!Reg(served)
        PROVE  Arrived'
    <3>1. PICK i, x, y, q : i = toIrc[1] /\ x = toIrc[2] /\ y = K!Reg(served) /\ q = <<x>>
      OBVIOUS
    <3>2. i \in K!IRCs /\ x \in Outbound /\ i = irc
      BY <1>0, <2>1, <2>3, <3>1 DEF Said, KeeperInv, Seats
    <3>3. q \in Seq(Outbound) /\ Len(q) = 1 /\ q[1] = x
      BY <3>1, <3>2
    <3>4. ASSUME link[i] = "up"
          PROVE  \E k \in 1..Len(wire'[i]) : wire'[i][k] = y
      <4>1. (\E k \in 1..Len(wire[i]) : wire[i][k] = y) \/ (\E k \in 1..Len(q) : q[k] = y)
        BY <2>3, <3>1, <3>2, <3>3, <3>4 DEF Arrived
      <4>2. wire' = K!Wired(i, q)
        BY <2>1, <3>1
      <4>3. PICK w : w = wire'
        OBVIOUS
      <4>4. w = K!Wired(i, q) /\ i \in K!IRCs /\ q \in Seq(Outbound)
        BY <3>2, <3>3, <4>2, <4>3
      <4>5. CASE \E k \in 1..Len(wire[i]) : wire[i][k] = y
        <5>1. \E k \in 1..Len(K!Wired(i, q)[i]) : K!Wired(i, q)[i][k] = y
          BY <3>4, <4>4, <4>5, ArrivedMore
        <5> QED BY <4>3, <4>4, <5>1
      <4>6. CASE \E k \in 1..Len(q) : q[k] = y
        <5>1. \E k \in 1..Len(K!Wired(i, q)[i]) : K!Wired(i, q)[i][k] = y
          BY <3>4, <4>4, <4>6, ArrivedMore
        <5> QED BY <4>3, <4>4, <5>1
      <4> QED BY <4>1, <4>5, <4>6
    <3> QED BY <2>1, <3>1, <3>2, <3>4, KeeperSizes DEF Arrived, K!Reg, K!IRCs
  <2> QED BY <1>0, <2>1, <2>2, <2>3 DEF Said
<1>16. CASE K!PumpCoreEnds
  <2>1. corePc' \notin {"flush", "pump", "read", "write"}
    BY <1>16 DEF K!PumpCoreEnds
  <2> QED BY <2>1 DEF Said
<1>17. CASE K!DetachCore
  <2>1. corePc' \notin {"flush", "pump", "read", "write"}
    BY <1>17 DEF K!DetachCore
  <2> QED BY <2>1 DEF Said
<1>18. CASE K!CloseConns
  BY <1>18 DEF K!CloseConns
<1>19. CASE K!CoreConnects
  <2>1. UNCHANGED <<ircPc, irc, toIrc, corePc, outBuf, link, wire>>
    BY <1>19 DEF K!CoreConnects, K!keeperVars, K!ircVars, K!servVars
  <2>2. served # made + 1
    BY KeeperSizes DEF KeeperInv, KeeperType, CoreTypes
  <2>3. outbox'[served] = outbox[served]
    BY <1>0, <1>19, <2>2 DEF K!CoreConnects, KeeperInv, KeeperType, SocketTypes
  <2>4. (Unsaid' <=> Unsaid) /\ (Kept' <=> Kept) /\ (Arrived' <=> Arrived)
    BY <2>1, <2>3 DEF Unsaid, Kept, Arrived, K!Reg
  <2> QED BY <1>0, <2>1, <2>4 DEF Said, K!Reg
<1>20. CASE K!LinkFails
  <2>1. UNCHANGED <<ircPc, irc, toIrc, corePc, outBuf, outbox, wire>>
    BY <1>20 DEF K!LinkFails, K!keeperVars, K!servVars, K!sockVars
  <2>2. Arrived => Arrived'
    <3>1. irc # 0 /\ link'[irc] = "up" => link[irc] = "up"
      BY <1>20, Coming DEF K!LinkFails, KeeperInv, KeeperType, LinkTypes
    <3> QED BY <2>1, <3>1 DEF Arrived, K!Reg
  <2>3. (Unsaid' <=> Unsaid) /\ (Kept' <=> Kept)
    BY <2>1 DEF Unsaid, Kept, K!Reg
  <2> QED BY <1>0, <2>1, <2>2, <2>3 DEF Said, K!Reg
<1>21. ASSUME NEW p \in K!Cores, K!CoreSpeaks(p) PROVE Said'
  <2>1. /\ UNCHANGED <<ircPc, irc, toIrc, corePc, outBuf, link, wire>>
        /\ outbox' = [outbox EXCEPT ![p] = Append(@, K!Say(p))] /\ outbox \in [K!Cores -> Seq(Outbound)]
    BY <1>21 DEF K!CoreSpeaks, K!keeperVars, K!ircVars, K!servVars, KeeperInv, KeeperType,
       SocketTypes
  <2>2. (Kept' <=> Kept) /\ (Arrived' <=> Arrived)
    BY <2>1 DEF Kept, Arrived, K!Reg
  <2>3. Unsaid => Unsaid'
    <3>1. CASE p = served
      <4>1. PICK x, q, t : x = K!Say(p) /\ q = outbox[p] /\ t = Append(q, x)
        OBVIOUS
      <4>2. x \in Outbound /\ q \in Seq(Outbound)
        BY <2>1, <4>1 DEF K!Say, Outbound, K!Cores
      <4>3. t # <<>> /\ Len(q) \in Nat /\ \A i \in 1..Len(q) : t[i] = q[i]
        BY <4>1, <4>2, OneMore
      <4>4. q # <<>> => t[1] = q[1]
        BY <4>2, <4>3, EmptySeq
      <4>5. outbox'[served] = t
        BY <2>1, <3>1, <4>1
      <4> QED BY <2>1, <3>1, <4>1, <4>3, <4>4, <4>5 DEF Unsaid, K!Reg
    <3>2. CASE p # served
      <4>1. outbox'[served] = outbox[served]
        BY <1>0, <2>1, <3>2
      <4> QED BY <2>1, <4>1 DEF Unsaid, K!Reg
    <3> QED BY <3>1, <3>2
  <2> QED BY <1>0, <2>1, <2>2, <2>3 DEF Said, K!Reg
<1> QED BY <1>1, <1>2, <1>3, <1>4, <1>5, <1>6, <1>7, <1>8, <1>9, <1>10, <1>11, <1>12, <1>13,
   <1>14, <1>15, <1>16, <1>17, <1>18, <1>19, <1>20, <1>21 DEF K!Next

(* No core is left attached and mute: its registration reached the         *)
(* connection that is up, if a core's output fits in what is held for it   *)
(* (toIRC, setIRC, detachCore).                                            *)
THEOREM RegistrationHolds ==
  ASSUME Roomy
  PROVE  K!Spec => []K!RegistrationArrives
<1>1. ASSUME K!Init PROVE Registering
  <2>1. Len(<<>>) = 0
    OBVIOUS
  <2> QED BY <1>1, <2>1, KeeperSizes DEF K!Init, Registering, Spare, Serving
<1>2. ASSUME KeeperInv, KeeperInv', Registering, K!Next PROVE Registering'
  <2>1. SUFFICES ASSUME ctx' = "running"
                 PROVE  Spare' /\ (served' # 0 /\ ~K!Broken(served)' => Said')
    BY DEF Registering, K!Broken
  <2>2. ctx = "running"
    BY <1>2, <2>1 DEF K!Next, K!Dial, K!SleepOver, K!SetIRC, K!ReadIRC, K!ToCore, K!Probe,
       K!PumpIRCEnds, K!UnsetIRC,
       K!DropSession, K!Accept, K!AttachCore, K!FlushToCore, K!ReadCore, K!ToIRC, K!WriteIRC, K!PumpCoreEnds, K!DetachCore,
       K!Cancel, K!Goodbye, K!CloseConns, K!CoreConnects, K!LinkFails, K!CoreReads, K!CoreSpeaks, K!CoreGoes, K!keeperVars
  <2>3. Spare'
    BY <1>2, <2>1, SpareStep
  <2>4. ASSUME served' # 0, ~K!Broken(served)' PROVE Said'
    <3>1. CASE served' = served
      BY <1>2, <2>1, <2>2, <2>4, <3>1, SaidStep
    <3>2. CASE served' # served
      <4>1. corePc' = "attach"
        BY <1>2, <2>4, <3>2 DEF K!Next, K!Dial, K!SleepOver, K!SetIRC, K!ReadIRC, K!ToCore,
           K!Probe, K!PumpIRCEnds, K!UnsetIRC,
           K!DropSession, K!Accept, K!AttachCore, K!FlushToCore, K!ReadCore, K!ToIRC, K!WriteIRC, K!PumpCoreEnds, K!DetachCore,
           K!Cancel, K!Goodbye, K!CloseConns, K!CoreConnects, K!LinkFails, K!CoreReads, K!CoreSpeaks, K!CoreGoes, K!servVars
      <4> QED BY <4>1 DEF Said
    <3> QED BY <3>1, <3>2
  <2> QED BY <2>3, <2>4
<1>3. ASSUME Registering, UNCHANGED K!vars PROVE Registering'
  BY <1>3 DEF K!vars, K!ircVars, K!servVars, K!sockVars, Registering, Spare, Left, Carried,
     Unread, Unsaid, Said,
     Kept, Arrived, K!Broken, Serving, K!Reg
<1>4. ASSUME KeeperInv, Registering PROVE K!RegistrationArrives
  <2>1. SUFFICES ASSUME K!Settled PROVE \E k \in 1..Len(wire[irc]) : wire[irc][k] = K!Reg(served)
    BY DEF K!RegistrationArrives
  <2>2. served # 0 /\ ~K!Broken(served) /\ ~closed /\ irc # 0 /\ outBuf = <<>>
    <3>1. served # 0 /\ ~closed /\ ~K!Broken(served) /\ ctx = "running" /\ ircPc = "pump"
      BY <1>4, <2>1 DEF K!Settled, K!Broken, KeeperInv, Seats, KeeperType, LinkTypes
    <3> QED BY <1>4, <3>1, PumpingHeld
  <2>3. Said
    BY <1>4, <2>1, <2>2 DEF Registering, K!Settled
  <2>4. ~Kept
    <3>1. Len(<<>>) = 0
      OBVIOUS
    <3> QED BY <2>2, <3>1 DEF Kept
  <2> QED BY <2>1, <2>3, <2>4 DEF K!Settled, Said, Unsaid, Arrived
<1> QED BY <1>1, <1>2, <1>3, <1>4, KeeperInvHolds, PTL DEF K!Spec

(***************************************************************************)
(* The session.  Mirrors speaks of the moments all lines are handled; the  *)
(* invariant, MirrorInv, says of every channel that the lines still in the *)
(* pipe tell its history, from the members the session knows to those the  *)
(* server has.  It comes last.                                             *)
(***************************************************************************)
Names == Nicks \cup {NoNick}
Places == Channels \cup {NoChannel}
OfChannel == {"JOIN", "PART", "KICK", "TOPIC", "NAMES", "ENDOFNAMES"}

Commands == {"NICK", "USER", "JOIN", "NAMES", "PART"}
Messages == {"JOIN", "PART", "KICK", "QUIT", "NICK", "TOPIC", "NAMES", "ENDOFNAMES",
             "NICKINUSE", "WELCOME"}

Asked == {x \in [kind : Commands, nick : Names, ch : Places] :
             /\ x.kind \in OfChannel => x.ch \in Channels
             /\ x.kind = "NICK" => x.nick \in Nicks}
Told == {l \in [kind : Messages, nick : Names, to : Names, ch : Places, list : SUBSET Nicks,
                me : Names, gen : Nat] :
             /\ l.kind \in OfChannel => l.ch \in Channels
             /\ l.kind = "JOIN" => l.nick \in Nicks
             /\ l.kind = "NICK" => l.to \in Nicks}

SessionType ==
    /\ nick \in Nicks /\ welcomed \in BOOLEAN
    /\ chans \subseteq Channels /\ answered \subseteq Channels
    /\ members \in [Channels -> SUBSET Nicks] /\ pending \in [Channels -> SUBSET Nicks]
    /\ channels \in Seq(Channels)
    /\ out \in Seq(Asked) /\ pipe \in Seq(Told)
    /\ sessions \in Nat /\ disputed \in BOOLEAN /\ gotUser \in BOOLEAN
    /\ sNick \in Names /\ online \subseteq UserNicks
    /\ present \in [Channels -> SUBSET Nicks]

(* What the server knows fits together.                                    *)
ServerWhole ==
    /\ sNick \notin online
    /\ \A ch \in Channels : present[ch] \subseteq online \cup {sNick}
    /\ ~gotUser =>
        /\ sNick \in {NoNick, CfgNick} /\ out # <<>>
        /\ \/ out[1].kind = "USER"
           \/ /\ out[1].kind = "NICK" /\ out[1].nick = CfgNick
              /\ Len(out) > 1 /\ out[2].kind = "USER"

(* The bot's nick and the members of a channel before line i of the pipe,  *)
(* z and the last of S behind the last one.                                *)
MeAt(p, z, i) == IF i <= Len(p) THEN p[i].me ELSE z
IsIn(p, z, S, i) == MeAt(p, z, i) \in S[i]

NickPast(l) == IF l.kind = "NICK" /\ l.nick = l.me THEN l.to ELSE l.me

NicksFollow(p, z) ==
    \A i \in 1..Len(p) :
        /\ p[i].me # NoNick => MeAt(p, z, i + 1) = NickPast(p[i])
        /\ p[i].me = NoNick => p[i].kind = "NICKINUSE"

GensFollow(p, g) ==
    \A i \in 1..Len(p) : p[i].gen <= g /\ \A j \in i..Len(p) : p[i].gen <= p[j].gen

(* A list comes in two lines and an end, one behind the other.             *)
PartOf(l, ch) == l.kind = "NAMES" /\ l.ch = ch
EndOf(l, ch) == l.kind = "ENDOFNAMES" /\ l.ch = ch
BurstsWhole(p) ==
    \A i \in 1..Len(p) : \A ch \in Channels : PartOf(p[i], ch) =>
        /\ i < Len(p)
        /\ \/ EndOf(p[i + 1], ch)
           \/ PartOf(p[i + 1], ch) /\ i + 1 < Len(p) /\ EndOf(p[i + 2], ch)

NickKnown ==
    ~disputed =>
        /\ sNick # NoNick =>
            /\ nick = MeAt(pipe, sNick, 1)
            /\ \A i \in 1..Len(pipe) : pipe[i].me # NoNick /\ pipe[i].kind # "NICKINUSE"
        /\ sNick = NoNick =>
            /\ \A i \in 1..Len(pipe) : pipe[i].kind = "NICKINUSE"
            /\ \/ /\ pipe = <<>>
                  /\ \E i \in 1..Len(out) :
                        /\ out[i].kind = "NICK" /\ out[i].nick = nick
                        /\ \A j \in 1..Len(out) : out[j].kind = "NICK" => j = i
               \/ /\ Len(pipe) = 1
                  /\ \A j \in 1..Len(out) : out[j].kind # "NICK"

(* A list is pending only in the middle of one.                            *)
PendingShort ==
    \A ch \in Channels : pending[ch] # {} =>
        /\ pipe # <<>>
        /\ \/ EndOf(pipe[1], ch)
           \/ PartOf(pipe[1], ch) /\ Len(pipe) > 1 /\ EndOf(pipe[2], ch)

AnswersFresh ==
    /\ answered \subseteq chans
    /\ answered # {} => \A i \in 1..Len(pipe) : pipe[i].gen = sessions

(* What a line says of the members of a channel.                           *)
Says(l, ch, s) ==
    IF l.kind = "JOIN" /\ l.ch = ch THEN s \cup {l.nick}
    ELSE IF l.kind = "PART" /\ l.ch = ch THEN s \ {l.nick}
    ELSE IF l.kind = "KICK" /\ l.ch = ch THEN s \ {l.to}
    ELSE IF l.kind = "QUIT" THEN s \ {l.nick}
    ELSE IF l.kind = "NICK" /\ l.nick \in s THEN (s \ {l.nick}) \cup {l.to}
    ELSE s
OwnJoin(l, ch) == l.kind = "JOIN" /\ l.ch = ch /\ l.nick = l.me

(* S is a history of the channel the lines of the pipe are about: while the *)
(* bot is in it they tell everything, and it comes in by a JOIN of its own. *)
Follows(p, z, S, ch) ==
    \A i \in 1..Len(p) : IsIn(p, z, S, i + 1) =>
        /\ IsIn(p, z, S, i) => S[i + 1] = Says(p[i], ch, S[i])
        /\ ~IsIn(p, z, S, i) => OwnJoin(p[i], ch)

(* The list that ends in a line, with what is pending of it, is exact.     *)
ListsExact(p, z, S, ch, pend, g) ==
    \A i \in 1..Len(p) : EndOf(p[i], ch) /\ p[i].gen = g /\ IsIn(p, z, S, i) =>
        \/ i = 1 /\ pend = S[1]
        \/ i = 2 /\ PartOf(p[1], ch) /\ pend \cup p[1].list = S[2]
        \/ /\ i > 2 /\ PartOf(p[i - 1], ch) /\ PartOf(p[i - 2], ch)
           /\ p[i - 2].list \cup p[i - 1].list = S[i]

(* No list of this session is under way to a channel it does not track,    *)
(* unless the bot was out of it meanwhile.                                 *)
NotAsked(ch) == \A j \in 1..Len(out) : out[j].kind \in {"JOIN", "NAMES"} => out[j].ch # ch
NoListFor(p, z, S, ch, g) ==
    \A i \in 1..Len(p) : EndOf(p[i], ch) /\ p[i].gen = g => \E k \in 1..i : ~IsIn(p, z, S, k)

Histories == [1..(Len(pipe) + 1) -> SUBSET Nicks]
Fits(S, ch) ==
    /\ S[Len(pipe) + 1] = present[ch]
    /\ Follows(pipe, sNick, S, ch)
    /\ ~disputed =>
        /\ ch \in answered /\ IsIn(pipe, sNick, S, 1) => members[ch] = S[1]
        /\ ListsExact(pipe, sNick, S, ch, pending[ch], sessions)
        /\ IsIn(pipe, sNick, S, 1) /\ ch \notin chans =>
            /\ NotAsked(ch) /\ NoListFor(pipe, sNick, S, ch, sessions)
            /\ welcomed => ch \notin Range(channels)
Mirrored == \A ch \in Channels : \E S \in Histories : Fits(S, ch)

LinesFollow ==
    /\ NicksFollow(pipe, sNick) /\ GensFollow(pipe, sessions) /\ BurstsWhole(pipe)

MirrorInv ==
    /\ SessionType /\ ServerWhole /\ LinesFollow /\ NickKnown /\ PendingShort
    /\ AnswersFresh /\ NothingLeft /\ Mirrored

LEMMA MirrorImplies == MirrorInv => Mirrors
<1> SUFFICES ASSUME MirrorInv PROVE Mirrors
  OBVIOUS
<1> USE DEF MirrorInv
<1>1. NothingLeft
  OBVIOUS
<1>2. NickAgrees
  <2> SUFFICES ASSUME pipe = <<>>, sNick # NoNick, ~disputed PROVE nick = sNick
    BY DEF NickAgrees, Registered
  <2>1. Len(pipe) = 0
    OBVIOUS
  <2> QED BY <2>1 DEF NickKnown, MeAt
<1>3. ASSUME NEW ch \in Channels, pipe = <<>>, ~disputed, Seen(ch)
      PROVE  /\ ch \in answered => members[ch] = present[ch]
             /\ welcomed /\ ch \in Range(channels) => ch \in chans
  <2>1. Len(pipe) = 0
    BY <1>3
  <2>2. PICK S \in Histories : Fits(S, ch)
    BY DEF Mirrored
  <2>3. S[1] = present[ch] /\ IsIn(pipe, sNick, S, 1)
    BY <2>1, <2>2, <1>3 DEF Fits, IsIn, MeAt, Seen
  <2> QED BY <2>2, <2>3, <1>3 DEF Fits
<1>4. MembersAgree
  BY <1>3 DEF MembersAgree, SessionType
<1>5. TrackedWhereIn
  <2>1. Range(channels) \subseteq Channels
    BY RangeOfSeq DEF SessionType
  <2> QED BY <2>1, <1>3 DEF TrackedWhereIn
<1> QED BY <1>1, <1>2, <1>4, <1>5 DEF Mirrors

LEMMA Behind ==
  ASSUME NEW A, NEW p \in Seq(A), NEW q \in Seq(A)
  PROVE  /\ p \o q \in Seq(A) /\ Len(p) \in Nat /\ Len(q) \in Nat
         /\ Len(p \o q) = Len(p) + Len(q)
         /\ \A i \in 1..Len(p) : (p \o q)[i] = p[i]
         /\ \A i \in 1..Len(q) : (p \o q)[Len(p) + i] = q[i]
BY ConcatProperties

LEMMA OneAdded ==
  ASSUME NEW A, NEW p \in Seq(A), NEW x \in A
  PROVE  /\ Append(p, x) \in Seq(A) /\ Append(p, x) = p \o <<x>> /\ <<x>> \in Seq(A)
         /\ Len(p) \in Nat /\ Len(Append(p, x)) = Len(p) + 1
         /\ \A i \in 1..Len(p) : Append(p, x)[i] = p[i]
         /\ Append(p, x)[Len(p) + 1] = x
BY AppendProperties

LEMMA OneTaken ==
  ASSUME NEW A, NEW p \in Seq(A), p # <<>>
  PROVE  /\ Head(p) = p[1] /\ p[1] \in A /\ Tail(p) \in Seq(A)
         /\ Len(p) \in Nat /\ Len(p) > 0 /\ Len(Tail(p)) = Len(p) - 1
         /\ \A i \in 1..Len(Tail(p)) : Tail(p)[i] = p[i + 1]
BY HeadTailProperties, EmptySeq

(* A suffix of the pipe, as HandleLine and a resumed session leave it, and  *)
(* of the history.                                                         *)
SuffixOf(q, p, d) ==
    /\ d \in 0..Len(p) /\ Len(q) = Len(p) - d
    /\ \A i \in 1..Len(q) : q[i] = p[i + d]
Shifted(R, S, d, n) == \A i \in 1..(n + 1) : R[i] = S[i + d]

LEMMA SuffixMe ==
  ASSUME NEW p, NEW q, NEW z, NEW S, NEW R, NEW d, SuffixOf(q, p, d), Len(p) \in Nat,
         Shifted(R, S, d, Len(q))
  PROVE  \A i \in 1..(Len(q) + 1) :
            /\ MeAt(q, z, i) = MeAt(p, z, i + d)
            /\ IsIn(q, z, R, i) <=> IsIn(p, z, S, i + d)
            /\ R[i] = S[i + d] /\ i + d \in 1..(Len(p) + 1)
            /\ i <= Len(q) => i + d \in 1..Len(p) /\ q[i] = p[i + d]
<1> SUFFICES ASSUME NEW i \in 1..(Len(q) + 1)
             PROVE  /\ MeAt(q, z, i) = MeAt(p, z, i + d)
                    /\ IsIn(q, z, R, i) <=> IsIn(p, z, S, i + d)
                    /\ R[i] = S[i + d] /\ i + d \in 1..(Len(p) + 1)
                    /\ i <= Len(q) => i + d \in 1..Len(p) /\ q[i] = p[i + d]
  OBVIOUS
<1>1. /\ d \in Nat /\ Len(q) = Len(p) - d /\ d <= Len(p)
      /\ \A k \in 1..Len(q) : q[k] = p[k + d]
  BY DEF SuffixOf
<1>2. MeAt(q, z, i) = MeAt(p, z, i + d)
  BY <1>1 DEF MeAt
<1>3. R[i] = S[i + d]
  BY DEF Shifted
<1> QED BY <1>1, <1>2, <1>3 DEF IsIn

LEMMA SuffixLines ==
  ASSUME NEW p, NEW q, NEW z, NEW d, NEW g \in Nat, SuffixOf(q, p, d), Len(p) \in Nat,
         NicksFollow(p, z), GensFollow(p, g), BurstsWhole(p),
         \A i \in 1..Len(p) : p[i].gen \in Nat
  PROVE  NicksFollow(q, z) /\ GensFollow(q, g) /\ BurstsWhole(q)
<1>1. /\ d \in Nat /\ Len(q) = Len(p) - d /\ d <= Len(p) /\ Len(q) \in Nat
      /\ \A k \in 1..Len(q) : q[k] = p[k + d] /\ k + d \in 1..Len(p)
  BY DEF SuffixOf
<1>2. NicksFollow(q, z)
  <2> SUFFICES ASSUME NEW i \in 1..Len(q)
               PROVE  /\ q[i].me # NoNick => MeAt(q, z, i + 1) = NickPast(q[i])
                      /\ q[i].me = NoNick => q[i].kind = "NICKINUSE"
    BY DEF NicksFollow
  <2>1. q[i] = p[i + d] /\ i + d \in 1..Len(p)
    BY <1>1
  <2>2. MeAt(q, z, i + 1) = MeAt(p, z, (i + d) + 1)
    BY <1>1 DEF MeAt
  <2> QED BY <2>1, <2>2 DEF NicksFollow
<1>3. GensFollow(q, g)
  <2> SUFFICES ASSUME NEW i \in 1..Len(q), NEW j \in i..Len(q)
               PROVE  q[i].gen <= g /\ q[i].gen <= q[j].gen
    BY <1>1 DEF GensFollow
  <2>1. q[i] = p[i + d] /\ i + d \in 1..Len(p) /\ q[j] = p[j + d] /\ j + d \in (i + d)..Len(p)
    BY <1>1
  <2> QED BY <2>1 DEF GensFollow
<1>4. BurstsWhole(q)
  <2> SUFFICES ASSUME NEW i \in 1..Len(q), NEW ch \in Channels, PartOf(q[i], ch)
               PROVE  /\ i < Len(q)
                      /\ \/ EndOf(q[i + 1], ch)
                         \/ PartOf(q[i + 1], ch) /\ i + 1 < Len(q) /\ EndOf(q[i + 2], ch)
    BY DEF BurstsWhole
  <2>1. q[i] = p[i + d] /\ i + d \in 1..Len(p)
    BY <1>1
  <2>2. /\ i + d < Len(p)
        /\ \/ EndOf(p[(i + d) + 1], ch)
           \/ PartOf(p[(i + d) + 1], ch) /\ (i + d) + 1 < Len(p) /\ EndOf(p[(i + d) + 2], ch)
    BY <2>1 DEF BurstsWhole
  <2>3. q[i + 1] = p[(i + d) + 1]
    <3>1. i + 1 \in 1..Len(q) /\ (i + 1) + d = (i + d) + 1
      BY <1>1, <2>2
    <3> QED BY <3>1, <1>1
  <2>4. (i + d) + 1 < Len(p) => i + 1 < Len(q) /\ q[i + 2] = p[(i + d) + 2]
    <3> SUFFICES ASSUME (i + d) + 1 < Len(p) PROVE i + 1 < Len(q) /\ q[i + 2] = p[(i + d) + 2]
      OBVIOUS
    <3>1. i + 2 \in 1..Len(q) /\ (i + 2) + d = (i + d) + 2
      BY <1>1
    <3> QED BY <3>1, <1>1
  <2> QED BY <1>1, <2>2, <2>3, <2>4
<1> QED BY <1>2, <1>3, <1>4

LEMMA SuffixFollows ==
  ASSUME NEW p, NEW q, NEW z, NEW S, NEW R, NEW d, NEW ch, SuffixOf(q, p, d), Len(p) \in Nat,
         Shifted(R, S, d, Len(q)), Follows(p, z, S, ch)
  PROVE  Follows(q, z, R, ch)
<1> SUFFICES ASSUME NEW i \in 1..Len(q), IsIn(q, z, R, i + 1)
             PROVE  /\ IsIn(q, z, R, i) => R[i + 1] = Says(q[i], ch, R[i])
                    /\ ~IsIn(q, z, R, i) => OwnJoin(q[i], ch)
  BY DEF Follows
<1>0. d \in Nat /\ Len(q) \in Nat /\ i \in 1..(Len(q) + 1) /\ i + 1 \in 1..(Len(q) + 1)
  BY DEF SuffixOf
<1>a. \A k \in 1..(Len(q) + 1) :
         /\ IsIn(q, z, R, k) <=> IsIn(p, z, S, k + d)
         /\ R[k] = S[k + d]
         /\ k <= Len(q) => k + d \in 1..Len(p) /\ q[k] = p[k + d]
  BY SuffixMe
<1>1. /\ R[i] = S[i + d] /\ i + d \in 1..Len(p) /\ q[i] = p[i + d]
      /\ IsIn(q, z, R, i) <=> IsIn(p, z, S, i + d)
  BY <1>0, <1>a
<1>2. R[i + 1] = S[(i + d) + 1] /\ (IsIn(q, z, R, i + 1) <=> IsIn(p, z, S, (i + d) + 1))
  <2>1. (i + 1) + d = (i + d) + 1
    BY <1>0
  <2> QED BY <2>1, <1>0, <1>a
<1> QED BY <1>1, <1>2 DEF Follows

(* More lines behind the pipe, and the history they go on with.            *)
GrownOf(p, q, o) ==
    /\ Len(o) = Len(p) + Len(q)
    /\ \A i \in 1..Len(p) : o[i] = p[i]
    /\ \A i \in 1..Len(q) : o[Len(p) + i] = q[i]
Onwards(Q, S, R, n, m) ==
    /\ \A i \in 1..n : Q[i] = S[i]
    /\ \A i \in 1..(m + 1) : Q[n + i] = R[i]
GoesOn(z, s, q, y, R) ==
    /\ z \in s <=> MeAt(q, y, 1) \in R[1]
    /\ z \in s => R[1] = s

Aligned(p, q, o, z, y, S, R, Q) ==
    /\ \A i \in 1..Len(p) : /\ MeAt(o, y, i) = MeAt(p, z, i) /\ Q[i] = S[i] /\ o[i] = p[i]
                            /\ IsIn(o, y, Q, i) <=> IsIn(p, z, S, i)
    /\ \A i \in 1..(Len(q) + 1) : /\ MeAt(o, y, Len(p) + i) = MeAt(q, y, i)
                                  /\ Q[Len(p) + i] = R[i]
                                  /\ IsIn(o, y, Q, Len(p) + i) <=> IsIn(q, y, R, i)
                                  /\ i <= Len(q) => o[Len(p) + i] = q[i]
    /\ IsIn(o, y, Q, Len(p) + 1) <=> IsIn(p, z, S, Len(p) + 1)

LEMMA GrownMe ==
  ASSUME NEW p, NEW q, NEW o, NEW z, NEW y, NEW S, NEW R, NEW Q,
         Len(p) \in Nat, Len(q) \in Nat, GrownOf(p, q, o),
         Onwards(Q, S, R, Len(p), Len(q)), GoesOn(z, S[Len(p) + 1], q, y, R)
  PROVE  Aligned(p, q, o, z, y, S, R, Q)
<1>1. ASSUME NEW i \in 1..Len(p)
      PROVE  /\ MeAt(o, y, i) = MeAt(p, z, i) /\ Q[i] = S[i] /\ o[i] = p[i]
             /\ IsIn(o, y, Q, i) <=> IsIn(p, z, S, i)
  <2>1. i <= Len(o) /\ i <= Len(p) /\ Q[i] = S[i] /\ o[i] = p[i]
    BY DEF GrownOf, Onwards
  <2> QED BY <2>1 DEF MeAt, IsIn
<1>2. ASSUME NEW i \in 1..(Len(q) + 1)
      PROVE  /\ MeAt(o, y, Len(p) + i) = MeAt(q, y, i)
             /\ Q[Len(p) + i] = R[i]
             /\ IsIn(o, y, Q, Len(p) + i) <=> IsIn(q, y, R, i)
             /\ i <= Len(q) => o[Len(p) + i] = q[i]
  <2>1. Q[Len(p) + i] = R[i] /\ (i <= Len(q) <=> Len(p) + i <= Len(o))
    BY DEF GrownOf, Onwards
  <2>2. i <= Len(q) => o[Len(p) + i] = q[i]
    BY DEF GrownOf
  <2> QED BY <2>1, <2>2 DEF MeAt, IsIn
<1>3. IsIn(o, y, Q, Len(p) + 1) <=> IsIn(p, z, S, Len(p) + 1)
  <2>1. 1 \in 1..(Len(q) + 1) /\ ~(Len(p) + 1 <= Len(p))
    OBVIOUS
  <2>2. IsIn(o, y, Q, Len(p) + 1) <=> IsIn(q, y, R, 1)
    BY <2>1, <1>2
  <2>3. MeAt(p, z, Len(p) + 1) = z
    BY <2>1 DEF MeAt
  <2> QED BY <2>2, <2>3 DEF GoesOn, IsIn
<1> QED BY <1>1, <1>2, <1>3 DEF Aligned

LEMMA GrownFollows ==
  ASSUME NEW p, NEW q, NEW o, NEW z, NEW y, NEW S, NEW R, NEW Q, NEW ch,
         Len(p) \in Nat, Len(q) \in Nat, GrownOf(p, q, o),
         Onwards(Q, S, R, Len(p), Len(q)), GoesOn(z, S[Len(p) + 1], q, y, R),
         Follows(p, z, S, ch), Follows(q, y, R, ch)
  PROVE  Follows(o, y, Q, ch)
<1> SUFFICES ASSUME NEW i \in 1..Len(o), IsIn(o, y, Q, i + 1)
             PROVE  /\ IsIn(o, y, Q, i) => Q[i + 1] = Says(o[i], ch, Q[i])
                    /\ ~IsIn(o, y, Q, i) => OwnJoin(o[i], ch)
  BY DEF Follows
<1>0. Len(o) = Len(p) + Len(q)
  BY DEF GrownOf
<1>m. Aligned(p, q, o, z, y, S, R, Q)
  BY GrownMe
<1>a. \A j \in 1..Len(p) : /\ Q[j] = S[j] /\ o[j] = p[j]
                           /\ IsIn(o, y, Q, j) <=> IsIn(p, z, S, j)
  BY <1>m DEF Aligned
<1>b. \A j \in 1..(Len(q) + 1) : /\ Q[Len(p) + j] = R[j]
                                 /\ IsIn(o, y, Q, Len(p) + j) <=> IsIn(q, y, R, j)
                                 /\ j <= Len(q) => o[Len(p) + j] = q[j]
  BY <1>m DEF Aligned
<1>c. IsIn(o, y, Q, Len(p) + 1) <=> IsIn(p, z, S, Len(p) + 1)
  BY <1>m DEF Aligned
<1>1. CASE i < Len(p)
  <2>1. i \in 1..Len(p) /\ i + 1 \in 1..Len(p)
    BY <1>1
  <2>2. IsIn(p, z, S, i + 1) /\ Q[i + 1] = S[i + 1]
    BY <2>1, <1>a
  <2> QED BY <2>1, <2>2, <1>a DEF Follows
<1>2. CASE i = Len(p)
  <2>1. i \in 1..Len(p) /\ i + 1 = Len(p) + 1 /\ 1 \in 1..(Len(q) + 1)
    BY <1>2
  <2>2. IsIn(p, z, S, Len(p) + 1)
    BY <2>1, <1>c
  <2>3. Q[Len(p) + 1] = S[Len(p) + 1]
    <3>1. ~(Len(p) + 1 <= Len(p))
      OBVIOUS
    <3>2. z \in S[Len(p) + 1]
      BY <2>2, <3>1 DEF IsIn, MeAt
    <3> QED BY <3>2, <2>1, <1>b DEF GoesOn
  <2> QED BY <2>1, <2>2, <2>3, <1>a DEF Follows
<1>3. CASE i > Len(p)
  <2>1. PICK j \in 1..Len(q) : i = Len(p) + j
    <3>1. i - Len(p) \in 1..Len(q) /\ i = Len(p) + (i - Len(p))
      BY <1>0, <1>3
    <3> QED BY <3>1
  <2>2. j \in 1..(Len(q) + 1) /\ j + 1 \in 1..(Len(q) + 1) /\ i + 1 = Len(p) + (j + 1)
    BY <2>1
  <2>3. IsIn(q, y, R, j + 1) /\ Q[i + 1] = R[j + 1]
    BY <2>2, <1>b
  <2>4. Q[i] = R[j] /\ o[i] = q[j] /\ (IsIn(o, y, Q, i) <=> IsIn(q, y, R, j))
    BY <2>1, <2>2, <1>b
  <2> QED BY <2>1, <2>3, <2>4 DEF Follows
<1> QED BY <1>1, <1>2, <1>3, <1>0

(* A list among the new lines is whole, or the bot is not in to see it.    *)
ListsNew(q, y, R, ch) ==
    \A i \in 1..Len(q) : EndOf(q[i], ch) /\ IsIn(q, y, R, i) =>
        /\ i > 2 /\ PartOf(q[i - 1], ch) /\ PartOf(q[i - 2], ch)
        /\ q[i - 2].list \cup q[i - 1].list = R[i]

LEMMA GrownLists ==
  ASSUME NEW p, NEW q, NEW o, NEW z, NEW y, NEW S, NEW R, NEW Q, NEW ch, NEW pend, NEW g,
         Len(p) \in Nat, Len(q) \in Nat, GrownOf(p, q, o),
         Onwards(Q, S, R, Len(p), Len(q)), GoesOn(z, S[Len(p) + 1], q, y, R),
         ListsExact(p, z, S, ch, pend, g), ListsNew(q, y, R, ch)
  PROVE  ListsExact(o, y, Q, ch, pend, g)
<1> SUFFICES ASSUME NEW i \in 1..Len(o), EndOf(o[i], ch), o[i].gen = g, IsIn(o, y, Q, i)
             PROVE  \/ i = 1 /\ pend = Q[1]
                    \/ i = 2 /\ PartOf(o[1], ch) /\ pend \cup o[1].list = Q[2]
                    \/ /\ i > 2 /\ PartOf(o[i - 1], ch) /\ PartOf(o[i - 2], ch)
                       /\ o[i - 2].list \cup o[i - 1].list = Q[i]
  BY DEF ListsExact
<1>0. Len(o) = Len(p) + Len(q)
  BY DEF GrownOf
<1>m. Aligned(p, q, o, z, y, S, R, Q)
  BY GrownMe
<1>a. \A j \in 1..Len(p) : /\ Q[j] = S[j] /\ o[j] = p[j]
                           /\ IsIn(o, y, Q, j) <=> IsIn(p, z, S, j)
  BY <1>m DEF Aligned
<1>b. \A j \in 1..(Len(q) + 1) : /\ Q[Len(p) + j] = R[j]
                                 /\ IsIn(o, y, Q, Len(p) + j) <=> IsIn(q, y, R, j)
                                 /\ j <= Len(q) => o[Len(p) + j] = q[j]
  BY <1>m DEF Aligned
<1>1. CASE i <= Len(p)
  <2>1. i \in 1..Len(p)
    BY <1>1
  <2>2. EndOf(p[i], ch) /\ p[i].gen = g /\ IsIn(p, z, S, i) /\ Q[i] = S[i]
    BY <2>1, <1>a
  <2>3. \A j \in 1..i : j \in 1..Len(p) /\ o[j] = p[j]
    BY <2>1, <1>a
  <2>4. i > 2 => i - 1 \in 1..i /\ i - 2 \in 1..i
    BY <2>1
  <2>5. i = 2 => 1 \in 1..i
    OBVIOUS
  <2> QED BY <2>1, <2>2, <2>3, <2>4, <2>5 DEF ListsExact
<1>2. CASE i > Len(p)
  <2>1. PICK j \in 1..Len(q) : i = Len(p) + j
    <3>1. i - Len(p) \in 1..Len(q) /\ i = Len(p) + (i - Len(p))
      BY <1>0, <1>2
    <3> QED BY <3>1
  <2>2. j \in 1..(Len(q) + 1)
    BY <2>1
  <2>3. Q[i] = R[j] /\ o[i] = q[j] /\ IsIn(q, y, R, j)
    BY <2>1, <2>2, <1>b
  <2>4. /\ j > 2 /\ PartOf(q[j - 1], ch) /\ PartOf(q[j - 2], ch)
        /\ q[j - 2].list \cup q[j - 1].list = R[j]
    BY <2>3 DEF ListsNew
  <2>5. /\ j - 1 \in 1..Len(q) /\ j - 2 \in 1..Len(q)
        /\ i - 1 = Len(p) + (j - 1) /\ i - 2 = Len(p) + (j - 2) /\ i > 2
    BY <2>1, <2>4
  <2>6. o[i - 1] = q[j - 1] /\ o[i - 2] = q[j - 2]
    <3>1. ASSUME NEW k \in 1..Len(q) PROVE o[Len(p) + k] = q[k]
      BY <1>b
    <3> QED BY <2>5, <3>1
  <2> QED BY <2>3, <2>4, <2>5, <2>6
<1> QED BY <1>1, <1>2, <1>0

LEMMA GrownNone ==
  ASSUME NEW p, NEW q, NEW o, NEW z, NEW y, NEW S, NEW R, NEW Q, NEW ch, NEW g,
         Len(p) \in Nat, Len(q) \in Nat, GrownOf(p, q, o),
         Onwards(Q, S, R, Len(p), Len(q)), GoesOn(z, S[Len(p) + 1], q, y, R),
         NoListFor(p, z, S, ch, g),
         \A i \in 1..Len(q) : EndOf(q[i], ch) => \E k \in 1..i : ~IsIn(q, y, R, k)
  PROVE  NoListFor(o, y, Q, ch, g)
<1> SUFFICES ASSUME NEW i \in 1..Len(o), EndOf(o[i], ch), o[i].gen = g
             PROVE  \E k \in 1..i : ~IsIn(o, y, Q, k)
  BY DEF NoListFor
<1>0. Len(o) = Len(p) + Len(q)
  BY DEF GrownOf
<1>m. Aligned(p, q, o, z, y, S, R, Q)
  BY GrownMe
<1>a. \A j \in 1..Len(p) : o[j] = p[j] /\ (IsIn(o, y, Q, j) <=> IsIn(p, z, S, j))
  BY <1>m DEF Aligned
<1>b. \A j \in 1..(Len(q) + 1) : /\ IsIn(o, y, Q, Len(p) + j) <=> IsIn(q, y, R, j)
                                 /\ j <= Len(q) => o[Len(p) + j] = q[j]
  BY <1>m DEF Aligned
<1>1. CASE i <= Len(p)
  <2>1. i \in 1..Len(p) /\ EndOf(p[i], ch) /\ p[i].gen = g
    BY <1>1, <1>a
  <2>2. PICK k \in 1..i : ~IsIn(p, z, S, k)
    BY <2>1 DEF NoListFor
  <2>3. k \in 1..Len(p)
    BY <2>1
  <2> QED BY <2>2, <2>3, <1>a
<1>2. CASE i > Len(p)
  <2>1. PICK j \in 1..Len(q) : i = Len(p) + j
    <3>1. i - Len(p) \in 1..Len(q) /\ i = Len(p) + (i - Len(p))
      BY <1>0, <1>2
    <3> QED BY <3>1
  <2>2. j \in 1..(Len(q) + 1) /\ EndOf(q[j], ch)
    BY <2>1, <1>b
  <2>3. PICK k \in 1..j : ~IsIn(q, y, R, k)
    BY <2>2
  <2>4. k \in 1..(Len(q) + 1) /\ Len(p) + k \in 1..i
    BY <2>1
  <2> QED BY <2>3, <2>4, <1>b
<1> QED BY <1>1, <1>2, <1>0

(* The session stands still while the server says more.                    *)
LEMMA Grows ==
  ASSUME SessionType, NEW ch \in Channels, NEW S \in Histories, Fits(S, ch),
         NEW q \in Seq(Told), pipe' = pipe \o q,
         NEW R \in [1..(Len(q) + 1) -> SUBSET Nicks], R[Len(q) + 1] = present'[ch],
         GoesOn(sNick, present[ch], q, sNick', R), Follows(q, sNick', R, ch),
         ListsNew(q, sNick', R, ch),
         \A i \in 1..Len(q) : EndOf(q[i], ch) =>
            ~NotAsked(ch) \/ \E k \in 1..i : ~IsIn(q, sNick', R, k),
         UNCHANGED <<members, pending, answered, chans, welcomed, sessions, channels>>,
         disputed => disputed', NotAsked(ch) => NotAsked(ch)'
  PROVE  \E Q \in Histories' : Fits(Q, ch)'
<1>1. pipe \in Seq(Told)
  BY DEF SessionType
<1> PICK n, m : n = Len(pipe) /\ m = Len(q)
  OBVIOUS
<1>2. /\ n \in Nat /\ m \in Nat /\ GrownOf(pipe, q, pipe') /\ Len(pipe') = n + m
  BY <1>1, Behind DEF GrownOf
<1> DEFINE Q == [i \in 1..((n + m) + 1) |-> IF i <= n THEN S[i] ELSE R[i - n]]
<1>3. S \in [1..(n + 1) -> SUBSET Nicks] /\ R \in [1..(m + 1) -> SUBSET Nicks]
  BY DEF Histories
<1>4. Q \in Histories'
  <2>1. ASSUME NEW i \in 1..((n + m) + 1)
        PROVE  (IF i <= n THEN S[i] ELSE R[i - n]) \in SUBSET Nicks
    <3>1. i <= n => i \in 1..(n + 1)
      BY <1>2
    <3>2. ~(i <= n) => i - n \in 1..(m + 1)
      BY <1>2
    <3> QED BY <1>3, <3>1, <3>2
  <2>2. Q \in [1..((n + m) + 1) -> SUBSET Nicks]
    BY <2>1
  <2> QED BY <2>2, <1>2 DEF Histories
<1>5. Onwards(Q, S, R, n, m)
  <2>1. ASSUME NEW i \in 1..n PROVE Q[i] = S[i]
    BY <1>2
  <2>2. ASSUME NEW i \in 1..(m + 1) PROVE Q[n + i] = R[i]
    <3>1. n + i \in 1..((n + m) + 1) /\ ~(n + i <= n) /\ (n + i) - n = i
      BY <1>2
    <3> QED BY <3>1
  <2> QED BY <2>1, <2>2 DEF Onwards
<1>6. Q[Len(pipe') + 1] = present'[ch]
  <2>1. Len(pipe') + 1 = n + (m + 1) /\ m + 1 \in 1..(m + 1)
    BY <1>2
  <2> QED BY <2>1, <1>5 DEF Onwards
<1> HIDE DEF Q
<1>7. /\ S[n + 1] = present[ch] /\ Follows(pipe, sNick, S, ch)
      /\ GoesOn(sNick, S[Len(pipe) + 1], q, sNick', R)
      /\ Onwards(Q, S, R, Len(pipe), Len(q)) /\ Len(pipe) \in Nat /\ Len(q) \in Nat
  BY <1>2, <1>5 DEF Fits
<1>8. Follows(pipe', sNick', Q, ch)
  BY <1>2, <1>7, GrownFollows
<1>9. Aligned(pipe, q, pipe', sNick, sNick', S, R, Q)
  BY <1>2, <1>7, GrownMe
<1>10. /\ IsIn(pipe', sNick', Q, 1) <=> IsIn(pipe, sNick, S, 1)
       /\ IsIn(pipe, sNick, S, 1) => Q[1] = S[1]
  <2>1. CASE n = 0
    <3>1. n + 1 = 1 /\ 1 \in 1..(m + 1)
      BY <2>1, <1>2
    <3>2. IsIn(pipe', sNick', Q, 1) <=> IsIn(pipe, sNick, S, 1)
      BY <3>1, <1>9 DEF Aligned
    <3>3. Q[1] = R[1] /\ S[1] = present[ch]
      BY <3>1, <1>9, <1>7 DEF Aligned
    <3>4. IsIn(pipe, sNick, S, 1) => sNick \in present[ch]
      BY <3>3, <2>1 DEF IsIn, MeAt
    <3> QED BY <3>2, <3>3, <3>4 DEF GoesOn
  <2>2. CASE n > 0
    <3>1. 1 \in 1..n
      BY <2>2, <1>2
    <3> QED BY <3>1, <1>9 DEF Aligned
  <2> QED BY <2>1, <2>2, <1>2
<1>11. ASSUME ~disputed'
       PROVE  /\ ch \in answered' /\ IsIn(pipe', sNick', Q, 1) => members'[ch] = Q[1]
              /\ ListsExact(pipe', sNick', Q, ch, pending'[ch], sessions')
              /\ IsIn(pipe', sNick', Q, 1) /\ ch \notin chans' =>
                  /\ NotAsked(ch)' /\ NoListFor(pipe', sNick', Q, ch, sessions')
                  /\ welcomed' => ch \notin Range(channels')
  <2>1. /\ ch \in answered /\ IsIn(pipe, sNick, S, 1) => members[ch] = S[1]
        /\ ListsExact(pipe, sNick, S, ch, pending[ch], sessions)
        /\ IsIn(pipe, sNick, S, 1) /\ ch \notin chans =>
            /\ NotAsked(ch) /\ NoListFor(pipe, sNick, S, ch, sessions)
            /\ welcomed => ch \notin Range(channels)
    BY <1>11 DEF Fits
  <2>2. ListsExact(pipe', sNick', Q, ch, pending[ch], sessions)
    BY <2>1, <1>2, <1>7, GrownLists
  <2>3. ASSUME IsIn(pipe, sNick, S, 1), ch \notin chans
        PROVE  NoListFor(pipe', sNick', Q, ch, sessions)
    <3>1. NotAsked(ch) /\ NoListFor(pipe, sNick, S, ch, sessions)
      BY <2>1, <2>3
    <3>2. \A i \in 1..Len(q) : EndOf(q[i], ch) => \E k \in 1..i : ~IsIn(q, sNick', R, k)
      BY <3>1
    <3> QED BY <3>1, <3>2, <1>2, <1>7, GrownNone
  <2> QED BY <2>1, <2>2, <2>3, <1>10
<1>12. Fits(Q, ch)'
  BY <1>6, <1>8, <1>11 DEF Fits
<1> QED BY <1>4, <1>12

(* Types.                                                                  *)
LEMMA LineTold ==
  ASSUME SessionType, NEW k \in Messages, NEW n \in Names, NEW to \in Names, NEW ch \in Places,
         NEW list \in SUBSET Nicks,
         k \in OfChannel => ch \in Channels, k = "JOIN" => n \in Nicks,
         k = "NICK" => to \in Nicks
  PROVE  Line(k, n, to, ch, list) \in Told
<1>1. Line(k, n, to, ch, list) \in
        [kind : Messages, nick : Names, to : Names, ch : Places, list : SUBSET Nicks,
         me : Names, gen : Nat]
  BY DEF Line, SessionType
<1> QED BY <1>1 DEF Told, Line

LEMMA RegistrationAsked == Registration \in Seq(Asked)
<1>1. NoNick \in Names /\ CfgNick \in Names /\ NoChannel \in Places
  BY SessionAssumption DEF Names, Places
<1>2. Cmd("NICK", CfgNick, NoChannel) \in Asked
  BY <1>1, SessionAssumption DEF OfChannel, Commands, Cmd, Asked
<1>3. Cmd("USER", NoNick, NoChannel) \in Asked
  BY <1>1 DEF OfChannel, Commands, Cmd, Asked
<1> QED BY <1>2, <1>3 DEF Registration

LEMMA JoinsAsked ==
  ASSUME NEW chs \in Seq(Channels)
  PROVE  /\ JoinAll(chs) \in Seq(Asked)
         /\ \A i \in 1..Len(JoinAll(chs)) :
               /\ JoinAll(chs)[i].kind \in {"JOIN", "NAMES"}
               /\ JoinAll(chs)[i].ch \in Range(chs)
<1> DEFINE at(i) == chs[(i + 1) \div 2]
           k(i) == IF i % 2 = 1 THEN "JOIN" ELSE "NAMES"
<1> PICK n : n = Len(chs)
  OBVIOUS
<1>1. n \in Nat /\ 2 * n \in Nat
  OBVIOUS
<1>2. ASSUME NEW i \in 1..(2 * n)
      PROVE  /\ k(i) \in {"JOIN", "NAMES"} /\ at(i) \in Channels /\ at(i) \in Range(chs)
  <2>1. (i + 1) \div 2 \in 1..Len(chs)
    BY <1>1
  <2> QED BY <2>1, RangeOfSeq DEF Range
<1>3. ASSUME NEW i \in 1..(2 * n) PROVE Cmd(k(i), NoNick, at(i)) \in Asked
  BY <1>2 DEF Names, Places, Commands, Cmd, Asked
<1> DEFINE js == [i \in 1..(2 * n) |-> Cmd(k(i), NoNick, at(i))]
<1>4. js \in [1..(2 * n) -> Asked]
  BY <1>3
<1>5. js \in Seq(Asked) /\ Len(js) = 2 * n
  BY <1>1, <1>4
<1>6. js = JoinAll(chs)
  BY DEF JoinAll
<1>7. ASSUME NEW i \in 1..Len(js) PROVE js[i].kind = k(i) /\ js[i].ch = at(i)
  BY <1>5 DEF Cmd
<1> QED BY <1>2, <1>5, <1>6, <1>7

LEMMA CmdsAsked ==
  ASSUME NEW ch \in Channels
  PROVE  JoinCmds(ch) \in Seq(Asked) /\ Cmd("PART", NoNick, ch) \in Asked
<1>1. NoNick \in Names /\ ch \in Places
  BY DEF Names, Places
<1>2. Cmd("JOIN", NoNick, ch) \in Asked /\ Cmd("NAMES", NoNick, ch) \in Asked
  BY <1>1 DEF Commands, Cmd, Asked
<1>3. Cmd("PART", NoNick, ch) \in Asked
  BY <1>1 DEF Commands, Cmd, Asked
<1> QED BY <1>2, <1>3 DEF JoinCmds

LEMMA Listed ==
  ASSUME NEW chs \in Seq(Channels), NEW ch \in Channels
  PROVE  /\ addChannel(chs, ch) \in Seq(Channels)
         /\ Range(addChannel(chs, ch)) \subseteq Range(chs) \cup {ch}
BY RangeAppend DEF addChannel

(* The server says more, the session stands still.                         *)
LEMMA SaysMore ==
  ASSUME SessionType, LinesFollow, PendingShort, AnswersFresh, NothingLeft,
         UNCHANGED <<sess, sessions, channels>>,
         NEW q \in Seq(Told), pipe' = pipe \o q,
         \A i \in 1..Len(q) : q[i].gen = sessions,
         NicksFollow(q, sNick'), BurstsWhole(q),
         sNick # NoNick => MeAt(q, sNick', 1) = sNick,
         out' \in Seq(Asked), sNick' \in Names, online' \subseteq UserNicks,
         present' \in [Channels -> SUBSET Nicks], disputed' \in BOOLEAN, gotUser' \in BOOLEAN
  PROVE  SessionType' /\ LinesFollow' /\ PendingShort' /\ AnswersFresh' /\ NothingLeft'
<1> USE DEF sess
<1>1. pipe \in Seq(Told) /\ sessions \in Nat /\ sessions' = sessions
  BY DEF SessionType
<1> PICK p, o, n, m : p = pipe /\ o = pipe' /\ n = Len(pipe) /\ m = Len(q)
  OBVIOUS
<1>2. /\ o \in Seq(Told) /\ n \in Nat /\ m \in Nat /\ Len(o) = n + m
      /\ \A i \in 1..n : o[i] = p[i]
      /\ \A i \in 1..m : o[n + i] = q[i]
  BY <1>1, Behind
<1>s. ASSUME NEW i \in (n + 1)..(n + m)
      PROVE  i - n \in 1..m /\ o[i] = q[i - n]
  <2>1. i - n \in 1..m /\ n + (i - n) = i
    BY <1>2
  <2> QED BY <2>1, <1>2
<1>3. SessionType'
  BY <1>2 DEF SessionType
<1>4. NicksFollow(o, sNick')
  <2> SUFFICES ASSUME NEW i \in 1..(n + m)
               PROVE  /\ o[i].me # NoNick => MeAt(o, sNick', i + 1) = NickPast(o[i])
                      /\ o[i].me = NoNick => o[i].kind = "NICKINUSE"
    BY <1>2 DEF NicksFollow
  <2>p. NicksFollow(p, sNick)
    BY DEF LinesFollow
  <2>1. CASE i < n
    <3>1. i \in 1..n /\ i + 1 \in 1..n /\ i + 1 <= n + m
      BY <2>1, <1>2
    <3>2. MeAt(o, sNick', i + 1) = MeAt(p, sNick, i + 1)
      BY <3>1, <1>2 DEF MeAt
    <3> QED BY <3>1, <3>2, <2>p, <1>2 DEF NicksFollow
  <2>2. CASE i = n
    <3>1. i \in 1..n /\ ~(i + 1 <= n) /\ o[i] = p[i]
      BY <2>2, <1>2
    <3>2. p[i].me # NoNick => sNick = NickPast(p[i])
      BY <3>1, <2>p DEF NicksFollow, MeAt
    <3>3. p[i].me # NoNick => NickPast(p[i]) # NoNick
      <4>1. p[i] \in Told
        BY <3>1, <1>1
      <4> QED BY <4>1, SessionAssumption DEF NickPast, Told
    <3>4. MeAt(o, sNick', i + 1) = MeAt(q, sNick', 1)
      <4>1. m > 0 => o[i + 1] = q[1]
        BY <2>2, <1>2
      <4> QED BY <4>1, <2>2, <1>2 DEF MeAt
    <3> QED BY <3>1, <3>2, <3>3, <3>4, <2>p DEF NicksFollow
  <2>3. CASE i > n
    <3>1. i - n \in 1..m /\ o[i] = q[i - n]
      BY <2>3, <1>2, <1>s
    <3>2. MeAt(o, sNick', i + 1) = MeAt(q, sNick', (i - n) + 1)
      <4>1. i + 1 <= n + m => o[i + 1] = q[(i - n) + 1]
        <5> SUFFICES ASSUME i + 1 <= n + m PROVE o[i + 1] = q[(i - n) + 1]
          OBVIOUS
        <5>1. i + 1 \in (n + 1)..(n + m) /\ (i + 1) - n = (i - n) + 1
          BY <2>3, <1>2
        <5> QED BY <5>1, <1>s
      <4>2. i + 1 <= n + m <=> (i - n) + 1 <= m
        BY <2>3, <1>2
      <4> QED BY <4>1, <4>2, <1>2 DEF MeAt
    <3> QED BY <3>1, <3>2 DEF NicksFollow
  <2> QED BY <2>1, <2>2, <2>3, <1>2
<1>5. GensFollow(o, sessions)
  <2> SUFFICES ASSUME NEW i \in 1..(n + m), NEW j \in i..(n + m)
               PROVE  o[i].gen <= sessions /\ o[i].gen <= o[j].gen
    <3>1. ASSUME NEW i \in 1..(n + m) PROVE i \in i..(n + m)
      BY <1>2
    <3> QED BY <3>1, <1>2 DEF GensFollow
  <2>1. GensFollow(p, sessions)
    BY DEF LinesFollow
  <2>2. j > n => o[j].gen = sessions
    BY <1>2, <1>s
  <2>3. i > n => o[i].gen = sessions
    BY <1>2, <1>s
  <2>4. i <= n => o[i].gen <= sessions /\ (j <= n => o[i].gen <= o[j].gen)
    <3> SUFFICES ASSUME i <= n PROVE o[i].gen <= sessions /\ (j <= n => o[i].gen <= o[j].gen)
      OBVIOUS
    <3>1. i \in 1..n /\ (j <= n => j \in i..n /\ j \in 1..n)
      BY <1>2
    <3> QED BY <3>1, <2>1, <1>2 DEF GensFollow
  <2> QED BY <2>2, <2>3, <2>4, <1>1, <1>2
<1>6. BurstsWhole(o)
  <2> SUFFICES ASSUME NEW i \in 1..(n + m), NEW ch \in Channels, PartOf(o[i], ch)
               PROVE  /\ i < n + m
                      /\ \/ EndOf(o[i + 1], ch)
                         \/ PartOf(o[i + 1], ch) /\ i + 1 < n + m /\ EndOf(o[i + 2], ch)
    BY <1>2 DEF BurstsWhole
  <2>1. CASE i <= n
    <3>1. i \in 1..n /\ BurstsWhole(p)
      BY <2>1 DEF LinesFollow
    <3>2. /\ i < n
          /\ \/ EndOf(p[i + 1], ch)
             \/ PartOf(p[i + 1], ch) /\ i + 1 < n /\ EndOf(p[i + 2], ch)
      BY <3>1, <1>2 DEF BurstsWhole
    <3>3. o[i + 1] = p[i + 1] /\ (i + 1 < n => o[i + 2] = p[i + 2])
      <4>1. i + 1 \in 1..n /\ (i + 1 < n => i + 2 \in 1..n)
        BY <3>2, <1>2
      <4> QED BY <4>1, <1>2
    <3> QED BY <3>2, <3>3, <1>2
  <2>2. CASE i > n
    <3>1. i - n \in 1..m /\ PartOf(q[i - n], ch)
      BY <2>2, <1>2, <1>s
    <3>2. /\ i - n < m
          /\ \/ EndOf(q[(i - n) + 1], ch)
             \/ PartOf(q[(i - n) + 1], ch) /\ (i - n) + 1 < m /\ EndOf(q[(i - n) + 2], ch)
      BY <3>1 DEF BurstsWhole
    <3>3. o[i + 1] = q[(i - n) + 1]
      <4>1. i - n < m
        BY <3>2
      <4>2. i + 1 \in (n + 1)..(n + m) /\ (i + 1) - n = (i - n) + 1
        BY <4>1, <2>2, <1>2
      <4> QED BY <4>2, <1>s
    <3>4. (i - n) + 1 < m => o[i + 2] = q[(i - n) + 2]
      <4> SUFFICES ASSUME (i - n) + 1 < m PROVE o[i + 2] = q[(i - n) + 2]
        OBVIOUS
      <4>1. i + 2 \in (n + 1)..(n + m) /\ (i + 2) - n = (i - n) + 2
        BY <2>2, <1>2
      <4> QED BY <4>1, <1>s
    <3>5. (i - n < m => i < n + m) /\ ((i - n) + 1 < m => i + 1 < n + m)
      BY <2>2, <1>2
    <3> QED BY <3>2, <3>3, <3>4, <3>5
  <2> QED BY <2>1, <2>2, <1>2
<1>7. LinesFollow'
  BY <1>4, <1>5, <1>6 DEF LinesFollow
<1>8. PendingShort'
  <2> SUFFICES ASSUME NEW ch \in Channels, pending[ch] # {}
               PROVE  /\ pipe' # <<>>
                      /\ \/ EndOf(pipe'[1], ch)
                         \/ PartOf(pipe'[1], ch) /\ Len(pipe') > 1 /\ EndOf(pipe'[2], ch)
    BY DEF PendingShort
  <2>1. /\ p # <<>>
        /\ \/ EndOf(p[1], ch)
           \/ PartOf(p[1], ch) /\ n > 1 /\ EndOf(p[2], ch)
    BY DEF PendingShort
  <2>2. n > 0
    BY <2>1, <1>1, EmptySeq
  <2>3. Len(o) > 0 /\ o[1] = p[1] /\ (n > 1 => Len(o) > 1 /\ o[2] = p[2])
    BY <2>2, <1>2
  <2> QED BY <2>1, <2>3, <1>2
<1>9. AnswersFresh'
  <2> SUFFICES ASSUME answered # {}, NEW i \in 1..(n + m) PROVE o[i].gen = sessions
    BY <1>2 DEF AnswersFresh
  <2>1. i <= n => o[i].gen = sessions
    BY <1>2 DEF AnswersFresh
  <2>2. i > n => o[i].gen = sessions
    BY <1>2, <1>s
  <2> QED BY <2>1, <2>2, <1>2
<1>10. NothingLeft'
  BY DEF NothingLeft
<1> QED BY <1>3, <1>7, <1>8, <1>9, <1>10

LEMMA NickStays ==
  ASSUME SessionType, NickKnown, sNick # NoNick, sNick' # NoNick, nick' = nick,
         NEW q \in Seq(Told), pipe' = pipe \o q, MeAt(q, sNick', 1) = sNick,
         \A i \in 1..Len(q) : q[i].me # NoNick /\ q[i].kind # "NICKINUSE",
         disputed => disputed'
  PROVE  NickKnown'
<1> PICK p, o, n, m : p = pipe /\ o = pipe' /\ n = Len(pipe) /\ m = Len(q)
  OBVIOUS
<1>1. /\ o \in Seq(Told) /\ n \in Nat /\ m \in Nat /\ Len(o) = n + m
      /\ \A i \in 1..n : o[i] = p[i]
      /\ \A i \in 1..m : o[n + i] = q[i]
  <2>1. pipe \in Seq(Told)
    BY DEF SessionType
  <2> QED BY <2>1, Behind
<1> SUFFICES ASSUME ~disputed
             PROVE  /\ nick = MeAt(o, sNick', 1)
                    /\ \A i \in 1..(n + m) : o[i].me # NoNick /\ o[i].kind # "NICKINUSE"
  BY <1>1 DEF NickKnown
<1>2. /\ nick = MeAt(p, sNick, 1)
      /\ \A i \in 1..n : p[i].me # NoNick /\ p[i].kind # "NICKINUSE"
  BY DEF NickKnown
<1>3. MeAt(o, sNick', 1) = MeAt(p, sNick, 1)
  <2>1. n > 0 => o[1] = p[1]
    BY <1>1
  <2>2. n = 0 /\ m > 0 => o[1] = q[1]
    BY <1>1
  <2> QED BY <2>1, <2>2, <1>1 DEF MeAt
<1>4. ASSUME NEW i \in 1..(n + m) PROVE o[i].me # NoNick /\ o[i].kind # "NICKINUSE"
  <2>1. i <= n => o[i].me # NoNick /\ o[i].kind # "NICKINUSE"
    BY <1>1, <1>2
  <2>2. i > n => i - n \in 1..m /\ o[i] = q[i - n]
    <3> SUFFICES ASSUME i > n PROVE i - n \in 1..m /\ o[i] = q[i - n]
      OBVIOUS
    <3>1. i - n \in 1..m /\ n + (i - n) = i
      BY <1>1
    <3> QED BY <3>1, <1>1
  <2> QED BY <2>1, <2>2, <1>1
<1> QED BY <1>2, <1>3, <1>4

LEMMA NickUnset ==
  ASSUME SessionType, NickKnown, sNick = NoNick, sNick' = sNick, UNCHANGED <<pipe, nick>>,
         disputed => disputed', out # <<>>,
         out' = out \/ (Head(out).kind # "NICK" /\ out' = Tail(out))
  PROVE  NickKnown'
<1> SUFFICES ASSUME ~disputed, Head(out).kind # "NICK", out' = Tail(out) PROVE NickKnown'
  BY DEF NickKnown
<1> PICK a, b, n : a = out /\ b = out' /\ n = Len(out')
  OBVIOUS
<1>1. /\ a \in Seq(Asked) /\ b \in Seq(Asked) /\ n \in Nat /\ Len(a) = n + 1
      /\ \A i \in 1..n : b[i] = a[i + 1]
      /\ a[1].kind # "NICK"
  <2>1. a \in Seq(Asked)
    BY DEF SessionType
  <2> QED BY <2>1, OneTaken
<1>2. ASSUME NEW i \in 1..(n + 1), a[i].kind = "NICK", a[i].nick = nick,
             \A j \in 1..(n + 1) : a[j].kind = "NICK" => j = i
      PROVE  \E k \in 1..n : /\ b[k].kind = "NICK" /\ b[k].nick = nick
                             /\ \A j \in 1..n : b[j].kind = "NICK" => j = k
  <2>1. i # 1
    BY <1>1, <1>2
  <2>2. i - 1 \in 1..n /\ (i - 1) + 1 = i
    BY <2>1, <1>1
  <2>3. b[i - 1] = a[i]
    BY <2>2, <1>1
  <2>a. b[i - 1].kind = "NICK" /\ b[i - 1].nick = nick
    BY <2>3, <1>2
  <2>4. ASSUME NEW j \in 1..n, b[j].kind = "NICK" PROVE j = i - 1
    <3>1. j + 1 \in 1..(n + 1) /\ a[j + 1].kind = "NICK"
      BY <2>4, <1>1
    <3>2. j + 1 = i
      BY <3>1, <1>2
    <3> QED BY <3>2, <1>1
  <2>5. \A j \in 1..n : b[j].kind = "NICK" => j = i - 1
    BY <2>4
  <2> QED BY <2>2, <2>a, <2>5
<1>3. (\A j \in 1..(n + 1) : a[j].kind # "NICK") => \A j \in 1..n : b[j].kind # "NICK"
  <2> SUFFICES ASSUME \A j \in 1..(n + 1) : a[j].kind # "NICK", NEW j \in 1..n
               PROVE  b[j].kind # "NICK"
    OBVIOUS
  <2>1. j + 1 \in 1..(n + 1) /\ b[j] = a[j + 1]
    BY <1>1
  <2> QED BY <2>1
<1>4. /\ \A i \in 1..Len(pipe) : pipe[i].kind = "NICKINUSE"
      /\ \/ /\ pipe = <<>>
            /\ \E i \in 1..(n + 1) :
                  /\ a[i].kind = "NICK" /\ a[i].nick = nick
                  /\ \A j \in 1..(n + 1) : a[j].kind = "NICK" => j = i
         \/ /\ Len(pipe) = 1
            /\ \A j \in 1..(n + 1) : a[j].kind # "NICK"
  BY <1>1 DEF NickKnown
<1>5. \/ /\ pipe = <<>>
         /\ \E k \in 1..n : /\ b[k].kind = "NICK" /\ b[k].nick = nick
                            /\ \A j \in 1..n : b[j].kind = "NICK" => j = k
      \/ /\ Len(pipe) = 1
         /\ \A j \in 1..n : b[j].kind # "NICK"
  BY <1>2, <1>3, <1>4
<1> QED BY <1>4, <1>5 DEF NickKnown

LEMMA NoneSaid ==
  ASSUME SessionType, NEW ch \in Channels, NEW S \in Histories, Fits(S, ch), pipe' = pipe,
         present'[ch] \in SUBSET Nicks,
         sNick \in present[ch] <=> sNick' \in present'[ch],
         sNick \in present[ch] => present'[ch] = present[ch],
         UNCHANGED <<members, pending, answered, chans, welcomed, sessions, channels>>,
         disputed => disputed', NotAsked(ch) => NotAsked(ch)'
  PROVE  \E Q \in Histories' : Fits(Q, ch)'
<1> PICK q : q = <<>>
  OBVIOUS
<1>1. q \in Seq(Told) /\ Len(q) = 0 /\ pipe' = pipe \o q
  BY DEF SessionType
<1>2. PICK R \in [1..(Len(q) + 1) -> SUBSET Nicks] : R = [i \in 1..(Len(q) + 1) |-> present'[ch]]
  BY <1>1
<1>3. R[1] = present'[ch] /\ Len(q) + 1 = 1
  BY <1>1, <1>2
<1>4. GoesOn(sNick, present[ch], q, sNick', R)
  <2>1. MeAt(q, sNick', 1) = sNick'
    BY <1>1 DEF MeAt
  <2> QED BY <2>1, <1>3 DEF GoesOn
<1>5. Follows(q, sNick', R, ch) /\ ListsNew(q, sNick', R, ch)
  BY <1>1 DEF Follows, ListsNew
<1>6. \A i \in 1..Len(q) : EndOf(q[i], ch) =>
            ~NotAsked(ch) \/ \E k \in 1..i : ~IsIn(q, sNick', R, k)
  BY <1>1
<1> QED BY <1>1, <1>3, <1>4, <1>5, <1>6, Grows

LEMMA OneSaid ==
  ASSUME SessionType, NEW ch \in Channels, NEW S \in Histories, Fits(S, ch),
         NEW l \in Told, pipe' = pipe \o <<l>>, l.kind # "ENDOFNAMES",
         sNick \in present[ch] <=> l.me \in present[ch],
         present[ch] \in SUBSET Nicks, present'[ch] \in SUBSET Nicks,
         sNick' \in present'[ch] =>
            /\ sNick \in present[ch] => present'[ch] = Says(l, ch, present[ch])
            /\ sNick \notin present[ch] => OwnJoin(l, ch),
         UNCHANGED <<members, pending, answered, chans, welcomed, sessions, channels>>,
         disputed => disputed', NotAsked(ch) => NotAsked(ch)'
  PROVE  \E Q \in Histories' : Fits(Q, ch)'
<1> PICK q : q = <<l>>
  OBVIOUS
<1>1. q \in Seq(Told) /\ Len(q) = 1 /\ q[1] = l /\ pipe' = pipe \o q
  OBVIOUS
<1>2. PICK R \in [1..(Len(q) + 1) -> SUBSET Nicks] :
        R = [i \in 1..(Len(q) + 1) |-> IF i = 1 THEN present[ch] ELSE present'[ch]]
  BY <1>1
<1>3. R[1] = present[ch] /\ R[2] = present'[ch] /\ Len(q) + 1 = 2
  BY <1>1, <1>2
<1>4. MeAt(q, sNick', 1) = l.me /\ MeAt(q, sNick', 2) = sNick'
  BY <1>1 DEF MeAt
<1>5. GoesOn(sNick, present[ch], q, sNick', R)
  BY <1>3, <1>4 DEF GoesOn
<1>6. Follows(q, sNick', R, ch)
  <2>1. ASSUME NEW i \in 1..Len(q) PROVE i = 1 /\ i + 1 = 2 /\ q[i] = l
    BY <1>1
  <2>2. /\ IsIn(q, sNick', R, 1) <=> sNick \in present[ch]
        /\ IsIn(q, sNick', R, 2) <=> sNick' \in present'[ch]
    BY <1>3, <1>4 DEF IsIn
  <2> QED BY <2>1, <2>2, <1>3 DEF Follows
<1>7. \A i \in 1..Len(q) : ~EndOf(q[i], ch)
  BY <1>1 DEF EndOf
<1>8. ListsNew(q, sNick', R, ch)
  BY <1>7 DEF ListsNew
<1>9. \A i \in 1..Len(q) : EndOf(q[i], ch) =>
            ~NotAsked(ch) \/ \E k \in 1..i : ~IsIn(q, sNick', R, k)
  BY <1>7
<1> QED BY <1>1, <1>3, <1>5, <1>6, <1>8, <1>9, Grows

(* A line tells what happens to the channels the bot is in.                *)
TellsRight(l) ==
    /\ pipe' = Append(pipe, l) /\ l.me = sNick /\ l.gen = sessions
    /\ l.kind \notin {"NAMES", "ENDOFNAMES", "NICKINUSE"}
    /\ sNick # NoNick /\ sNick' = NickPast(l)
    /\ \A ch \in Channels : sNick' \in present'[ch] =>
          sNick \in present[ch] /\ present'[ch] = Says(l, ch, present[ch])
SameToMe ==
    /\ pipe' = pipe /\ sNick' = sNick
    /\ \A ch \in Channels : sNick \in present[ch] \/ sNick \in present'[ch] =>
          present'[ch] = present[ch]

LEMMA EventTold ==
  ASSUME MirrorInv, UNCHANGED <<sess, out, sessions, disputed, gotUser, owner>>,
         NEW l \in Told, TellsRight(l), ServerWhole',
         sNick' \in Names, online' \subseteq UserNicks, present' \in [Channels -> SUBSET Nicks]
  PROVE  MirrorInv'
<1>0. /\ SessionType /\ LinesFollow /\ PendingShort /\ AnswersFresh /\ NothingLeft /\ NickKnown
      /\ Mirrored
      /\ UNCHANGED <<members, pending, answered, chans, welcomed, sessions, channels, nick, out,
                     disputed, gotUser>>
  BY DEF MirrorInv, sess, owner
<1>1. pipe \in Seq(Told) /\ out \in Seq(Asked)
  BY <1>0 DEF SessionType
<1>2. sNick # NoNick => NickPast(l) # NoNick
  BY SessionAssumption DEF TellsRight, NickPast, Told
<1>3. /\ pipe' = Append(pipe, l) /\ l.me = sNick /\ l.gen = sessions
      /\ l.kind \notin {"NAMES", "ENDOFNAMES", "NICKINUSE"}
      /\ sNick # NoNick /\ sNick' = NickPast(l)
  BY DEF TellsRight
<1> PICK q : q = <<l>>
  OBVIOUS
<1>4. q \in Seq(Told) /\ Len(q) = 1 /\ q[1] = l
  OBVIOUS
<1>5. pipe' = pipe \o q
  BY <1>1, <1>3, OneAdded
<1>6. sNick' # NoNick
  BY <1>2, <1>3
<1>7. MeAt(q, sNick', 1) = sNick /\ MeAt(q, sNick', 2) = sNick'
  BY <1>3, <1>4 DEF MeAt
<1>8. \A i \in 1..Len(q) : /\ i = 1 /\ q[i] = l /\ q[i].gen = sessions
                           /\ q[i].me # NoNick /\ q[i].kind # "NICKINUSE"
  BY <1>3, <1>4
<1>9. NicksFollow(q, sNick')
  <2>1. \A i \in 1..Len(q) : i + 1 = 2
    BY <1>4
  <2> QED BY <2>1, <1>3, <1>7, <1>8 DEF NicksFollow
<1>10. BurstsWhole(q)
  BY <1>3, <1>8 DEF BurstsWhole, PartOf
<1>11. SessionType' /\ LinesFollow' /\ PendingShort' /\ AnswersFresh' /\ NothingLeft'
  BY <1>0, <1>1, <1>4, <1>5, <1>7, <1>8, <1>9, <1>10, SaysMore DEF SessionType
<1>12. NickKnown'
  <2>1. nick' = nick /\ (disputed => disputed')
    BY <1>0
  <2>2. \A i \in 1..Len(q) : q[i].me # NoNick /\ q[i].kind # "NICKINUSE"
    BY <1>8
  <2> QED BY <1>0, <2>1, <2>2, <1>3, <1>4, <1>5, <1>6, <1>7, NickStays
<1>13. Mirrored'
  <2> SUFFICES ASSUME NEW ch \in Channels PROVE \E Q \in Histories' : Fits(Q, ch)'
    BY DEF Mirrored
  <2>1. PICK S \in Histories : Fits(S, ch)
    BY <1>0 DEF Mirrored
  <2>2. /\ present[ch] \in SUBSET Nicks /\ present'[ch] \in SUBSET Nicks
        /\ NotAsked(ch) => NotAsked(ch)'
    BY <1>0 DEF SessionType, NotAsked
  <2>3. sNick' \in present'[ch] =>
          sNick \in present[ch] /\ present'[ch] = Says(l, ch, present[ch])
    BY DEF TellsRight
  <2>4. /\ pipe' = pipe \o <<l>> /\ l.kind # "ENDOFNAMES"
        /\ sNick \in present[ch] <=> l.me \in present[ch]
    BY <1>1, <1>3, OneAdded
  <2> QED BY <1>0, <1>3, <2>1, <2>2, <2>3, <2>4, OneSaid
<1> QED BY <1>11, <1>12, <1>13 DEF MirrorInv

LEMMA EventQuiet ==
  ASSUME MirrorInv, UNCHANGED <<sess, out, sessions, disputed, gotUser, owner>>,
         SameToMe, ServerWhole',
         online' \subseteq UserNicks, present' \in [Channels -> SUBSET Nicks]
  PROVE  MirrorInv'
<1>0. /\ SessionType /\ LinesFollow /\ PendingShort /\ AnswersFresh /\ NothingLeft /\ NickKnown
      /\ Mirrored /\ pipe' = pipe /\ sNick' = sNick
      /\ UNCHANGED <<members, pending, answered, chans, welcomed, sessions, channels, nick, out,
                     disputed, gotUser>>
  BY DEF MirrorInv, sess, owner, SameToMe
<1>1. SessionType'
  BY <1>0 DEF SessionType
<1>2. LinesFollow' /\ PendingShort' /\ AnswersFresh' /\ NothingLeft' /\ NickKnown'
  BY <1>0 DEF LinesFollow, PendingShort, AnswersFresh, NothingLeft, NickKnown, MeAt
<1>3. Mirrored'
  <2> SUFFICES ASSUME NEW ch \in Channels PROVE \E Q \in Histories' : Fits(Q, ch)'
    BY DEF Mirrored
  <2>1. PICK S \in Histories : Fits(S, ch)
    BY <1>0 DEF Mirrored
  <2>2. /\ present'[ch] \in SUBSET Nicks
        /\ NotAsked(ch) => NotAsked(ch)'
    BY <1>0 DEF NotAsked
  <2>3. /\ sNick \in present[ch] <=> sNick' \in present'[ch]
        /\ sNick \in present[ch] => present'[ch] = present[ch]
    BY <1>0 DEF SameToMe
  <2> QED BY <1>0, <2>1, <2>2, <2>3, NoneSaid
<1> QED BY <1>1, <1>2, <1>3 DEF MirrorInv

(* Other users and operators.                                              *)
LEMMA SeenIs ==
  ASSUME SessionType, NEW ch \in Channels
  PROVE  /\ Seen(ch) <=> sNick \in present[ch]
         /\ present[ch] \in SUBSET Nicks /\ ch \in Places
BY SessionAssumption DEF Seen, SessionType, Places

LEMMA ServerStays ==
  ASSUME ServerWhole, UNCHANGED <<out, gotUser, sNick>>, sNick \notin online',
         \A ch \in Channels : present'[ch] \subseteq online' \cup {sNick}
  PROVE  ServerWhole'
BY DEF ServerWhole

LEMMA UserJoinsStep ==
  ASSUME MirrorInv, NEW n \in UserNicks, NEW ch \in Channels, UserJoins(n, ch)
  PROVE  MirrorInv'
<1>0. /\ SessionType /\ ServerWhole
      /\ UNCHANGED <<sess, out, sessions, disputed, gotUser, owner>>
      /\ sNick' = sNick /\ sNick \in Names /\ n # sNick /\ n \in Nicks
  BY SessionAssumption DEF MirrorInv, UserJoins, Event, SessionType
<1> PICK l : l = Line("JOIN", n, NoNick, ch, {})
  OBVIOUS
<1>1. /\ l \in Told /\ l.kind = "JOIN" /\ l.nick = n /\ l.ch = ch /\ l.me = sNick
      /\ l.gen = sessions
  BY <1>0, LineTold DEF Line, Names, Places, Messages
<1>2. /\ online' = online \cup {n} /\ present \in [Channels -> SUBSET Nicks]
      /\ present' = [present EXCEPT ![ch] = @ \cup {n}]
      /\ pipe' = IF Seen(ch) THEN Append(pipe, l) ELSE pipe
  BY <1>0 DEF UserJoins, Tells, SessionType
<1>3. /\ online' \subseteq UserNicks /\ present' \in [Channels -> SUBSET Nicks]
      /\ present'[ch] = present[ch] \cup {n}
      /\ \A d \in Channels \ {ch} : present'[d] = present[d]
  BY <1>0, <1>2 DEF SessionType
<1>4. ServerWhole'
  <2>1. \A d \in Channels : present[d] \subseteq online \cup {sNick}
    BY <1>0 DEF ServerWhole
  <2>2. sNick \notin online'
    BY <1>0, <1>2 DEF ServerWhole
  <2>3. \A d \in Channels : present'[d] \subseteq online' \cup {sNick}
    BY <2>1, <1>2, <1>3
  <2> QED BY <1>0, <2>2, <2>3, ServerStays
<1>5. CASE Seen(ch)
  <2>1. \A d \in Channels : sNick' \in present'[d] =>
           sNick \in present[d] /\ present'[d] = Says(l, d, present[d])
    BY <1>0, <1>1, <1>3 DEF Says
  <2>2. TellsRight(l)
    BY <1>0, <1>1, <1>2, <1>5, <2>1 DEF TellsRight, Seen, NickPast
  <2> QED BY <1>0, <1>1, <1>3, <1>4, <2>2, EventTold
<1>6. CASE ~Seen(ch)
  <2>1. SameToMe
    BY <1>0, <1>2, <1>3, <1>6, SeenIs DEF SameToMe
  <2> QED BY <1>0, <1>3, <1>4, <2>1, EventQuiet
<1> QED BY <1>5, <1>6

LEMMA LeavesStep ==
  ASSUME MirrorInv, NEW n \in UserNicks \cup {sNick}, NEW ch \in Channels, Leaves(n, ch)
  PROVE  MirrorInv'
<1>0. /\ SessionType /\ ServerWhole
      /\ UNCHANGED <<sess, out, sessions, disputed, gotUser, owner>>
      /\ UNCHANGED <<sNick, online>> /\ sNick \in Names /\ online' \subseteq UserNicks
  BY DEF MirrorInv, Leaves, Event, SessionType
<1>a. n \in present[ch] /\ n \in Nicks /\ NoNick \in Names /\ n \in Names /\ ch \in Places
  BY <1>0 DEF Leaves, SessionType, Names, Places
<1> PICK l \in {Line("PART", n, NoNick, ch, {}), Line("KICK", NoNick, n, ch, {})} :
         /\ pipe' = IF Seen(ch) THEN Append(pipe, l) ELSE pipe
         /\ l.kind = "PART" => n # sNick /\ l.nick = n
         /\ l.kind = "KICK" => l.to = n
  BY DEF Leaves, Tells, Line
<1>b. Line("PART", n, NoNick, ch, {}) \in Told /\ Line("KICK", NoNick, n, ch, {}) \in Told
  BY <1>0, <1>a, LineTold DEF Messages
<1>1. /\ l \in Told /\ l.kind \in {"PART", "KICK"} /\ l.ch = ch /\ l.me = sNick
      /\ l.gen = sessions
  <2>1. CASE l = Line("PART", n, NoNick, ch, {})
    BY <2>1, <1>b DEF Line
  <2>2. CASE l = Line("KICK", NoNick, n, ch, {})
    BY <2>2, <1>b DEF Line
  <2> QED BY <2>1, <2>2
<1>2. /\ present \in [Channels -> SUBSET Nicks]
      /\ present' = [present EXCEPT ![ch] = @ \ {n}]
  BY <1>0 DEF Leaves, SessionType
<1>3. /\ present' \in [Channels -> SUBSET Nicks]
      /\ present'[ch] = present[ch] \ {n}
      /\ \A d \in Channels \ {ch} : present'[d] = present[d]
  BY <1>2
<1>4. ServerWhole'
  <2>1. \A d \in Channels : present[d] \subseteq online \cup {sNick}
    BY <1>0 DEF ServerWhole
  <2>2. sNick \notin online'
    BY <1>0 DEF ServerWhole
  <2>3. \A d \in Channels : present'[d] \subseteq online' \cup {sNick}
    BY <2>1, <1>0, <1>3
  <2> QED BY <1>0, <2>2, <2>3, ServerStays
<1>5. CASE Seen(ch)
  <2>1. \A d \in Channels : sNick' \in present'[d] =>
           sNick \in present[d] /\ present'[d] = Says(l, d, present[d])
    BY <1>0, <1>1, <1>3 DEF Says
  <2>2. sNick # NoNick /\ NickPast(l) = sNick /\ pipe' = Append(pipe, l)
    BY <1>1, <1>5 DEF Seen, NickPast
  <2>3. TellsRight(l)
    BY <1>0, <1>1, <2>1, <2>2 DEF TellsRight
  <2> QED BY <1>0, <1>1, <1>3, <1>4, <2>3, EventTold
<1>6. CASE ~Seen(ch)
  <2>1. SameToMe
    BY <1>0, <1>3, <1>6, SeenIs DEF SameToMe
  <2> QED BY <1>0, <1>3, <1>4, <2>1, EventQuiet
<1> QED BY <1>5, <1>6

LEMMA UserQuitsStep ==
  ASSUME MirrorInv, NEW n \in UserNicks, UserQuits(n)
  PROVE  MirrorInv'
<1>0. /\ SessionType /\ ServerWhole
      /\ UNCHANGED <<sess, out, sessions, disputed, gotUser, owner>>
      /\ sNick' = sNick /\ sNick \in Names /\ n \in Nicks /\ n \in online
  BY SessionAssumption DEF MirrorInv, UserQuits, Event, SessionType
<1>a. n # sNick
  BY <1>0 DEF ServerWhole
<1> PICK l : l = Line("QUIT", n, NoNick, NoChannel, {})
  OBVIOUS
<1>b. NoNick \in Names /\ n \in Names /\ NoChannel \in Places
  BY <1>0 DEF Names, Places
<1>1. /\ l \in Told /\ l.kind = "QUIT" /\ l.nick = n /\ l.me = sNick /\ l.gen = sessions
  BY <1>0, <1>b, LineTold DEF Line, OfChannel, Messages
<1>2. /\ online' = online \ {n} /\ present \in [Channels -> SUBSET Nicks]
      /\ present' = [ch \in Channels |-> present[ch] \ {n}]
      /\ pipe' = IF \E ch \in Channels : n \in present[ch] /\ Seen(ch)
                 THEN Append(pipe, l) ELSE pipe
  BY <1>0 DEF UserQuits, Tells, SessionType
<1>3. /\ online' \subseteq UserNicks /\ present' \in [Channels -> SUBSET Nicks]
      /\ \A d \in Channels : present'[d] = present[d] \ {n}
  BY <1>0, <1>2 DEF SessionType
<1>4. ServerWhole'
  <2>1. \A d \in Channels : present[d] \subseteq online \cup {sNick}
    BY <1>0 DEF ServerWhole
  <2>2. sNick \notin online'
    BY <1>0, <1>2 DEF ServerWhole
  <2>3. \A d \in Channels : present'[d] \subseteq online' \cup {sNick}
    BY <2>1, <1>2, <1>3
  <2> QED BY <1>0, <2>2, <2>3, ServerStays
<1>5. CASE \E ch \in Channels : n \in present[ch] /\ Seen(ch)
  <2>1. \A d \in Channels : sNick' \in present'[d] =>
           sNick \in present[d] /\ present'[d] = Says(l, d, present[d])
    BY <1>0, <1>1, <1>3 DEF Says
  <2>2. TellsRight(l)
    BY <1>0, <1>1, <1>2, <1>5, <2>1 DEF TellsRight, Seen, NickPast
  <2> QED BY <1>0, <1>1, <1>3, <1>4, <2>2, EventTold
<1>6. CASE ~\E ch \in Channels : n \in present[ch] /\ Seen(ch)
  <2>1. ASSUME NEW d \in Channels, sNick \in present[d] \/ sNick \in present'[d]
        PROVE  present'[d] = present[d]
    BY <2>1, <1>0, <1>3, <1>6, SeenIs
  <2>2. SameToMe
    BY <1>0, <1>2, <1>6, <2>1 DEF SameToMe
  <2> QED BY <1>0, <1>3, <1>4, <2>2, EventQuiet
<1> QED BY <1>5, <1>6

LEMMA RenamedTo ==
  ASSUME SessionType, NEW old, NEW new \in Nicks
  PROVE  /\ Renamed(old, new) \in [Channels -> SUBSET Nicks]
         /\ \A ch \in Channels :
               /\ old \in present[ch] => Renamed(old, new)[ch] = (present[ch] \ {old}) \cup {new}
               /\ old \notin present[ch] => Renamed(old, new)[ch] = present[ch]
BY DEF SessionType, Renamed

LEMMA UserRenamesStep ==
  ASSUME MirrorInv, NEW n \in UserNicks, NEW m \in UserNicks, UserRenames(n, m)
  PROVE  MirrorInv'
<1>0. /\ SessionType /\ ServerWhole
      /\ UNCHANGED <<sess, out, sessions, disputed, gotUser, owner>>
      /\ sNick' = sNick /\ sNick \in Names /\ n \in Nicks /\ m \in Nicks
      /\ n \in online /\ m \notin online /\ m # sNick /\ online \subseteq UserNicks
  BY SessionAssumption DEF MirrorInv, UserRenames, Event, SessionType
<1>a. n # sNick
  BY <1>0 DEF ServerWhole
<1> PICK l : l = Line("NICK", n, m, NoChannel, {})
  OBVIOUS
<1>b. m \in Names /\ n \in Names /\ NoChannel \in Places
  BY <1>0 DEF Names, Places
<1>1. /\ l \in Told /\ l.kind = "NICK" /\ l.nick = n /\ l.to = m /\ l.me = sNick
      /\ l.gen = sessions
  BY <1>0, <1>b, LineTold DEF Line, OfChannel, Messages
<1>2. /\ online' = (online \ {n}) \cup {m} /\ present' = Renamed(n, m)
      /\ pipe' = IF \E ch \in Channels : n \in present[ch] /\ Seen(ch)
                 THEN Append(pipe, l) ELSE pipe
  BY <1>0 DEF UserRenames, Tells
<1>3. /\ online' \subseteq UserNicks /\ present' \in [Channels -> SUBSET Nicks]
      /\ \A d \in Channels :
            /\ n \in present[d] => present'[d] = (present[d] \ {n}) \cup {m}
            /\ n \notin present[d] => present'[d] = present[d]
  BY <1>0, <1>2, RenamedTo
<1>4. ServerWhole'
  <2>1. \A d \in Channels : present[d] \subseteq online \cup {sNick}
    BY <1>0 DEF ServerWhole
  <2>2. sNick \notin online'
    BY <1>0, <1>2 DEF ServerWhole
  <2>3. \A d \in Channels : present'[d] \subseteq online' \cup {sNick}
    BY <2>1, <1>2, <1>3
  <2> QED BY <1>0, <2>2, <2>3, ServerStays
<1>5. CASE \E ch \in Channels : n \in present[ch] /\ Seen(ch)
  <2>1. \A d \in Channels : sNick' \in present'[d] =>
           sNick \in present[d] /\ present'[d] = Says(l, d, present[d])
    BY <1>0, <1>a, <1>1, <1>3 DEF Says
  <2>2. TellsRight(l)
    BY <1>0, <1>a, <1>1, <1>2, <1>5, <2>1 DEF TellsRight, Seen, NickPast
  <2> QED BY <1>0, <1>1, <1>3, <1>4, <2>2, EventTold
<1>6. CASE ~\E ch \in Channels : n \in present[ch] /\ Seen(ch)
  <2>1. ASSUME NEW d \in Channels, sNick \in present[d] \/ sNick \in present'[d]
        PROVE  present'[d] = present[d]
    BY <2>1, <1>0, <1>a, <1>3, <1>6, SeenIs
  <2>2. SameToMe
    BY <1>0, <1>2, <1>6, <2>1 DEF SameToMe
  <2> QED BY <1>0, <1>3, <1>4, <2>2, EventQuiet
<1> QED BY <1>5, <1>6

LEMMA ForcedRenameStep ==
  ASSUME MirrorInv, NEW m \in Nicks, ForcedRename(m)
  PROVE  MirrorInv'
<1>0. /\ SessionType /\ ServerWhole
      /\ UNCHANGED <<sess, out, sessions, disputed, gotUser, owner>>
      /\ sNick' = m /\ sNick \in Names /\ sNick # NoNick /\ gotUser /\ m \in Names
      /\ m \notin online /\ m # sNick /\ online' = online /\ online \subseteq UserNicks
  BY DEF MirrorInv, ForcedRename, Event, SessionType, Registered, Names
<1> PICK l : l = Line("NICK", sNick, m, NoChannel, {})
  OBVIOUS
<1>b. NoChannel \in Places
  BY DEF Places
<1>1. /\ l \in Told /\ l.kind = "NICK" /\ l.nick = sNick /\ l.to = m /\ l.me = sNick
      /\ l.gen = sessions
  BY <1>0, <1>b, LineTold DEF Line, OfChannel, Messages
<1>2. present' = Renamed(sNick, m) /\ pipe' = Append(pipe, l)
  BY <1>0 DEF ForcedRename, Tells
<1>3. /\ online' \subseteq UserNicks /\ present' \in [Channels -> SUBSET Nicks]
      /\ \A d \in Channels :
            /\ sNick \in present[d] => present'[d] = (present[d] \ {sNick}) \cup {m}
            /\ sNick \notin present[d] => present'[d] = present[d]
  BY <1>0, <1>2, RenamedTo
<1>4. \A d \in Channels : present[d] \subseteq online \cup {sNick}
  BY <1>0 DEF ServerWhole
<1>5. ServerWhole'
  <2>1. \A d \in Channels : present'[d] \subseteq online' \cup {sNick'}
    BY <1>0, <1>3, <1>4
  <2> QED BY <1>0, <2>1 DEF ServerWhole
<1>6. \A d \in Channels : sNick' \in present'[d] =>
         sNick \in present[d] /\ present'[d] = Says(l, d, present[d])
  BY <1>0, <1>1, <1>3, <1>4 DEF Says
<1>7. TellsRight(l)
  BY <1>0, <1>1, <1>2, <1>6 DEF TellsRight, NickPast
<1> QED BY <1>0, <1>1, <1>3, <1>5, <1>7, EventTold

LEMMA TopicChangesStep ==
  ASSUME MirrorInv, NEW ch \in Channels, TopicChanges(ch)
  PROVE  MirrorInv'
<1>0. /\ SessionType /\ ServerWhole
      /\ UNCHANGED <<sess, out, sessions, disputed, gotUser, owner>>
      /\ UNCHANGED <<sNick, online, present>> /\ sNick \in Names /\ online' \subseteq UserNicks
      /\ present' \in [Channels -> SUBSET Nicks]
  BY DEF MirrorInv, TopicChanges, Event, SessionType
<1> PICK l : l = Line("TOPIC", NoNick, NoNick, ch, {})
  OBVIOUS
<1>b. NoNick \in Names /\ ch \in Places
  BY DEF Names, Places
<1>1. l \in Told /\ l.kind = "TOPIC" /\ l.me = sNick /\ l.gen = sessions
  BY <1>0, <1>b, LineTold DEF Line, Messages
<1>2. pipe' = IF Seen(ch) THEN Append(pipe, l) ELSE pipe
  BY DEF TopicChanges, Tells
<1>3. ServerWhole'
  BY <1>0 DEF ServerWhole
<1>4. CASE Seen(ch)
  <2>1. TellsRight(l)
    BY <1>0, <1>1, <1>2, <1>4 DEF TellsRight, Seen, NickPast, Says
  <2> QED BY <1>0, <1>1, <1>3, <2>1, EventTold
<1>5. CASE ~Seen(ch)
  <2>1. SameToMe
    BY <1>0, <1>2, <1>5 DEF SameToMe
  <2> QED BY <1>0, <1>3, <2>1, EventQuiet
<1> QED BY <1>4, <1>5

(* The server's answers.                                                   *)
LEMMA FewerAsked ==
  ASSUME SessionType, out # <<>>, out' = Tail(out)
  PROVE  /\ out' \in Seq(Asked) /\ Head(out) = out[1] /\ out[1] \in Asked
         /\ Len(out) \in Nat /\ Len(out) > 0 /\ Len(out') = Len(out) - 1
         /\ \A i \in 1..Len(out') : out'[i] = out[i + 1]
         /\ \A ch \in Channels : NotAsked(ch) => NotAsked(ch)'
<1>1. out \in Seq(Asked)
  BY DEF SessionType
<1> PICK a, b : a = out /\ b = out'
  OBVIOUS
<1>2. /\ b \in Seq(Asked) /\ Head(a) = a[1] /\ a[1] \in Asked
      /\ Len(a) \in Nat /\ Len(a) > 0 /\ Len(b) = Len(a) - 1
      /\ \A i \in 1..Len(b) : b[i] = a[i + 1] /\ i + 1 \in 1..Len(a)
  BY <1>1, OneTaken
<1>3. ASSUME NEW ch \in Channels, NotAsked(ch) PROVE NotAsked(ch)'
  <2>1. \A j \in 1..Len(a) : a[j].kind \in {"JOIN", "NAMES"} => a[j].ch # ch
    BY <1>3 DEF NotAsked
  <2>2. \A j \in 1..Len(b) : b[j].kind \in {"JOIN", "NAMES"} => b[j].ch # ch
    BY <2>1, <1>2
  <2> QED BY <2>2 DEF NotAsked
<1> QED BY <1>2, <1>3

LEMMA ServerSilent ==
  ASSUME MirrorInv, UNCHANGED <<sess, sessions, disputed, owner, pipe, sNick, online, present>>,
         out # <<>>, out' = Tail(out), Head(out).kind # "NICK" \/ sNick # NoNick,
         gotUser' \in BOOLEAN, ServerWhole'
  PROVE  MirrorInv'
<1>0. /\ SessionType /\ LinesFollow /\ PendingShort /\ AnswersFresh /\ NothingLeft /\ NickKnown
      /\ Mirrored
      /\ UNCHANGED <<members, pending, answered, chans, welcomed, sessions, channels, nick,
                     disputed, pipe, sNick, online, present>>
  BY DEF MirrorInv, sess, owner
<1>1. out' \in Seq(Asked) /\ \A ch \in Channels : NotAsked(ch) => NotAsked(ch)'
  BY <1>0, FewerAsked
<1>2. SessionType'
  BY <1>0, <1>1 DEF SessionType
<1>3. LinesFollow' /\ PendingShort' /\ AnswersFresh' /\ NothingLeft'
  BY <1>0 DEF LinesFollow, PendingShort, AnswersFresh, NothingLeft
<1>4. NickKnown'
  <2>1. CASE sNick = NoNick
    BY <1>0, <2>1, NickUnset
  <2>2. CASE sNick # NoNick
    BY <1>0, <2>2 DEF NickKnown, MeAt
  <2> QED BY <2>1, <2>2
<1>5. Mirrored'
  <2> SUFFICES ASSUME NEW ch \in Channels PROVE \E Q \in Histories' : Fits(Q, ch)'
    BY DEF Mirrored
  <2>1. PICK S \in Histories : Fits(S, ch)
    BY <1>0 DEF Mirrored
  <2>2. present'[ch] \in SUBSET Nicks
    BY <1>2 DEF SessionType
  <2> QED BY <1>0, <1>1, <2>1, <2>2, NoneSaid
<1> QED BY <1>2, <1>3, <1>4, <1>5 DEF MirrorInv

LEMMA ServerSpeaks ==
  ASSUME MirrorInv, UNCHANGED <<sess, sessions, disputed, owner, sNick, online>>,
         sNick # NoNick, out # <<>>, out' = Tail(out), gotUser' \in BOOLEAN,
         present' \in [Channels -> SUBSET Nicks],
         NEW q \in Seq(Told), pipe' = pipe \o q, BurstsWhole(q),
         \A i \in 1..Len(q) : /\ q[i].me = sNick /\ q[i].gen = sessions
                              /\ q[i].kind \notin {"NICK", "NICKINUSE"},
         ServerWhole', Mirrored'
  PROVE  MirrorInv'
<1>0. /\ SessionType /\ LinesFollow /\ PendingShort /\ AnswersFresh /\ NothingLeft /\ NickKnown
      /\ UNCHANGED <<nick, disputed, sNick, online>>
  BY DEF MirrorInv, sess
<1>1. out' \in Seq(Asked) /\ Len(q) \in Nat
  BY <1>0, FewerAsked
<1>2. ASSUME NEW i \in 1..(Len(q) + 1) PROVE MeAt(q, sNick', i) = sNick
  BY <1>0, <1>1 DEF MeAt
<1>3. MeAt(q, sNick', 1) = sNick
  <2>1. 1 \in 1..(Len(q) + 1)
    BY <1>1
  <2> QED BY <2>1, <1>2
<1>4. NicksFollow(q, sNick')
  <2> SUFFICES ASSUME NEW i \in 1..Len(q)
               PROVE  MeAt(q, sNick', i + 1) = NickPast(q[i]) /\ q[i].me # NoNick
    BY DEF NicksFollow
  <2>1. i + 1 \in 1..(Len(q) + 1)
    BY <1>1
  <2> QED BY <2>1, <1>2 DEF NickPast
<1>5. SessionType' /\ LinesFollow' /\ PendingShort' /\ AnswersFresh' /\ NothingLeft'
  <2>1. /\ UNCHANGED <<sess, sessions, channels>> /\ disputed' \in BOOLEAN /\ sNick' \in Names
        /\ online' \subseteq UserNicks
    BY <1>0 DEF owner, SessionType
  <2>2. \A i \in 1..Len(q) : q[i].gen = sessions
    OBVIOUS
  <2> QED BY <1>0, <1>1, <1>3, <1>4, <2>1, <2>2, SaysMore
<1>6. NickKnown'
  <2>1. \A i \in 1..Len(q) : q[i].me # NoNick /\ q[i].kind # "NICKINUSE"
    OBVIOUS
  <2>2. nick' = nick /\ (disputed => disputed') /\ sNick' # NoNick
    BY <1>0
  <2> QED BY <1>0, <1>3, <2>1, <2>2, NickStays
<1> QED BY <1>5, <1>6 DEF MirrorInv

(* Lines that change nothing, but for a list, which is what it should be.  *)
LEMMA SameSaid ==
  ASSUME SessionType, NEW ch \in Channels, NEW S \in Histories, Fits(S, ch),
         NEW q \in Seq(Told), pipe' = pipe \o q, sNick' = sNick, present'[ch] = present[ch],
         \A i \in 1..Len(q) :
            /\ q[i].me = sNick
            /\ q[i].kind \in {"WELCOME", "NAMES", "ENDOFNAMES"} \/ q[i].ch # ch
            /\ q[i].kind \notin {"NICK", "QUIT"}
            /\ EndOf(q[i], ch) =>
                  /\ sNick \in present[ch] =>
                        /\ i > 2 /\ PartOf(q[i - 1], ch) /\ PartOf(q[i - 2], ch)
                        /\ q[i - 2].list \cup q[i - 1].list = present[ch]
                  /\ ~NotAsked(ch),
         UNCHANGED <<members, pending, answered, chans, welcomed, sessions, channels>>,
         disputed => disputed', NotAsked(ch) => NotAsked(ch)'
  PROVE  \E Q \in Histories' : Fits(Q, ch)'
<1>0. Len(q) \in Nat /\ present[ch] \in SUBSET Nicks
  BY DEF SessionType
<1>1. PICK R \in [1..(Len(q) + 1) -> SUBSET Nicks] : R = [i \in 1..(Len(q) + 1) |-> present[ch]]
  BY <1>0
<1>2. \A i \in 1..(Len(q) + 1) : /\ R[i] = present[ch] /\ MeAt(q, sNick', i) = sNick
                                 /\ IsIn(q, sNick', R, i) <=> sNick \in present[ch]
  BY <1>0, <1>1 DEF MeAt, IsIn
<1>3. 1 \in 1..(Len(q) + 1) /\ Len(q) + 1 \in 1..(Len(q) + 1)
  BY <1>0
<1>4. R[Len(q) + 1] = present'[ch] /\ GoesOn(sNick, present[ch], q, sNick', R)
  BY <1>2, <1>3 DEF GoesOn
<1>5. Follows(q, sNick', R, ch)
  <2> SUFFICES ASSUME NEW i \in 1..Len(q), IsIn(q, sNick', R, i + 1)
               PROVE  IsIn(q, sNick', R, i) /\ R[i + 1] = Says(q[i], ch, R[i])
    BY DEF Follows
  <2>1. i \in 1..(Len(q) + 1) /\ i + 1 \in 1..(Len(q) + 1)
    BY <1>0
  <2>2. Says(q[i], ch, R[i]) = R[i]
    BY DEF Says
  <2> QED BY <2>1, <2>2, <1>2
<1>6. ListsNew(q, sNick', R, ch)
  <2> SUFFICES ASSUME NEW i \in 1..Len(q), EndOf(q[i], ch), IsIn(q, sNick', R, i)
               PROVE  /\ i > 2 /\ PartOf(q[i - 1], ch) /\ PartOf(q[i - 2], ch)
                      /\ q[i - 2].list \cup q[i - 1].list = R[i]
    BY DEF ListsNew
  <2>1. i \in 1..(Len(q) + 1)
    BY <1>0
  <2> QED BY <2>1, <1>2
<1>7. \A i \in 1..Len(q) : EndOf(q[i], ch) =>
            ~NotAsked(ch) \/ \E k \in 1..i : ~IsIn(q, sNick', R, k)
  OBVIOUS
<1> QED BY <1>4, <1>5, <1>6, <1>7, Grows

LEMMA WelcomeTold ==
  ASSUME SessionType, NEW n \in Names
  PROVE  /\ Welcome(n) \in Told /\ Welcome(n).kind = "WELCOME" /\ Welcome(n).me = n
         /\ Welcome(n).gen = sessions
BY DEF SessionType, Welcome, Line, Told, Messages, Names, Places, OfChannel

IsBurst(q, ch, who) ==
    /\ q \in Seq(Told) /\ Len(q) = 3
    /\ PartOf(q[1], ch) /\ PartOf(q[2], ch) /\ EndOf(q[3], ch)
    /\ q[1].list \cup q[2].list = who
    /\ \A i \in 1..3 : q[i].me = sNick /\ q[i].gen = sessions

LEMMA BurstFacts ==
  ASSUME SessionType, NEW ch \in Channels, NEW who \in SUBSET Nicks
  PROVE  IsBurst(Burst(ch, who), ch, who)
<1>0. NoNick \in Names /\ ch \in Places
  BY DEF Names, Places
<1> PICK a, b, e : /\ a = Line("NAMES", NoNick, NoNick, ch, who \cap {sNick})
                   /\ b = Line("NAMES", NoNick, NoNick, ch, who \ {sNick})
                   /\ e = Line("ENDOFNAMES", NoNick, NoNick, ch, {})
  OBVIOUS
<1>1. a \in Told
  <2>1. who \cap {sNick} \in SUBSET Nicks
    OBVIOUS
  <2> QED BY <1>0, <2>1, LineTold DEF Messages
<1>2. b \in Told
  <2>1. who \ {sNick} \in SUBSET Nicks
    OBVIOUS
  <2> QED BY <1>0, <2>1, LineTold DEF Messages
<1>3. e \in Told
  BY <1>0, LineTold DEF Messages
<1>4. /\ a.kind = "NAMES" /\ a.ch = ch /\ a.me = sNick /\ a.gen = sessions
      /\ a.list = who \cap {sNick}
  BY DEF Line
<1>5. /\ b.kind = "NAMES" /\ b.ch = ch /\ b.me = sNick /\ b.gen = sessions
      /\ b.list = who \ {sNick}
  BY DEF Line
<1>6. /\ e.kind = "ENDOFNAMES" /\ e.ch = ch /\ e.me = sNick /\ e.gen = sessions
  BY DEF Line
<1> PICK q : q = <<a, b, e>>
  OBVIOUS
<1>7. q = Burst(ch, who)
  BY DEF Burst
<1>8. q \in Seq(Told) /\ Len(q) = 3 /\ q[1] = a /\ q[2] = b /\ q[3] = e
  BY <1>1, <1>2, <1>3
<1>9. q[1].list \cup q[2].list = who
  BY <1>4, <1>5, <1>8
<1>10. \A i \in 1..3 : q[i].me = sNick /\ q[i].gen = sessions
  <2>1. \A i \in 1..3 : i = 1 \/ i = 2 \/ i = 3
    OBVIOUS
  <2> QED BY <2>1, <1>4, <1>5, <1>6, <1>8
<1>11. IsBurst(q, ch, who)
  BY <1>4, <1>5, <1>6, <1>8, <1>9, <1>10 DEF IsBurst, PartOf, EndOf
<1> QED BY <1>7, <1>11

LEMMA ServerUserStep ==
  ASSUME MirrorInv, ServerUser
  PROVE  MirrorInv'
<1>0. /\ SessionType /\ ServerWhole /\ Mirrored
      /\ UNCHANGED <<sess, sessions, disputed, sNick, online, present, owner>>
      /\ UNCHANGED <<members, pending, answered, chans, welcomed, sessions, channels>>
      /\ out # <<>> /\ Head(out).kind = "USER" /\ out' = Tail(out) /\ gotUser'
      /\ pipe' = pipe \o (IF sNick # NoNick THEN <<Welcome(sNick)>> ELSE <<>>)
  BY DEF MirrorInv, ServerUser, Takes, Sends, sess, owner
<1>1. ServerWhole'
  BY <1>0 DEF ServerWhole
<1>2. gotUser' \in BOOLEAN
  BY DEF ServerUser
<1>3. CASE sNick = NoNick
  <2>1. pipe' = pipe
    BY <1>0, <1>3 DEF SessionType
  <2> QED BY <1>0, <1>1, <1>2, <2>1, ServerSilent
<1>4. CASE sNick # NoNick
  <2> PICK l : l = Welcome(sNick)
    OBVIOUS
  <2>1. l \in Told /\ l.kind = "WELCOME" /\ l.me = sNick /\ l.gen = sessions
    <3>1. sNick \in Names
      BY <1>0 DEF SessionType
    <3> QED BY <1>0, <3>1, WelcomeTold
  <2> PICK q : q = <<l>>
    OBVIOUS
  <2>2. /\ q \in Seq(Told) /\ pipe' = pipe \o q /\ Len(q) = 1 /\ q[1] = l
        /\ \A i \in 1..Len(q) : q[i] = l
    BY <1>0, <1>4, <2>1
  <2>3. BurstsWhole(q)
    BY <2>1, <2>2 DEF BurstsWhole, PartOf
  <2>4. Mirrored'
    <3> SUFFICES ASSUME NEW ch \in Channels PROVE \E Q \in Histories' : Fits(Q, ch)'
      BY DEF Mirrored
    <3>1. PICK S \in Histories : Fits(S, ch)
      BY <1>0 DEF Mirrored
    <3>2. NotAsked(ch) => NotAsked(ch)'
      BY <1>0, FewerAsked
    <3>3. \A i \in 1..Len(q) : /\ q[i].me = sNick /\ q[i].kind = "WELCOME" /\ ~EndOf(q[i], ch)
      BY <2>1, <2>2 DEF EndOf
    <3> QED BY <1>0, <3>1, <3>2, <3>3, <2>2, SameSaid
  <2>5. \A i \in 1..Len(q) : /\ q[i].me = sNick /\ q[i].gen = sessions
                             /\ q[i].kind \notin {"NICK", "NICKINUSE"}
    BY <2>1, <2>2
  <2>6. present' \in [Channels -> SUBSET Nicks]
    BY <1>0 DEF SessionType
  <2> QED BY <1>0, <1>1, <1>2, <1>4, <2>2, <2>3, <2>4, <2>5, <2>6, ServerSpeaks
<1> QED BY <1>3, <1>4

LEMMA BurstWhole ==
  ASSUME NEW q, NEW ch, NEW who, IsBurst(q, ch, who), ch \in Channels
  PROVE  BurstsWhole(q)
<1> SUFFICES ASSUME NEW i \in 1..3, NEW d \in Channels, PartOf(q[i], d)
             PROVE  /\ i < 3
                    /\ \/ EndOf(q[i + 1], d)
                       \/ PartOf(q[i + 1], d) /\ i + 1 < 3 /\ EndOf(q[i + 2], d)
  BY DEF BurstsWhole, IsBurst
<1>1. i = 1 \/ i = 2 \/ i = 3
  OBVIOUS
<1>2. PartOf(q[1], ch) /\ PartOf(q[2], ch) /\ EndOf(q[3], ch)
  BY DEF IsBurst
<1>3. CASE i = 1
  <2>1. d = ch /\ i + 1 = 2 /\ i + 2 = 3
    BY <1>2, <1>3 DEF PartOf
  <2> QED BY <1>2, <1>3, <2>1
<1>4. CASE i = 2
  <2>1. d = ch /\ i + 1 = 3
    BY <1>2, <1>4 DEF PartOf
  <2> QED BY <1>2, <1>4, <2>1
<1>5. CASE i = 3
  BY <1>2, <1>5 DEF PartOf, EndOf
<1> QED BY <1>1, <1>3, <1>4, <1>5

LEMMA ServerNamesStep ==
  ASSUME MirrorInv, ServerNames
  PROVE  MirrorInv'
<1> PICK ch : ch = Head(out).ch
  OBVIOUS
<1>0. /\ SessionType /\ ServerWhole /\ Mirrored
      /\ UNCHANGED <<sess, sessions, disputed, gotUser, sNick, online, present, owner>>
      /\ UNCHANGED <<members, pending, answered, chans, welcomed, sessions, channels>>
      /\ out # <<>> /\ Head(out).kind = "NAMES" /\ out' = Tail(out)
  BY DEF MirrorInv, ServerNames, Takes, sess, owner, server
<1>a. /\ out' \in Seq(Asked) /\ Head(out) = out[1] /\ out[1] \in Asked
      /\ Len(out) \in Nat /\ Len(out) > 0
      /\ \A d \in Channels : NotAsked(d) => NotAsked(d)'
  BY <1>0, FewerAsked
<1>b. ch \in Channels /\ ~NotAsked(ch)
  <2>1. ch \in Channels
    BY <1>0, <1>a DEF Asked, OfChannel
  <2>2. 1 \in 1..Len(out) /\ out[1].kind = "NAMES" /\ out[1].ch = ch
    BY <1>0, <1>a
  <2> QED BY <2>1, <2>2 DEF NotAsked
<1>1. gotUser
  BY <1>0, <1>a DEF ServerWhole
<1>2. ServerWhole' /\ gotUser' \in BOOLEAN /\ present' \in [Channels -> SUBSET Nicks]
  BY <1>0, <1>1 DEF ServerWhole, SessionType
<1>3. present[ch] \in SUBSET Nicks
  BY <1>0, <1>b DEF SessionType
<1>4. CASE pipe' = pipe
  BY <1>0, <1>2, <1>4, ServerSilent
<1>5. CASE sNick # NoNick /\ pipe' = pipe \o Burst(ch, present[ch])
  <2> PICK q : q = Burst(ch, present[ch])
    OBVIOUS
  <2>0. IsBurst(q, ch, present[ch])
    BY <1>0, <1>b, <1>3, BurstFacts
  <2>1. /\ q \in Seq(Told) /\ Len(q) = 3
        /\ PartOf(q[1], ch) /\ PartOf(q[2], ch) /\ EndOf(q[3], ch)
        /\ q[1].list \cup q[2].list = present[ch]
        /\ \A i \in 1..3 : q[i].me = sNick /\ q[i].gen = sessions
    BY <2>0 DEF IsBurst
  <2>2. BurstsWhole(q)
    BY <1>b, <2>0, BurstWhole
  <2>3. \A i \in 1..3 : /\ q[i].kind \in {"NAMES", "ENDOFNAMES"} /\ q[i].ch = ch
                        /\ i # 3 => q[i].kind = "NAMES"
    <3>1. \A i \in 1..3 : i = 1 \/ i = 2 \/ i = 3
      OBVIOUS
    <3> QED BY <2>1, <3>1 DEF PartOf, EndOf
  <2>4. Mirrored'
    <3> SUFFICES ASSUME NEW d \in Channels PROVE \E Q \in Histories' : Fits(Q, d)'
      BY DEF Mirrored
    <3>1. PICK S \in Histories : Fits(S, d)
      BY <1>0 DEF Mirrored
    <3>2. NotAsked(d) => NotAsked(d)'
      BY <1>a
    <3>3. ASSUME NEW i \in 1..Len(q), EndOf(q[i], d)
          PROVE  /\ i > 2 /\ PartOf(q[i - 1], d) /\ PartOf(q[i - 2], d)
                 /\ q[i - 2].list \cup q[i - 1].list = present[d]
                 /\ ~NotAsked(d)
      <4>1. d = ch /\ i = 3
        BY <2>1, <2>3, <3>3 DEF EndOf
      <4>2. i > 2 /\ i - 1 = 2 /\ i - 2 = 1
        BY <4>1
      <4>3. PartOf(q[2], d) /\ PartOf(q[1], d) /\ q[1].list \cup q[2].list = present[d]
        BY <4>1, <2>1
      <4>4. ~NotAsked(d)
        BY <4>1, <1>b
      <4> QED BY <4>2, <4>3, <4>4
    <3>4. \A i \in 1..Len(q) : /\ q[i].me = sNick /\ q[i].kind \in {"NAMES", "ENDOFNAMES"}
      BY <2>1, <2>3
    <3> QED BY <1>0, <1>5, <3>1, <3>2, <3>3, <3>4, <2>1, SameSaid
  <2>5. \A i \in 1..Len(q) : /\ q[i].me = sNick /\ q[i].gen = sessions
                             /\ q[i].kind \notin {"NICK", "NICKINUSE"}
    BY <2>1, <2>3
  <2> QED BY <1>0, <1>2, <1>5, <2>1, <2>2, <2>4, <2>5, ServerSpeaks
<1>6. CASE /\ sNick # NoNick /\ sNick \notin present[ch]
           /\ pipe' = pipe \o <<Line("ENDOFNAMES", NoNick, NoNick, ch, {})>>
  <2> PICK l : l = Line("ENDOFNAMES", NoNick, NoNick, ch, {})
    OBVIOUS
  <2>1. l \in Told /\ l.kind = "ENDOFNAMES" /\ l.me = sNick /\ l.gen = sessions /\ l.ch = ch
    BY <1>0, <1>b, LineTold DEF Line, Names, Places, Messages
  <2> PICK q : q = <<l>>
    OBVIOUS
  <2>2. /\ q \in Seq(Told) /\ pipe' = pipe \o q /\ Len(q) = 1 /\ q[1] = l
        /\ \A i \in 1..Len(q) : q[i] = l
    BY <1>6, <2>1
  <2>3. BurstsWhole(q)
    BY <2>1, <2>2 DEF BurstsWhole, PartOf
  <2>4. Mirrored'
    <3> SUFFICES ASSUME NEW d \in Channels PROVE \E Q \in Histories' : Fits(Q, d)'
      BY DEF Mirrored
    <3>1. PICK S \in Histories : Fits(S, d)
      BY <1>0 DEF Mirrored
    <3>2. NotAsked(d) => NotAsked(d)'
      BY <1>a
    <3>3. ASSUME NEW i \in 1..Len(q)
          PROVE  /\ q[i].me = sNick /\ q[i].kind = "ENDOFNAMES"
                 /\ EndOf(q[i], d) => sNick \notin present[d] /\ ~NotAsked(d)
      BY <2>1, <2>2, <1>6, <1>b DEF EndOf
    <3> QED BY <1>0, <3>1, <3>2, <3>3, <2>2, SameSaid
  <2>5. \A i \in 1..Len(q) : /\ q[i].me = sNick /\ q[i].gen = sessions
                             /\ q[i].kind \notin {"NICK", "NICKINUSE"}
    BY <2>1, <2>2
  <2> QED BY <1>0, <1>2, <1>6, <2>2, <2>3, <2>4, <2>5, ServerSpeaks
<1> QED BY <1>4, <1>5, <1>6 DEF ServerNames, Sends, Registered

LEMMA ServerPartStep ==
  ASSUME MirrorInv, ServerPart
  PROVE  MirrorInv'
<1> PICK ch : ch = Head(out).ch
  OBVIOUS
<1>0. /\ SessionType /\ ServerWhole /\ Mirrored
      /\ UNCHANGED <<sess, sessions, disputed, gotUser, sNick, online, owner>>
      /\ UNCHANGED <<members, pending, answered, chans, welcomed, sessions, channels>>
      /\ out # <<>> /\ Head(out).kind = "PART" /\ out' = Tail(out)
  BY DEF MirrorInv, ServerPart, Takes, sess, owner
<1>a. /\ out' \in Seq(Asked) /\ Head(out) = out[1] /\ out[1] \in Asked
      /\ \A d \in Channels : NotAsked(d) => NotAsked(d)'
  BY <1>0, FewerAsked
<1>b. ch \in Channels
  BY <1>0, <1>a DEF Asked, OfChannel
<1>1. gotUser
  BY <1>0, <1>a DEF ServerWhole
<1>2. present \in [Channels -> SUBSET Nicks] /\ gotUser' \in BOOLEAN
  BY <1>0 DEF SessionType
<1>3. CASE Registered /\ sNick \in present[ch]
  <2> PICK l : l = Line("PART", sNick, NoNick, ch, {})
    OBVIOUS
  <2>1. /\ present' = [present EXCEPT ![ch] = @ \ {sNick}] /\ pipe' = pipe \o <<l>>
        /\ sNick # NoNick
    BY <1>3 DEF ServerPart, Sends, Registered
  <2>2. /\ l \in Told /\ l.kind = "PART" /\ l.me = sNick /\ l.gen = sessions /\ l.ch = ch
    <3>1. sNick \in Names /\ NoNick \in Names /\ ch \in Places
      BY <1>0, <1>b DEF SessionType, Names, Places
    <3> QED BY <1>0, <1>b, <3>1, LineTold DEF Line, Messages
  <2>3. /\ present' \in [Channels -> SUBSET Nicks]
        /\ present'[ch] = present[ch] \ {sNick}
        /\ \A d \in Channels \ {ch} : present'[d] = present[d]
    BY <1>b, <1>2, <2>1
  <2> PICK q : q = <<l>>
    OBVIOUS
  <2>4. /\ q \in Seq(Told) /\ pipe' = pipe \o q /\ Len(q) = 1 /\ q[1] = l
        /\ \A i \in 1..Len(q) : q[i] = l
    BY <2>1, <2>2
  <2>5. BurstsWhole(q)
    BY <2>2, <2>4 DEF BurstsWhole, PartOf
  <2>6. ServerWhole'
    BY <1>0, <1>1, <2>3 DEF ServerWhole
  <2>7. Mirrored'
    <3> SUFFICES ASSUME NEW d \in Channels PROVE \E Q \in Histories' : Fits(Q, d)'
      BY DEF Mirrored
    <3>1. PICK S \in Histories : Fits(S, d)
      BY <1>0 DEF Mirrored
    <3>2. NotAsked(d) => NotAsked(d)'
      BY <1>a
    <3>3. /\ present[d] \in SUBSET Nicks /\ present'[d] \in SUBSET Nicks
          /\ l.kind # "ENDOFNAMES" /\ (sNick \in present[d] <=> l.me \in present[d])
      BY <1>2, <2>2, <2>3
    <3>4. sNick' \in present'[d] =>
            sNick \in present[d] /\ present'[d] = Says(l, d, present[d])
      BY <1>0, <2>2, <2>3 DEF Says
    <3> QED BY <1>0, <2>1, <2>2, <3>1, <3>2, <3>3, <3>4, OneSaid
  <2>8. \A i \in 1..Len(q) : /\ q[i].me = sNick /\ q[i].gen = sessions
                             /\ q[i].kind \notin {"NICK", "NICKINUSE"}
    BY <2>2, <2>4
  <2> QED BY <1>0, <1>2, <2>1, <2>3, <2>4, <2>5, <2>6, <2>7, <2>8, ServerSpeaks
<1>4. CASE ~(Registered /\ sNick \in present[ch])
  <2>1. UNCHANGED <<present, pipe>>
    BY <1>4 DEF ServerPart
  <2>2. ServerWhole'
    BY <1>0, <1>1, <2>1 DEF ServerWhole
  <2> QED BY <1>0, <1>2, <2>1, <2>2, ServerSilent
<1> QED BY <1>3, <1>4

(* The lines of a JOIN of the bot.                                         *)
IsEntry(q, ch, who) ==
    /\ q \in Seq(Told) /\ Len(q) = 4
    /\ OwnJoin(q[1], ch) /\ q[1].nick = sNick
    /\ PartOf(q[2], ch) /\ PartOf(q[3], ch) /\ EndOf(q[4], ch)
    /\ q[2].list \cup q[3].list = who
    /\ \A i \in 1..4 : q[i].me = sNick /\ q[i].gen = sessions

LEMMA EntryFacts ==
  ASSUME SessionType, sNick # NoNick, NEW ch \in Channels, NEW who \in SUBSET Nicks
  PROVE  IsEntry(<<Line("JOIN", sNick, NoNick, ch, {})>> \o Burst(ch, who), ch, who)
<1>0. NoNick \in Names /\ sNick \in Names /\ ch \in Places /\ sNick \in Nicks
  BY DEF SessionType, Names, Places
<1> PICK j, b, q : /\ j = Line("JOIN", sNick, NoNick, ch, {}) /\ b = Burst(ch, who)
                   /\ q = <<j>> \o b
  OBVIOUS
<1>1. /\ j \in Told /\ j.kind = "JOIN" /\ j.ch = ch /\ j.me = sNick /\ j.nick = sNick
      /\ j.gen = sessions
  BY <1>0, LineTold DEF Line, Messages
<1>2. IsBurst(b, ch, who)
  BY BurstFacts
<1>3. /\ b \in Seq(Told) /\ Len(b) = 3
      /\ PartOf(b[1], ch) /\ PartOf(b[2], ch) /\ EndOf(b[3], ch)
      /\ b[1].list \cup b[2].list = who
      /\ \A i \in 1..3 : b[i].me = sNick /\ b[i].gen = sessions
  BY <1>2 DEF IsBurst
<1> PICK h : h = <<j>>
  OBVIOUS
<1>4. h \in Seq(Told) /\ Len(h) = 1 /\ h[1] = j /\ q = h \o b
  BY <1>1
<1>5. q \in Seq(Told) /\ Len(q) = 4 /\ q[1] = j /\ \A i \in 1..3 : q[1 + i] = b[i]
  <2>1. /\ h \o b \in Seq(Told) /\ Len(h \o b) = Len(h) + Len(b)
        /\ \A i \in 1..Len(h) : (h \o b)[i] = h[i]
        /\ \A i \in 1..Len(b) : (h \o b)[Len(h) + i] = b[i]
    <3>1. h \in Seq(Told) /\ b \in Seq(Told)
      BY <1>3, <1>4
    <3> QED BY <3>1, Behind
  <2> QED BY <2>1, <1>3, <1>4
<1>6. q[2] = b[1] /\ q[3] = b[2] /\ q[4] = b[3]
  <2>1. 1 \in 1..3 /\ 2 \in 1..3 /\ 3 \in 1..3 /\ 1 + 1 = 2 /\ 1 + 2 = 3 /\ 1 + 3 = 4
    OBVIOUS
  <2> QED BY <2>1, <1>5
<1>7. \A i \in 1..4 : q[i].me = sNick /\ q[i].gen = sessions
  <2>1. \A i \in 1..4 : i = 1 \/ i = 2 \/ i = 3 \/ i = 4
    OBVIOUS
  <2>2. 1 \in 1..3 /\ 2 \in 1..3 /\ 3 \in 1..3
    OBVIOUS
  <2> QED BY <2>1, <2>2, <1>1, <1>3, <1>5, <1>6
<1>8. IsEntry(q, ch, who)
  BY <1>1, <1>3, <1>5, <1>6, <1>7 DEF IsEntry, OwnJoin
<1> QED BY <1>8

LEMMA ServerJoinStep ==
  ASSUME MirrorInv, ServerJoin
  PROVE  MirrorInv'
<1> PICK ch : ch = Head(out).ch
  OBVIOUS
<1>0. /\ SessionType /\ ServerWhole /\ Mirrored
      /\ UNCHANGED <<sess, sessions, disputed, gotUser, sNick, online, owner>>
      /\ UNCHANGED <<members, pending, answered, chans, welcomed, sessions, channels>>
      /\ out # <<>> /\ Head(out).kind = "JOIN" /\ out' = Tail(out)
  BY DEF MirrorInv, ServerJoin, Takes, sess, owner
<1>a. /\ out' \in Seq(Asked) /\ Head(out) = out[1] /\ out[1] \in Asked
      /\ Len(out) \in Nat /\ Len(out) > 0
      /\ \A d \in Channels : NotAsked(d) => NotAsked(d)'
  BY <1>0, FewerAsked
<1>b. ch \in Channels /\ ~NotAsked(ch)
  <2>1. ch \in Channels
    BY <1>0, <1>a DEF Asked, OfChannel
  <2>2. 1 \in 1..Len(out) /\ out[1].kind = "JOIN" /\ out[1].ch = ch
    BY <1>0, <1>a
  <2> QED BY <2>1, <2>2 DEF NotAsked
<1>1. gotUser
  BY <1>0, <1>a DEF ServerWhole
<1>2. present \in [Channels -> SUBSET Nicks] /\ gotUser' \in BOOLEAN
  BY <1>0 DEF SessionType
<1>3. CASE UNCHANGED <<present, pipe>>
  <2>1. ServerWhole'
    BY <1>0, <1>1, <1>3 DEF ServerWhole
  <2> QED BY <1>0, <1>2, <1>3, <2>1, ServerSilent
<1>4. CASE /\ Registered /\ sNick \notin present[ch]
           /\ present' = [present EXCEPT ![ch] = @ \cup {sNick}]
           /\ Sends(<<Line("JOIN", sNick, NoNick, ch, {})>>
                    \o Burst(ch, present[ch] \cup {sNick}))
  <2>0. sNick # NoNick /\ sNick \in Nicks
    BY <1>0, <1>4 DEF Registered, SessionType, Names
  <2>1. /\ present' \in [Channels -> SUBSET Nicks]
        /\ present'[ch] = present[ch] \cup {sNick}
        /\ \A d \in Channels \ {ch} : present'[d] = present[d]
    BY <1>b, <1>2, <1>4, <2>0
  <2> PICK who : who = present[ch] \cup {sNick}
    OBVIOUS
  <2>q. PICK q : q = <<Line("JOIN", sNick, NoNick, ch, {})>> \o Burst(ch, who)
    OBVIOUS
  <2>2. pipe' = pipe \o q
    BY <1>4, <2>q DEF Sends
  <2>3. IsEntry(q, ch, who)
    <3>1. who \in SUBSET Nicks
      BY <1>2, <1>b, <2>0
    <3> QED BY <1>0, <1>b, <2>0, <2>q, <3>1, EntryFacts
  <2>4. /\ q \in Seq(Told) /\ Len(q) = 4
        /\ OwnJoin(q[1], ch) /\ q[1].nick = sNick
        /\ PartOf(q[2], ch) /\ PartOf(q[3], ch) /\ EndOf(q[4], ch)
        /\ q[2].list \cup q[3].list = who
        /\ \A i \in 1..4 : q[i].me = sNick /\ q[i].gen = sessions
    BY <2>3 DEF IsEntry
  <2>i. \A i \in 1..4 : i = 1 \/ i = 2 \/ i = 3 \/ i = 4
    OBVIOUS
  <2>j. \A i \in 2..5 : i \in 1..5 /\ (i = 2 \/ i = 3 \/ i = 4 \/ i = 5)
    OBVIOUS
  <2>5. \A i \in 1..4 : /\ q[i].ch = ch /\ q[i].kind \in {"JOIN", "NAMES", "ENDOFNAMES"}
                        /\ i = 1 => q[i].kind = "JOIN"
                        /\ i \in {2, 3} => q[i].kind = "NAMES"
                        /\ i = 4 => q[i].kind = "ENDOFNAMES"
    BY <2>4, <2>i DEF OwnJoin, PartOf, EndOf
  <2>6. BurstsWhole(q)
    <3> SUFFICES ASSUME NEW i \in 1..4, NEW d \in Channels, PartOf(q[i], d)
                 PROVE  /\ i < 4
                        /\ \/ EndOf(q[i + 1], d)
                           \/ PartOf(q[i + 1], d) /\ i + 1 < 4 /\ EndOf(q[i + 2], d)
      BY <2>4 DEF BurstsWhole
    <3>1. d = ch /\ i \in {2, 3}
      BY <2>5, <2>i DEF PartOf
    <3>2. CASE i = 2
      <4>1. i + 1 = 3 /\ i + 2 = 4
        BY <3>2
      <4> QED BY <3>1, <3>2, <4>1, <2>4
    <3>3. CASE i = 3
      <4>1. i + 1 = 4
        BY <3>3
      <4> QED BY <3>1, <3>3, <4>1, <2>4
    <3> QED BY <3>1, <3>2, <3>3
  <2>7. ServerWhole'
    BY <1>0, <1>1, <2>1 DEF ServerWhole
  <2>8. \A i \in 1..Len(q) : /\ q[i].me = sNick /\ q[i].gen = sessions
                             /\ q[i].kind \notin {"NICK", "NICKINUSE"}
    <3>1. Len(q) = 4 /\ \A i \in 1..4 : q[i].me = sNick /\ q[i].gen = sessions
      BY <2>4
    <3>2. \A i \in 1..4 : q[i].kind \notin {"NICK", "NICKINUSE"}
      BY <2>5
    <3> QED BY <3>1, <3>2
  <2>9. ASSUME NEW d \in Channels \ {ch} PROVE \E Q \in Histories' : Fits(Q, d)'
    <3>1. PICK S \in Histories : Fits(S, d)
      BY <1>0 DEF Mirrored
    <3>2. NotAsked(d) => NotAsked(d)'
      BY <1>a
    <3>3. ASSUME NEW i \in 1..Len(q)
          PROVE  /\ q[i].me = sNick /\ q[i].ch # d /\ q[i].kind \notin {"NICK", "QUIT"}
                 /\ ~EndOf(q[i], d)
      <4>1. i \in 1..4 /\ q[i].me = sNick
        BY <2>4
      <4>2. q[i].ch = ch /\ q[i].kind \in {"JOIN", "NAMES", "ENDOFNAMES"}
        BY <4>1, <2>5
      <4> QED BY <4>1, <4>2 DEF EndOf
    <3>4. present'[d] = present[d] /\ d \in Channels
      BY <2>1
    <3>5. q \in Seq(Told)
      BY <2>4
    <3>6. /\ SessionType /\ sNick' = sNick /\ (disputed => disputed')
          /\ UNCHANGED <<members, pending, answered, chans, welcomed, sessions, channels>>
      BY <1>0
    <3>7. \A i \in 1..Len(q) :
            /\ q[i].me = sNick
            /\ q[i].kind \in {"WELCOME", "NAMES", "ENDOFNAMES"} \/ q[i].ch # d
            /\ q[i].kind \notin {"NICK", "QUIT"}
            /\ EndOf(q[i], d) =>
                  /\ sNick \in present[d] =>
                        /\ i > 2 /\ PartOf(q[i - 1], d) /\ PartOf(q[i - 2], d)
                        /\ q[i - 2].list \cup q[i - 1].list = present[d]
                  /\ ~NotAsked(d)
      BY <3>3
    <3> QED BY <3>1, <3>2, <3>4, <3>5, <3>6, <3>7, <2>2, SameSaid
  <2>10. \E Q \in Histories' : Fits(Q, ch)'
    <3>1. PICK S \in Histories : Fits(S, ch)
      BY <1>0, <1>b DEF Mirrored
    <3>2. PICK R \in [1..(Len(q) + 1) -> SUBSET Nicks] :
            R = [i \in 1..(Len(q) + 1) |-> IF i = 1 THEN present[ch] ELSE who]
      <4>1. present[ch] \in SUBSET Nicks /\ who \in SUBSET Nicks
        BY <1>2, <1>b, <2>0
      <4> QED BY <4>1
    <3>3. /\ Len(q) + 1 = 5 /\ R[1] = present[ch] /\ who = present'[ch]
          /\ R[2] = who /\ R[3] = who /\ R[4] = who /\ R[5] = who
      BY <2>1, <2>4, <3>2
    <3>4. \A i \in 1..5 : MeAt(q, sNick', i) = sNick
      <4>1. \A i \in 1..5 : i = 5 \/ i \in 1..4
        OBVIOUS
      <4> QED BY <4>1, <1>0, <2>4 DEF MeAt
    <3>5. /\ ~IsIn(q, sNick', R, 1)
          /\ \A i \in 2..5 : IsIn(q, sNick', R, i)
      <4>1. 1 \in 1..5 /\ \A i \in 2..5 : i \in 1..5 /\ R[i] = who
        <5>1. 1 \in 1..5
          OBVIOUS
        <5>2. R[2] = who /\ R[3] = who /\ R[4] = who /\ R[5] = who
          BY <3>3
        <5> QED BY <5>1, <5>2, <2>j
      <4> QED BY <4>1, <1>4, <3>3, <3>4 DEF IsIn
    <3>6. R[Len(q) + 1] = present'[ch] /\ GoesOn(sNick, present[ch], q, sNick', R)
      <4>1. 1 \in 1..5
        OBVIOUS
      <4> QED BY <4>1, <3>3, <3>4, <1>4 DEF GoesOn
    <3>7. Follows(q, sNick', R, ch)
      <4> SUFFICES ASSUME NEW i \in 1..4, IsIn(q, sNick', R, i + 1)
                   PROVE  /\ IsIn(q, sNick', R, i) => R[i + 1] = Says(q[i], ch, R[i])
                          /\ ~IsIn(q, sNick', R, i) => OwnJoin(q[i], ch)
        BY <2>4 DEF Follows
      <4>1. CASE i = 1
        BY <4>1, <2>4, <3>5
      <4>2. CASE i \in 2..4
        <5>1. IsIn(q, sNick', R, i) /\ R[i + 1] = R[i]
          <6>1. i \in 2..5
            BY <4>2
          <6>2. i + 1 = 3 \/ i + 1 = 4 \/ i + 1 = 5
            BY <4>2
          <6>3. i = 2 \/ i = 3 \/ i = 4
            BY <4>2
          <6> QED BY <6>1, <6>2, <6>3, <3>3, <3>5
        <5>2. q[i].kind \in {"NAMES", "ENDOFNAMES"}
          <6>1. i = 2 \/ i = 3 \/ i = 4
            BY <4>2
          <6> QED BY <6>1, <2>5
        <5>3. Says(q[i], ch, R[i]) = R[i]
          BY <5>2 DEF Says
        <5> QED BY <5>1, <5>3
      <4>3. i = 1 \/ i \in 2..4
        OBVIOUS
      <4> QED BY <4>1, <4>2, <4>3
    <3>8. ListsNew(q, sNick', R, ch)
      <4> SUFFICES ASSUME NEW i \in 1..4, EndOf(q[i], ch)
                   PROVE  /\ i > 2 /\ PartOf(q[i - 1], ch) /\ PartOf(q[i - 2], ch)
                          /\ q[i - 2].list \cup q[i - 1].list = R[i]
        BY <2>4 DEF ListsNew
      <4>1. i = 4
        BY <2>5, <2>i DEF EndOf
      <4>2. i - 1 = 3 /\ i - 2 = 2
        BY <4>1
      <4>3. R[i] = who /\ i > 2
        BY <4>1, <3>3
      <4>4. PartOf(q[3], ch) /\ PartOf(q[2], ch) /\ q[2].list \cup q[3].list = who
        BY <2>4
      <4> QED BY <4>2, <4>3, <4>4
    <3>9. \A i \in 1..Len(q) : EndOf(q[i], ch) =>
              ~NotAsked(ch) \/ \E k \in 1..i : ~IsIn(q, sNick', R, k)
      BY <1>b
    <3>10. NotAsked(ch) => NotAsked(ch)'
      BY <1>b
    <3> QED BY <1>0, <1>b, <2>2, <2>4, <3>1, <3>6, <3>7, <3>8, <3>9, <3>10, Grows
  <2>11. Mirrored'
    BY <2>9, <2>10 DEF Mirrored
  <2>12. q \in Seq(Told) /\ present' \in [Channels -> SUBSET Nicks]
    BY <2>1, <2>4
  <2>13. /\ UNCHANGED <<sess, sessions, disputed, owner, sNick, online>>
         /\ out # <<>> /\ out' = Tail(out) /\ gotUser' \in BOOLEAN
    BY <1>0, <1>2
  <2> QED BY <2>0, <2>2, <2>6, <2>7, <2>8, <2>11, <2>12, <2>13, ServerSpeaks
<1> QED BY <1>3, <1>4 DEF ServerJoin

(* The server takes the nick the bot asked for before it had one.          *)
LEMMA NickFirst ==
  ASSUME SessionType, NickKnown, sNick = NoNick, ~disputed,
         out # <<>>, Head(out).kind = "NICK", out' = Tail(out)
  PROVE  /\ pipe = <<>> /\ Head(out).nick = nick
         /\ \A j \in 1..Len(out') : out'[j].kind # "NICK"
<1> PICK a, b : a = out /\ b = out'
  OBVIOUS
<1>1. /\ Len(a) \in Nat /\ Len(a) > 0 /\ Len(b) = Len(a) - 1 /\ a[1] = Head(a)
      /\ \A i \in 1..Len(b) : b[i] = a[i + 1]
  BY FewerAsked
<1>2. 1 \in 1..Len(a) /\ a[1].kind = "NICK"
  BY <1>1
<1>3. /\ pipe = <<>>
      /\ \E i \in 1..Len(a) :
            /\ a[i].kind = "NICK" /\ a[i].nick = nick
            /\ \A j \in 1..Len(a) : a[j].kind = "NICK" => j = i
  BY <1>2 DEF NickKnown
<1>4. a[1].nick = nick /\ \A j \in 1..Len(a) : a[j].kind = "NICK" => j = 1
  BY <1>2, <1>3
<1>5. ASSUME NEW j \in 1..Len(b) PROVE b[j].kind # "NICK"
  <2>1. j + 1 \in 1..Len(a) /\ j + 1 # 1 /\ b[j] = a[j + 1]
    BY <1>1
  <2> QED BY <2>1, <1>4
<1> QED BY <1>1, <1>3, <1>4, <1>5

LEMMA ServerNickStep ==
  ASSUME MirrorInv, ServerNick
  PROVE  MirrorInv'
<1> PICK n : n = Head(out).nick
  OBVIOUS
<1>0. /\ SessionType /\ LinesFollow /\ PendingShort /\ AnswersFresh /\ NothingLeft /\ NickKnown
      /\ ServerWhole /\ Mirrored
      /\ UNCHANGED <<sess, sessions, gotUser, online, owner, channels>>
      /\ UNCHANGED <<members, pending, answered, chans, welcomed, nick>>
      /\ out # <<>> /\ Head(out).kind = "NICK" /\ out' = Tail(out)
  BY DEF MirrorInv, ServerNick, Takes, sess, owner
<1>a. /\ out' \in Seq(Asked) /\ Head(out) = out[1] /\ out[1] \in Asked
      /\ Len(out) \in Nat /\ Len(out') = Len(out) - 1
      /\ \A i \in 1..Len(out') : out'[i] = out[i + 1]
      /\ \A d \in Channels : NotAsked(d) => NotAsked(d)'
  BY <1>0, FewerAsked
<1>b. n \in Nicks /\ n # NoNick /\ n \in Names /\ NoNick \in Names /\ NoChannel \in Places
  BY <1>0, <1>a, SessionAssumption DEF Asked, Names, Places
<1>c. ~gotUser => /\ n = CfgNick /\ sNick \in {NoNick, CfgNick}
                  /\ out' # <<>> /\ out'[1].kind = "USER"
  <2> SUFFICES ASSUME ~gotUser PROVE /\ n = CfgNick /\ sNick \in {NoNick, CfgNick}
                                     /\ out' # <<>> /\ out'[1].kind = "USER"
    OBVIOUS
  <2>1. n = CfgNick /\ sNick \in {NoNick, CfgNick} /\ Len(out) > 1 /\ out[2].kind = "USER"
    BY <1>0, <1>a DEF ServerWhole
  <2>2. 1 \in 1..Len(out')
    BY <2>1, <1>a
  <2>3. out'[1] = out[1 + 1]
    BY <2>2, <1>a
  <2>4. out' # <<>>
    BY <2>2
  <2> QED BY <2>1, <2>3, <2>4
<1>d. /\ present \in [Channels -> SUBSET Nicks] /\ sNick \in Names /\ pipe \in Seq(Told)
      /\ sNick \notin online /\ \A d \in Channels : present[d] \subseteq online \cup {sNick}
      /\ gotUser' \in BOOLEAN /\ online' \subseteq UserNicks /\ disputed \in BOOLEAN
  BY <1>0 DEF SessionType, ServerWhole
<1>1. CASE n = sNick
  <2>1. UNCHANGED <<pipe, sNick, present, disputed>>
    BY <1>1 DEF ServerNick
  <2>2. ServerWhole'
    BY <1>0, <1>c, <2>1 DEF ServerWhole
  <2> QED BY <1>0, <1>1, <1>b, <1>d, <2>1, <2>2, ServerSilent
<1>2. CASE n # sNick /\ n \in online
  <2> PICK l : l = Line("NICKINUSE", NoNick, n, NoChannel, {})
    OBVIOUS
  <2>1. /\ pipe' = pipe \o <<l>> /\ disputed' = (disputed \/ sNick # NoNick)
        /\ UNCHANGED <<sNick, present>>
    BY <1>2 DEF ServerNick, Sends
  <2>2. /\ l \in Told /\ l.kind = "NICKINUSE" /\ l.me = sNick /\ l.gen = sessions
    BY <1>0, <1>b, LineTold DEF Line, Messages, OfChannel
  <2> PICK q : q = <<l>>
    OBVIOUS
  <2>3. /\ q \in Seq(Told) /\ pipe' = pipe \o q /\ Len(q) = 1 /\ q[1] = l
        /\ \A i \in 1..Len(q) : q[i] = l /\ i + 1 = 2
    BY <2>1, <2>2
  <2>4. MeAt(q, sNick', 1) = sNick /\ MeAt(q, sNick', 2) = sNick
    BY <2>1, <2>2, <2>3 DEF MeAt
  <2>5. NicksFollow(q, sNick') /\ BurstsWhole(q)
    BY <2>2, <2>3, <2>4 DEF NicksFollow, BurstsWhole, NickPast, PartOf
  <2>6. SessionType' /\ LinesFollow' /\ PendingShort' /\ AnswersFresh' /\ NothingLeft'
    <3>1. \A i \in 1..Len(q) : q[i].gen = sessions
      BY <2>2, <2>3
    <3>2. disputed' \in BOOLEAN /\ sNick' \in Names /\ present' \in [Channels -> SUBSET Nicks]
      BY <1>d, <2>1
    <3> QED BY <1>0, <1>a, <1>d, <2>3, <2>4, <2>5, <3>1, <3>2, SaysMore
  <2>7. ServerWhole'
    BY <1>0, <1>c, <2>1 DEF ServerWhole
  <2>8. NickKnown'
    <3> SUFFICES ASSUME ~disputed, sNick = NoNick PROVE NickKnown'
      BY <2>1 DEF NickKnown
    <3>1. pipe = <<>> /\ \A j \in 1..Len(out') : out'[j].kind # "NICK"
      BY <1>0, NickFirst
    <3>2. pipe' = q
      BY <3>1, <2>3
    <3>3. Len(pipe') = 1 /\ \A i \in 1..Len(pipe') : pipe'[i].kind = "NICKINUSE"
      BY <3>2, <2>2, <2>3
    <3> QED BY <3>1, <3>3, <2>1 DEF NickKnown
  <2>9. Mirrored'
    <3> SUFFICES ASSUME NEW ch \in Channels PROVE \E Q \in Histories' : Fits(Q, ch)'
      BY DEF Mirrored
    <3>1. PICK S \in Histories : Fits(S, ch)
      BY <1>0 DEF Mirrored
    <3>2. /\ present[ch] \in SUBSET Nicks /\ present'[ch] \in SUBSET Nicks
          /\ l.kind # "ENDOFNAMES" /\ (sNick \in present[ch] <=> l.me \in present[ch])
          /\ NotAsked(ch) => NotAsked(ch)'
      BY <1>a, <1>d, <2>1, <2>2
    <3>3. sNick' \in present'[ch] =>
            sNick \in present[ch] /\ present'[ch] = Says(l, ch, present[ch])
      BY <2>1, <2>2 DEF Says
    <3>4. disputed => disputed'
      BY <2>1
    <3> QED BY <1>0, <2>1, <2>2, <3>1, <3>2, <3>3, <3>4, OneSaid
  <2> QED BY <2>6, <2>7, <2>8, <2>9 DEF MirrorInv
<1>3. CASE n # sNick /\ n \notin online
  <2>1. /\ sNick' = n /\ present' = Renamed(sNick, n) /\ disputed' = disputed
        /\ pipe' = pipe \o (IF Registered THEN <<Line("NICK", sNick, n, NoChannel, {})>>
                            ELSE IF gotUser THEN <<Welcome(n)>> ELSE <<>>)
    BY <1>3 DEF ServerNick, Sends
  <2>2. /\ present' \in [Channels -> SUBSET Nicks]
        /\ \A d \in Channels :
              /\ sNick \in present[d] => present'[d] = (present[d] \ {sNick}) \cup {n}
              /\ sNick \notin present[d] => present'[d] = present[d]
    BY <1>0, <1>b, <2>1, RenamedTo
  <2>3. ServerWhole'
    <3>1. \A d \in Channels : present'[d] \subseteq online' \cup {sNick'}
      <4> SUFFICES ASSUME NEW d \in Channels PROVE present'[d] \subseteq online \cup {n}
        BY <1>0, <2>1
      <4>1. present[d] \subseteq online \cup {sNick}
        BY <1>d
      <4>2. CASE sNick \in present[d]
        BY <4>1, <4>2, <2>2
      <4>3. CASE sNick \notin present[d]
        BY <4>1, <4>3, <2>2
      <4> QED BY <4>2, <4>3
    <3> QED BY <1>0, <1>c, <1>3, <2>1, <3>1 DEF ServerWhole
  <2>4. /\ disputed' \in BOOLEAN /\ sNick' \in Names /\ sNick' # NoNick
        /\ disputed => disputed'
    BY <1>b, <1>d, <2>1
  <2>5. CASE Registered
    <3> PICK l : l = Line("NICK", sNick, n, NoChannel, {})
      OBVIOUS
    <3>1. /\ l \in Told /\ l.kind = "NICK" /\ l.me = sNick /\ l.gen = sessions
          /\ l.nick = sNick /\ l.to = n
      BY <1>0, <1>b, <1>d, LineTold DEF Line, Messages, OfChannel
    <3> PICK q : q = <<l>>
      OBVIOUS
    <3>2. /\ q \in Seq(Told) /\ pipe' = pipe \o q /\ Len(q) = 1 /\ q[1] = l
          /\ \A i \in 1..Len(q) : q[i] = l /\ i + 1 = 2
      BY <2>1, <2>5, <3>1
    <3>3. MeAt(q, sNick', 1) = sNick /\ MeAt(q, sNick', 2) = n /\ sNick # NoNick
      BY <2>1, <2>5, <3>1, <3>2 DEF MeAt, Registered
    <3>4. NicksFollow(q, sNick') /\ BurstsWhole(q)
      BY <3>1, <3>2, <3>3 DEF NicksFollow, BurstsWhole, NickPast, PartOf
    <3>5. \A i \in 1..Len(q) : /\ q[i].gen = sessions
                               /\ q[i].me # NoNick /\ q[i].kind # "NICKINUSE"
      BY <3>1, <3>2, <3>3
    <3>6. SessionType' /\ LinesFollow' /\ PendingShort' /\ AnswersFresh' /\ NothingLeft'
      BY <1>0, <1>a, <1>d, <2>2, <2>4, <3>2, <3>3, <3>4, <3>5, SaysMore
    <3>7. NickKnown'
      <4>1. \A i \in 1..Len(q) : q[i].me # NoNick /\ q[i].kind # "NICKINUSE"
        BY <3>5
      <4> QED BY <1>0, <2>4, <3>2, <3>3, <4>1, NickStays
    <3>8. Mirrored'
      <4> SUFFICES ASSUME NEW ch \in Channels PROVE \E Q \in Histories' : Fits(Q, ch)'
        BY DEF Mirrored
      <4>1. PICK S \in Histories : Fits(S, ch)
        BY <1>0 DEF Mirrored
      <4>2. /\ present[ch] \in SUBSET Nicks /\ present'[ch] \in SUBSET Nicks
            /\ l.kind # "ENDOFNAMES" /\ (sNick \in present[ch] <=> l.me \in present[ch])
            /\ NotAsked(ch) => NotAsked(ch)'
        BY <1>a, <1>d, <2>2, <3>1
      <4>3. sNick' \in present'[ch] =>
              sNick \in present[ch] /\ present'[ch] = Says(l, ch, present[ch])
        <5>1. n \notin present[ch]
          BY <1>3, <1>d
        <5> QED BY <5>1, <2>1, <2>2, <3>1 DEF Says
      <4>4. pipe' = pipe \o <<l>>
        BY <3>2
      <4> QED BY <1>0, <2>4, <3>1, <4>1, <4>2, <4>3, <4>4, OneSaid
    <3> QED BY <2>3, <3>6, <3>7, <3>8 DEF MirrorInv
  <2>6. CASE gotUser /\ sNick = NoNick
    <3> PICK l : l = Welcome(n)
      OBVIOUS
    <3>1. l \in Told /\ l.kind = "WELCOME" /\ l.me = n /\ l.gen = sessions
      BY <1>0, <1>b, WelcomeTold
    <3> PICK q : q = <<l>>
      OBVIOUS
    <3>2. /\ q \in Seq(Told) /\ pipe' = pipe \o q /\ Len(q) = 1 /\ q[1] = l
          /\ \A i \in 1..Len(q) : q[i] = l /\ i + 1 = 2
      BY <2>1, <2>6, <3>1 DEF Registered
    <3>3. MeAt(q, sNick', 1) = n /\ MeAt(q, sNick', 2) = n
      BY <2>1, <3>1, <3>2 DEF MeAt
    <3>4. NicksFollow(q, sNick') /\ BurstsWhole(q)
      BY <1>b, <3>1, <3>2, <3>3 DEF NicksFollow, BurstsWhole, NickPast, PartOf
    <3>5. \A i \in 1..Len(q) : /\ q[i].gen = sessions
                               /\ q[i].me # NoNick /\ q[i].kind # "NICKINUSE"
      BY <1>b, <3>1, <3>2
    <3>6. SessionType' /\ LinesFollow' /\ PendingShort' /\ AnswersFresh' /\ NothingLeft'
      BY <1>0, <1>a, <1>d, <2>2, <2>4, <2>6, <3>2, <3>4, <3>5, SaysMore
    <3>7. NickKnown'
      <4> SUFFICES ASSUME ~disputed PROVE NickKnown'
        BY <2>1 DEF NickKnown
      <4>1. pipe = <<>> /\ n = nick
        BY <1>0, <2>6, NickFirst
      <4>2. pipe' = q
        BY <4>1, <3>2
      <4>3. MeAt(pipe', sNick', 1) = nick'
        BY <1>0, <3>3, <4>1, <4>2
      <4>4. \A i \in 1..Len(pipe') : pipe'[i].me # NoNick /\ pipe'[i].kind # "NICKINUSE"
        BY <3>5, <4>2
      <4> QED BY <2>4, <4>3, <4>4 DEF NickKnown
    <3>8. Mirrored'
      <4> SUFFICES ASSUME NEW ch \in Channels PROVE \E Q \in Histories' : Fits(Q, ch)'
        BY DEF Mirrored
      <4>1. PICK S \in Histories : Fits(S, ch)
        BY <1>0 DEF Mirrored
      <4>2. sNick \notin present[ch] /\ n \notin present[ch] /\ present'[ch] = present[ch]
        BY <1>d, <1>3, <2>2, <2>6, SessionAssumption
      <4>3. /\ present[ch] \in SUBSET Nicks /\ present'[ch] \in SUBSET Nicks
            /\ l.kind # "ENDOFNAMES" /\ (sNick \in present[ch] <=> l.me \in present[ch])
            /\ NotAsked(ch) => NotAsked(ch)'
            /\ sNick' \notin present'[ch]
        BY <1>a, <1>d, <2>1, <3>1, <4>2
      <4>4. pipe' = pipe \o <<l>>
        BY <3>2
      <4> QED BY <1>0, <2>4, <3>1, <4>1, <4>3, <4>4, OneSaid
    <3> QED BY <2>3, <3>6, <3>7, <3>8 DEF MirrorInv
  <2>7. CASE ~gotUser
    <3> PICK q : q = <<>>
      OBVIOUS
    <3>1. sNick = NoNick
      BY <1>3, <1>c, <2>7
    <3>2. q \in Seq(Told) /\ Len(q) = 0 /\ pipe' = pipe /\ pipe' = pipe \o q
      BY <1>d, <2>1, <2>7 DEF Registered
    <3>3. \A i \in 1..Len(q) : FALSE
      BY <3>2
    <3>4. NicksFollow(q, sNick') /\ BurstsWhole(q)
      BY <3>3 DEF NicksFollow, BurstsWhole
    <3>5. SessionType' /\ LinesFollow' /\ PendingShort' /\ AnswersFresh' /\ NothingLeft'
      BY <1>0, <1>a, <1>d, <2>2, <2>4, <3>1, <3>2, <3>3, <3>4, SaysMore
    <3>6. NickKnown'
      <4> SUFFICES ASSUME ~disputed PROVE NickKnown'
        BY <2>1 DEF NickKnown
      <4>1. pipe = <<>> /\ n = nick /\ Len(pipe') = 0
        BY <1>0, <3>1, <3>2, NickFirst
      <4>2. MeAt(pipe', sNick', 1) = nick'
        BY <1>0, <2>1, <4>1 DEF MeAt
      <4> QED BY <2>4, <4>1, <4>2 DEF NickKnown
    <3>7. Mirrored'
      <4> SUFFICES ASSUME NEW ch \in Channels PROVE \E Q \in Histories' : Fits(Q, ch)'
        BY DEF Mirrored
      <4>1. PICK S \in Histories : Fits(S, ch)
        BY <1>0 DEF Mirrored
      <4>2. sNick \notin present[ch] /\ n \notin present[ch] /\ present'[ch] = present[ch]
        BY <1>d, <1>3, <2>2, <3>1, SessionAssumption
      <4>3. /\ present'[ch] \in SUBSET Nicks
            /\ sNick' \notin present'[ch]
            /\ NotAsked(ch) => NotAsked(ch)'
        BY <1>a, <1>d, <2>1, <4>2
      <4> QED BY <1>0, <2>4, <3>2, <4>1, <4>2, <4>3, NoneSaid
    <3> QED BY <2>3, <3>5, <3>6, <3>7 DEF MirrorInv
  <2> QED BY <2>5, <2>6, <2>7 DEF Registered
<1> QED BY <1>1, <1>2, <1>3

(* HandleLine takes the first line of the pipe.                            *)
LEMMA TakenLine ==
  ASSUME SessionType, pipe # <<>>, pipe' = Tail(pipe)
  PROVE  /\ Head(pipe) = pipe[1] /\ pipe[1] \in Told /\ pipe' \in Seq(Told)
         /\ SuffixOf(pipe', pipe, 1) /\ Len(pipe) \in Nat /\ Len(pipe) > 0
         /\ Len(pipe') \in Nat /\ Len(pipe') = Len(pipe) - 1
         /\ \A i \in 1..Len(pipe') : pipe'[i] = pipe[i + 1]
<1>1. pipe \in Seq(Told)
  BY DEF SessionType
<1> PICK p, q : p = pipe /\ q = pipe'
  OBVIOUS
<1>2. /\ Head(p) = p[1] /\ p[1] \in Told /\ q \in Seq(Told)
      /\ Len(p) \in Nat /\ Len(p) > 0 /\ Len(q) = Len(p) - 1
      /\ \A i \in 1..Len(q) : q[i] = p[i + 1]
  BY <1>1, OneTaken
<1>3. SuffixOf(q, p, 1)
  BY <1>2 DEF SuffixOf
<1> QED BY <1>2, <1>3

(* What the handler of a line must do to a channel the bot is in behind it. *)
HandlesRight(l, ch) ==
    /\ PartOf(l, ch) /\ ch \in chans => pending'[ch] = pending[ch] \cup l.list
    /\ ch \in answered' =>
          /\ EndOf(l, ch) => members'[ch] = pending[ch] /\ l.gen = sessions
          /\ ~EndOf(l, ch) => /\ ch \in answered /\ ~OwnJoin(l, ch)
                              /\ members'[ch] = Says(l, ch, members[ch])
    /\ ch \notin chans' =>
          /\ ~OwnJoin(l, ch) /\ ch \notin chans
          /\ NotAsked(ch) => NotAsked(ch)'
          /\ welcomed' => welcomed \/ ch \notin Range(channels)

(* In behind a line and not let in by it, the bot was in before it.        *)
LEMMA StillIn ==
  ASSUME NEW p, NEW z, NEW S, NEW ch, NEW i, Follows(p, z, S, ch), i \in 1..Len(p),
         IsIn(p, z, S, i + 1), ~OwnJoin(p[i], ch)
  PROVE  IsIn(p, z, S, i) /\ S[i + 1] = Says(p[i], ch, S[i])
BY DEF Follows

OffByOne(p, q, z, S, Q) ==
    \A k \in 1..(Len(q) + 1) : /\ IsIn(q, z, Q, k) <=> IsIn(p, z, S, k + 1)
                               /\ Q[k] = S[k + 1]

LEMMA OneOff ==
  ASSUME NEW p, NEW q, NEW z, NEW S, NEW Q, SuffixOf(q, p, 1), Len(p) \in Nat,
         Shifted(Q, S, 1, Len(q))
  PROVE  OffByOne(p, q, z, S, Q)
<1> SUFFICES ASSUME NEW k \in 1..(Len(q) + 1)
             PROVE  /\ IsIn(q, z, Q, k) <=> IsIn(p, z, S, k + 1)
                    /\ Q[k] = S[k + 1]
  BY DEF OffByOne
<1>1. Len(q) = Len(p) - 1 /\ \A i \in 1..Len(q) : q[i] = p[i + 1]
  BY DEF SuffixOf
<1>2. MeAt(q, z, k) = MeAt(p, z, k + 1)
  <2>1. k <= Len(q) <=> k + 1 <= Len(p)
    BY <1>1
  <2>2. k <= Len(q) => q[k] = p[k + 1]
    BY <1>1
  <2> QED BY <2>1, <2>2 DEF MeAt
<1>3. Q[k] = S[k + 1]
  BY DEF Shifted
<1> QED BY <1>2, <1>3 DEF IsIn

LEMMA ListsTaken ==
  ASSUME NEW p, NEW q, NEW z, NEW S, NEW Q, NEW ch, NEW a, NEW b, NEW g,
         SuffixOf(q, p, 1), Len(p) \in Nat, Len(p) > 0, Shifted(Q, S, 1, Len(q)),
         Follows(p, z, S, ch), ListsExact(p, z, S, ch, a, g),
         a # {} => EndOf(p[1], ch) \/ (PartOf(p[1], ch) /\ EndOf(p[2], ch)),
         PartOf(p[1], ch) /\ IsIn(p, z, S, 2) =>
            \/ b = a \cup p[1].list
            \/ IsIn(p, z, S, 1) => NoListFor(p, z, S, ch, g)
  PROVE  ListsExact(q, z, Q, ch, b, g)
<1>0. OffByOne(p, q, z, S, Q)
  BY OneOff
<1> SUFFICES ASSUME NEW i \in 1..Len(q), EndOf(q[i], ch), q[i].gen = g, IsIn(q, z, Q, i)
             PROVE  \/ i = 1 /\ b = Q[1]
                    \/ i = 2 /\ PartOf(q[1], ch) /\ b \cup q[1].list = Q[2]
                    \/ /\ i > 2 /\ PartOf(q[i - 1], ch) /\ PartOf(q[i - 2], ch)
                       /\ q[i - 2].list \cup q[i - 1].list = Q[i]
  BY DEF ListsExact
<1>1. /\ Len(q) = Len(p) - 1 /\ \A k \in 1..Len(q) : q[k] = p[k + 1]
  BY DEF SuffixOf
<1>2. i + 1 \in 1..Len(p) /\ i \in 1..(Len(q) + 1)
  BY <1>1
<1>a. /\ IsIn(q, z, Q, i) <=> IsIn(p, z, S, i + 1)
      /\ Q[i] = S[i + 1]
  BY <1>0, <1>2 DEF OffByOne
<1>3. /\ EndOf(p[i + 1], ch) /\ p[i + 1].gen = g /\ IsIn(p, z, S, i + 1) /\ q[i] = p[i + 1]
      /\ Q[i] = S[i + 1]
  BY <1>1, <1>2, <1>a
<1> PICK j : j = i + 1
  OBVIOUS
<1>4. \/ j = 1 /\ a = S[1]
      \/ j = 2 /\ PartOf(p[1], ch) /\ a \cup p[1].list = S[2]
      \/ /\ j > 2 /\ PartOf(p[j - 1], ch) /\ PartOf(p[j - 2], ch)
         /\ p[j - 2].list \cup p[j - 1].list = S[j]
  BY <1>2, <1>3 DEF ListsExact
<1>5. j # 1 /\ j \in Int
  BY <1>2
<1>n. ASSUME IsIn(p, z, S, 1) => NoListFor(p, z, S, ch, g), i \in {1, 2},
             \A k \in 1..i : PartOf(p[k], ch)
      PROVE  FALSE
  <2>1. ASSUME NEW k \in 1..i, IsIn(p, z, S, k + 1) PROVE IsIn(p, z, S, k)
    <3>1. k \in 1..Len(p) /\ ~OwnJoin(p[k], ch)
      BY <1>n, <1>2 DEF PartOf, OwnJoin
    <3> QED BY <3>1, <2>1, StillIn
  <2>2. \A k \in 1..(i + 1) : IsIn(p, z, S, k)
    <3>1. CASE i = 1
      <4>1. IsIn(p, z, S, 2) /\ 1 \in 1..i /\ 1 + 1 = 2
        BY <3>1, <1>3
      <4>2. IsIn(p, z, S, 1)
        BY <4>1, <2>1
      <4>3. \A k \in 1..(i + 1) : k = 1 \/ k = 2
        BY <3>1
      <4> QED BY <4>1, <4>2, <4>3
    <3>2. CASE i = 2
      <4>1. IsIn(p, z, S, 3) /\ 1 \in 1..i /\ 2 \in 1..i /\ 1 + 1 = 2 /\ 2 + 1 = 3
        BY <3>2, <1>3
      <4>2. IsIn(p, z, S, 2)
        BY <4>1, <2>1
      <4>3. IsIn(p, z, S, 1)
        BY <4>1, <4>2, <2>1
      <4>4. \A k \in 1..(i + 1) : k = 1 \/ k = 2 \/ k = 3
        BY <3>2
      <4> QED BY <4>1, <4>2, <4>3, <4>4
    <3> QED BY <3>1, <3>2, <1>n
  <2>3. IsIn(p, z, S, 1)
    <3>1. 1 \in 1..(i + 1)
      BY <1>2
    <3> QED BY <3>1, <2>2
  <2>4. \E k \in 1..(i + 1) : ~IsIn(p, z, S, k)
    BY <1>n, <2>3, <1>2, <1>3 DEF NoListFor
  <2> QED BY <2>2, <2>4
<1>6. CASE j = 2
  <2>1. i = 1 /\ PartOf(p[1], ch) /\ a \cup p[1].list = S[2] /\ IsIn(p, z, S, 2)
    BY <1>4, <1>3, <1>6
  <2>2. \A k \in 1..i : PartOf(p[k], ch)
    BY <2>1
  <2>3. b = a \cup p[1].list
    BY <2>1, <2>2, <1>n
  <2> QED BY <2>1, <2>3, <1>3, <1>6
<1>7. CASE j = 3
  <2>1. i = 2 /\ j - 1 = 2 /\ j - 2 = 1
    BY <1>7
  <2>2. /\ PartOf(p[2], ch) /\ PartOf(p[1], ch) /\ p[1].list \cup p[2].list = S[3]
        /\ IsIn(p, z, S, 3)
    BY <1>4, <1>3, <1>7, <2>1
  <2>3. IsIn(p, z, S, 2)
    <3>1. 2 \in 1..Len(p) /\ ~OwnJoin(p[2], ch) /\ 2 + 1 = 3
      BY <1>2, <2>1, <2>2 DEF PartOf, OwnJoin
    <3> QED BY <3>1, <2>2, StillIn
  <2>4. \A k \in 1..i : PartOf(p[k], ch)
    <3>1. \A k \in 1..i : k = 1 \/ k = 2
      BY <2>1
    <3> QED BY <3>1, <2>2
  <2>5. b = a \cup p[1].list
    BY <2>1, <2>2, <2>3, <2>4, <1>n
  <2>6. a = {}
    BY <2>2 DEF PartOf, EndOf
  <2>7. q[1] = p[2]
    <3>1. 1 \in 1..Len(q) /\ 1 + 1 = 2
      BY <2>1
    <3> QED BY <3>1, <1>1
  <2>8. b \cup q[1].list = Q[2]
    BY <2>1, <2>2, <2>5, <2>6, <2>7, <1>3, <1>7
  <2> QED BY <2>1, <2>2, <2>7, <2>8
<1>8. CASE j > 3
  <2>a. i > 2 /\ Len(q) \in Int /\ i <= Len(q)
    BY <1>1, <1>8
  <2>b. i - 1 \in 1..Len(q) /\ i - 2 \in 1..Len(q)
    BY <2>a
  <2>1. i > 2 /\ (i - 1) + 1 = j - 1 /\ (i - 2) + 1 = j - 2
    BY <2>a
  <2>2. q[i - 1] = p[j - 1] /\ q[i - 2] = p[j - 2]
    BY <2>1, <2>b, <1>1
  <2>3. /\ PartOf(p[j - 1], ch) /\ PartOf(p[j - 2], ch)
        /\ p[j - 2].list \cup p[j - 1].list = S[j]
    BY <1>4, <1>8
  <2> QED BY <2>1, <2>2, <2>3, <1>3
<1>9. j = 2 \/ j = 3 \/ j > 3
  BY <1>2
<1> QED BY <1>6, <1>7, <1>8, <1>9

LEMMA HandledFits ==
  ASSUME SessionType, PendingShort, NEW ch \in Channels, NEW S \in Histories, Fits(S, ch),
         pipe # <<>>, pipe' = Tail(pipe),
         UNCHANGED <<sNick, present, sessions, disputed, channels>>,
         ~disputed /\ IsIn(pipe, sNick, S, 2) => HandlesRight(pipe[1], ch)
  PROVE  \E Q \in Histories' : Fits(Q, ch)'
<1>1. /\ SuffixOf(pipe', pipe, 1) /\ Len(pipe) \in Nat /\ Len(pipe) > 0
      /\ Len(pipe') \in Nat /\ Len(pipe') = Len(pipe) - 1
  BY TakenLine
<1> PICK p, q, z, g : p = pipe /\ q = pipe' /\ z = sNick /\ g = sessions
  OBVIOUS
<1> DEFINE Q == [i \in 1..(Len(q) + 1) |-> S[i + 1]]
<1>2. Q \in Histories'
  <2>1. ASSUME NEW i \in 1..(Len(q) + 1) PROVE S[i + 1] \in SUBSET Nicks
    <3>1. i + 1 \in 1..(Len(p) + 1)
      BY <1>1
    <3> QED BY <3>1 DEF Histories
  <2> QED BY <2>1 DEF Histories
<1>3. Shifted(Q, S, 1, Len(q))
  BY DEF Shifted
<1>l. Len(q) + 1 \in 1..(Len(q) + 1) /\ (Len(q) + 1) + 1 = Len(p) + 1 /\ 1 \in 1..(Len(q) + 1)
  BY <1>1
<1>4. Q[Len(q) + 1] = present[ch] /\ Q[1] = S[2]
  <2>1. Q[Len(q) + 1] = S[(Len(q) + 1) + 1] /\ Q[1] = S[1 + 1]
    BY <1>l
  <2> QED BY <2>1, <1>l DEF Fits
<1> HIDE DEF Q
<1>5. Follows(p, z, S, ch) /\ Follows(q, z, Q, ch)
  BY <1>1, <1>3, SuffixFollows DEF Fits
<1>6. \A i \in 1..(Len(q) + 1) : IsIn(q, z, Q, i) <=> IsIn(p, z, S, i + 1)
  BY <1>1, <1>3, SuffixMe
<1>7. IsIn(q, z, Q, 1) <=> IsIn(p, z, S, 2)
  <2>1. 1 + 1 = 2
    OBVIOUS
  <2> QED BY <2>1, <1>6, <1>l
<1>8. ASSUME ~disputed
      PROVE  /\ ch \in answered' /\ IsIn(q, z, Q, 1) => members'[ch] = Q[1]
             /\ ListsExact(q, z, Q, ch, pending'[ch], g)
             /\ IsIn(q, z, Q, 1) /\ ch \notin chans' =>
                  /\ NotAsked(ch)' /\ NoListFor(q, z, Q, ch, g)
                  /\ welcomed' => ch \notin Range(channels)
  <2>1. /\ ch \in answered /\ IsIn(p, z, S, 1) => members[ch] = S[1]
        /\ ListsExact(p, z, S, ch, pending[ch], g)
        /\ IsIn(p, z, S, 1) /\ ch \notin chans =>
            /\ NotAsked(ch) /\ NoListFor(p, z, S, ch, g)
            /\ welcomed => ch \notin Range(channels)
    BY <1>8 DEF Fits
  <2>2. IsIn(p, z, S, 2) => HandlesRight(p[1], ch)
    BY <1>8
  <2>3. 1 \in 1..Len(p) /\ 1 + 1 = 2
    BY <1>1
  <2>s. ASSUME IsIn(p, z, S, 2), ~OwnJoin(p[1], ch)
        PROVE  IsIn(p, z, S, 1) /\ S[2] = Says(p[1], ch, S[1])
    <3>1. \A i \in 1..Len(p) : IsIn(p, z, S, i + 1) =>
             /\ IsIn(p, z, S, i) => S[i + 1] = Says(p[i], ch, S[i])
             /\ ~IsIn(p, z, S, i) => OwnJoin(p[i], ch)
      BY <1>5 DEF Follows
    <3>2. IsIn(p, z, S, 1 + 1) =>
             /\ IsIn(p, z, S, 1) => S[1 + 1] = Says(p[1], ch, S[1])
             /\ ~IsIn(p, z, S, 1) => OwnJoin(p[1], ch)
      BY <2>3, <3>1
    <3> QED BY <2>3, <2>s, <3>2
  <2>4. ASSUME ch \in answered', IsIn(p, z, S, 2) PROVE members'[ch] = S[2]
    <3>1. CASE EndOf(p[1], ch)
      <4>1. members'[ch] = pending[ch] /\ p[1].gen = g
        BY <2>2, <2>4, <3>1 DEF HandlesRight
      <4>2. ~OwnJoin(p[1], ch)
        BY <3>1 DEF EndOf, OwnJoin
      <4>3. IsIn(p, z, S, 1) /\ S[2] = Says(p[1], ch, S[1])
        BY <2>4, <2>s, <4>2
      <4>4. S[2] = S[1]
        BY <3>1, <4>3 DEF Says, EndOf
      <4>5. pending[ch] = S[1]
        BY <2>1, <2>3, <3>1, <4>1, <4>3 DEF ListsExact
      <4> QED BY <4>1, <4>4, <4>5
    <3>2. CASE ~EndOf(p[1], ch)
      <4>1. /\ ch \in answered /\ ~OwnJoin(p[1], ch)
            /\ members'[ch] = Says(p[1], ch, members[ch])
        BY <2>2, <2>4, <3>2 DEF HandlesRight
      <4>2. IsIn(p, z, S, 1) /\ S[2] = Says(p[1], ch, S[1])
        BY <2>4, <2>s, <4>1
      <4> QED BY <2>1, <4>1, <4>2
    <3> QED BY <3>1, <3>2
  <2>5. ListsExact(q, z, Q, ch, pending'[ch], g)
    <3>1. pending[ch] # {} => EndOf(p[1], ch) \/ (PartOf(p[1], ch) /\ EndOf(p[2], ch))
      BY DEF PendingShort
    <3>2. ASSUME PartOf(p[1], ch), IsIn(p, z, S, 2)
          PROVE  \/ pending'[ch] = pending[ch] \cup p[1].list
                 \/ IsIn(p, z, S, 1) => NoListFor(p, z, S, ch, g)
      BY <2>1, <2>2, <3>2 DEF HandlesRight
    <3> PICK a, b : a = pending[ch] /\ b = pending'[ch]
      OBVIOUS
    <3>3. a # {} => EndOf(p[1], ch) \/ (PartOf(p[1], ch) /\ EndOf(p[2], ch))
      BY <3>1
    <3>4. PartOf(p[1], ch) /\ IsIn(p, z, S, 2) =>
            \/ b = a \cup p[1].list
            \/ IsIn(p, z, S, 1) => NoListFor(p, z, S, ch, g)
      BY <3>2
    <3>5. ListsExact(p, z, S, ch, a, g)
      BY <2>1
    <3>6. ListsExact(q, z, Q, ch, b, g)
      BY <1>1, <1>3, <1>5, <3>3, <3>4, <3>5, ListsTaken
    <3> QED BY <3>6
  <2>6. ASSUME IsIn(p, z, S, 2), ch \notin chans'
        PROVE  /\ NotAsked(ch)' /\ NoListFor(q, z, Q, ch, g)
               /\ welcomed' => ch \notin Range(channels)
    <3>1. /\ ~OwnJoin(p[1], ch) /\ ch \notin chans
          /\ NotAsked(ch) => NotAsked(ch)'
          /\ welcomed' => welcomed \/ ch \notin Range(channels)
      BY <2>2, <2>6 DEF HandlesRight
    <3>2. IsIn(p, z, S, 1)
      BY <2>6, <2>s, <3>1
    <3>3. /\ NotAsked(ch) /\ NoListFor(p, z, S, ch, g)
          /\ welcomed => ch \notin Range(channels)
      BY <2>1, <3>1, <3>2
    <3>4. NoListFor(q, z, Q, ch, g)
      <4> SUFFICES ASSUME NEW i \in 1..Len(q), EndOf(q[i], ch), q[i].gen = g
                   PROVE  \E k \in 1..i : ~IsIn(q, z, Q, k)
        BY DEF NoListFor
      <4>1. i + 1 \in 1..Len(p) /\ q[i] = p[i + 1]
        <5>1. q[i] = p[i + 1]
          BY TakenLine
        <5> QED BY <5>1, <1>1
      <4>2. PICK k \in 1..(i + 1) : ~IsIn(p, z, S, k)
        BY <4>1, <3>3 DEF NoListFor
      <4>3. k # 1
        BY <4>2, <3>2
      <4>4. k - 1 \in 1..i /\ k - 1 \in 1..(Len(q) + 1) /\ (k - 1) + 1 = k
        BY <4>3, <1>1
      <4>5. ~IsIn(q, z, Q, k - 1)
        BY <4>2, <4>4, <1>6
      <4> QED BY <4>4, <4>5
    <3> QED BY <3>1, <3>3, <3>4
  <2> QED BY <2>4, <2>5, <2>6, <1>4, <1>7
<1>9. Fits(Q, ch)'
  <2>1. Q[Len(pipe') + 1] = present'[ch] /\ Follows(pipe', sNick', Q, ch)
    BY <1>4, <1>5
  <2>2. ~disputed' =>
            /\ ch \in answered' /\ IsIn(pipe', sNick', Q, 1) => members'[ch] = Q[1]
            /\ ListsExact(pipe', sNick', Q, ch, pending'[ch], sessions')
            /\ IsIn(pipe', sNick', Q, 1) /\ ch \notin chans' =>
                 /\ NotAsked(ch)' /\ NoListFor(pipe', sNick', Q, ch, sessions')
                 /\ welcomed' => ch \notin Range(channels')
    BY <1>8
  <2> QED BY <2>1, <2>2 DEF Fits
<1> QED BY <1>2, <1>9

LEMMA HandledStep ==
  ASSUME MirrorInv, pipe # <<>>, pipe' = Tail(pipe),
         UNCHANGED <<sessions, disputed, server, events, owner>>,
         SessionType', ServerWhole', NickKnown', PendingShort', NothingLeft',
         answered' \subseteq chans', answered' # {} => answered # {} \/ pipe[1].gen = sessions,
         \A ch \in Channels : \A S \in Histories :
            Fits(S, ch) /\ ~disputed /\ IsIn(pipe, sNick, S, 2) => HandlesRight(pipe[1], ch)
  PROVE  MirrorInv'
<1>0. /\ SessionType /\ LinesFollow /\ PendingShort /\ AnswersFresh /\ Mirrored
      /\ UNCHANGED <<sNick, present, sessions, disputed, channels>>
  BY DEF MirrorInv, server, owner
<1>1. /\ SuffixOf(pipe', pipe, 1) /\ Len(pipe) \in Nat /\ Len(pipe) > 0
      /\ pipe \in Seq(Told) /\ Len(pipe') = Len(pipe) - 1
      /\ \A i \in 1..Len(pipe') : pipe'[i] = pipe[i + 1]
  BY <1>0, TakenLine DEF SessionType
<1>2. \A i \in 1..Len(pipe) : pipe[i].gen \in Nat
  BY <1>1 DEF Told
<1>3. LinesFollow'
  <2> PICK p, q, z, g : p = pipe /\ q = pipe' /\ z = sNick /\ g = sessions
    OBVIOUS
  <2>1. NicksFollow(p, z) /\ GensFollow(p, g) /\ BurstsWhole(p) /\ g \in Nat
    BY <1>0 DEF LinesFollow, SessionType
  <2>2. NicksFollow(q, z) /\ GensFollow(q, g) /\ BurstsWhole(q)
    BY <1>1, <1>2, <2>1, SuffixLines
  <2> QED BY <1>0, <2>2 DEF LinesFollow
<1>4. AnswersFresh'
  <2> SUFFICES ASSUME answered' # {}, NEW i \in 1..Len(pipe') PROVE pipe'[i].gen = sessions
    BY <1>0 DEF AnswersFresh
  <2>1. i + 1 \in 1..Len(pipe) /\ pipe'[i] = pipe[i + 1] /\ i + 1 \in 1..Len(pipe)
        /\ 1 \in 1..Len(pipe)
    BY <1>1
  <2>2. CASE answered # {}
    BY <1>0, <2>1, <2>2 DEF AnswersFresh
  <2>3. CASE pipe[1].gen = sessions
    <3>1. GensFollow(pipe, sessions)
      BY <1>0 DEF LinesFollow
    <3>2. pipe[i + 1].gen <= sessions /\ pipe[1].gen <= pipe[i + 1].gen
      BY <2>1, <3>1 DEF GensFollow
    <3>3. pipe[i + 1].gen \in Nat /\ sessions \in Nat
      BY <1>0, <1>2, <2>1 DEF SessionType
    <3> QED BY <2>1, <2>3, <3>2, <3>3
  <2> QED BY <2>2, <2>3
<1>5. Mirrored'
  <2> SUFFICES ASSUME NEW ch \in Channels PROVE \E Q \in Histories' : Fits(Q, ch)'
    BY DEF Mirrored
  <2>1. PICK S \in Histories : Fits(S, ch)
    BY <1>0 DEF Mirrored
  <2>2. ~disputed /\ IsIn(pipe, sNick, S, 2) => HandlesRight(pipe[1], ch)
    BY <2>1
  <2> QED BY <1>0, <2>1, <2>2, HandledFits
<1> QED BY <1>3, <1>4, <1>5 DEF MirrorInv

(* The nick the first line was sent to, and the one behind it.             *)
LEMMA HeadNick ==
  ASSUME SessionType, LinesFollow, NickKnown, ~disputed, pipe # <<>>,
         pipe[1].kind # "NICKINUSE"
  PROVE  /\ sNick # NoNick /\ nick = pipe[1].me
         /\ MeAt(pipe, sNick, 2) = NickPast(pipe[1])
<1>1. pipe \in Seq(Told)
  BY DEF SessionType
<1>2. Len(pipe) \in Nat /\ 1 \in 1..Len(pipe) /\ 1 + 1 = 2
  BY <1>1, EmptySeq
<1>3. sNick # NoNick
  BY <1>2 DEF NickKnown
<1>4. nick = pipe[1].me /\ pipe[1].me # NoNick
  BY <1>2, <1>3 DEF NickKnown, MeAt
<1>5. NicksFollow(pipe, sNick)
  BY DEF LinesFollow
<1>6. MeAt(pipe, sNick, 1 + 1) = NickPast(pipe[1])
  BY <1>2, <1>4, <1>5 DEF NicksFollow
<1> QED BY <1>2, <1>3, <1>4, <1>6

LEMMA NickHandled ==
  ASSUME SessionType, LinesFollow, NickKnown, pipe # <<>>, pipe' = Tail(pipe),
         UNCHANGED <<sNick, disputed>>, pipe[1].kind # "NICKINUSE",
         nick' = IF pipe[1].kind = "NICK" THEN NickAfter(pipe[1]) ELSE nick
  PROVE  NickKnown'
<1> SUFFICES ASSUME ~disputed PROVE NickKnown'
  BY DEF NickKnown
<1>1. /\ Len(pipe) \in Nat /\ Len(pipe) > 0 /\ Len(pipe') = Len(pipe) - 1
      /\ \A i \in 1..Len(pipe') : pipe'[i] = pipe[i + 1]
  BY TakenLine
<1>2. sNick # NoNick /\ nick = pipe[1].me /\ MeAt(pipe, sNick, 2) = NickPast(pipe[1])
  BY HeadNick
<1>3. nick' = NickPast(pipe[1])
  BY <1>2 DEF NickPast, NickAfter, SenderMe
<1>4. MeAt(pipe', sNick, 1) = MeAt(pipe, sNick, 2)
  <2>1. Len(pipe') >= 1 => pipe'[1] = pipe[2]
    <3> SUFFICES ASSUME Len(pipe') >= 1 PROVE pipe'[1] = pipe[2]
      OBVIOUS
    <3>1. 1 \in 1..Len(pipe') /\ 1 + 1 = 2
      BY <1>1
    <3> QED BY <3>1, <1>1
  <2> QED BY <2>1, <1>1 DEF MeAt
<1>5. ASSUME NEW i \in 1..Len(pipe')
      PROVE  pipe'[i].me # NoNick /\ pipe'[i].kind # "NICKINUSE"
  <2>1. i + 1 \in 1..Len(pipe) /\ pipe'[i] = pipe[i + 1]
    BY <1>1
  <2> QED BY <1>2, <2>1 DEF NickKnown
<1> QED BY <1>2, <1>3, <1>4, <1>5 DEF NickKnown

LEMMA NonePending ==
  ASSUME PendingShort, pipe[1].kind \notin {"NAMES", "ENDOFNAMES"}
  PROVE  \A ch \in Channels : pending[ch] = {}
BY DEF PendingShort, EndOf, PartOf

(* A line of one of the bot's own does not leave it in the channel.        *)
LEMMA NotGone ==
  ASSUME MirrorInv, pipe # <<>>, ~disputed, pipe[1].kind # "NICKINUSE",
         NEW ch \in Channels, NEW S \in Histories, Fits(S, ch), IsIn(pipe, sNick, S, 2)
  PROVE  /\ nick = pipe[1].me
         /\ ~(pipe[1].kind = "PART" /\ pipe[1].ch = ch /\ pipe[1].nick = nick)
         /\ ~(pipe[1].kind = "KICK" /\ pipe[1].ch = ch /\ pipe[1].to = nick)
<1>1. SessionType /\ LinesFollow /\ NickKnown
  BY DEF MirrorInv
<1>2. nick = pipe[1].me /\ MeAt(pipe, sNick, 2) = NickPast(pipe[1])
  BY <1>1, HeadNick
<1>3. pipe[1].kind \in {"PART", "KICK"} =>
        S[2] = Says(pipe[1], ch, S[1]) /\ MeAt(pipe, sNick, 2) = nick
  <2> SUFFICES ASSUME pipe[1].kind \in {"PART", "KICK"}
               PROVE  S[2] = Says(pipe[1], ch, S[1]) /\ MeAt(pipe, sNick, 2) = nick
    OBVIOUS
  <2>1. 1 \in 1..Len(pipe) /\ 1 + 1 = 2 /\ IsIn(pipe, sNick, S, 1 + 1)
    BY <1>1, EmptySeq DEF SessionType
  <2>2. IsIn(pipe, sNick, S, 1 + 1) =>
          /\ IsIn(pipe, sNick, S, 1) => S[1 + 1] = Says(pipe[1], ch, S[1])
          /\ ~IsIn(pipe, sNick, S, 1) => OwnJoin(pipe[1], ch)
    BY <2>1 DEF Fits, Follows
  <2>3. ~OwnJoin(pipe[1], ch)
    BY DEF OwnJoin
  <2>4. MeAt(pipe, sNick, 2) = nick
    BY <1>2 DEF NickPast
  <2> QED BY <2>1, <2>2, <2>3, <2>4
<1>4. pipe[1].kind \in {"PART", "KICK"} => nick \in Says(pipe[1], ch, S[1])
  BY <1>3 DEF IsIn
<1> QED BY <1>2, <1>4 DEF Says

LEMMA ServerSame ==
  ASSUME ServerWhole, UNCHANGED <<server, out>>
  PROVE  ServerWhole'
BY DEF ServerWhole, server

LEMMA HandlerBasics ==
  ASSUME MirrorInv, NEW k, Handles(k)
  PROVE  /\ SessionType /\ LinesFollow /\ NickKnown /\ PendingShort /\ AnswersFresh
         /\ NothingLeft /\ ServerWhole
         /\ pipe # <<>> /\ pipe' = Tail(pipe) /\ Head(pipe) = pipe[1] /\ pipe[1] \in Told
         /\ pipe[1].kind = k /\ pipe' \in Seq(Told)
         /\ UNCHANGED <<sessions, disputed, server, events, owner>>
         /\ UNCHANGED <<sNick, channels, gotUser, online, present>>
BY TakenLine DEF MirrorInv, Handles, server, owner

LEMMA NothingPending ==
  ASSUME \A ch \in Channels : pending'[ch] = {}
  PROVE  PendingShort'
BY DEF PendingShort

(* The channel of a JOIN or a PART starts over or is gone.                 *)
LEMMA Started ==
  ASSUME SessionType, NEW ch \in Channels
  PROVE  /\ Forgotten(members, ch) \in [Channels -> SUBSET Nicks]
         /\ Forgotten(pending, ch) \in [Channels -> SUBSET Nicks]
         /\ Forgotten(members, ch)[ch] = {} /\ Forgotten(pending, ch)[ch] = {}
         /\ \A d \in Channels \ {ch} : /\ Forgotten(members, ch)[d] = members[d]
                                       /\ Forgotten(pending, ch)[d] = pending[d]
BY DEF SessionType, Forgotten

LEMMA OnJoinStep == ASSUME MirrorInv, OnJoin PROVE MirrorInv'
<1> PICK l, c0 : l = pipe[1] /\ c0 = pipe[1].ch
  OBVIOUS
<1>0. /\ SessionType /\ LinesFollow /\ NickKnown /\ PendingShort /\ AnswersFresh
      /\ NothingLeft /\ ServerWhole
      /\ pipe # <<>> /\ pipe' = Tail(pipe) /\ Head(pipe) = l /\ l \in Told
      /\ l.kind = "JOIN" /\ pipe' \in Seq(Told)
      /\ UNCHANGED <<sessions, disputed, server, events, owner>>
      /\ UNCHANGED <<sNick, channels, gotUser, online, present>>
      /\ UNCHANGED <<nick, welcomed, out>>
  BY HandlerBasics DEF OnJoin
<1>1. c0 \in Channels /\ l.nick \in Nicks /\ l.ch = c0
  BY <1>0 DEF Told, OfChannel
<1>2. \A ch \in Channels : pending[ch] = {}
  BY <1>0, NonePending
<1>3. NickKnown'
  BY <1>0, NickHandled
<1>4. ServerWhole'
  BY <1>0, ServerSame
<1>5. CASE l.nick = nick
  <2>1. /\ chans' = chans \cup {c0} /\ answered' = answered \ {c0}
        /\ members' = Forgotten(members, c0) /\ pending' = Forgotten(pending, c0)
    BY <1>0, <1>1, <1>5 DEF OnJoin, SenderMe
  <2>2. /\ members' \in [Channels -> SUBSET Nicks] /\ pending' \in [Channels -> SUBSET Nicks]
        /\ members'[c0] = {} /\ pending'[c0] = {}
        /\ \A d \in Channels \ {c0} : members'[d] = members[d] /\ pending'[d] = pending[d]
    BY <1>0, <1>1, <2>1, Started
  <2>3. SessionType'
    BY <1>0, <1>1, <2>1, <2>2 DEF SessionType
  <2>4. \A ch \in Channels : pending'[ch] = {}
    BY <1>2, <2>2
  <2>5. PendingShort'
    BY <2>4, NothingPending
  <2>6. NothingLeft'
    BY <1>0, <1>1, <2>1, <2>2 DEF NothingLeft
  <2>7. answered' \subseteq chans' /\ (answered' # {} => answered # {})
    BY <1>0, <2>1 DEF AnswersFresh
  <2>8. ASSUME NEW ch \in Channels, NEW S \in Histories, Fits(S, ch), ~disputed,
               IsIn(pipe, sNick, S, 2)
        PROVE  HandlesRight(l, ch)
    <3>1. nick = l.me
      BY <1>0, <2>8, NotGone
    <3>2. CASE ch = c0
      BY <1>0, <1>1, <2>1, <3>2 DEF HandlesRight, PartOf, EndOf
    <3>3. CASE ch # c0
      <4>1. ~PartOf(l, ch) /\ ~EndOf(l, ch) /\ ~OwnJoin(l, ch)
        BY <1>0, <1>1, <3>3 DEF PartOf, EndOf, OwnJoin
      <4>2. members'[ch] = members[ch] /\ Says(l, ch, members[ch]) = members[ch]
        BY <1>0, <1>1, <2>2, <3>3 DEF Says
      <4>3. (ch \in answered' => ch \in answered) /\ (ch \notin chans' => ch \notin chans)
            /\ (NotAsked(ch) => NotAsked(ch)')
        BY <1>0, <2>1 DEF NotAsked
      <4> QED BY <1>0, <4>1, <4>2, <4>3 DEF HandlesRight
    <3> QED BY <3>2, <3>3
  <2> QED BY <1>0, <1>3, <1>4, <2>3, <2>5, <2>6, <2>7, <2>8, HandledStep
<1>6. CASE l.nick # nick
  <2>1. /\ members' = IF c0 \in chans THEN Added(members, c0, l.nick) ELSE members
        /\ UNCHANGED <<chans, pending, answered>>
    BY <1>0, <1>1, <1>6 DEF OnJoin, SenderMe, Tracks
  <2>2. /\ members' \in [Channels -> SUBSET Nicks]
        /\ c0 \in chans => members'[c0] = members[c0] \cup {l.nick}
        /\ c0 \notin chans => members'[c0] = members[c0]
        /\ \A d \in Channels \ {c0} : members'[d] = members[d]
    BY <1>0, <1>1, <2>1 DEF Added, SessionType
  <2>3. SessionType'
    BY <1>0, <2>1, <2>2 DEF SessionType
  <2>5. PendingShort'
    BY <1>2, <2>1, NothingPending
  <2>6. NothingLeft'
    BY <1>0, <1>1, <2>1, <2>2 DEF NothingLeft
  <2>7. answered' \subseteq chans' /\ (answered' # {} => answered # {})
    BY <1>0, <2>1 DEF AnswersFresh
  <2>8. ASSUME NEW ch \in Channels, NEW S \in Histories, Fits(S, ch), ~disputed,
               IsIn(pipe, sNick, S, 2)
        PROVE  HandlesRight(l, ch)
    <3>1. nick = l.me
      BY <1>0, <2>8, NotGone
    <3>2. ~PartOf(l, ch) /\ ~EndOf(l, ch) /\ ~OwnJoin(l, ch)
      BY <1>0, <1>6, <3>1 DEF PartOf, EndOf, OwnJoin
    <3>3. ch \in answered => members'[ch] = Says(l, ch, members[ch])
      <4>1. ch \in answered => ch \in chans
        BY <1>0 DEF AnswersFresh
      <4> QED BY <4>1, <1>0, <1>1, <2>2 DEF Says
    <3>4. NotAsked(ch) => NotAsked(ch)'
      BY <1>0 DEF NotAsked
    <3> QED BY <1>0, <2>1, <3>2, <3>3, <3>4 DEF HandlesRight
  <2> QED BY <1>0, <1>3, <1>4, <2>3, <2>5, <2>6, <2>7, <2>8, HandledStep
<1> QED BY <1>5, <1>6

LEMMA OnPartStep == ASSUME MirrorInv, OnPart PROVE MirrorInv'
<1> PICK l, c0 : l = pipe[1] /\ c0 = pipe[1].ch
  OBVIOUS
<1>0. /\ SessionType /\ LinesFollow /\ NickKnown /\ PendingShort /\ AnswersFresh
      /\ NothingLeft /\ ServerWhole
      /\ pipe # <<>> /\ pipe' = Tail(pipe) /\ Head(pipe) = l /\ l \in Told
      /\ l.kind = "PART" /\ pipe' \in Seq(Told)
      /\ UNCHANGED <<sessions, disputed, server, events, owner>>
      /\ UNCHANGED <<sNick, channels, gotUser, online, present>>
      /\ UNCHANGED <<nick, welcomed, out>>
  BY HandlerBasics DEF OnPart
<1>1. c0 \in Channels /\ l.ch = c0
  BY <1>0 DEF Told, OfChannel
<1>2. \A ch \in Channels : pending[ch] = {}
  BY <1>0, NonePending
<1>3. NickKnown'
  BY <1>0, NickHandled
<1>4. ServerWhole'
  BY <1>0, ServerSame
<1>5. CASE l.nick = nick
  <2>1. /\ chans' = chans \ {c0} /\ answered' = answered \ {c0}
        /\ members' = Forgotten(members, c0) /\ pending' = Forgotten(pending, c0)
    BY <1>0, <1>1, <1>5 DEF OnPart, SenderMe
  <2>2. /\ members' \in [Channels -> SUBSET Nicks] /\ pending' \in [Channels -> SUBSET Nicks]
        /\ members'[c0] = {} /\ pending'[c0] = {}
        /\ \A d \in Channels \ {c0} : members'[d] = members[d] /\ pending'[d] = pending[d]
    BY <1>0, <1>1, <2>1, Started
  <2>3. SessionType'
    BY <1>0, <1>1, <2>1, <2>2 DEF SessionType
  <2>4. \A ch \in Channels : pending'[ch] = {}
    BY <1>2, <2>2
  <2>5. PendingShort'
    BY <2>4, NothingPending
  <2>6. NothingLeft'
    BY <1>0, <1>1, <2>1, <2>2 DEF NothingLeft
  <2>7. answered' \subseteq chans' /\ (answered' # {} => answered # {})
    BY <1>0, <2>1 DEF AnswersFresh
  <2>8. ASSUME NEW ch \in Channels, NEW S \in Histories, Fits(S, ch), ~disputed,
               IsIn(pipe, sNick, S, 2)
        PROVE  HandlesRight(l, ch)
    <3>1. ch # c0
      BY <1>0, <1>1, <1>5, <2>8, NotGone
    <3>2. ~PartOf(l, ch) /\ ~EndOf(l, ch) /\ ~OwnJoin(l, ch)
      BY <1>0 DEF PartOf, EndOf, OwnJoin
    <3>3. members'[ch] = members[ch] /\ Says(l, ch, members[ch]) = members[ch]
      BY <1>0, <1>1, <2>2, <3>1 DEF Says
    <3>4. /\ ch \in answered' => ch \in answered
          /\ ch \notin chans' => ch \notin chans
          /\ NotAsked(ch) => NotAsked(ch)'
      BY <1>0, <2>1, <3>1 DEF NotAsked
    <3> QED BY <1>0, <3>2, <3>3, <3>4 DEF HandlesRight
  <2> QED BY <1>0, <1>3, <1>4, <2>3, <2>5, <2>6, <2>7, <2>8, HandledStep
<1>6. CASE l.nick # nick
  <2>1. /\ members' = Removed(members, c0, l.nick)
        /\ UNCHANGED <<chans, pending, answered>>
    BY <1>0, <1>1, <1>6 DEF OnPart, SenderMe
  <2>2. /\ members' \in [Channels -> SUBSET Nicks]
        /\ members'[c0] = members[c0] \ {l.nick}
        /\ \A d \in Channels \ {c0} : members'[d] = members[d]
    BY <1>0, <1>1, <2>1 DEF Removed, SessionType
  <2>3. SessionType'
    BY <1>0, <2>1, <2>2 DEF SessionType
  <2>5. PendingShort'
    BY <1>2, <2>1, NothingPending
  <2>6. NothingLeft'
    BY <1>0, <1>1, <2>1, <2>2 DEF NothingLeft
  <2>7. answered' \subseteq chans' /\ (answered' # {} => answered # {})
    BY <1>0, <2>1 DEF AnswersFresh
  <2>8. ASSUME NEW ch \in Channels PROVE HandlesRight(l, ch)
    <3>1. ~PartOf(l, ch) /\ ~EndOf(l, ch) /\ ~OwnJoin(l, ch)
      BY <1>0 DEF PartOf, EndOf, OwnJoin
    <3>2. members'[ch] = Says(l, ch, members[ch])
      BY <1>0, <1>1, <2>2 DEF Says
    <3>3. NotAsked(ch) => NotAsked(ch)'
      BY <1>0 DEF NotAsked
    <3> QED BY <1>0, <2>1, <3>1, <3>2, <3>3 DEF HandlesRight
  <2> QED BY <1>0, <1>3, <1>4, <2>3, <2>5, <2>6, <2>7, <2>8, HandledStep
<1> QED BY <1>5, <1>6

LEMMA OnKickStep == ASSUME MirrorInv, OnKick PROVE MirrorInv'
<1> PICK l : l = pipe[1]
  OBVIOUS
<1>0. /\ SessionType /\ LinesFollow /\ NickKnown /\ PendingShort /\ AnswersFresh
      /\ NothingLeft /\ ServerWhole
      /\ pipe # <<>> /\ pipe' = Tail(pipe) /\ Head(pipe) = l /\ l \in Told
      /\ l.kind = "KICK" /\ pipe' \in Seq(Told)
      /\ UNCHANGED <<sessions, disputed, server, events, owner>>
      /\ UNCHANGED <<sNick, channels, gotUser, online, present>>
      /\ UNCHANGED <<nick, welcomed, chans, pending, answered, out>>
  BY HandlerBasics DEF OnKick
<1>1. /\ members' \in [Channels -> SUBSET Nicks] /\ l.ch \in Channels
      /\ \A d \in Channels :
            members'[d] = IF d = l.ch /\ l.to # nick THEN members[d] \ {l.to} ELSE members[d]
  <2>1. members' = IF l.to # nick THEN Removed(members, l.ch, l.to) ELSE members
    BY <1>0 DEF OnKick
  <2>2. l.ch \in Channels /\ members \in [Channels -> SUBSET Nicks]
    BY <1>0 DEF Told, OfChannel, SessionType
  <2> QED BY <2>1, <2>2 DEF Removed
<1>2. \A ch \in Channels : pending'[ch] = {}
  BY <1>0, NonePending
<1>3. PendingShort'
  BY <1>2, NothingPending
<1>4. NickKnown'
  BY <1>0, NickHandled
<1>5. ServerWhole'
  BY <1>0, ServerSame
<1>6. SessionType'
  BY <1>0, <1>1 DEF SessionType
<1>7. NothingLeft'
  BY <1>0, <1>1 DEF NothingLeft
<1>8. answered' \subseteq chans' /\ (answered' # {} => answered # {})
  BY <1>0, <1>1 DEF AnswersFresh
<1>9. ASSUME NEW ch \in Channels, NEW S \in Histories, Fits(S, ch), ~disputed,
             IsIn(pipe, sNick, S, 2)
      PROVE  HandlesRight(l, ch)
  <2>1. ~PartOf(l, ch) /\ ~EndOf(l, ch) /\ ~OwnJoin(l, ch)
    BY <1>0 DEF PartOf, EndOf, OwnJoin
  <2>2. members'[ch] = Says(l, ch, members[ch])
    <3>1. ~(l.ch = ch /\ l.to = nick)
      BY <1>0, <1>9, NotGone
    <3> QED BY <3>1, <1>0, <1>1 DEF Says
  <2>3. NotAsked(ch) => NotAsked(ch)'
    BY <1>0 DEF NotAsked
  <2> QED BY <1>0, <1>1, <2>1, <2>2, <2>3 DEF HandlesRight
<1> QED BY <1>0, <1>3, <1>4, <1>5, <1>6, <1>7, <1>8, <1>9, HandledStep

LEMMA OnQuitStep == ASSUME MirrorInv, OnQuit PROVE MirrorInv'
<1> PICK l : l = pipe[1]
  OBVIOUS
<1>0. /\ SessionType /\ LinesFollow /\ NickKnown /\ PendingShort /\ AnswersFresh
      /\ NothingLeft /\ ServerWhole
      /\ pipe # <<>> /\ pipe' = Tail(pipe) /\ Head(pipe) = l /\ l \in Told
      /\ l.kind = "QUIT" /\ pipe' \in Seq(Told)
      /\ UNCHANGED <<sessions, disputed, server, events, owner>>
      /\ UNCHANGED <<sNick, channels, gotUser, online, present>>
      /\ UNCHANGED <<nick, welcomed, chans, pending, answered, out>>
  BY HandlerBasics DEF OnQuit
<1>1. /\ members' \in [Channels -> SUBSET Nicks]
      /\ \A d \in Channels : members'[d] = members[d] \ {l.nick}
  <2>1. members' = Without(l.nick)
    BY <1>0 DEF OnQuit
  <2> QED BY <1>0, <2>1 DEF Without, SessionType
<1>2. \A ch \in Channels : pending'[ch] = {}
  BY <1>0, NonePending
<1>3. PendingShort'
  BY <1>2, NothingPending
<1>4. NickKnown'
  BY <1>0, NickHandled
<1>5. ServerWhole'
  BY <1>0, ServerSame
<1>6. SessionType'
  BY <1>0, <1>1 DEF SessionType
<1>7. NothingLeft'
  BY <1>0, <1>1 DEF NothingLeft
<1>8. answered' \subseteq chans' /\ (answered' # {} => answered # {})
  BY <1>0, <1>1 DEF AnswersFresh
<1>9. ASSUME NEW ch \in Channels, NEW S \in Histories, Fits(S, ch), ~disputed,
             IsIn(pipe, sNick, S, 2)
      PROVE  HandlesRight(l, ch)
  <2>1. ~PartOf(l, ch) /\ ~EndOf(l, ch) /\ ~OwnJoin(l, ch)
    BY <1>0 DEF PartOf, EndOf, OwnJoin
  <2>2. members'[ch] = Says(l, ch, members[ch])
    BY <1>0, <1>1 DEF Says
  <2>3. NotAsked(ch) => NotAsked(ch)'
    BY <1>0 DEF NotAsked
  <2> QED BY <1>0, <1>1, <2>1, <2>2, <2>3 DEF HandlesRight
<1> QED BY <1>0, <1>3, <1>4, <1>5, <1>6, <1>7, <1>8, <1>9, HandledStep

LEMMA OnNickStep == ASSUME MirrorInv, OnNick PROVE MirrorInv'
<1> PICK l : l = pipe[1]
  OBVIOUS
<1>0. /\ SessionType /\ LinesFollow /\ NickKnown /\ PendingShort /\ AnswersFresh
      /\ NothingLeft /\ ServerWhole
      /\ pipe # <<>> /\ pipe' = Tail(pipe) /\ Head(pipe) = l /\ l \in Told
      /\ l.kind = "NICK" /\ pipe' \in Seq(Told)
      /\ UNCHANGED <<sessions, disputed, server, events, owner>>
      /\ UNCHANGED <<sNick, channels, gotUser, online, present>>
      /\ UNCHANGED <<welcomed, chans, pending, answered, out>>
  BY HandlerBasics DEF OnNick
<1>1. /\ members' \in [Channels -> SUBSET Nicks] /\ nick' = NickAfter(l) /\ nick' \in Nicks
      /\ \A d \in Channels :
            members'[d] = IF l.nick \in members[d] THEN (members[d] \ {l.nick}) \cup {l.to}
                          ELSE members[d]
  <2>1. /\ members' = [ch \in Channels |->
                         IF l.nick \in members[ch] THEN (members[ch] \ {l.nick}) \cup {l.to}
                         ELSE members[ch]]
        /\ nick' = NickAfter(l)
    BY <1>0 DEF OnNick
  <2>2. l.to \in Nicks /\ nick \in Nicks /\ members \in [Channels -> SUBSET Nicks]
    BY <1>0 DEF Told, SessionType
  <2> QED BY <2>1, <2>2 DEF NickAfter
<1>2. \A ch \in Channels : pending'[ch] = {}
  BY <1>0, NonePending
<1>3. PendingShort'
  BY <1>2, NothingPending
<1>4. NickKnown'
  BY <1>0, <1>1, NickHandled
<1>5. ServerWhole'
  BY <1>0, ServerSame
<1>6. SessionType'
  BY <1>0, <1>1 DEF SessionType
<1>7. NothingLeft'
  BY <1>0, <1>1 DEF NothingLeft
<1>8. answered' \subseteq chans' /\ (answered' # {} => answered # {})
  BY <1>0, <1>1 DEF AnswersFresh
<1>9. ASSUME NEW ch \in Channels, NEW S \in Histories, Fits(S, ch), ~disputed,
             IsIn(pipe, sNick, S, 2)
      PROVE  HandlesRight(l, ch)
  <2>1. ~PartOf(l, ch) /\ ~EndOf(l, ch) /\ ~OwnJoin(l, ch)
    BY <1>0 DEF PartOf, EndOf, OwnJoin
  <2>2. members'[ch] = Says(l, ch, members[ch])
    BY <1>0, <1>1 DEF Says
  <2>3. NotAsked(ch) => NotAsked(ch)'
    BY <1>0 DEF NotAsked
  <2> QED BY <1>0, <1>1, <2>1, <2>2, <2>3 DEF HandlesRight
<1> QED BY <1>0, <1>3, <1>4, <1>5, <1>6, <1>7, <1>8, <1>9, HandledStep

LEMMA OnTopicStep == ASSUME MirrorInv, OnTopic PROVE MirrorInv'
<1> PICK l : l = pipe[1]
  OBVIOUS
<1>0. /\ SessionType /\ LinesFollow /\ NickKnown /\ PendingShort /\ AnswersFresh
      /\ NothingLeft /\ ServerWhole
      /\ pipe # <<>> /\ pipe' = Tail(pipe) /\ Head(pipe) = l /\ l \in Told
      /\ l.kind = "TOPIC" /\ pipe' \in Seq(Told)
      /\ UNCHANGED <<sessions, disputed, server, events, owner>>
      /\ UNCHANGED <<sNick, channels, gotUser, online, present>>
      /\ UNCHANGED <<nick, welcomed, members, pending, answered, out>>
  BY HandlerBasics DEF OnTopic
<1>1. chans' = chans \cup {l.ch} /\ l.ch \in Channels
  BY <1>0 DEF OnTopic, Told, OfChannel
<1>2. \A ch \in Channels : pending'[ch] = {}
  BY <1>0, NonePending
<1>3. PendingShort'
  BY <1>2, NothingPending
<1>4. NickKnown'
  BY <1>0, NickHandled
<1>5. ServerWhole'
  BY <1>0, ServerSame
<1>6. SessionType'
  BY <1>0, <1>1 DEF SessionType
<1>7. NothingLeft'
  BY <1>0, <1>1 DEF NothingLeft
<1>8. answered' \subseteq chans' /\ (answered' # {} => answered # {})
  BY <1>0, <1>1 DEF AnswersFresh
<1>9. ASSUME NEW ch \in Channels, NEW S \in Histories, Fits(S, ch), ~disputed,
             IsIn(pipe, sNick, S, 2)
      PROVE  HandlesRight(l, ch)
  <2>1. ~PartOf(l, ch) /\ ~EndOf(l, ch) /\ ~OwnJoin(l, ch)
    BY <1>0 DEF PartOf, EndOf, OwnJoin
  <2>2. members'[ch] = Says(l, ch, members[ch])
    BY <1>0, <1>1 DEF Says
  <2>3. NotAsked(ch) => NotAsked(ch)'
    BY <1>0 DEF NotAsked
  <2> QED BY <1>0, <1>1, <2>1, <2>2, <2>3 DEF HandlesRight
<1> QED BY <1>0, <1>3, <1>4, <1>5, <1>6, <1>7, <1>8, <1>9, HandledStep

(* More commands, behind those that wait.                                  *)
LEMMA MoreAsked ==
  ASSUME SessionType, NEW r \in Seq(Asked), out' = out \o r
  PROVE  /\ out' \in Seq(Asked)
         /\ ServerWhole /\ UNCHANGED <<gotUser, sNick, online, present>> => ServerWhole'
         /\ \A ch \in Channels :
               /\ NotAsked(ch)
               /\ \A i \in 1..Len(r) : r[i].kind \in {"JOIN", "NAMES"} => r[i].ch # ch
               => NotAsked(ch)'
<1> PICK a, b, n, m : a = out /\ b = out' /\ n = Len(out) /\ m = Len(r)
  OBVIOUS
<1>1. /\ b \in Seq(Asked) /\ n \in Nat /\ m \in Nat /\ Len(b) = n + m
      /\ \A i \in 1..n : b[i] = a[i]
      /\ \A i \in 1..m : b[n + i] = r[i]
  <2>1. out \in Seq(Asked)
    BY DEF SessionType
  <2> QED BY <2>1, Behind
<1>2. ASSUME ServerWhole, UNCHANGED <<gotUser, sNick, online, present>> PROVE ServerWhole'
  <2>1. ASSUME ~gotUser
        PROVE  /\ sNick \in {NoNick, CfgNick} /\ b # <<>>
               /\ \/ b[1].kind = "USER"
                  \/ /\ b[1].kind = "NICK" /\ b[1].nick = CfgNick
                     /\ Len(b) > 1 /\ b[2].kind = "USER"
    <3>1. /\ sNick \in {NoNick, CfgNick} /\ a # <<>>
          /\ \/ a[1].kind = "USER"
             \/ /\ a[1].kind = "NICK" /\ a[1].nick = CfgNick
                /\ n > 1 /\ a[2].kind = "USER"
      BY <1>2, <2>1 DEF ServerWhole
    <3>2. n > 0
      <4>1. a \in Seq(Asked)
        BY DEF SessionType
      <4> QED BY <3>1, <4>1, EmptySeq
    <3>3. b[1] = a[1] /\ (n > 1 => b[2] = a[2]) /\ Len(b) > 0 /\ (n > 1 => Len(b) > 1)
      BY <3>2, <1>1
    <3>4. b # <<>>
      BY <3>3
    <3> QED BY <3>1, <3>3, <3>4
  <2>2. sNick \notin online /\ \A ch \in Channels : present[ch] \subseteq online \cup {sNick}
    BY <1>2 DEF ServerWhole
  <2> QED BY <1>2, <2>1, <2>2 DEF ServerWhole
<1>3. ASSUME NEW ch \in Channels, NotAsked(ch),
             \A i \in 1..Len(r) : r[i].kind \in {"JOIN", "NAMES"} => r[i].ch # ch
      PROVE  NotAsked(ch)'
  <2> SUFFICES ASSUME NEW j \in 1..(n + m), b[j].kind \in {"JOIN", "NAMES"} PROVE b[j].ch # ch
    BY <1>1 DEF NotAsked
  <2>1. CASE j <= n
    <3>1. j \in 1..n /\ b[j] = a[j]
      BY <2>1, <1>1
    <3> QED BY <3>1, <1>3 DEF NotAsked
  <2>2. CASE j > n
    <3>1. j - n \in 1..m /\ n + (j - n) = j
      BY <2>2, <1>1
    <3>2. b[j] = r[j - n]
      BY <3>1, <1>1
    <3> QED BY <3>1, <3>2, <1>3
  <2> QED BY <2>1, <2>2, <1>1
<1> QED BY <1>1, <1>2, <1>3

LEMMA OnNamReplyStep == ASSUME MirrorInv, OnNamReply PROVE MirrorInv'
<1> PICK l, c0 : l = pipe[1] /\ c0 = pipe[1].ch
  OBVIOUS
<1>0. /\ SessionType /\ LinesFollow /\ NickKnown /\ PendingShort /\ AnswersFresh
      /\ NothingLeft /\ ServerWhole
      /\ pipe # <<>> /\ pipe' = Tail(pipe) /\ Head(pipe) = l /\ l \in Told
      /\ l.kind = "NAMES" /\ pipe' \in Seq(Told)
      /\ UNCHANGED <<sessions, disputed, server, events, owner>>
      /\ UNCHANGED <<sNick, channels, gotUser, online, present>>
      /\ UNCHANGED <<nick, welcomed, chans, members, answered, out>>
  BY HandlerBasics DEF OnNamReply
<1>1. /\ c0 \in Channels /\ l.ch = c0 /\ l.list \in SUBSET Nicks
      /\ pending \in [Channels -> SUBSET Nicks]
  BY <1>0 DEF Told, OfChannel, SessionType
<1>2. /\ pending' \in [Channels -> SUBSET Nicks]
      /\ c0 \in chans => pending'[c0] = pending[c0] \cup l.list
      /\ c0 \notin chans => pending'[c0] = pending[c0]
      /\ \A d \in Channels \ {c0} : pending'[d] = pending[d]
  <2>1. pending' = IF c0 \in chans THEN [pending EXCEPT ![c0] = @ \cup l.list] ELSE pending
    BY <1>0, <1>1 DEF OnNamReply, Tracks
  <2> QED BY <2>1, <1>1
<1>3. PendingShort'
  <2> SUFFICES ASSUME NEW ch \in Channels, pending'[ch] # {}
               PROVE  /\ pipe' # <<>>
                      /\ \/ EndOf(pipe'[1], ch)
                         \/ PartOf(pipe'[1], ch) /\ Len(pipe') > 1 /\ EndOf(pipe'[2], ch)
    BY DEF PendingShort
  <2>1. ch = c0
    <3>1. ch # c0 => pending[ch] # {}
      BY <1>2
    <3>2. pending[ch] # {} => EndOf(l, ch) \/ PartOf(l, ch)
      BY <1>0 DEF PendingShort
    <3> QED BY <3>1, <3>2, <1>0, <1>1 DEF EndOf, PartOf
  <2>2. PartOf(pipe[1], ch)
    BY <2>1, <1>0, <1>1 DEF PartOf
  <2>3. /\ Len(pipe) \in Nat /\ Len(pipe) > 0 /\ Len(pipe') = Len(pipe) - 1
        /\ \A i \in 1..Len(pipe') : pipe'[i] = pipe[i + 1]
    BY <1>0, TakenLine
  <2>4. /\ 1 < Len(pipe)
        /\ \/ EndOf(pipe[1 + 1], ch)
           \/ PartOf(pipe[1 + 1], ch) /\ 1 + 1 < Len(pipe) /\ EndOf(pipe[1 + 2], ch)
    <3>1. 1 \in 1..Len(pipe) /\ BurstsWhole(pipe)
      BY <1>0, <2>3 DEF LinesFollow
    <3> QED BY <2>2, <3>1 DEF BurstsWhole
  <2> PICK p, q, n : p = pipe /\ q = pipe' /\ n = Len(pipe)
    OBVIOUS
  <2>5. q[1] = p[2] /\ (n > 2 => q[2] = p[3])
    <3>1. 1 \in 1..(n - 1) /\ (n > 2 => 2 \in 1..(n - 1)) /\ 1 + 1 = 2 /\ 2 + 1 = 3
      BY <2>3, <2>4
    <3>2. \A i \in 1..(n - 1) : q[i] = p[i + 1]
      BY <2>3
    <3> QED BY <3>1, <3>2
  <2>6. pipe' # <<>>
    <3>1. Len(pipe') > 0
      BY <2>3, <2>4
    <3> QED BY <3>1
  <2>7. \/ EndOf(p[2], ch)
        \/ PartOf(p[2], ch) /\ n > 2 /\ EndOf(p[3], ch)
    BY <2>4
  <2>8. n > 2 => Len(q) > 1
    BY <2>3
  <2> QED BY <2>5, <2>6, <2>7, <2>8
<1>4. NickKnown'
  BY <1>0, NickHandled
<1>5. ServerWhole'
  BY <1>0, ServerSame
<1>6. SessionType'
  BY <1>0, <1>2 DEF SessionType
<1>7. NothingLeft'
  BY <1>0, <1>2 DEF NothingLeft
<1>8. answered' \subseteq chans' /\ (answered' # {} => answered # {})
  BY <1>0 DEF AnswersFresh
<1>9. ASSUME NEW ch \in Channels PROVE HandlesRight(l, ch)
  <2>1. ~EndOf(l, ch) /\ ~OwnJoin(l, ch) /\ Says(l, ch, members[ch]) = members[ch]
    BY <1>0 DEF EndOf, OwnJoin, Says
  <2>2. NotAsked(ch) => NotAsked(ch)'
    BY <1>0 DEF NotAsked
  <2>3. PartOf(l, ch) => ch = c0
    BY <1>1 DEF PartOf
  <2> QED BY <1>0, <1>2, <2>1, <2>2, <2>3 DEF HandlesRight
<1> QED BY <1>0, <1>3, <1>4, <1>5, <1>6, <1>7, <1>8, <1>9, HandledStep

LEMMA OnEndOfNamesStep == ASSUME MirrorInv, OnEndOfNames PROVE MirrorInv'
<1> PICK l, c0 : l = pipe[1] /\ c0 = pipe[1].ch
  OBVIOUS
<1>0. /\ SessionType /\ LinesFollow /\ NickKnown /\ PendingShort /\ AnswersFresh
      /\ NothingLeft /\ ServerWhole
      /\ pipe # <<>> /\ pipe' = Tail(pipe) /\ Head(pipe) = l /\ l \in Told
      /\ l.kind = "ENDOFNAMES" /\ pipe' \in Seq(Told)
      /\ UNCHANGED <<sessions, disputed, server, events, owner>>
      /\ UNCHANGED <<sNick, channels, gotUser, online, present>>
      /\ UNCHANGED <<nick, welcomed, chans, out>>
  BY HandlerBasics DEF OnEndOfNames
<1>1. /\ c0 \in Channels /\ l.ch = c0
      /\ pending \in [Channels -> SUBSET Nicks] /\ members \in [Channels -> SUBSET Nicks]
  BY <1>0 DEF Told, OfChannel, SessionType
<1>2. /\ members' \in [Channels -> SUBSET Nicks] /\ pending' \in [Channels -> SUBSET Nicks]
      /\ c0 \in chans => /\ members'[c0] = pending[c0] /\ pending'[c0] = {}
                         /\ answered' = IF l.gen = sessions THEN answered \cup {c0}
                                        ELSE answered
      /\ c0 \notin chans => /\ members'[c0] = members[c0] /\ pending'[c0] = pending[c0]
                            /\ answered' = answered
      /\ \A d \in Channels \ {c0} : members'[d] = members[d] /\ pending'[d] = pending[d]
  <2>1. CASE c0 \in chans
    <3>1. /\ members' = [members EXCEPT ![c0] = pending[c0]]
          /\ pending' = Forgotten(pending, c0)
          /\ answered' = IF l.gen = sessions THEN answered \cup {c0} ELSE answered
      BY <1>0, <1>1, <2>1 DEF OnEndOfNames, Tracks, PendingAfter
    <3> QED BY <1>1, <2>1, <3>1 DEF Forgotten
  <2>2. CASE c0 \notin chans
    <3>1. UNCHANGED <<members, pending, answered>>
      BY <1>0, <1>1, <2>2 DEF OnEndOfNames, Tracks
    <3> QED BY <1>1, <2>2, <3>1
  <2> QED BY <2>1, <2>2
<1>3. PendingShort'
  <2>1. ASSUME NEW ch \in Channels PROVE pending'[ch] = {}
    <3>1. ch # c0 => pending[ch] = {}
      BY <1>0, <1>1 DEF PendingShort, EndOf, PartOf
    <3>2. c0 \notin chans => pending[c0] = {}
      BY <1>0, <1>1 DEF NothingLeft
    <3> QED BY <3>1, <3>2, <1>2
  <2> QED BY <2>1, NothingPending
<1>4. NickKnown'
  BY <1>0, NickHandled
<1>5. ServerWhole'
  BY <1>0, ServerSame
<1>6. SessionType'
  BY <1>0, <1>1, <1>2 DEF SessionType
<1>7. NothingLeft'
  BY <1>0, <1>1, <1>2 DEF NothingLeft
<1>8. /\ answered' \subseteq chans'
      /\ answered' # {} => answered # {} \/ pipe[1].gen = sessions
  BY <1>0, <1>2 DEF AnswersFresh
<1>9. ASSUME NEW ch \in Channels PROVE HandlesRight(l, ch)
  <2>1. ~PartOf(l, ch) /\ ~OwnJoin(l, ch) /\ Says(l, ch, members[ch]) = members[ch]
    BY <1>0 DEF PartOf, OwnJoin, Says
  <2>2. NotAsked(ch) => NotAsked(ch)'
    BY <1>0 DEF NotAsked
  <2>3. ASSUME ch \in answered', EndOf(l, ch)
        PROVE  members'[ch] = pending[ch] /\ l.gen = sessions
    <3>1. ch = c0
      BY <1>1, <2>3 DEF EndOf
    <3>2. c0 \in answered => l.gen = sessions /\ c0 \in chans
      <4>1. 1 \in 1..Len(pipe)
        BY <1>0, TakenLine
      <4> QED BY <4>1, <1>0 DEF AnswersFresh
    <3> QED BY <2>3, <3>1, <3>2, <1>2
  <2>4. ASSUME ch \in answered', ~EndOf(l, ch)
        PROVE  ch \in answered /\ members'[ch] = members[ch]
    <3>1. ch # c0
      BY <1>0, <1>1, <2>4 DEF EndOf
    <3> QED BY <2>4, <3>1, <1>2
  <2> QED BY <1>0, <2>1, <2>2, <2>3, <2>4 DEF HandlesRight
<1> QED BY <1>0, <1>3, <1>4, <1>5, <1>6, <1>7, <1>8, <1>9, HandledStep

LEMMA OnNickInUseStep == ASSUME MirrorInv, OnNickInUse PROVE MirrorInv'
<1> PICK l, x, r : /\ l = pipe[1] /\ x = Cmd("NICK", Underscored[nick], NoChannel)
                   /\ r = <<x>>
  OBVIOUS
<1>0. /\ SessionType /\ LinesFollow /\ NickKnown /\ PendingShort /\ AnswersFresh
      /\ NothingLeft /\ ServerWhole
      /\ pipe # <<>> /\ pipe' = Tail(pipe) /\ Head(pipe) = l /\ l \in Told
      /\ l.kind = "NICKINUSE" /\ pipe' \in Seq(Told)
      /\ UNCHANGED <<sessions, disputed, server, events, owner>>
      /\ UNCHANGED <<sNick, channels, gotUser, online, present>>
      /\ UNCHANGED <<welcomed, chans, members, pending, answered>>
      /\ nick' = Underscored[nick] /\ out' = Append(out, x)
  BY HandlerBasics DEF OnNickInUse
<1>1. nick' \in Nicks /\ nick \in Nicks
  BY <1>0, SessionAssumption DEF SessionType
<1>2. /\ x \in Asked /\ x.kind = "NICK" /\ x.nick = nick'
  BY <1>0, <1>1 DEF Cmd, Asked, Commands, Names, Places, OfChannel
<1>3. /\ r \in Seq(Asked) /\ out' = out \o r /\ Len(r) = 1 /\ r[1] = x /\ out \in Seq(Asked)
      /\ out' \in Seq(Asked) /\ Len(out) \in Nat /\ Len(out') = Len(out) + 1
      /\ \A i \in 1..Len(out) : out'[i] = out[i]
      /\ out'[Len(out) + 1] = x
  <2>1. out \in Seq(Asked)
    BY <1>0 DEF SessionType
  <2> QED BY <1>0, <1>2, <2>1, OneAdded
<1>4. \A i \in 1..Len(r) : r[i].kind \notin {"JOIN", "NAMES"}
  <2>1. \A i \in 1..Len(r) : r[i] = x
    BY <1>3
  <2> QED BY <2>1, <1>2
<1>5. ServerWhole' /\ \A ch \in Channels : NotAsked(ch) => NotAsked(ch)'
  BY <1>0, <1>3, <1>4, MoreAsked
<1>6. NickKnown'
  <2> SUFFICES ASSUME ~disputed PROVE NickKnown'
    BY <1>0 DEF NickKnown
  <2>1. /\ Len(pipe) \in Nat /\ Len(pipe) > 0 /\ Len(pipe') = Len(pipe) - 1
    BY <1>0, TakenLine
  <2>2. 1 \in 1..Len(pipe)
    BY <2>1
  <2>3. sNick = NoNick
    BY <1>0, <2>2 DEF NickKnown
  <2>4. Len(pipe) = 1 /\ \A j \in 1..Len(out) : out[j].kind # "NICK"
    BY <1>0, <2>3 DEF NickKnown
  <2>5. Len(pipe') = 0
    BY <2>1, <2>4
  <2>6. pipe' = <<>>
    BY <1>0, <2>5, EmptySeq
  <2> PICK a, b, n : a = out /\ b = out' /\ n = Len(out)
    OBVIOUS
  <2>7. \A j \in 1..n : a[j].kind # "NICK"
    BY <2>4
  <2>8. /\ n \in Nat /\ Len(b) = n + 1 /\ b[n + 1] = x
        /\ \A i \in 1..n : b[i] = a[i]
    BY <1>3
  <2>9. ASSUME NEW j \in 1..(n + 1), b[j].kind = "NICK" PROVE j = n + 1
    <3>1. j \in 1..n => b[j] = a[j] /\ a[j].kind # "NICK"
      BY <2>7, <2>8
    <3>2. j \notin 1..n
      BY <3>1, <2>9
    <3> QED BY <3>2, <2>8
  <2>10. \E i \in 1..Len(b) : /\ b[i].kind = "NICK" /\ b[i].nick = nick'
                              /\ \A j \in 1..Len(b) : b[j].kind = "NICK" => j = i
    <3>1. n + 1 \in 1..Len(b) /\ b[n + 1].kind = "NICK" /\ b[n + 1].nick = nick'
      BY <2>8, <1>2
    <3> QED BY <3>1, <2>8, <2>9
  <2>11. \A i \in 1..Len(pipe') : pipe'[i].kind = "NICKINUSE"
    BY <2>5
  <2> QED BY <1>0, <2>3, <2>6, <2>10, <2>11 DEF NickKnown
<1>7. SessionType'
  BY <1>0, <1>1, <1>3 DEF SessionType
<1>8. PendingShort' /\ NothingLeft'
  <2>1. \A ch \in Channels : pending[ch] = {}
    BY <1>0, NonePending
  <2>2. \A ch \in Channels : pending'[ch] = {}
    BY <1>0, <2>1
  <2> QED BY <1>0, <2>2, NothingPending DEF NothingLeft
<1>9. answered' \subseteq chans' /\ (answered' # {} => answered # {})
  BY <1>0 DEF AnswersFresh
<1>10. ASSUME NEW ch \in Channels PROVE HandlesRight(l, ch)
  <2>1. ~PartOf(l, ch) /\ ~EndOf(l, ch) /\ ~OwnJoin(l, ch)
    BY <1>0 DEF PartOf, EndOf, OwnJoin
  <2>2. members'[ch] = Says(l, ch, members[ch])
    BY <1>0 DEF Says
  <2> QED BY <1>0, <1>5, <2>1, <2>2 DEF HandlesRight
<1> QED BY <1>0, <1>5, <1>6, <1>7, <1>8, <1>9, <1>10, HandledStep

LEMMA OnWelcomeStep == ASSUME MirrorInv, OnWelcome PROVE MirrorInv'
<1> PICK l, r : l = pipe[1] /\ r = JoinAll(channels)
  OBVIOUS
<1>0. /\ SessionType /\ LinesFollow /\ NickKnown /\ PendingShort /\ AnswersFresh
      /\ NothingLeft /\ ServerWhole
      /\ pipe # <<>> /\ pipe' = Tail(pipe) /\ Head(pipe) = l /\ l \in Told
      /\ l.kind = "WELCOME" /\ pipe' \in Seq(Told)
      /\ UNCHANGED <<sessions, disputed, server, events, owner>>
      /\ UNCHANGED <<sNick, channels, gotUser, online, present>>
      /\ UNCHANGED <<nick, members, pending, answered>> /\ welcomed' = TRUE
      /\ IF welcomed THEN UNCHANGED <<chans, out>>
         ELSE chans' = chans \cup Range(channels) /\ out' = out \o r
  BY HandlerBasics DEF OnWelcome, Marked
<1>1. /\ channels \in Seq(Channels) /\ out \in Seq(Asked) /\ chans \subseteq Channels
  BY <1>0 DEF SessionType
<1>2. /\ r \in Seq(Asked)
      /\ \A i \in 1..Len(r) : r[i].ch \in Range(channels)
  BY <1>1, JoinsAsked
<1>3. Range(channels) \subseteq Channels
  BY <1>1, RangeOfSeq
<1>4. /\ chans' \subseteq Channels /\ chans \subseteq chans'
  BY <1>0, <1>1, <1>3
<1>5. /\ out' \in Seq(Asked) /\ ServerWhole'
      /\ \A ch \in Channels : ch \notin chans' /\ NotAsked(ch) => NotAsked(ch)'
  <2>1. CASE welcomed
    <3>1. UNCHANGED out
      BY <1>0, <2>1
    <3> QED BY <1>0, <1>1, <3>1, ServerSame DEF NotAsked
  <2>2. CASE ~welcomed
    <3>1. out' = out \o r /\ chans' = chans \cup Range(channels)
      BY <1>0, <2>2
    <3>2. ASSUME NEW ch \in Channels, ch \notin chans', NotAsked(ch) PROVE NotAsked(ch)'
      <4>1. \A i \in 1..Len(r) : r[i].ch # ch
        BY <1>2, <3>1, <3>2
      <4> QED BY <1>0, <1>2, <3>1, <3>2, <4>1, MoreAsked
    <3> QED BY <1>0, <1>2, <3>1, <3>2, MoreAsked
  <2> QED BY <2>1, <2>2
<1>6. NickKnown'
  BY <1>0, NickHandled
<1>7. SessionType'
  BY <1>0, <1>4, <1>5 DEF SessionType
<1>8. PendingShort' /\ NothingLeft'
  <2>1. \A ch \in Channels : pending[ch] = {}
    BY <1>0, NonePending
  <2>2. \A ch \in Channels : pending'[ch] = {}
    BY <1>0, <2>1
  <2> QED BY <1>0, <1>4, <2>2, NothingPending DEF NothingLeft
<1>9. answered' \subseteq chans' /\ (answered' # {} => answered # {})
  BY <1>0, <1>4 DEF AnswersFresh
<1>10. ASSUME NEW ch \in Channels PROVE HandlesRight(l, ch)
  <2>1. ~PartOf(l, ch) /\ ~EndOf(l, ch) /\ ~OwnJoin(l, ch)
    BY <1>0 DEF PartOf, EndOf, OwnJoin
  <2>2. members'[ch] = Says(l, ch, members[ch])
    BY <1>0 DEF Says
  <2>3. ch \notin chans' => welcomed \/ ch \notin Range(channels)
    BY <1>0
  <2> QED BY <1>0, <1>4, <1>5, <2>1, <2>2, <2>3 DEF HandlesRight
<1> QED BY <1>0, <1>5, <1>6, <1>7, <1>8, <1>9, <1>10, HandledStep

(* The owner's calls: more commands, and a channel tracked as it is added. *)
LEMMA NickAsked ==
  ASSUME SessionType, NickKnown, UNCHANGED <<nick, pipe, sNick, disputed>>,
         NEW r \in Seq(Asked), out' = out \o r, \A i \in 1..Len(r) : r[i].kind # "NICK"
  PROVE  NickKnown'
<1> SUFFICES ASSUME ~disputed PROVE NickKnown'
  BY DEF NickKnown
<1> PICK a, b, n, m : a = out /\ b = out' /\ n = Len(out) /\ m = Len(r)
  OBVIOUS
<1>1. /\ n \in Nat /\ m \in Nat /\ Len(b) = n + m
      /\ \A i \in 1..n : b[i] = a[i]
      /\ \A i \in 1..m : b[n + i] = r[i]
  <2>1. out \in Seq(Asked)
    BY DEF SessionType
  <2> QED BY <2>1, Behind
<1>2. CASE sNick # NoNick
  BY <1>2 DEF NickKnown, MeAt
<1>3. CASE sNick = NoNick
  <2>1. ASSUME NEW j \in 1..Len(b), b[j].kind = "NICK" PROVE j \in 1..n /\ b[j] = a[j]
    <3>1. CASE j > n
      <4>1. j - n \in 1..m /\ n + (j - n) = j
        BY <1>1, <3>1
      <4>2. b[j] = r[j - n]
        BY <1>1, <4>1
      <4> QED BY <2>1, <4>1, <4>2
    <3> QED BY <1>1, <3>1
  <2>2. \A i \in 1..Len(pipe') : pipe'[i].kind = "NICKINUSE"
    BY <1>3 DEF NickKnown
  <2>3. \/ /\ pipe = <<>>
           /\ \E i \in 1..n :
                 /\ a[i].kind = "NICK" /\ a[i].nick = nick
                 /\ \A j \in 1..n : a[j].kind = "NICK" => j = i
        \/ /\ Len(pipe) = 1
           /\ \A j \in 1..n : a[j].kind # "NICK"
    BY <1>3 DEF NickKnown
  <2>4. CASE /\ pipe = <<>>
             /\ \E i \in 1..n :
                   /\ a[i].kind = "NICK" /\ a[i].nick = nick
                   /\ \A j \in 1..n : a[j].kind = "NICK" => j = i
    <3>1. PICK i \in 1..n : /\ a[i].kind = "NICK" /\ a[i].nick = nick
                            /\ \A j \in 1..n : a[j].kind = "NICK" => j = i
      BY <2>4
    <3>2. i \in 1..Len(b) /\ b[i].kind = "NICK" /\ b[i].nick = nick'
      BY <1>1, <3>1
    <3>3. \A j \in 1..Len(b) : b[j].kind = "NICK" => j = i
      BY <2>1, <3>1
    <3>4. \E k \in 1..Len(b) : /\ b[k].kind = "NICK" /\ b[k].nick = nick'
                               /\ \A j \in 1..Len(b) : b[j].kind = "NICK" => j = k
      BY <3>2, <3>3
    <3>5. pipe' = <<>> /\ sNick' = NoNick
      BY <1>3, <2>4
    <3> QED BY <2>2, <3>4, <3>5 DEF NickKnown
  <2>5. CASE Len(pipe) = 1 /\ \A j \in 1..n : a[j].kind # "NICK"
    <3>1. \A j \in 1..Len(b) : b[j].kind # "NICK"
      BY <2>1, <2>5
    <3>2. Len(pipe') = 1 /\ sNick' = NoNick
      BY <1>3, <2>5
    <3> QED BY <2>2, <3>1, <3>2 DEF NickKnown
  <2> QED BY <2>3, <2>4, <2>5
<1> QED BY <1>2, <1>3

LEMMA OwnerStep ==
  ASSUME MirrorInv, UNCHANGED <<nick, welcomed, members, pending, answered, pipe, sessions,
                                disputed, server>>,
         NEW r \in Seq(Asked), out' = out \o r, \A i \in 1..Len(r) : r[i].kind # "NICK",
         channels' \in Seq(Channels), chans \subseteq chans', chans' \subseteq Channels,
         Range(channels') \subseteq Range(channels) \cup chans',
         \A i \in 1..Len(r) : r[i].kind \in {"JOIN", "NAMES"} => r[i].ch \in chans'
  PROVE  MirrorInv'
<1>0. /\ SessionType /\ LinesFollow /\ NickKnown /\ PendingShort /\ AnswersFresh
      /\ NothingLeft /\ ServerWhole /\ Mirrored
      /\ UNCHANGED <<gotUser, sNick, online, present>>
  BY DEF MirrorInv, server
<1>1. /\ out' \in Seq(Asked) /\ ServerWhole'
      /\ \A ch \in Channels : ch \notin chans' /\ NotAsked(ch) => NotAsked(ch)'
  <2>1. ASSUME NEW ch \in Channels, ch \notin chans', NotAsked(ch) PROVE NotAsked(ch)'
    <3>1. \A i \in 1..Len(r) : r[i].kind \in {"JOIN", "NAMES"} => r[i].ch # ch
      BY <2>1
    <3> QED BY <1>0, <2>1, <3>1, MoreAsked
  <2> QED BY <1>0, <2>1, MoreAsked
<1>2. SessionType'
  BY <1>0, <1>1 DEF SessionType
<1>3. LinesFollow' /\ PendingShort'
  BY <1>0 DEF LinesFollow, PendingShort
<1>4. AnswersFresh' /\ NothingLeft'
  BY <1>0 DEF AnswersFresh, NothingLeft
<1>5. NickKnown'
  BY <1>0, NickAsked
<1>6. Mirrored'
  <2> SUFFICES ASSUME NEW ch \in Channels PROVE \E Q \in Histories' : Fits(Q, ch)'
    BY DEF Mirrored
  <2>1. PICK S \in Histories : Fits(S, ch)
    BY <1>0 DEF Mirrored
  <2>2. S \in Histories'
    BY <1>0 DEF Histories
  <2>3. S[Len(pipe') + 1] = present'[ch] /\ Follows(pipe', sNick', S, ch)
    BY <1>0, <2>1 DEF Fits
  <2>4. ASSUME ~disputed'
        PROVE  /\ ch \in answered' /\ IsIn(pipe', sNick', S, 1) => members'[ch] = S[1]
               /\ ListsExact(pipe', sNick', S, ch, pending'[ch], sessions')
    BY <1>0, <2>1, <2>4 DEF Fits
  <2>5. ASSUME ~disputed', IsIn(pipe', sNick', S, 1), ch \notin chans'
        PROVE  /\ NotAsked(ch)' /\ NoListFor(pipe', sNick', S, ch, sessions')
               /\ welcomed' => ch \notin Range(channels')
    <3>1. ~disputed /\ IsIn(pipe, sNick, S, 1) /\ ch \notin chans
      BY <1>0, <2>5
    <3>2. /\ NotAsked(ch) /\ NoListFor(pipe, sNick, S, ch, sessions)
          /\ welcomed => ch \notin Range(channels)
      BY <2>1, <3>1 DEF Fits
    <3> QED BY <1>0, <1>1, <2>5, <3>2
  <2> QED BY <2>2, <2>3, <2>4, <2>5 DEF Fits
<1> QED BY <1>1, <1>2, <1>3, <1>4, <1>5, <1>6 DEF MirrorInv

LEMMA OwnerJoinsStep ==
  ASSUME MirrorInv, NEW ch \in Channels, OwnerJoins(ch)
  PROVE  MirrorInv'
<1> PICK r : r = JoinCmds(ch)
  OBVIOUS
<1>0. /\ UNCHANGED <<nick, welcomed, members, pending, answered, pipe, sessions, disputed, server>>
      /\ out' = out \o r /\ channels' = addChannel(channels, ch)
      /\ chans' = chans \cup Range(<<ch>>)
  BY DEF OwnerJoins, Marked
<1>1. chans \subseteq Channels /\ channels \in Seq(Channels)
  BY DEF MirrorInv, SessionType
<1>2. /\ r \in Seq(Asked) /\ Len(r) = 2
      /\ \A i \in 1..Len(r) : r[i].kind # "NICK" /\ r[i].ch = ch
  <2>1. r \in Seq(Asked) /\ Len(r) = 2
    BY CmdsAsked DEF JoinCmds
  <2>2. r[1].kind = "JOIN" /\ r[2].kind = "NAMES" /\ r[1].ch = ch /\ r[2].ch = ch
    BY DEF JoinCmds, Cmd
  <2>3. \A i \in 1..2 : i = 1 \/ i = 2
    OBVIOUS
  <2> QED BY <2>1, <2>2, <2>3
<1>3. chans' = chans \cup {ch}
  <2>1. Range(<<ch>>) = {ch}
    BY DEF Range
  <2> QED BY <1>0, <2>1
<1>4. /\ channels' \in Seq(Channels)
      /\ Range(channels') \subseteq Range(channels) \cup chans'
  BY <1>0, <1>1, <1>3, Listed
<1> QED BY <1>0, <1>1, <1>2, <1>3, <1>4, OwnerStep

LEMMA OwnerPartsStep ==
  ASSUME MirrorInv, NEW ch \in Channels, OwnerParts(ch)
  PROVE  MirrorInv'
<1> PICK x, r : x = Cmd("PART", NoNick, ch) /\ r = <<x>>
  OBVIOUS
<1>0. /\ UNCHANGED <<nick, welcomed, members, pending, answered, pipe, sessions, disputed, server>>
      /\ out' = Append(out, x) /\ channels' = removeChannel(channels, ch) /\ chans' = chans
  BY DEF OwnerParts, sess
<1>1. chans \subseteq Channels /\ channels \in Seq(Channels) /\ out \in Seq(Asked)
  BY DEF MirrorInv, SessionType
<1>2. x \in Asked /\ x.kind = "PART"
  BY CmdsAsked DEF Cmd
<1>3. /\ r \in Seq(Asked) /\ out' = out \o r
      /\ \A i \in 1..Len(r) : r[i].kind \notin {"NICK", "JOIN", "NAMES"}
  <2>1. r \in Seq(Asked) /\ out' = out \o r /\ Len(r) = 1 /\ r[1] = x
    BY <1>0, <1>1, <1>2, OneAdded
  <2>2. \A i \in 1..Len(r) : r[i] = x
    BY <2>1
  <2> QED BY <1>2, <2>1, <2>2
<1>4. channels' \in Seq(Channels) /\ Range(channels') \subseteq Range(channels) \cup chans'
  BY <1>0, <1>1, RemoveFacts
<1> QED BY <1>0, <1>1, <1>3, <1>4, OwnerStep

(* A new session knows nothing and has asked for nothing.                  *)
LEMMA Afresh ==
  ASSUME MirrorInv, NewSession
  PROVE  /\ out' \in Seq(Asked) /\ Len(out') = 2 /\ out' # <<>>
         /\ out'[1].kind = "NICK" /\ out'[1].nick = CfgNick /\ out'[2].kind = "USER"
         /\ \A ch \in Channels : NotAsked(ch)'
         /\ NothingLeft' /\ PendingShort' /\ AnswersFresh'
         /\ nick' = CfgNick /\ ~welcomed' /\ welcomed' \in BOOLEAN
         /\ chans' = {} /\ answered' = {}
         /\ members' \in [Channels -> SUBSET Nicks] /\ pending' \in [Channels -> SUBSET Nicks]
         /\ sessions \in Nat /\ sessions' = sessions + 1
         /\ UNCHANGED <<online, channels>>
<1>0. /\ nick' = CfgNick /\ welcomed' = FALSE /\ chans' = {} /\ answered' = {}
      /\ members' = Nobody /\ pending' = Nobody /\ out' = Registration
      /\ sessions' = sessions + 1 /\ UNCHANGED <<online, channels>> /\ sessions \in Nat
  BY DEF NewSession, owner, MirrorInv, SessionType
<1>1. /\ Len(Registration) = 2 /\ Registration # <<>>
      /\ Registration[1].kind = "NICK" /\ Registration[1].nick = CfgNick
      /\ Registration[2].kind = "USER"
  BY DEF Registration, Cmd
<1>2. \A j \in 1..Len(Registration) : Registration[j].kind \notin {"JOIN", "NAMES"}
  <2>1. \A j \in 1..2 : j = 1 \/ j = 2
    OBVIOUS
  <2> QED BY <2>1, <1>1
<1>3. \A ch \in Channels : NotAsked(ch)'
  BY <1>0, <1>2 DEF NotAsked
<1>4. /\ members' \in [Channels -> SUBSET Nicks] /\ pending' \in [Channels -> SUBSET Nicks]
      /\ \A ch \in Channels : members'[ch] = {} /\ pending'[ch] = {}
  BY <1>0 DEF Nobody
<1>5. NothingLeft' /\ PendingShort' /\ AnswersFresh'
  BY <1>0, <1>4 DEF NothingLeft, PendingShort, AnswersFresh
<1> QED BY <1>0, <1>1, <1>3, <1>4, <1>5, RegistrationAsked

LEMMA ReconnectStep == ASSUME MirrorInv, Reconnect PROVE MirrorInv'
<1>0. /\ SessionType /\ ServerWhole /\ NewSession
      /\ disputed' = FALSE /\ gotUser' = FALSE /\ sNick' = NoNick /\ pipe' = <<>>
      /\ present' = [ch \in Channels |-> present[ch] \ {sNick}]
  BY DEF MirrorInv, Reconnect
<1>1. /\ out' \in Seq(Asked) /\ Len(out') = 2 /\ out' # <<>>
      /\ out'[1].kind = "NICK" /\ out'[1].nick = CfgNick /\ out'[2].kind = "USER"
      /\ \A ch \in Channels : NotAsked(ch)'
      /\ NothingLeft' /\ PendingShort' /\ AnswersFresh'
      /\ nick' = CfgNick /\ ~welcomed' /\ welcomed' \in BOOLEAN
      /\ chans' = {} /\ answered' = {}
      /\ members' \in [Channels -> SUBSET Nicks] /\ pending' \in [Channels -> SUBSET Nicks]
      /\ sessions \in Nat /\ sessions' = sessions + 1
      /\ UNCHANGED <<online, channels>>
  BY <1>0, Afresh
<1>2. /\ present' \in [Channels -> SUBSET Nicks]
      /\ \A ch \in Channels : present'[ch] = present[ch] \ {sNick}
  BY <1>0 DEF SessionType
<1>3. Len(pipe') = 0 /\ \A i \in 1..Len(pipe') : FALSE
  BY <1>0
<1>4. SessionType'
  <2>1. pipe' \in Seq(Told)
    BY <1>0
  <2>4. disputed' \in BOOLEAN /\ gotUser' \in BOOLEAN
    BY <1>0
  <2>2. nick' \in Nicks /\ sNick' \in Names
    BY <1>0, <1>1, SessionAssumption DEF Names
  <2>3. channels' \in Seq(Channels) /\ online' \subseteq UserNicks /\ sessions' \in Nat
    BY <1>0, <1>1 DEF SessionType
  <2> QED BY <1>1, <1>2, <2>1, <2>2, <2>3, <2>4 DEF SessionType
<1>5. NoNick \notin online /\ \A ch \in Channels : NoNick \notin present'[ch]
  BY <1>0, <1>2, SessionAssumption DEF SessionType
<1>6. ServerWhole'
  <2>1. \A ch \in Channels : present'[ch] \subseteq online' \cup {sNick'}
    BY <1>0, <1>1, <1>2 DEF ServerWhole
  <2>2. out'[1].kind = "NICK" /\ out'[1].nick = CfgNick /\ Len(out') > 1 /\ out'[2].kind = "USER"
    BY <1>1
  <2> QED BY <1>0, <1>1, <1>5, <2>1, <2>2 DEF ServerWhole
<1>7. LinesFollow'
  BY <1>3 DEF LinesFollow, NicksFollow, GensFollow, BurstsWhole
<1>8. NickKnown'
  <2>1. \E i \in 1..Len(out') :
           /\ out'[i].kind = "NICK" /\ out'[i].nick = nick'
           /\ \A j \in 1..Len(out') : out'[j].kind = "NICK" => j = i
    <3>1. 1 \in 1..2 /\ \A j \in 1..2 : j = 1 \/ j = 2
      OBVIOUS
    <3> QED BY <3>1, <1>1
  <2> QED BY <1>0, <1>3, <2>1 DEF NickKnown
<1>9. Mirrored'
  <2> SUFFICES ASSUME NEW ch \in Channels PROVE \E Q \in Histories' : Fits(Q, ch)'
    BY DEF Mirrored
  <2> PICK Q : Q = [i \in 1..(Len(pipe') + 1) |-> present'[ch]]
    OBVIOUS
  <2>1. Q \in Histories' /\ Q[Len(pipe') + 1] = present'[ch] /\ Q[1] = present'[ch]
    BY <1>2, <1>3 DEF Histories
  <2>2. ~IsIn(pipe', sNick', Q, 1)
    BY <1>0, <1>3, <1>5, <2>1 DEF IsIn, MeAt
  <2>3. Follows(pipe', sNick', Q, ch)
    BY <1>3 DEF Follows
  <2>4. ListsExact(pipe', sNick', Q, ch, pending'[ch], sessions')
    BY <1>3 DEF ListsExact
  <2> QED BY <1>1, <2>1, <2>2, <2>3, <2>4 DEF Fits
<1> QED BY <1>1, <1>4, <1>6, <1>7, <1>8, <1>9 DEF MirrorInv

LEMMA ResumeStep == ASSUME MirrorInv, Resume PROVE MirrorInv'
<1>0. /\ SessionType /\ ServerWhole /\ LinesFollow /\ Mirrored /\ NewSession
      /\ UNCHANGED <<gotUser, sNick, present>>
      /\ disputed' = (sNick # CfgNick
                      \/ \E i \in 1..Len(pipe') :
                            pipe'[i].me # CfgNick \/ pipe'[i].kind = "NICKINUSE")
  BY DEF MirrorInv, Resume
<1>1. /\ out' \in Seq(Asked) /\ Len(out') = 2 /\ out' # <<>>
      /\ out'[1].kind = "NICK" /\ out'[1].nick = CfgNick /\ out'[2].kind = "USER"
      /\ \A ch \in Channels : NotAsked(ch)'
      /\ NothingLeft' /\ PendingShort' /\ AnswersFresh'
      /\ nick' = CfgNick /\ ~welcomed' /\ welcomed' \in BOOLEAN
      /\ chans' = {} /\ answered' = {}
      /\ members' \in [Channels -> SUBSET Nicks] /\ pending' \in [Channels -> SUBSET Nicks]
      /\ sessions \in Nat /\ sessions' = sessions + 1
      /\ UNCHANGED <<online, channels>>
  BY <1>0, Afresh
<1> PICK p, q, z, g : p = pipe /\ q = pipe' /\ z = sNick /\ g = sessions
  OBVIOUS
<1>2. p \in Seq(Told) /\ Len(p) \in Nat /\ g \in Nat
  BY <1>0 DEF SessionType
<1>p. PICK d \in 0..Len(p) : q = SubSeq(p, d + 1, Len(p))
  BY DEF Resume
<1>3. q \in Seq(Told) /\ SuffixOf(q, p, d) /\ Len(q) = Len(p) - d /\ Len(q) \in Nat
  <2>1. /\ q \in Seq(Told) /\ Len(q) = Len(p) - d
        /\ \A i \in 1..Len(q) : q[i] = p[i + d]
    <3>1. /\ SubSeq(p, d + 1, Len(p)) \in Seq(Told)
          /\ Len(SubSeq(p, d + 1, Len(p))) = Len(p) - d
          /\ \A i \in 1..(Len(p) - d) : SubSeq(p, d + 1, Len(p))[i] = p[i + d]
      BY <1>2
    <3> QED BY <1>p, <3>1
  <2> QED BY <2>1, <1>2 DEF SuffixOf
<1>4. \A i \in 1..Len(p) : p[i].gen \in Nat
  BY <1>2 DEF Told
<1>5. NicksFollow(q, z) /\ GensFollow(q, g) /\ BurstsWhole(q)
  BY <1>0, <1>2, <1>3, <1>4, SuffixLines DEF LinesFollow
<1>6. \A i \in 1..Len(q) : q[i].gen \in Nat /\ q[i].gen <= g
  BY <1>3, <1>5 DEF GensFollow, Told
<1>7. LinesFollow'
  <2>1. GensFollow(q, g + 1)
    <3>1. \A i \in 1..Len(q) : q[i].gen <= g + 1
      BY <1>2, <1>6
    <3> QED BY <3>1, <1>5 DEF GensFollow
  <2> QED BY <1>0, <1>1, <1>5, <2>1 DEF LinesFollow
<1>8. SessionType'
  <2>1. disputed' \in BOOLEAN
    BY <1>0
  <2> QED BY <1>0, <1>1, <1>3, <2>1, SessionAssumption DEF SessionType
<1>9. ServerWhole'
  <2>1. out'[1].kind = "NICK" /\ out'[1].nick = CfgNick /\ Len(out') > 1 /\ out'[2].kind = "USER"
    BY <1>1
  <2> QED BY <1>0, <1>1, <2>1 DEF ServerWhole
<1>10. NickKnown'
  <2> SUFFICES ASSUME ~disputed' PROVE NickKnown'
    BY DEF NickKnown
  <2>1. /\ z = CfgNick
        /\ \A i \in 1..Len(q) : q[i].me = CfgNick /\ q[i].kind # "NICKINUSE"
    BY <1>0
  <2>2. CfgNick # NoNick
    BY SessionAssumption
  <2>3. MeAt(q, z, 1) = CfgNick
    <3>1. 1 <= Len(q) => 1 \in 1..Len(q)
      BY <1>3
    <3> QED BY <2>1, <3>1 DEF MeAt
  <2> QED BY <1>0, <1>1, <2>1, <2>2, <2>3 DEF NickKnown
<1>11. Mirrored'
  <2> SUFFICES ASSUME NEW ch \in Channels PROVE \E Q \in Histories' : Fits(Q, ch)'
    BY DEF Mirrored
  <2>1. PICK S \in Histories : Fits(S, ch)
    BY <1>0 DEF Mirrored
  <2> PICK Q : Q = [i \in 1..(Len(q) + 1) |-> S[i + d]]
    OBVIOUS
  <2>2. Q \in Histories'
    <3>1. ASSUME NEW i \in 1..(Len(q) + 1) PROVE S[i + d] \in SUBSET Nicks
      <4>1. i + d \in 1..(Len(p) + 1)
        BY <1>2, <1>3
      <4> QED BY <4>1, <2>1 DEF Histories
    <3> QED BY <3>1 DEF Histories
  <2>3. Shifted(Q, S, d, Len(q))
    BY DEF Shifted
  <2>4. Q[Len(q) + 1] = present[ch]
    <3>1. Len(q) + 1 \in 1..(Len(q) + 1) /\ (Len(q) + 1) + d = Len(p) + 1
      BY <1>2, <1>3
    <3>2. S[Len(p) + 1] = present[ch]
      BY <2>1 DEF Fits
    <3> QED BY <3>1, <3>2
  <2>5. Follows(q, z, Q, ch)
    BY <1>2, <1>3, <2>1, <2>3, SuffixFollows DEF Fits
  <2>6. \A i \in 1..Len(q) : q[i].gen # sessions'
    BY <1>1, <1>2, <1>6
  <2>7. /\ ListsExact(q, z, Q, ch, pending'[ch], sessions')
        /\ NoListFor(q, z, Q, ch, sessions')
    BY <2>6 DEF ListsExact, NoListFor
  <2> QED BY <1>0, <1>1, <2>2, <2>4, <2>5, <2>7 DEF Fits
<1> QED BY <1>1, <1>7, <1>8, <1>9, <1>10, <1>11 DEF MirrorInv

LEMMA MirrorInit == Init => MirrorInv
<1> SUFFICES ASSUME Init PROVE MirrorInv
  OBVIOUS
<1>0. /\ nick = CfgNick /\ welcomed = FALSE /\ chans = {} /\ members = Nobody
      /\ pending = Nobody /\ answered = {} /\ out = Registration /\ pipe = <<>>
      /\ sessions = 1 /\ disputed = FALSE /\ gotUser = FALSE /\ sNick = NoNick
      /\ online \in SUBSET UserNicks /\ present = [ch \in Channels |-> online]
      /\ channels = Seed
  BY DEF Init
<1>1. /\ Registration \in Seq(Asked) /\ Len(Registration) = 2 /\ Registration # <<>>
      /\ Registration[1].kind = "NICK" /\ Registration[1].nick = CfgNick
      /\ Registration[2].kind = "USER"
  BY RegistrationAsked DEF Registration, Cmd
<1>2. /\ members \in [Channels -> SUBSET Nicks] /\ pending \in [Channels -> SUBSET Nicks]
      /\ \A ch \in Channels : members[ch] = {} /\ pending[ch] = {}
  BY <1>0 DEF Nobody
<1>3. Len(pipe) = 0 /\ \A i \in 1..Len(pipe) : FALSE
  BY <1>0
<1>4. NoNick \notin online /\ online \subseteq Nicks
  BY <1>0, SessionAssumption
<1>5. SessionType
  <2>1. pipe \in Seq(Told) /\ present \in [Channels -> SUBSET Nicks] /\ sessions \in Nat
    BY <1>0, <1>4
  <2>2. nick \in Nicks /\ sNick \in Names /\ channels \in Seq(Channels)
    BY <1>0, SessionAssumption DEF Names
  <2>3. out \in Seq(Asked)
    BY <1>0, <1>1
  <2> QED BY <1>0, <1>2, <2>1, <2>2, <2>3 DEF SessionType
<1>6. ServerWhole
  BY <1>0, <1>1, <1>4 DEF ServerWhole
<1>7. LinesFollow
  BY <1>3 DEF LinesFollow, NicksFollow, GensFollow, BurstsWhole
<1>8. NickKnown
  <2>1. \E i \in 1..Len(out) : /\ out[i].kind = "NICK" /\ out[i].nick = nick
                               /\ \A j \in 1..Len(out) : out[j].kind = "NICK" => j = i
    <3>1. 1 \in 1..2 /\ \A j \in 1..2 : j = 1 \/ j = 2
      OBVIOUS
    <3> QED BY <3>1, <1>0, <1>1
  <2> QED BY <1>0, <1>3, <2>1 DEF NickKnown
<1>9. PendingShort /\ AnswersFresh /\ NothingLeft
  BY <1>0, <1>2 DEF PendingShort, AnswersFresh, NothingLeft
<1>10. Mirrored
  <2> SUFFICES ASSUME NEW ch \in Channels PROVE \E S \in Histories : Fits(S, ch)
    BY DEF Mirrored
  <2> PICK S : S = [i \in 1..(Len(pipe) + 1) |-> present[ch]]
    OBVIOUS
  <2>1. /\ S \in Histories /\ S[Len(pipe) + 1] = present[ch] /\ S[1] = present[ch]
    BY <1>3, <1>5 DEF Histories, SessionType
  <2>2. ~IsIn(pipe, sNick, S, 1)
    BY <1>0, <1>3, <1>4, <2>1 DEF IsIn, MeAt
  <2>3. Follows(pipe, sNick, S, ch)
    BY <1>3 DEF Follows
  <2>4. ListsExact(pipe, sNick, S, ch, pending[ch], sessions)
    BY <1>3 DEF ListsExact
  <2> QED BY <1>0, <2>1, <2>2, <2>3, <2>4 DEF Fits
<1> QED BY <1>5, <1>6, <1>7, <1>8, <1>9, <1>10 DEF MirrorInv

LEMMA MirrorStep == MirrorInv /\ [Next]_vars => MirrorInv'
<1> SUFFICES ASSUME MirrorInv, [Next]_vars PROVE MirrorInv'
  OBVIOUS
<1>1. CASE UNCHANGED vars
  <2>1. UNCHANGED <<nick, welcomed, chans, members, pending, answered, channels, out, pipe,
                    sessions, disputed, gotUser, sNick, online, present>>
    BY <1>1 DEF vars, sess, server, owner
  <2>2. SessionType' /\ ServerWhole' /\ NickKnown' /\ PendingShort' /\ LinesFollow'
    BY <2>1 DEF MirrorInv, SessionType, ServerWhole, NickKnown, PendingShort, LinesFollow
  <2>3. AnswersFresh' /\ NothingLeft'
    BY <2>1 DEF MirrorInv, AnswersFresh, NothingLeft
  <2>4. ASSUME NEW ch \in Channels, NEW S \in Histories, Fits(S, ch)
        PROVE  S \in Histories' /\ Fits(S, ch)'
    BY <2>1, <2>4 DEF Histories, Fits, NotAsked
  <2>5. Mirrored'
    BY <2>4 DEF MirrorInv, Mirrored
  <2> QED BY <2>2, <2>3, <2>5 DEF MirrorInv
<1>2. CASE ServerNick \/ ServerUser \/ ServerJoin \/ ServerNames \/ ServerPart
  BY <1>2, ServerNickStep, ServerUserStep, ServerJoinStep, ServerNamesStep, ServerPartStep
<1>3. CASE \E ch \in Channels : TopicChanges(ch) \/ OwnerJoins(ch) \/ OwnerParts(ch)
  BY <1>3, TopicChangesStep, OwnerJoinsStep, OwnerPartsStep
<1>4. CASE \E ch \in Channels, n \in UserNicks : UserJoins(n, ch)
  BY <1>4, UserJoinsStep
<1>5. CASE \E ch \in Channels, n \in UserNicks \cup {sNick} : Leaves(n, ch)
  BY <1>5, LeavesStep
<1>6. CASE \E n \in UserNicks : UserQuits(n) \/ \E m \in UserNicks : UserRenames(n, m)
  BY <1>6, UserQuitsStep, UserRenamesStep
<1>7. CASE \E m \in Nicks : ForcedRename(m)
  BY <1>7, ForcedRenameStep
<1>8. CASE OnJoin \/ OnPart \/ OnKick \/ OnQuit \/ OnNick \/ OnTopic
  BY <1>8, OnJoinStep, OnPartStep, OnKickStep, OnQuitStep, OnNickStep, OnTopicStep
<1>9. CASE OnNamReply \/ OnEndOfNames \/ OnNickInUse \/ OnWelcome
  BY <1>9, OnNamReplyStep, OnEndOfNamesStep, OnNickInUseStep, OnWelcomeStep
<1>10. CASE Reconnect \/ Resume
  BY <1>10, ReconnectStep, ResumeStep
<1> QED
  BY <1>1, <1>2, <1>3, <1>4, <1>5, <1>6, <1>7, <1>8, <1>9, <1>10 DEF Next

(* For any channels, nicks and users: whenever every line is handled the    *)
(* session agrees with the server on its nick, on the members of a channel *)
(* whose list is in, and on the channels it is in (internal/irc/session.go). *)
THEOREM MirrorsHold == Spec => []Mirrors
<1>1. Init => MirrorInv
  BY MirrorInit
<1>2. MirrorInv /\ [Next]_vars => MirrorInv'
  BY MirrorStep
<1>3. MirrorInv => Mirrors
  BY MirrorImplies
<1> QED BY <1>1, <1>2, <1>3, PTL DEF Spec

(***************************************************************************)
(* The run: the parts share no state, so each keeps its own specification. *)
(***************************************************************************)
LEMMA HostsParts == MCSpec => Spec /\ K!Spec /\ B!Spec /\ T!Spec
<1>1. MCInit => Init /\ K!Init /\ B!Init /\ T!Init
  BY DEF MCInit
<1>2. [MCNext]_<<vars, keeper, backoff, counters, running>> => [B!Step]_B!vars
  BY DEF MCNext, backoff, B!vars
<1>3. [MCNext]_<<vars, keeper, backoff, counters, running>> => [T!Next]_T!vars
  BY DEF MCNext, counters, T!vars
<1>4. [MCNext]_<<vars, keeper, backoff, counters, running>> => [K!Next]_K!vars
  BY DEF MCNext, keeper, K!vars, K!ircVars, K!servVars, K!sockVars
<1>5. [MCNext]_<<vars, keeper, backoff, counters, running>> => [Next]_vars
  BY DEF MCNext
<1> QED BY <1>1, <1>2, <1>3, <1>4, <1>5, PTL DEF MCSpec, Spec, K!Spec, B!Spec, T!Spec

(* For any number of connections and cores and any limits with room for    *)
(* what a core says, and the ladder of the code: LinkHolds of the run       *)
(* (internal/keeper and the backoff of internal/irc).                      *)
THEOREM RunLinkHolds ==
  ASSUME Ladder, Roomy
  PROVE  MCSpec => []LinkHolds
<1>1. K!OneStretch /\ K!NoLateLink /\ K!RegistrationArrives /\ B!NoHammering => LinkHolds
  BY DEF LinkHolds
<1> QED BY <1>1, HostsParts, StretchHolds, RegistrationHolds, BackoffNoHammering, PTL

(* For any rooms, people and intervals: totals stay those of the rooms and *)
(* kicks stay paired, in memory and in the store, and what a crash loses   *)
(* is bounded (modules karma, ego, lastseen and stats).                    *)
THEOREM RunCountsHold == MCSpec => []CountsHold
<1>1. T!CountsHold => CountsHold
  BY DEF CountsHold
<1> QED BY <1>1, HostsParts, CountersHold, PTL

(* For any channels, nicks and users, through collisions, renames, kicks,  *)
(* reconnects and resumed connections: Mirrors of the run                  *)
(* (internal/irc/session.go).                                              *)
THEOREM RunMirrors == MCSpec => []Mirrors
BY HostsParts, MirrorsHold, PTL
=============================================================================
