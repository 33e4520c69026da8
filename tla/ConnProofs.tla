----------------------------- MODULE ConnProofs -----------------------------
(***************************************************************************)
(* For any targets, lines and rates: the flood queue holds what was pushed *)
(* and has not left, in turn and fairly, and the end of the connection is  *)
(* reported once.                                                          *)
(***************************************************************************)
EXTENDS Conn, Integers, SequenceTheorems, TLAPS

(* Who was served since b joined waits behind b.                           *)
Turns ==
    \A i, j \in 1..Len(order) : order[j] \in passed[order[i]] => i <= j

(* EndReported is not inductive: c.done is closed by Close, which closes   *)
(* the socket, or by the reader before its one report.                     *)
EndInv ==
    /\ kicking \in BOOLEAN /\ wake \in BOOLEAN /\ done \in BOOLEAN
    /\ sock \in {"up", "dead", "closed"} /\ reader \in {"read", "report", "gone"}
    /\ reports = 0 \/ (reports = 1 /\ reader = "gone" /\ done)
    /\ done => sock = "closed" \/ (reports = 1 /\ sock # "up")
    /\ reader # "read" => sock # "up"
    /\ reader = "gone" => reports = 1 \/ sock = "closed"
    /\ writer = "gone" => sock # "up"

QueueInv == TypeOK /\ QueueExact /\ Turns

IInv == QueueInv /\ EndInv

(***************************************************************************)
(* The queue                                                               *)
(***************************************************************************)
LEMMA QueueInit == Init => QueueInv
<1> SUFFICES ASSUME Init PROVE QueueInv
  OBVIOUS
<1>1. TypeOK
  BY FloodAssumption, EmptySeq DEF Init, TypeOK
<1>2. QueueExact /\ Turns
  BY DEF Init, QueueExact, RotationExact, InSequence, Turns
<1> QED BY <1>1, <1>2 DEF QueueInv

LEMMA PushStep ==
  ASSUME QueueInv, NEW b \in Buckets, NEW e \in Extras, Push(b, e)
  PROVE  QueueInv'
<1> PICK p : p = pushed[b]
  OBVIOUS
<1> PICK x : x = NewLine(b, e)
  OBVIOUS
<1> PICK q : q = Append(queue[b], x)
  OBVIOUS
<1> PICK l : l = Len(order)
  OBVIOUS
<1>1. /\ p \in 0..MaxLines /\ p < MaxLines /\ b \in Queues /\ b # High /\ MaxLines \in Nat
      /\ queue[b] \in Seq(Lines) /\ x \in Lines /\ x.n = p + 1
      /\ order \in Seq(Buckets) /\ l \in Nat /\ Len(queue[b]) \in Nat
  <2>1. p \in 0..MaxLines /\ p < MaxLines /\ b \in Queues /\ queue[b] \in Seq(Lines) /\ order \in Seq(Buckets)
    BY DEF QueueInv, TypeOK, Push, Queues
  <2>2. b # High /\ MaxLines \in Nat
    BY FloodAssumption
  <2>3. x \in Lines /\ x.n = p + 1
    BY <2>1, <2>2 DEF NewLine, Lines
  <2> QED BY <2>1, <2>2, <2>3, LenProperties
<1>2. /\ pushed' = [pushed EXCEPT ![b] = p + 1] /\ queue' = [queue EXCEPT ![b] = q]
      /\ order' = IF queue[b] = <<>> THEN Append(order, b) ELSE order
      /\ passed' = IF queue[b] = <<>> THEN [passed EXCEPT ![b] = {}] ELSE passed
      /\ high' = high /\ window' = window
  BY DEF Push, Joined
<1>3. /\ q \in Seq(Lines) /\ q # <<>> /\ Len(q) = Len(queue[b]) + 1 /\ q[Len(queue[b]) + 1] = x
      /\ \A i \in 1..Len(queue[b]) : q[i] = queue[b][i]
  BY <1>1, AppendProperties
<1>4. /\ order' \in Seq(Buckets)
      /\ queue[b] # <<>> => order' = order
      /\ queue[b] = <<>> => /\ Len(order') = l + 1 /\ order'[l + 1] = b
                            /\ \A i \in 1..l : order'[i] = order[i]
  BY <1>1, <1>2, AppendProperties
<1>5. /\ pushed' \in [Queues -> 0..MaxLines] /\ pushed'[b] = p + 1 /\ pushed'[High] = pushed[High]
      /\ queue' \in [Buckets -> Seq(Lines)] /\ queue'[b] = q
      /\ \A c \in Buckets : c # b => queue'[c] = queue[c] /\ pushed'[c] = pushed[c]
      /\ passed' \in [Buckets -> SUBSET Buckets]
      /\ \A c \in Buckets : passed'[c] = passed[c] \/ (c = b /\ passed'[c] = {})
  BY <1>1, <1>2, <1>3 DEF QueueInv, TypeOK, Queues
<1>6. TypeOK'
  BY <1>2, <1>4, <1>5 DEF QueueInv, TypeOK
<1>7. RotationExact'
  <2>1. RotationExact
    BY DEF QueueInv, QueueExact
  <2>2. CASE queue[b] # <<>>
    <3>1. \A c \in Buckets : queue'[c] # <<>> <=> queue[c] # <<>>
      BY <2>2, <1>3, <1>5
    <3> QED BY <3>1, <2>1, <2>2, <1>4 DEF RotationExact
  <2>3. CASE queue[b] = <<>>
    <3>1. \A i \in 1..l : order[i] # b
      BY <2>1, <2>3 DEF RotationExact
    <3>2. \A i \in 1..(l + 1) : i \in 1..l \/ i = l + 1
      BY <1>1
    <3>3. l + 1 \in 1..(l + 1) /\ \A i \in 1..l : i \in 1..(l + 1)
      BY <1>1
    <3>4. \A i, j \in 1..(l + 1) : order'[i] = order'[j] => i = j
      BY <2>1, <2>3, <3>1, <3>2, <1>4 DEF RotationExact
    <3>5. \A c \in Buckets : queue'[c] # <<>> <=> \E i \in 1..(l + 1) : order'[i] = c
      <4> TAKE c \in Buckets
      <4>1. CASE c = b
        BY <4>1, <2>3, <3>3, <1>3, <1>4, <1>5
      <4>2. CASE c # b
        <5>1. queue'[c] # <<>> <=> \E i \in 1..l : order[i] = c
          BY <4>2, <2>1, <1>5 DEF RotationExact
        <5>2. (\E i \in 1..l : order[i] = c) <=> \E i \in 1..(l + 1) : order'[i] = c
          BY <4>2, <2>3, <3>2, <3>3, <1>4
        <5> QED BY <5>1, <5>2
      <4> QED BY <4>1, <4>2
    <3> QED BY <2>3, <3>4, <3>5, <1>4 DEF RotationExact
  <2> QED BY <2>2, <2>3
<1>8. InSequence'
  <2>1. InSequence
    BY DEF QueueInv, QueueExact
  <2>2. ASSUME NEW i \in 1..Len(q) PROVE q[i].n = (p + 1) - Len(q) + i
    <3>1. CASE i \in 1..Len(queue[b])
      BY <3>1, <2>1, <1>1, <1>3 DEF InSequence
    <3>2. CASE i = Len(queue[b]) + 1
      BY <3>2, <1>1, <1>3
    <3> QED BY <3>1, <3>2, <1>1, <1>3
  <2> QED BY <2>1, <2>2, <1>2, <1>5, SMTT(30) DEF InSequence
<1>9. Turns'
  <2>1. CASE queue[b] # <<>>
    BY <2>1, <1>2 DEF QueueInv, Turns, Joined
  <2>2. CASE queue[b] = <<>>
    <3>1. \A i \in 1..l : order[i] \in Buckets /\ order[i] # b
      BY <2>2, <1>1, ElementOfSeq DEF QueueInv, QueueExact, RotationExact
    <3>2. \A i \in 1..(l + 1) : i \in 1..l \/ i = l + 1
      BY <1>1
    <3>3. passed'[b] = {} /\ \A c \in Buckets : c # b => passed'[c] = passed[c]
      BY <2>2, <1>2 DEF QueueInv, TypeOK
    <3>4. ASSUME NEW i \in 1..(l + 1), NEW j \in 1..(l + 1), order'[j] \in passed'[order'[i]]
          PROVE  i <= j
      <4>1. CASE j \in 1..l
        BY <4>1, <2>2, <3>1, <3>2, <3>3, <3>4, <1>1, <1>4 DEF QueueInv, Turns
      <4>2. CASE j = l + 1
        BY <4>2, <1>1
      <4> QED BY <4>1, <4>2, <3>2
    <3> QED BY <2>2, <3>4, <1>4 DEF Turns
  <2> QED BY <2>1, <2>2
<1> QED BY <1>6, <1>7, <1>8, <1>9 DEF QueueInv, QueueExact

LEMMA PushHighStep ==
  ASSUME QueueInv, NEW e \in Extras, PushHigh(e)
  PROVE  QueueInv'
<1> PICK p : p = pushed[High]
  OBVIOUS
<1> PICK x : x = NewLine(High, e)
  OBVIOUS
<1>1. /\ p \in 0..MaxLines /\ p < MaxLines /\ High \in Queues /\ MaxLines \in Nat
      /\ high \in Seq(Lines) /\ Len(high) \in Nat /\ x \in Lines /\ x.n = p + 1
  <2>1. p \in 0..MaxLines /\ p < MaxLines /\ High \in Queues /\ high \in Seq(Lines)
    BY DEF QueueInv, TypeOK, PushHigh, Queues
  <2>2. MaxLines \in Nat
    BY FloodAssumption
  <2>3. x \in Lines /\ x.n = p + 1
    BY <2>1, <2>2 DEF NewLine, Lines
  <2> QED BY <2>1, <2>2, <2>3, LenProperties
<1>2. /\ pushed' = [pushed EXCEPT ![High] = p + 1] /\ high' = Append(high, x)
      /\ queue' = queue /\ order' = order /\ window' = window /\ passed' = passed
  BY DEF PushHigh
<1>3. /\ high' \in Seq(Lines) /\ Len(high') = Len(high) + 1 /\ high'[Len(high) + 1] = x
      /\ \A i \in 1..Len(high) : high'[i] = high[i]
  BY <1>1, <1>2, AppendProperties
<1>4. /\ pushed' \in [Queues -> 0..MaxLines] /\ pushed'[High] = p + 1
      /\ \A c \in Buckets : pushed'[c] = pushed[c]
  BY <1>1, <1>2, FloodAssumption DEF QueueInv, TypeOK, Queues
<1>5. TypeOK'
  BY <1>2, <1>3, <1>4 DEF QueueInv, TypeOK
<1>6. InSequence'
  <2>1. InSequence
    BY DEF QueueInv, QueueExact
  <2>2. ASSUME NEW i \in 1..Len(high') PROVE high'[i].n = (p + 1) - Len(high') + i
    <3>1. CASE i \in 1..Len(high)
      BY <3>1, <2>1, <1>1, <1>3 DEF InSequence
    <3>2. CASE i = Len(high) + 1
      BY <3>2, <1>1, <1>3
    <3> QED BY <3>1, <3>2, <1>1, <1>3
  <2> QED BY <2>1, <2>2, <1>2, <1>4 DEF InSequence
<1> QED BY <1>2, <1>5, <1>6 DEF QueueInv, QueueExact, RotationExact, Turns

(* The window stays one of ages.                                           *)
LEMMA SpentTyped ==
  ASSUME TypeOK, NEW x \in Lines
  PROVE  Spent(x) \in Seq(0..MaxAge)
<1>1. 0 \in 0..MaxAge /\ 1 + x.extra \in Nat
  <2>1. x.extra \in Extras
    BY DEF Lines
  <2>2. MaxAge \in Nat /\ Extras \subseteq Nat
    BY FloodAssumption
  <2>3. x.extra \in Nat
    BY <2>1, <2>2
  <2> QED BY <2>2, <2>3
<1>2. [i \in 1..(1 + x.extra) |-> 0] \in Seq(0..MaxAge)
  <2>1. [i \in 1..(1 + x.extra) |-> 0] \in [1..(1 + x.extra) -> 0..MaxAge]
    BY <1>1
  <2> QED BY <2>1, <1>1, SeqDef, ZenonT(30)
<1>3. (IF window = <<>> THEN <<>> ELSE Tail(window)) \in Seq(0..MaxAge)
  BY HeadTailProperties, EmptySeq DEF TypeOK
<1> QED BY <1>2, <1>3, ConcatProperties DEF Spent

LEMMA PopHighStep ==
  ASSUME QueueInv, PopHigh
  PROVE  QueueInv'
<1>1. /\ high \in Seq(Lines) /\ high # <<>> /\ high' = Tail(high)
      /\ queue' = queue /\ order' = order /\ pushed' = pushed /\ passed' = passed
      /\ pushed[High] \in Nat
  BY FloodAssumption DEF PopHigh, QueueInv, TypeOK, Queues
<1>2. /\ Head(high) \in Lines /\ high' \in Seq(Lines) /\ Len(high) \in Nat \ {0}
      /\ Len(high') = Len(high) - 1 /\ \A i \in 1..Len(high') : high'[i] = high[i + 1]
  BY <1>1, HeadTailProperties
<1>3. window' \in Seq(0..MaxAge)
  BY <1>2, SpentTyped DEF PopHigh, QueueInv
<1>4. TypeOK'
  BY <1>1, <1>2, <1>3 DEF QueueInv, TypeOK
<1>5. ASSUME NEW i \in 1..Len(high') PROVE high'[i].n = pushed[High] - Len(high') + i
  <2>1. i + 1 \in 1..Len(high)
    BY <1>2
  <2>2. high[i + 1].n = pushed[High] - Len(high) + (i + 1)
    BY <2>1 DEF QueueInv, QueueExact, InSequence
  <2> QED BY <2>2, <1>1, <1>2
<1>6. InSequence'
  BY <1>1, <1>5 DEF QueueInv, QueueExact, InSequence
<1> QED BY <1>1, <1>4, <1>6 DEF QueueInv, QueueExact, RotationExact, Turns

(* What a served bucket leaves behind.                                     *)
LEMMA ServedFacts ==
  ASSUME QueueInv, order # <<>>, PopRoundRobin
  PROVE  \E b \in Buckets :
           /\ b = order[1] /\ 1 \in 1..Len(order) /\ Len(order) \in Nat \ {0}
           /\ queue[b] \in Seq(Lines) /\ Head(queue[b]) \in Lines /\ Len(queue[b]) \in Nat \ {0}
           /\ queue'[b] \in Seq(Lines) /\ Len(queue'[b]) = Len(queue[b]) - 1
           /\ \A i \in 1..Len(queue'[b]) : queue'[b][i] = queue[b][i + 1]
           /\ queue' \in [Buckets -> Seq(Lines)]
           /\ \A c \in Buckets : c # b => queue'[c] = queue[c]
           /\ order' \in Seq(Buckets)
           /\ \A i \in 1..(Len(order) - 1) : order'[i] = order[i + 1]
           /\ IF Len(queue[b]) > 1
              THEN Len(order') = Len(order) /\ order'[Len(order)] = b
              ELSE Len(order') = Len(order) - 1
           /\ passed' = [c \in Buckets |-> IF c = b THEN {} ELSE passed[c] \cup {b}]
           /\ window' = Spent(Head(queue[b])) /\ high' = high /\ pushed' = pushed
<1> PICK b : b = order[1]
  OBVIOUS
<1> PICK t : t = Tail(order)
  OBVIOUS
<1>1. /\ order \in Seq(Buckets) /\ queue \in [Buckets -> Seq(Lines)]
      /\ queue' = [queue EXCEPT ![b] = Tail(queue[b])]
      /\ order' = IF Len(queue[b]) > 1 THEN Append(t, b) ELSE t
      /\ passed' = [c \in Buckets |-> IF c = b THEN {} ELSE passed[c] \cup {b}]
      /\ window' = Spent(Head(queue[b])) /\ high' = high /\ pushed' = pushed
  BY DEF PopRoundRobin, Rotated, Rest, QueueInv, TypeOK
<1>2. /\ Len(order) \in Nat \ {0} /\ Head(order) = order[1] /\ Head(order) \in Buckets
      /\ t \in Seq(Buckets) /\ Len(t) = Len(order) - 1
      /\ \A i \in 1..Len(t) : t[i] = order[i + 1]
  BY <1>1, HeadTailProperties
<1>3. b \in Buckets /\ 1 \in 1..Len(order)
  BY <1>2
<1>4. queue[b] # <<>> /\ queue[b] \in Seq(Lines)
  BY <1>1, <1>3 DEF QueueInv, QueueExact, RotationExact
<1>5. /\ Head(queue[b]) \in Lines /\ Tail(queue[b]) \in Seq(Lines) /\ Len(queue[b]) \in Nat \ {0}
      /\ Len(Tail(queue[b])) = Len(queue[b]) - 1
      /\ \A i \in 1..Len(Tail(queue[b])) : Tail(queue[b])[i] = queue[b][i + 1]
  BY <1>4, HeadTailProperties
<1>6. /\ queue'[b] = Tail(queue[b]) /\ queue' \in [Buckets -> Seq(Lines)]
      /\ \A c \in Buckets : c # b => queue'[c] = queue[c]
  BY <1>1, <1>3, <1>5
<1>7. /\ Append(t, b) \in Seq(Buckets) /\ Len(Append(t, b)) = Len(t) + 1
      /\ Append(t, b)[Len(t) + 1] = b /\ \A i \in 1..Len(t) : Append(t, b)[i] = t[i]
  BY <1>2, <1>3, AppendProperties
<1>8. /\ order' \in Seq(Buckets) /\ \A i \in 1..(Len(order) - 1) : order'[i] = order[i + 1]
      /\ Len(queue[b]) > 1 => Len(order') = Len(order) /\ order'[Len(order)] = b
      /\ ~(Len(queue[b]) > 1) => Len(order') = Len(order) - 1
  <2>1. CASE Len(queue[b]) > 1
    <3>1. order' = Append(t, b)
      BY <2>1, <1>1
    <3>2. Len(t) + 1 = Len(order) /\ \A i \in 1..(Len(order) - 1) : i \in 1..Len(t)
      BY <1>2
    <3>3. \A i \in 1..(Len(order) - 1) : Append(t, b)[i] = order[i + 1]
      BY <3>2, <1>2, <1>7
    <3>4. Append(t, b)[Len(order)] = b /\ Len(Append(t, b)) = Len(order)
      BY <3>2, <1>7
    <3> QED BY <2>1, <3>1, <3>3, <3>4, <1>7
  <2>2. CASE ~(Len(queue[b]) > 1)
    <3>1. order' = t
      BY <2>2, <1>1
    <3> QED BY <2>2, <3>1, <1>2
  <2> QED BY <2>1, <2>2
<1> QED BY <1>1, <1>2, <1>3, <1>4, <1>5, <1>6, <1>8

LEMMA Shift ==
  \A m, k, i \in Int : m - k + (i + 1) = m - (k - 1) + i
OBVIOUS

LEMMA PopRoundRobinStep ==
  ASSUME QueueInv, order # <<>>, PopRoundRobin
  PROVE  /\ QueueInv'
         /\ \A b, c \in Buckets :
               queue[b] # <<>> /\ c \in passed[b] /\ b # c => Len(queue'[c]) >= Len(queue[c])
<1> PICK b \in Buckets :
      /\ b = order[1] /\ 1 \in 1..Len(order) /\ Len(order) \in Nat \ {0}
      /\ queue[b] \in Seq(Lines) /\ Head(queue[b]) \in Lines /\ Len(queue[b]) \in Nat \ {0}
      /\ queue'[b] \in Seq(Lines) /\ Len(queue'[b]) = Len(queue[b]) - 1
      /\ \A i \in 1..Len(queue'[b]) : queue'[b][i] = queue[b][i + 1]
      /\ queue' \in [Buckets -> Seq(Lines)]
      /\ \A c \in Buckets : c # b => queue'[c] = queue[c]
      /\ order' \in Seq(Buckets)
      /\ \A i \in 1..(Len(order) - 1) : order'[i] = order[i + 1]
      /\ IF Len(queue[b]) > 1
         THEN Len(order') = Len(order) /\ order'[Len(order)] = b
         ELSE Len(order') = Len(order) - 1
      /\ passed' = [c \in Buckets |-> IF c = b THEN {} ELSE passed[c] \cup {b}]
      /\ window' = Spent(Head(queue[b])) /\ high' = high /\ pushed' = pushed
  BY ServedFacts
<1> PICK l : l = Len(order)
  OBVIOUS
<1>1. /\ queue \in [Buckets -> Seq(Lines)] /\ order \in Seq(Buckets) /\ pushed[b] \in Nat
      /\ passed \in [Buckets -> SUBSET Buckets] /\ RotationExact /\ InSequence /\ Turns
  BY DEF QueueInv, TypeOK, QueueExact, Queues
<1>2. TypeOK'
  <2>1. window' \in Seq(0..MaxAge)
    BY SpentTyped DEF QueueInv
  <2>2. passed' \in [Buckets -> SUBSET Buckets]
    BY <1>1
  <2> QED BY <2>1, <2>2 DEF QueueInv, TypeOK
<1>3. /\ \A i, j \in 1..l : order[i] = order[j] => i = j
      /\ \A c \in Buckets : queue[c] # <<>> <=> \E i \in 1..l : order[i] = c
  BY <1>1 DEF RotationExact
<1>4. \A i \in 1..Len(order') :
         \/ i \in 1..(l - 1) /\ i + 1 \in 1..l /\ order'[i] = order[i + 1] /\ order'[i] # b
         \/ i = l /\ order'[i] = b /\ Len(queue[b]) > 1
  <2> TAKE i \in 1..Len(order')
  <2>1. i \in 1..(l - 1) \/ (i = l /\ Len(queue[b]) > 1)
    OBVIOUS
  <2>2. CASE i \in 1..(l - 1)
    <3>1. i + 1 \in 1..l /\ i + 1 # 1 /\ order'[i] = order[i + 1]
      BY <2>2
    <3> QED BY <2>2, <3>1, <1>3
  <2> QED BY <2>1, <2>2
<1>5. RotationExact'
  <2>1. ASSUME NEW i \in 1..Len(order'), NEW j \in 1..Len(order'), order'[i] = order'[j]
        PROVE  i = j
    BY <2>1, <1>3, <1>4
  <2>2. ASSUME NEW c \in Buckets
        PROVE  queue'[c] # <<>> <=> \E i \in 1..Len(order') : order'[i] = c
    <3>1. CASE c = b
      <4>1. queue'[b] # <<>> <=> Len(queue[b]) > 1
        BY EmptySeq
      <4>2. CASE Len(queue[b]) > 1
        BY <3>1, <4>1, <4>2
      <4>3. CASE ~(Len(queue[b]) > 1)
        BY <3>1, <4>1, <4>3, <1>4
      <4> QED BY <4>2, <4>3
    <3>2. CASE c # b
      <4>1. queue'[c] # <<>> <=> \E i \in 1..l : order[i] = c
        BY <3>2, <1>3
      <4>2. ASSUME NEW i \in 1..l, order[i] = c PROVE \E k \in 1..Len(order') : order'[k] = c
        <5>1. i - 1 \in 1..(l - 1) /\ (i - 1) + 1 = i
          BY <3>2, <4>2
        <5>2. i - 1 \in 1..Len(order') /\ order'[i - 1] = c
          BY <4>2, <5>1
        <5> QED BY <5>2
      <4>3. ASSUME NEW i \in 1..Len(order'), order'[i] = c PROVE \E k \in 1..l : order[k] = c
        BY <3>2, <4>3, <1>4
      <4> QED BY <4>1, <4>2, <4>3
    <3> QED BY <3>1, <3>2
  <2> QED BY <2>1, <2>2 DEF RotationExact
<1>6. InSequence'
  <2>1. ASSUME NEW i \in 1..Len(queue'[b])
        PROVE  queue'[b][i].n = pushed[b] - Len(queue'[b]) + i
    <3>1. i + 1 \in 1..Len(queue[b])
      OBVIOUS
    <3>2. queue[b][i + 1].n = pushed[b] - Len(queue[b]) + (i + 1)
      BY <3>1, <1>1 DEF InSequence
    <3>3. queue'[b][i] = queue[b][i + 1] /\ Len(queue'[b]) = Len(queue[b]) - 1
      OBVIOUS
    <3>4. pushed[b] \in Int /\ Len(queue[b]) \in Int /\ i \in Int
      BY <1>1
    <3>5. pushed[b] - Len(queue[b]) + (i + 1) = pushed[b] - (Len(queue[b]) - 1) + i
      BY <3>4, Shift, ZenonT(30)
    <3> QED BY <3>2, <3>3, <3>5, Zenon
  <2>2. \A c \in Buckets : c # b => queue'[c] = queue[c]
    OBVIOUS
  <2>3. \A c \in Buckets : \A i \in 1..Len(queue'[c]) : queue'[c][i].n = pushed[c] - Len(queue'[c]) + i
    <3> TAKE c \in Buckets
    <3>1. CASE c = b
      BY <3>1, <2>1
    <3>2. CASE c # b
      <4>1. queue'[c] = queue[c]
        BY <3>2, <2>2
      <4> QED BY <4>1, <1>1 DEF InSequence
    <3> QED BY <3>1, <3>2
  <2>4. pushed' = pushed /\ high' = high
    OBVIOUS
  <2>5. \A i \in 1..Len(high) : high[i].n = pushed[High] - Len(high) + i
    BY <1>1 DEF InSequence
  <2> QED BY <2>3, <2>4, <2>5 DEF InSequence
<1>7. Turns'
  <2>1. ASSUME NEW i \in 1..Len(order'), NEW j \in 1..Len(order'), order'[j] \in passed'[order'[i]]
        PROVE  i <= j
    <3>1. order'[i] \in Buckets
      BY ElementOfSeq
    <3>2. order'[i] # b
      BY <2>1, <3>1
    <3>3. i + 1 \in 1..l /\ order'[i] = order[i + 1] /\ i <= l
      BY <3>2, <1>4
    <3>4. CASE j = l
      BY <3>3, <3>4
    <3>5. CASE j + 1 \in 1..l /\ order'[j] = order[j + 1] /\ order'[j] # b
      <4>1. order[j + 1] \in passed[order[i + 1]]
        BY <2>1, <3>1, <3>2, <3>3, <3>5
      <4>2. i + 1 <= j + 1
        BY <4>1, <3>3, <3>5, <1>1 DEF Turns
      <4> QED BY <4>2
    <3> QED BY <3>4, <3>5, <1>4
  <2> QED BY <2>1 DEF Turns
<1>8. ASSUME NEW d \in Buckets, NEW c \in Buckets, queue[d] # <<>>, c \in passed[d], d # c
      PROVE  Len(queue'[c]) >= Len(queue[c])
  <2>1. c # b
    <3>1. PICK i \in 1..l : order[i] = d
      BY <1>3, <1>8
    <3>2. i = 1 => d = b
      BY <3>1
    <3>3. c = b => i <= 1
      BY <3>1, <1>1, <1>8 DEF Turns
    <3> QED BY <3>2, <3>3, <1>8
  <2>2. queue'[c] = queue[c] /\ queue[c] \in Seq(Lines)
    BY <2>1, <1>1
  <2> QED BY <2>2, LenProperties
<1> QED BY <1>2, <1>5, <1>6, <1>7, <1>8 DEF QueueInv, QueueExact

LEMMA TickStep ==
  ASSUME QueueInv, Tick
  PROVE  QueueInv'
<1>1. /\ window \in Seq(0..MaxAge) /\ MaxAge \in Nat /\ Len(window) \in Nat
      /\ \A i \in 1..Len(window) : window[i] \in 0..MaxAge
  BY FloodAssumption, LenProperties, ElementOfSeq DEF QueueInv, TypeOK
<1>2. window' \in [1..Len(window) -> 0..MaxAge]
  BY <1>1 DEF Tick
<1>3. window' \in Seq(0..MaxAge)
  BY <1>1, <1>2, SeqDef
<1> QED BY <1>3 DEF Tick, QueueInv, TypeOK, QueueExact, RotationExact, InSequence, Turns

(* A step of the queue.                                                    *)
LEMMA QueueStep ==
  ASSUME QueueInv,
         \/ \E e \in Extras : PushHigh(e) \/ \E b \in Buckets : Push(b, e)
         \/ NextSends \/ Tick \/ UNCHANGED floodVars
  PROVE  /\ QueueInv'
         /\ \A b, c \in Buckets :
              queue[b] # <<>> /\ c \in passed[b] /\ b # c
                => Len(queue'[c]) >= Len(queue[c]) \/ queue'[b] # queue[b]
<1> DEFINE Fair == \A b, c \in Buckets :
              queue[b] # <<>> /\ c \in passed[b] /\ b # c
                => Len(queue'[c]) >= Len(queue[c]) \/ queue'[b] # queue[b]
<1>1. \A c \in Buckets : queue[c] \in Seq(Lines) /\ Len(queue[c]) \in Nat
  BY LenProperties DEF QueueInv, TypeOK
<1>2. queue' = queue => Fair
  BY <1>1
<1>3. ASSUME NEW b \in Buckets, NEW e \in Extras, Push(b, e) PROVE QueueInv' /\ Fair
  <2>1. \A c \in Buckets : Len(queue'[c]) >= Len(queue[c])
    <3> TAKE c \in Buckets
    <3>1. CASE c # b
      <4>1. queue'[c] = queue[c]
        BY <3>1, <1>3 DEF Push, QueueInv, TypeOK
      <4> QED BY <4>1, <1>1
    <3>2. CASE c = b
      <4>1. queue'[c] = Append(queue[c], NewLine(b, e))
        BY <3>2, <1>3 DEF Push, QueueInv, TypeOK
      <4>2. NewLine(b, e) \in Lines
        BY <1>3, FloodAssumption DEF NewLine, Lines, Push, QueueInv, TypeOK, Queues
      <4> QED BY <4>1, <4>2, <1>1, AppendProperties
    <3> QED BY <3>1, <3>2
  <2> QED BY <2>1, <1>3, PushStep
<1>4. ASSUME NEW e \in Extras, PushHigh(e) PROVE QueueInv' /\ Fair
  BY <1>2, <1>4, PushHighStep DEF PushHigh
<1>5. CASE NextSends
  <2>1. CASE PopHigh
    BY <2>1, <1>2, PopHighStep DEF PopHigh
  <2>2. CASE PopRoundRobin
    <3>1. order # <<>>
      BY <2>2, <1>5 DEF NextSends, Empty, PopRoundRobin
    <3> QED BY <2>2, <3>1, PopRoundRobinStep
  <2> QED BY <2>1, <2>2, <1>5 DEF NextSends
<1>6. CASE Tick
  BY <1>2, <1>6, TickStep DEF Tick
<1>7. CASE UNCHANGED floodVars
  <2>1. QueueInv'
    BY <1>7 DEF floodVars, QueueInv, TypeOK, QueueExact, RotationExact, InSequence, Turns
  <2> QED BY <2>1, <1>2, <1>7 DEF floodVars
<1> QED BY <1>3, <1>4, <1>5, <1>6, <1>7

(***************************************************************************)
(* The connection                                                          *)
(***************************************************************************)
LEMMA ConnQueueStep ==
  ASSUME [Next]_vars
  PROVE  \/ \E e \in Extras : PushHigh(e) \/ \E b \in Buckets : Push(b, e)
         \/ NextSends \/ Tick \/ UNCHANGED floodVars
BY DEF Next, vars, Write, WriteHigh, Kick, Close, AskSends, AskWaits, AskEmpty, Park, SockWrite,
       SleepOver, Woken, WriterStops, SockDies, ReadError, Report, TimePasses

LEMMA EndStep ==
  ASSUME EndInv, [Next]_vars
  PROVE  EndInv'
<1>1. CASE Close
  BY <1>1 DEF Close, EndInv
<1>2. CASE ReadError \/ Report
  <2>1. CASE ReadError
    BY <2>1 DEF ReadError, EndInv
  <2>2. CASE Report
    BY <2>2 DEF Report, EndInv
  <2> QED BY <2>1, <2>2, <1>2
<1>3. CASE SockWrite \/ WriterStops
  BY <1>3 DEF SockWrite, WriterStops, Stoppable, EndInv
<1>4. CASE SockDies
  BY <1>4 DEF SockDies, EndInv
<1>5. CASE /\ UNCHANGED <<done, sock, reader, reports>> /\ kicking' \in BOOLEAN /\ wake' \in BOOLEAN
           /\ writer' # "gone" \/ writer' = writer
  BY <1>5 DEF EndInv
<1>6. CASE UNCHANGED vars
  BY <1>6 DEF vars, connVars, EndInv
<1>7. CASE \/ \E e \in Extras : WriteHigh(e) \/ \E b \in Buckets : Write(b, e)
           \/ Kick \/ AskSends \/ AskWaits \/ AskEmpty \/ Park \/ SleepOver \/ Woken \/ TimePasses
  <2>1. /\ UNCHANGED <<done, sock, reader, reports>> /\ kicking' \in BOOLEAN /\ wake' \in BOOLEAN
        /\ writer' # "gone" \/ writer' = writer
    BY <1>7 DEF EndInv, Write, WriteHigh, Kick, Token, AskSends, AskWaits, AskEmpty, Park, SleepOver,
                Woken, TimePasses
  <2> QED BY <2>1, <1>5
<1> QED BY <1>1, <1>2, <1>3, <1>4, <1>6, <1>7 DEF Next

LEMMA ConnInductive == ConnSpec => []IInv
<1>1. ConnInit => IInv
  BY QueueInit DEF ConnInit, IInv, EndInv
<1>2. IInv /\ [Next]_vars => IInv'
  BY ConnQueueStep, QueueStep, EndStep DEF IInv
<1> QED BY <1>1, <1>2, PTL DEF ConnSpec

(* What was pushed and has not left is in the queue, in turn, its buckets  *)
(* in the rotation once each; the writer leaves only a dead connection and *)
(* its end is reported once unless it was asked for (flood.go, conn.go).   *)
THEOREM ConnAllExact == ConnSpec => []ConnExact
<1>1. IInv => ConnExact
  BY DEF IInv, QueueInv, EndInv, ConnExact, EndReported
<1> QED BY <1>1, ConnInductive, PTL

(* No bucket is served twice while another one waits (popRoundRobin).      *)
THEOREM ConnNoOvertaking == ConnSpec => NoOvertaking
<1>1. IInv /\ [Next]_vars =>
        [\A b, c \in Buckets :
           queue[b] # <<>> /\ c \in passed[b] /\ b # c
             => Len(queue'[c]) >= Len(queue[c]) \/ queue'[b] # queue[b]]_floodVars
  BY ConnQueueStep, QueueStep DEF IInv
<1> QED BY <1>1, ConnInductive, PTL DEF ConnSpec, NoOvertaking
=============================================================================
