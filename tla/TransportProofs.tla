-------------------------- MODULE TransportProofs --------------------------
(***************************************************************************)
(* For any channels, caps and autojoin list: the bot hangs by one thread,  *)
(* no line is stale and no message out of turn, every channel of the list  *)
(* is joined and known when all is answered, and no reply is swallowed.    *)
(***************************************************************************)
EXTENDS Transport, Lemmas, TLAPS

Targets == Channels \cup {NoChannel}
WorkLine == [conn : Conns, kind : {"welcome", "join", "part", "msg", "gone"},
             ch : Targets, n : Nat]
Command == [kind : {"USER", "JOIN", "PART"}, ch : Targets]

TypeInv ==
    /\ phase \in {"start", "run", "stopped"}
    /\ dialed \in 0..MaxConns /\ cur \in 0..dialed /\ reader \in 0..dialed /\ timers \in Nat
    /\ work \in Seq(WorkLine) /\ out \in Seq(Command)
    /\ welcomed \in [Conns -> BOOLEAN] /\ held \in [Conns -> Seq(WorkLine)]
    /\ tracked \in [Conns -> SUBSET Targets] /\ channels \in Seq(Channels)
    /\ registered \in {"no", "pending", "yes"} /\ in \subseteq Targets
    /\ received \in Nat /\ dispatched \in Seq(WorkLine)

Running == phase = "run"

(* OneLifeline is not inductive: the report of the end must be the last    *)
(* line there is, or the next connection would start with lines before it, *)
(* and a session that was not dialed yet must be as new.                   *)
Lifeline ==
    /\ Running =>
        \/ /\ reader # 0 /\ reader = cur /\ timers = 0
           /\ \A i \in 1..Len(work) : work[i].kind # "gone"
        \/ /\ reader = 0 /\ cur # 0 /\ timers = 0 /\ work # <<>>
           /\ \A i \in 1..Len(work) : work[i].kind = "gone" <=> i = Len(work)
        \/ reader = 0 /\ cur = 0 /\ timers = 1 /\ work = <<>>
    /\ phase = "start" => work = <<>> /\ cur = 0 /\ reader = 0 /\ timers = 0
    /\ phase = "stopped" => reader = 0
    /\ \A g \in Conns : g > dialed => ~welcomed[g] /\ held[g] = <<>>

(* The numbers grow along what was dispatched, what is held and what is in *)
(* the work channel.                                                       *)
Grow(s) == \A i, j \in 1..Len(s) : i < j => s[i].n < s[j].n
Under(s, n) == \A i \in 1..Len(s) : s[i].n < n
WorkGrows ==
    \A i \in 1..Len(work) : work[i].kind = "msg" =>
        /\ work[i].n <= received /\ Under(dispatched, work[i].n) /\ Under(held[cur], work[i].n)
        /\ \A j \in 1..Len(work) : j < i /\ work[j].kind = "msg" => work[j].n < work[i].n
Numbers ==
    /\ Grow(dispatched) /\ Under(dispatched, received + 1)
    /\ \A g \in Conns : welcomed[g] => held[g] = <<>>
    /\ Running /\ cur # 0 =>
        /\ Grow(held[cur]) /\ Under(held[cur], received + 1)
        /\ \A i \in 1..Len(held[cur]) : Under(dispatched, held[cur][i].n)
        /\ WorkGrows

(* The bot's comings and goings in the work channel: i is the last of a    *)
(* channel before k, or there is none.                                     *)
Moves(i, ch) == work[i].kind \in {"join", "part"} /\ work[i].ch = ch
NoneBefore(k, ch) == \A i \in 1..Len(work) : i < k => ~Moves(i, ch)
LastBefore(i, k, ch) ==
    /\ i < k /\ Moves(i, ch)
    /\ \A j \in 1..Len(work) : i < j /\ j < k => ~Moves(j, ch)
Joined(i) == work[i].kind = "join"

(* The last of them tells where the server has the bot, and a message comes *)
(* from a channel it is in.                                                *)
Follows ==
    \A ch \in Targets, i \in 1..Len(work) :
        /\ LastBefore(i, Len(work) + 1, ch) => (Joined(i) <=> ch \in in)
        /\ \A k \in 1..Len(work) :
              work[k].kind = "msg" /\ work[k].ch = ch /\ LastBefore(i, k, ch) => Joined(i)

(* Once welcomed: what no line is going to change is tracked as it is, and *)
(* the last command for a channel of the list has it joined.               *)
Known ==
    \A ch \in Range(channels) :
        /\ ch \in in /\ NoneBefore(Len(work) + 1, ch) => ch \in tracked[cur]
        /\ \A k \in 1..Len(work) :
              work[k].kind = "msg" /\ work[k].ch = ch /\ NoneBefore(k, ch) => ch \in tracked[cur]
NoPart(from, ch) == \A j \in 1..Len(out) : from < j => out[j] # Cmd("PART", ch)
Wanted(ch) ==
    \/ ch \in in /\ NoPart(0, ch)
    \/ \E i \in 1..Len(out) : out[i] = Cmd("JOIN", ch) /\ NoPart(i, ch)

Served ==
    Running /\ cur # 0 =>
        /\ welcomed[cur] \/ (\E i \in 1..Len(work) : work[i].kind = "welcome")
             => registered = "yes"
        /\ Follows
        /\ welcomed[cur] => Known /\ \A ch \in Range(channels) : Wanted(ch)

IInv == TypeInv /\ Lifeline /\ NoStaleLine /\ Numbers /\ Served

(***************************************************************************)
(* The work channel                                                        *)
(***************************************************************************)
LEMMA ListType == ASSUME IInv PROVE Range(channels) \subseteq Channels
<1>1. channels \in Seq(Channels)
  BY DEF IInv, TypeInv
<1> QED BY <1>1 DEF Range

LEMMA LineNumber ==
  ASSUME NEW s \in Seq(WorkLine), NEW i \in 1..Len(s)
  PROVE  s[i].n \in Nat
<1>1. s[i] \in WorkLine
  BY ElementOfSeq
<1> QED BY <1>1 DEF WorkLine

(* A line goes in behind the others (Post).                                *)
LEMMA PostFacts ==
  ASSUME IInv, NEW k, NEW ch, NEW n, Post(k, ch, n), Line(reader, k, ch, n) \in WorkLine
  PROVE  /\ work' \in Seq(WorkLine) /\ Len(work) \in Nat /\ Len(work') = Len(work) + 1
         /\ \A i \in 1..Len(work) : work'[i] = work[i]
         /\ work'[Len(work) + 1] = Line(reader, k, ch, n)
         /\ Running /\ reader # 0 /\ reader = cur /\ cur \in Conns /\ timers = 0
<1>1. work \in Seq(WorkLine) /\ work' = Append(work, Line(reader, k, ch, n)) /\ reader # 0
  BY DEF Post, IInv, TypeInv
<1>2. Running /\ reader = cur /\ timers = 0
  BY <1>1 DEF IInv, Lifeline, TypeInv, Running
<1>3. cur \in Conns
  BY <1>1, <1>2, TransportAssumption DEF IInv, TypeInv, Conns
<1> QED BY <1>1, <1>2, <1>3, AppendProperties, LenProperties

(* The first line comes out (Takes).                                       *)
LEMMA TakeFacts ==
  ASSUME IInv, NEW k, Takes(k)
  PROVE  /\ Running /\ cur # 0 /\ cur \in Conns
         /\ Head(work) = work[1] /\ work[1] \in WorkLine /\ work[1].kind = k /\ work[1].conn = cur
         /\ work' \in Seq(WorkLine) /\ Len(work) \in Nat \ {0} /\ Len(work') = Len(work) - 1
         /\ \A i \in 1..Len(work') : i \in Nat /\ i + 1 \in 1..Len(work) /\ work'[i] = work[i + 1]
<1>1. work \in Seq(WorkLine) /\ work # <<>> /\ work' = Tail(work) /\ Head(work).kind = k /\ Running
  BY DEF Takes, IInv, TypeInv, Running
<1>2. /\ Head(work) = work[1] /\ Head(work) \in WorkLine /\ Tail(work) \in Seq(WorkLine)
      /\ Len(work) \in Nat \ {0} /\ Len(Tail(work)) = Len(work) - 1
      /\ \A i \in 1..Len(Tail(work)) : Tail(work)[i] = work[i + 1]
  BY <1>1, HeadTailProperties
<1>3. work[1].conn = cur
  BY <1>1, <1>2 DEF IInv, NoStaleLine, Running
<1>4. work[1].conn \in Conns
  BY <1>2 DEF WorkLine
<1> QED BY <1>1, <1>2, <1>3, <1>4 DEF Conns

(* Lines that do not report the end, in and out.                           *)
LEMMA PostLifeline ==
  ASSUME IInv, NEW k, NEW ch, NEW n, Post(k, ch, n), Line(reader, k, ch, n) \in WorkLine,
         k # "gone", UNCHANGED <<phase, cur, dialed, reader, timers, welcomed, held>>
  PROVE  Lifeline' /\ NoStaleLine'
<1>1. \A i \in 1..Len(work') : i \in 1..Len(work) \/ i = Len(work) + 1
  BY PostFacts
<1>2. \A i \in 1..Len(work) : work[i].kind # "gone" /\ work[i].conn = cur
  BY PostFacts DEF IInv, Lifeline, NoStaleLine, Running
<1>3. \A i \in 1..Len(work') : work'[i].kind # "gone" /\ work'[i].conn = cur
  BY <1>1, <1>2, PostFacts DEF Line
<1> QED BY <1>3, PostFacts DEF IInv, Lifeline, NoStaleLine, Running

LEMMA TakeLifeline ==
  ASSUME IInv, NEW k, Takes(k), k # "gone", UNCHANGED <<phase, cur, dialed, reader, timers>>,
         \A g \in Conns : g > dialed => ~welcomed'[g] /\ held'[g] = <<>>
  PROVE  Lifeline' /\ NoStaleLine'
<1>1. work[1].kind # "gone" /\ work # <<>> /\ 1 \in 1..Len(work)
  BY TakeFacts DEF Takes
<1>2. \/ /\ reader # 0 /\ reader = cur /\ timers = 0
         /\ \A i \in 1..Len(work) : work[i].kind # "gone"
      \/ /\ reader = 0 /\ cur # 0 /\ timers = 0
         /\ \A i \in 1..Len(work) : work[i].kind = "gone" <=> i = Len(work)
  BY <1>1, TakeFacts DEF IInv, Lifeline, Running
<1>3. ASSUME \A i \in 1..Len(work) : work[i].kind = "gone" <=> i = Len(work)
      PROVE  /\ work' # <<>>
             /\ \A i \in 1..Len(work') : work'[i].kind = "gone" <=> i = Len(work')
  <2>1. Len(work) # 1
    BY <1>1, <1>3
  <2> QED BY <2>1, <1>3, TakeFacts
<1>4. (\A i \in 1..Len(work) : work[i].kind # "gone")
         => \A i \in 1..Len(work') : work'[i].kind # "gone"
  BY TakeFacts
<1>5. Lifeline'
  BY <1>2, <1>3, <1>4, TakeFacts DEF IInv, Lifeline, Running
<1>6. NoStaleLine'
  BY TakeFacts DEF IInv, NoStaleLine, Running
<1> QED BY <1>5, <1>6
(* A line that is no message, in and out.                                  *)
LEMMA PostNumbers ==
  ASSUME IInv, NEW k, NEW ch, NEW n, Post(k, ch, n), Line(reader, k, ch, n) \in WorkLine,
         UNCHANGED <<phase, cur, welcomed, held, dispatched>>, received' \in {received, received + 1},
         k = "msg" => n = received + 1 /\ received' = received + 1
  PROVE  Numbers'
<1>1. received \in Nat /\ received' \in Nat /\ received <= received'
  BY DEF IInv, TypeInv
<1>2. /\ Grow(dispatched) /\ Under(dispatched, received + 1)
      /\ Grow(held[cur]) /\ Under(held[cur], received + 1)
      /\ \A i \in 1..Len(held[cur]) : Under(dispatched, held[cur][i].n)
      /\ WorkGrows /\ \A g \in Conns : welcomed[g] => held[g] = <<>>
  BY PostFacts DEF IInv, Numbers, Conns
<1>3. /\ dispatched \in Seq(WorkLine) /\ held[cur] \in Seq(WorkLine) /\ work \in Seq(WorkLine)
  BY PostFacts DEF IInv, TypeInv
<1>4. \A s \in Seq(WorkLine) : \A i \in 1..Len(s) : s[i].n \in Nat
  BY LineNumber
<1>5. \A s \in Seq(WorkLine) : Under(s, received + 1) => Under(s, received' + 1)
  BY <1>1, <1>4 DEF Under
<1>6. WorkGrows'
  <2> SUFFICES ASSUME NEW i \in 1..Len(work'), work'[i].kind = "msg"
               PROVE  /\ work'[i].n <= received' /\ Under(dispatched, work'[i].n)
                      /\ Under(held[cur], work'[i].n)
                      /\ \A j \in 1..Len(work') :
                            j < i /\ work'[j].kind = "msg" => work'[j].n < work'[i].n
    BY DEF WorkGrows, Under
  <2>1. CASE i \in 1..Len(work)
    <3>1. work'[i] = work[i] /\ work[i].n \in Nat
      BY <2>1, <1>3, <1>4, PostFacts
    <3>2. \A j \in 1..Len(work') : j < i => j \in 1..Len(work) /\ work'[j] = work[j]
      BY <2>1, PostFacts
    <3> QED BY <2>1, <3>1, <3>2, <1>1, <1>2 DEF WorkGrows
  <2>2. CASE i = Len(work) + 1
    <3>1. k = "msg" /\ work'[i].n = received + 1 /\ received' = received + 1
      BY <2>2, PostFacts DEF Line
    <3>2. \A j \in 1..Len(work') : j < i =>
             /\ j \in 1..Len(work) /\ work'[j] = work[j]
             /\ work[j].kind = "msg" => work[j].n <= received /\ work[j].n \in Nat
      BY <2>2, <1>2, <1>3, <1>4, PostFacts DEF WorkGrows
    <3> QED BY <3>1, <3>2, <1>1, <1>2
  <2> QED BY <2>1, <2>2, PostFacts
<1> QED BY <1>2, <1>3, <1>5, <1>6 DEF Numbers, Running

LEMMA TakeNumbers ==
  ASSUME IInv, NEW k, Takes(k), UNCHANGED <<phase, cur, held, dispatched, received>>,
         \A g \in Conns : welcomed'[g] => held[g] = <<>>
  PROVE  Numbers'
<1>1. WorkGrows
  BY TakeFacts DEF IInv, Numbers
<1>2. WorkGrows'
  <2> SUFFICES ASSUME NEW i \in 1..Len(work'), work'[i].kind = "msg"
               PROVE  /\ work'[i].n <= received /\ Under(dispatched, work'[i].n)
                      /\ Under(held[cur], work'[i].n)
                      /\ \A j \in 1..Len(work') :
                            j < i /\ work'[j].kind = "msg" => work'[j].n < work'[i].n
    BY DEF WorkGrows, Under
  <2>1. i + 1 \in 1..Len(work) /\ work'[i] = work[i + 1]
    BY TakeFacts
  <2>2. \A j \in 1..Len(work') : j < i => /\ j + 1 \in 1..Len(work) /\ work'[j] = work[j + 1]
                                          /\ j + 1 < i + 1
    BY TakeFacts
  <2> QED BY <2>1, <2>2, <1>1 DEF WorkGrows
<1> QED BY <1>2 DEF IInv, Numbers, Grow, Under, Running

(* Where the lines of a channel leave it, when one comes in                *)
LEMMA PostFollows ==
  ASSUME IInv, NEW k, NEW ch, NEW n, Post(k, ch, n), Line(reader, k, ch, n) \in WorkLine,
         k \in {"join", "part"} => in' \ {ch} = in \ {ch} /\ (k = "join" <=> ch \in in'),
         k \notin {"join", "part"} => in' = in,
         k = "msg" => ch \in in
  PROVE  Follows'
<1> PICK l : l = Len(work)
  OBVIOUS
<1>1. l \in Nat /\ Len(work') = l + 1 /\ work'[l + 1].kind = k /\ work'[l + 1].ch = ch
  BY PostFacts DEF Line
<1>2. \A i \in 1..l : work'[i] = work[i]
  BY PostFacts
<1>3. Follows
  BY PostFacts DEF IInv, Served, TypeInv
<1>4. ASSUME NEW c, NEW i \in 1..l, NEW m \in 1..(l + 1), LastBefore(i, m, c)'
      PROVE  LastBefore(i, m, c)
  <2>1. i < m /\ Moves(i, c)
    BY <1>2, <1>4 DEF LastBefore, Moves
  <2>2. \A j \in 1..l : i < j /\ j < m => ~Moves(j, c)
    BY <1>1, <1>2, <1>4 DEF LastBefore, Moves
  <2> QED BY <2>1, <2>2 DEF LastBefore
<1>5. ASSUME NEW c \in Targets, NEW i \in 1..Len(work'), LastBefore(i, l + 2, c)'
      PROVE  Joined(i)' <=> c \in in'
  <2>1. CASE i = l + 1
    BY <2>1, <1>1, <1>5 DEF LastBefore, Moves, Joined
  <2>2. CASE i \in 1..l
    <3>1. ~Moves(l + 1, c)'
      BY <2>2, <1>1, <1>5 DEF LastBefore
    <3>2. c \in in' <=> c \in in
      BY <3>1, <1>1 DEF Moves
    <3>3. LastBefore(i, l + 1, c)'
      BY <2>2, <1>1, <1>5 DEF LastBefore, Moves
    <3>4. LastBefore(i, l + 1, c)
      BY <2>2, <3>3, <1>1, <1>4
    <3> QED BY <2>2, <3>2, <3>4, <1>2, <1>3 DEF Follows, Joined
  <2> QED BY <2>1, <2>2, <1>1
<1>6. ASSUME NEW c \in Targets, NEW m \in 1..Len(work'), NEW i \in 1..Len(work'),
             work'[m].kind = "msg", work'[m].ch = c, LastBefore(i, m, c)'
      PROVE  Joined(i)'
  <2>1. i < m /\ i \in 1..l /\ m \in 1..(l + 1)
    BY <1>1, <1>6 DEF LastBefore
  <2>2. LastBefore(i, m, c)
    BY <2>1, <1>4, <1>6
  <2>3. CASE m \in 1..l
    BY <2>1, <2>2, <2>3, <1>2, <1>3, <1>6 DEF Follows, Joined
  <2>4. CASE m = l + 1
    <3>1. k = "msg" /\ c = ch /\ ch \in in
      BY <2>4, <1>1, <1>6
    <3> QED BY <2>1, <2>2, <2>4, <3>1, <1>2, <1>3 DEF Follows, Joined
  <2> QED BY <2>1, <2>3, <2>4
<1>7. Len(work') + 1 = l + 2
  BY <1>1
<1> QED BY <1>5, <1>6, <1>7 DEF Follows
(* and what is known of the channels.                                      *)
LEMMA PostKnown ==
  ASSUME IInv, NEW k, NEW ch, NEW n, Post(k, ch, n), Line(reader, k, ch, n) \in WorkLine,
         k \in {"join", "part"} => in' \ {ch} = in \ {ch},
         k \notin {"join", "part"} => in' = in,
         k = "msg" => ch \in in, Known, UNCHANGED <<cur, tracked, channels>>
  PROVE  Known'
<1> PICK l : l = Len(work)
  OBVIOUS
<1>1. l \in Nat /\ Len(work') = l + 1 /\ work'[l + 1].kind = k /\ work'[l + 1].ch = ch
  BY PostFacts DEF Line
<1>2. \A i \in 1..l : work'[i] = work[i]
  BY PostFacts
<1>3. ASSUME NEW c, NEW m \in 1..(l + 2), NoneBefore(m, c)'
      PROVE  NoneBefore(m, c)
  BY <1>1, <1>2, <1>3 DEF NoneBefore, Moves
<1>4. ASSUME NEW c \in Range(channels), c \in in', NoneBefore(l + 2, c)'
      PROVE  c \in tracked[cur]
  <2>1. ~(k \in {"join", "part"} /\ ch = c)
    BY <1>1, <1>4 DEF NoneBefore, Moves
  <2>2. c \in in
    BY <2>1, <1>4
  <2>3. NoneBefore(l + 1, c)
    <3>1. l + 2 \in 1..(l + 2)
      BY <1>1
    <3>2. NoneBefore(l + 2, c)
      BY <3>1, <1>3, <1>4
    <3> QED BY <3>2, <1>1 DEF NoneBefore
  <2> QED BY <2>2, <2>3 DEF Known
<1>5. ASSUME NEW c \in Range(channels), NEW m \in 1..(l + 1), work'[m].kind = "msg",
             work'[m].ch = c, NoneBefore(m, c)'
      PROVE  c \in tracked[cur]
  <2>1. NoneBefore(m, c)
    BY <1>1, <1>3, <1>5
  <2>2. CASE m \in 1..l
    BY <2>1, <2>2, <1>2, <1>5 DEF Known
  <2>3. CASE m = l + 1
    <3>1. c \in in
      BY <2>3, <1>1, <1>5
    <3> QED BY <2>1, <2>3, <3>1 DEF Known
  <2> QED BY <2>2, <2>3, <1>1
<1>6. Len(work') + 1 = l + 2
  BY <1>1
<1> QED BY <1>1, <1>4, <1>5, <1>6 DEF Known

LEMMA PostServed ==
  ASSUME IInv, NEW k, NEW ch, NEW n, Post(k, ch, n), Line(reader, k, ch, n) \in WorkLine,
         k \in {"join", "part"} => in' \ {ch} = in \ {ch} /\ (k = "join" <=> ch \in in'),
         k \notin {"join", "part"} => in' = in,
         k = "msg" => ch \in in, UNCHANGED <<phase, cur, welcomed, tracked, channels>>,
         registered' = "yes" \/ (k # "welcome" /\ registered' = registered),
         \A c \in Range(channels) : Wanted(c) => Wanted(c)'
  PROVE  Served'
<1>1. Running /\ cur # 0 /\ (welcomed[cur] => Known /\ \A c \in Range(channels) : Wanted(c))
  BY PostFacts DEF IInv, Served
<1>2. welcomed'[cur'] \/ (\E i \in 1..Len(work') : work'[i].kind = "welcome")
        => registered' = "yes"
  <2>1. ASSUME k # "welcome", NEW i \in 1..Len(work'), work'[i].kind = "welcome"
        PROVE  i \in 1..Len(work) /\ work[i].kind = "welcome"
    BY <2>1, PostFacts DEF Line
  <2> QED BY <1>1, <2>1 DEF IInv, Served
<1>3. Follows'
  BY PostFollows
<1>4. welcomed'[cur'] => Known' /\ \A c \in Range(channels') : Wanted(c)'
  BY <1>1, PostKnown
<1> QED BY <1>2, <1>3, <1>4 DEF Served

(* when one comes out                                                      *)
LEMMA TakeFollows ==
  ASSUME IInv, NEW k, Takes(k), in' = in
  PROVE  Follows'
<1> PICK l : l = Len(work)
  OBVIOUS
<1>1. /\ l \in Nat /\ Len(work') = l - 1
      /\ \A i \in 1..(l - 1) : i + 1 \in 1..l /\ work'[i] = work[i + 1]
  BY TakeFacts
<1>2. Follows
  BY TakeFacts DEF IInv, Served
<1>3. ASSUME NEW c, NEW i \in 1..(l - 1), NEW m \in 1..l, LastBefore(i, m, c)'
      PROVE  LastBefore(i + 1, m + 1, c)
  <2>1. i + 1 < m + 1 /\ Moves(i + 1, c)
    BY <1>1, <1>3 DEF LastBefore, Moves
  <2>2. ASSUME NEW j \in 1..l, i + 1 < j, j < m + 1 PROVE ~Moves(j, c)
    <3>1. j - 1 \in 1..(l - 1) /\ i < j - 1 /\ j - 1 < m /\ (j - 1) + 1 = j
      BY <2>2
    <3>2. ~Moves(j - 1, c)'
      BY <3>1, <1>1, <1>3 DEF LastBefore, Moves
    <3> QED BY <3>1, <3>2, <1>1 DEF Moves
  <2> QED BY <2>1, <2>2 DEF LastBefore
<1>4. ASSUME NEW c \in Targets, NEW i \in 1..(l - 1), LastBefore(i, l, c)'
      PROVE  Joined(i)' <=> c \in in
  <2>1. LastBefore(i + 1, l + 1, c) /\ i + 1 \in 1..l
    BY <1>1, <1>3, <1>4
  <2> QED BY <2>1, <1>1, <1>2 DEF Follows, Joined
<1>5. ASSUME NEW c \in Targets, NEW i \in 1..(l - 1), NEW m \in 1..(l - 1),
             work'[m].kind = "msg", work'[m].ch = c, LastBefore(i, m, c)'
      PROVE  Joined(i)'
  <2>1. LastBefore(i + 1, m + 1, c) /\ i + 1 \in 1..l /\ m + 1 \in 1..l
    BY <1>1, <1>3, <1>5
  <2>2. work[m + 1].kind = "msg" /\ work[m + 1].ch = c
    BY <1>1, <1>5
  <2> QED BY <2>1, <2>2, <1>1, <1>2 DEF Follows, Joined
<1>6. Len(work') + 1 = l
  BY <1>1
<1> QED BY <1>1, <1>4, <1>5, <1>6 DEF Follows

(* and the session has made of it what the line says.                      *)
LEMMA TakeKnown ==
  ASSUME IInv, NEW k, Takes(k), UNCHANGED <<in, cur, channels>>, Known,
         \A ch \in Range(channels) :
            /\ Moves(1, ch) /\ Joined(1) => ch \in tracked'[cur]
            /\ ~Moves(1, ch) /\ ch \in tracked[cur] => ch \in tracked'[cur]
  PROVE  Known'
<1> PICK l : l = Len(work)
  OBVIOUS
<1>1. /\ l \in Nat \ {0} /\ Len(work') = l - 1
      /\ \A i \in 1..(l - 1) : i + 1 \in 1..l /\ work'[i] = work[i + 1]
  BY TakeFacts
<1>2. Follows
  BY TakeFacts DEF IInv, Served
<1>3. ASSUME NEW c, NEW m \in 1..l, NoneBefore(m, c)', NEW j \in 1..l, 1 < j, j < m + 1
      PROVE  ~Moves(j, c)
  <2>1. j - 1 \in 1..(l - 1) /\ j - 1 < m /\ (j - 1) + 1 = j
    BY <1>3
  <2>2. ~Moves(j - 1, c)'
    BY <2>1, <1>1, <1>3 DEF NoneBefore
  <2> QED BY <2>1, <2>2, <1>1 DEF Moves
<1>4. ASSUME NEW c \in Range(channels), NEW m \in 1..l, NoneBefore(m, c)',
             \/ m = l /\ c \in in
             \/ m < l /\ work[m + 1].kind = "msg" /\ work[m + 1].ch = c
      PROVE  c \in tracked'[cur]
  <2>1. \A j \in 1..l : 1 < j /\ j < m + 1 => ~Moves(j, c)
    BY <1>3, <1>4
  <2>2. CASE Moves(1, c)
    <3>1. LastBefore(1, m + 1, c) /\ 1 \in 1..l
      BY <2>1, <2>2, <1>1 DEF LastBefore
    <3>2. c \in Targets
      BY ListType DEF Targets
    <3>3. CASE m = l /\ c \in in
      BY <2>2, <3>1, <3>2, <3>3, <1>2 DEF Follows
    <3>4. CASE m < l /\ work[m + 1].kind = "msg" /\ work[m + 1].ch = c
      <4>1. m + 1 \in 1..l
        BY <3>4, <1>1
      <4> QED BY <2>2, <3>1, <3>2, <3>4, <4>1, <1>2 DEF Follows
    <3> QED BY <3>3, <3>4, <1>4
  <2>3. CASE ~Moves(1, c)
    <3>1. NoneBefore(m + 1, c)
      BY <2>1, <2>3, <1>1 DEF NoneBefore
    <3>2. CASE m = l /\ c \in in
      BY <2>3, <3>1, <3>2 DEF Known
    <3>3. CASE m < l /\ work[m + 1].kind = "msg" /\ work[m + 1].ch = c
      <4>1. m + 1 \in 1..l
        BY <3>3, <1>1
      <4> QED BY <2>3, <3>1, <3>3, <4>1 DEF Known
    <3> QED BY <3>2, <3>3, <1>4
  <2> QED BY <2>2, <2>3
<1>5. ASSUME NEW c \in Range(channels), c \in in, NoneBefore(l, c)'
      PROVE  c \in tracked'[cur]
  <2> PICK m \in 1..l : m = l
    BY <1>1
  <2>1. NoneBefore(m, c)'
    BY <1>5
  <2> QED BY <2>1, <1>4, <1>5
<1>6. ASSUME NEW c \in Range(channels), NEW m \in 1..(l - 1), work'[m].kind = "msg",
             work'[m].ch = c, NoneBefore(m, c)'
      PROVE  c \in tracked'[cur]
  BY <1>1, <1>4, <1>6
<1>7. Len(work') + 1 = l
  BY <1>1
<1> QED BY <1>1, <1>5, <1>6, <1>7 DEF Known

LEMMA TakeServed ==
  ASSUME IInv, NEW k, Takes(k), UNCHANGED <<phase, cur, welcomed, channels, out, registered, in>>,
         \A ch \in Range(channels) :
            /\ Moves(1, ch) /\ Joined(1) => ch \in tracked'[cur]
            /\ ~Moves(1, ch) /\ ch \in tracked[cur] => ch \in tracked'[cur]
  PROVE  Served'
<1>1. Running /\ cur # 0 /\ (welcomed[cur] => Known /\ \A c \in Range(channels) : Wanted(c))
  BY TakeFacts DEF IInv, Served
<1>2. welcomed'[cur'] \/ (\E i \in 1..Len(work') : work'[i].kind = "welcome")
        => registered' = "yes"
  BY <1>1, TakeFacts DEF IInv, Served
<1>3. Follows'
  BY TakeFollows
<1>4. welcomed'[cur'] => Known' /\ \A c \in Range(channels') : Wanted(c)'
  BY <1>1, TakeKnown DEF Wanted, NoPart
<1> QED BY <1>2, <1>3, <1>4 DEF Served
(***************************************************************************)
(* The steps                                                               *)
(***************************************************************************)
LEMMA InitInv == Init => IInv
<1> SUFFICES ASSUME Init PROVE IInv
  OBVIOUS
<1>1. Range(Seed) \subseteq Channels /\ Seed \in Seq(Channels)
  BY TransportAssumption DEF Range
<1>2. TypeInv
  BY <1>1, EmptySeq, TransportAssumption DEF Init, TypeInv, Targets
<1>3. Lifeline /\ NoStaleLine /\ Served
  BY DEF Init, Lifeline, NoStaleLine, Served, Running
<1>4. Numbers
  BY DEF Init, Numbers, Grow, Under, Running
<1> QED BY <1>2, <1>3, <1>4 DEF IInv

(* Between two connections nothing is in the work channel.                 *)
LEMMA ConnectStep ==
  ASSUME IInv, ConnectOK
  PROVE  IInv'
<1>1. /\ phase \in {"start", "run"} /\ phase' = "run" /\ timers' = 0 /\ work = <<>>
      /\ phase = "run" => cur = 0 /\ reader = 0
  <2>1. CASE phase = "start"
    BY <2>1 DEF ConnectOK, ConnectDue, IInv, Lifeline
  <2>2. CASE phase = "run" /\ timers > 0 /\ timers' = timers - 1 /\ phase' = phase
    BY <2>2 DEF IInv, Lifeline, Running
  <2> QED BY <2>1, <2>2 DEF ConnectOK, ConnectDue
<1>2. /\ dialed' = dialed + 1 /\ cur' = dialed' /\ reader' = dialed' /\ dialed' \in Conns
      /\ out' = <<Cmd("USER", NoChannel)>> /\ work' = work
      /\ UNCHANGED <<channels, received, dispatched, welcomed, held, tracked>>
  BY TransportAssumption DEF ConnectOK, sessions, IInv, TypeInv, Conns
<1>3. ~welcomed[dialed'] /\ held[dialed'] = <<>>
  BY <1>2 DEF IInv, Lifeline, TypeInv
<1>4. TypeInv'
  <2>1. <<Cmd("USER", NoChannel)>> \in Seq(Command)
    <3>1. Cmd("USER", NoChannel) \in Command
      BY DEF Cmd, Command, Targets
    <3> QED BY <3>1
  <2>2. registered' \in {"no", "pending", "yes"} /\ in' \subseteq Targets
    BY DEF ConnectOK, IInv, TypeInv
  <2>3. dialed' \in 0..MaxConns /\ cur' \in 0..dialed' /\ reader' \in 0..dialed'
    BY <1>2, TransportAssumption DEF Conns
  <2> QED BY <2>1, <2>2, <2>3, <1>1, <1>2 DEF IInv, TypeInv
<1>5. Lifeline' /\ NoStaleLine'
  <2>1. \A g \in Conns : g > dialed' => g > dialed
    BY <1>2 DEF Conns, IInv, TypeInv
  <2>2. dialed' # 0
    BY <1>2 DEF Conns
  <2> QED BY <2>1, <2>2, <1>1, <1>2 DEF IInv, Lifeline, NoStaleLine, Running
<1>6. Numbers'
  <2>1. WorkGrows'
    BY <1>1, <1>2 DEF WorkGrows
  <2> QED BY <2>1, <1>2, <1>3 DEF IInv, Numbers, Grow, Under
<1>7. Served'
  BY <1>1, <1>2, <1>3 DEF Served, Follows
<1> QED BY <1>4, <1>5, <1>6, <1>7 DEF IInv

LEMMA ConnectFailsStep ==
  ASSUME IInv, ConnectFails
  PROVE  IInv'
<1>1. /\ UNCHANGED <<work, cur, dialed, reader, channels, out, dispatched, server, sessions>>
      /\ phase' = "run"
      /\ \/ phase = "start" /\ timers' = timers + 1
         \/ phase = "run" /\ timers' = timers
  BY DEF ConnectFails, ConnectDueRetry
<1>2. TypeInv'
  BY <1>1 DEF IInv, TypeInv, server, sessions
<1>3. Lifeline' /\ NoStaleLine'
  BY <1>1 DEF IInv, Lifeline, NoStaleLine, Running, sessions
<1>4. phase = "start" => cur = 0
  BY DEF IInv, Lifeline
<1>5. Numbers'
  BY <1>1, <1>4 DEF IInv, Numbers, Grow, Under, WorkGrows, Running, server, sessions
<1>6. Served'
  BY <1>1, <1>4 DEF IInv, Served, Follows, LastBefore, Moves, Joined, Known, NoneBefore, Wanted,
                    NoPart, Running, server, sessions
<1> QED BY <1>2, <1>3, <1>5, <1>6 DEF IInv

LEMMA ShutdownStep ==
  ASSUME IInv, Shutdown
  PROVE  IInv'
<1>1. /\ UNCHANGED <<work, cur, dialed, timers, channels, out, dispatched, server, sessions>>
      /\ phase' = "stopped" /\ reader' = 0
  BY DEF Shutdown
<1>2. TypeInv'
  BY <1>1 DEF IInv, TypeInv, server, sessions
<1>3. Lifeline' /\ NoStaleLine' /\ Served'
  BY <1>1 DEF IInv, Lifeline, NoStaleLine, Served, Running, sessions
<1>4. Numbers'
  BY <1>1 DEF IInv, Numbers, Grow, Under, Running, server, sessions
<1> QED BY <1>2, <1>3, <1>4 DEF IInv
(* The server takes a command, and the channel is as the command wants it. *)
LEMMA OutPopped ==
  ASSUME IInv, out # <<>>, out' = Tail(out), NEW c, Wanted(c),
         Head(out) = Cmd("JOIN", c) => c \in in',
         c \in in /\ Head(out) # Cmd("PART", c) => c \in in'
  PROVE  Wanted(c)'
<1>1. /\ out[1] = Head(out) /\ out' \in Seq(Command) /\ Len(out) \in Nat \ {0}
      /\ Len(out') = Len(out) - 1 /\ \A i \in 1..Len(out') : out'[i] = out[i + 1]
  BY HeadTailProperties DEF IInv, TypeInv
<1> PICK l : l = Len(out)
  OBVIOUS
<1>2. ASSUME NEW m \in 0..l, NoPart(m, c) PROVE NoPart(IF m = 0 THEN 0 ELSE m - 1, c)'
  <2> SUFFICES ASSUME NEW j \in 1..(l - 1), (IF m = 0 THEN 0 ELSE m - 1) < j
               PROVE  out'[j] # Cmd("PART", c)
    BY <1>1 DEF NoPart, Cmd
  <2>1. j + 1 \in 1..l /\ m < j + 1 /\ out'[j] = out[j + 1]
    BY <1>1
  <2> QED BY <2>1, <1>2 DEF NoPart
<1>3. CASE c \in in /\ NoPart(0, c)
  <2>1. 1 \in 1..l /\ 0 \in 0..l /\ 0 < 1
    BY <1>1
  <2>2. out[1] # Cmd("PART", c)
    BY <2>1, <1>3 DEF NoPart
  <2>3. NoPart(0, c)'
    BY <2>1, <1>2, <1>3
  <2> QED BY <2>2, <2>3, <1>1, <1>3 DEF Wanted
<1>4. ASSUME NEW i \in 1..l, out[i] = Cmd("JOIN", c), NoPart(i, c) PROVE Wanted(c)'
  <2>1. i \in 0..l /\ i # 0 /\ i - 1 \in 0..l
    BY <1>1
  <2>2. NoPart(IF i = 0 THEN 0 ELSE i - 1, c)'
    BY <2>1, <1>2, <1>4
  <2> PICK m : m = i - 1
    OBVIOUS
  <2>3. NoPart(m, c)'
    BY <2>1, <2>2 DEF NoPart
  <2>4. CASE i = 1
    BY <2>3, <2>4, <1>1, <1>4 DEF Wanted
  <2>5. CASE i # 1
    <3>1. m \in 1..(l - 1) /\ m + 1 = i
      BY <2>5
    <3>2. out'[m] = Cmd("JOIN", c)
      BY <3>1, <1>1, <1>4
    <3> QED BY <2>3, <3>1, <3>2, <1>1 DEF Wanted, Cmd
  <2> QED BY <2>4, <2>5
<1> QED BY <1>1, <1>3, <1>4 DEF Wanted

(* A step of the server that posts a line (Post).                          *)
LEMMA PostStep ==
  ASSUME IInv, NEW k, NEW ch, NEW n, Post(k, ch, n), Line(reader, k, ch, n) \in WorkLine,
         k # "gone", UNCHANGED <<phase, cur, dialed, reader, timers, channels, dispatched, sessions>>,
         registered' \in {"no", "pending", "yes"}, in' \subseteq Targets, out' \in Seq(Command),
         k \in {"join", "part"} => in' \ {ch} = in \ {ch} /\ (k = "join" <=> ch \in in'),
         k \notin {"join", "part"} => in' = in,
         k = "msg" => ch \in in /\ n = received + 1 /\ received' = n,
         k # "msg" => received' = received, registered' = "yes",
         \A c \in Range(channels) : Wanted(c) => Wanted(c)'
  PROVE  IInv'
<1>1. received \in Nat /\ received' \in {received, received + 1}
  BY DEF IInv, TypeInv
<1>2. TypeInv'
  BY <1>1, PostFacts DEF IInv, TypeInv, sessions
<1>3. Lifeline' /\ NoStaleLine'
  BY PostLifeline DEF sessions
<1>4. Numbers'
  BY <1>1, PostNumbers DEF sessions
<1>5. Served'
  BY PostServed DEF sessions
<1> QED BY <1>2, <1>3, <1>4, <1>5 DEF IInv

LEMMA LineTyped ==
  ASSUME IInv, reader # 0, NEW k \in {"welcome", "join", "part", "msg", "gone"},
         NEW ch \in Targets, NEW n \in Nat
  PROVE  Line(reader, k, ch, n) \in WorkLine
BY TransportAssumption DEF IInv, TypeInv, Line, WorkLine, Conns

LEMMA ServerUserStep ==
  ASSUME IInv, ServerUser
  PROVE  IInv'
<1>1. /\ out # <<>> /\ Head(out).kind = "USER" /\ out' = Tail(out) /\ reader # 0
      /\ UNCHANGED <<phase, cur, dialed, reader, timers, channels, in, received, dispatched, sessions>>
  BY DEF ServerUser, Post
<1>2. out' \in Seq(Command)
  BY <1>1, HeadTailProperties DEF IInv, TypeInv
<1>3. CASE registered = "yes" /\ Post("welcome", NoChannel, 0) /\ registered' = registered
  <2>1. \A c \in Range(channels) : Wanted(c) => Wanted(c)'
    <3>1. \A c : Head(out) # Cmd("JOIN", c)
      BY <1>1 DEF Cmd
    <3> QED BY <3>1, <1>1, OutPopped
  <2>2. Line(reader, "welcome", NoChannel, 0) \in WorkLine
    BY <1>1, LineTyped DEF Targets
  <2>3. in \subseteq Targets
    BY DEF IInv, TypeInv
  <2> QED BY <2>1, <2>2, <2>3, <1>1, <1>2, <1>3, PostStep
<1>4. CASE registered = "no" /\ registered' = "pending" /\ work' = work
  <2>1. TypeInv'
    BY <1>1, <1>2, <1>4 DEF IInv, TypeInv, sessions
  <2>2. Lifeline' /\ NoStaleLine'
    BY <1>1, <1>4 DEF IInv, Lifeline, NoStaleLine, Running, sessions
  <2>3. Numbers'
    BY <1>1, <1>4 DEF IInv, Numbers, Grow, Under, WorkGrows, Running, sessions
  <2>4. Running /\ cur # 0 => /\ ~welcomed[cur] /\ Follows
                             /\ ~\E i \in 1..Len(work) : work[i].kind = "welcome"
    BY <1>4 DEF IInv, Served
  <2>5. Follows => Follows'
    BY <1>1, <1>4 DEF Follows, LastBefore, Moves, Joined
  <2>6. Served'
    BY <2>4, <2>5, <1>1, <1>4 DEF Served, Running, sessions
  <2> QED BY <2>1, <2>2, <2>3, <2>6 DEF IInv
<1> QED BY <1>3, <1>4 DEF ServerUser

LEMMA ServerWelcomeStep ==
  ASSUME IInv, ServerWelcome
  PROVE  IInv'
<1>1. Post("welcome", NoChannel, 0) /\ registered' = "yes" /\ reader # 0
  BY DEF ServerWelcome, Post
<1>2. Line(reader, "welcome", NoChannel, 0) \in WorkLine
  BY <1>1, LineTyped DEF Targets
<1>3. UNCHANGED <<phase, cur, dialed, reader, timers, channels, out, in, received, dispatched, sessions>>
  BY DEF ServerWelcome
<1>4. \A c \in Range(channels) : Wanted(c) => Wanted(c)'
  BY <1>3 DEF Wanted, NoPart
<1>5. in \subseteq Targets /\ out \in Seq(Command)
  BY DEF IInv, TypeInv
<1> QED BY <1>1, <1>2, <1>3, <1>4, <1>5, PostStep

LEMMA ServerMsgStep ==
  ASSUME IInv, NEW ch \in Channels, ServerMsg(ch)
  PROVE  IInv'
<1>1. /\ Post("msg", ch, received + 1) /\ registered = "yes" /\ reader # 0
      /\ ch \in in /\ received' = received + 1
      /\ UNCHANGED <<phase, cur, dialed, reader, timers, channels, out, registered, in,
                     dispatched, sessions>>
  BY DEF ServerMsg, Post
<1>2. in \subseteq Targets /\ out \in Seq(Command) /\ received + 1 \in Nat
  BY DEF IInv, TypeInv
<1>3. Line(reader, "msg", ch, received + 1) \in WorkLine
  BY <1>1, <1>2, LineTyped DEF Targets
<1>4. \A c \in Range(channels) : Wanted(c) => Wanted(c)'
  BY <1>1 DEF Wanted, NoPart
<1> QED BY <1>1, <1>2, <1>3, <1>4, PostStep

LEMMA ServerJoinPartStep ==
  ASSUME IInv, ServerJoinPart
  PROVE  IInv'
<1> PICK ch : ch = Head(out).ch
  OBVIOUS
<1>1. /\ out # <<>> /\ Head(out).kind \in {"JOIN", "PART"} /\ out' = Tail(out) /\ reader # 0
      /\ UNCHANGED <<phase, cur, dialed, reader, timers, channels, registered, received,
                     dispatched, sessions>>
  BY DEF ServerJoinPart
<1>2. out' \in Seq(Command) /\ Head(out) \in Command /\ ch \in Targets
  <2>1. Tail(out) \in Seq(Command) /\ Head(out) \in Command
    BY <1>1, HeadTailProperties DEF IInv, TypeInv
  <2> QED BY <2>1, <1>1 DEF Command
<1>3. Head(out) = Cmd(Head(out).kind, ch)
  BY <1>2 DEF Command, Cmd
<1>4. \A k, c : Head(out) = Cmd(k, c) <=> k = Head(out).kind /\ c = ch
  BY <1>3 DEF Cmd
<1> DEFINE joins == Head(out).kind = "JOIN"
           k == IF joins THEN "join" ELSE "part"
<1>5. CASE registered = "yes" /\ (joins <=> ch \notin in)
  <2>1. Post(k, ch, 0) /\ in' = IF joins THEN in \cup {ch} ELSE in \ {ch}
    BY <1>5 DEF ServerJoinPart
  <2>2. k \in {"join", "part"} /\ (k = "join" <=> joins)
    OBVIOUS
  <2>3. Line(reader, k, ch, 0) \in WorkLine
    BY <2>2, <1>1, <1>2, LineTyped
  <2>4. \A c \in Range(channels) : Wanted(c) => Wanted(c)'
    <3>1. ASSUME NEW c PROVE /\ Head(out) = Cmd("JOIN", c) => c \in in'
                             /\ c \in in /\ Head(out) # Cmd("PART", c) => c \in in'
      BY <2>1, <1>1, <1>4
    <3> QED BY <3>1, <1>1, OutPopped
  <2>5. in' \subseteq Targets /\ in' \ {ch} = in \ {ch} /\ (k = "join" <=> ch \in in')
    BY <2>1, <1>2 DEF IInv, TypeInv
  <2> HIDE DEF k, joins
  <2> QED BY <2>1, <2>2, <2>3, <2>4, <2>5, <1>1, <1>2, <1>5, PostStep
<1>6. CASE ~(registered = "yes" /\ (joins <=> ch \notin in))
  <2>1. in' = in /\ work' = work
    BY <1>6 DEF ServerJoinPart
  <2>2. TypeInv'
    BY <2>1, <1>1, <1>2 DEF IInv, TypeInv, sessions
  <2>3. Lifeline' /\ NoStaleLine'
    BY <2>1, <1>1 DEF IInv, Lifeline, NoStaleLine, Running, sessions
  <2>4. Numbers'
    BY <2>1, <1>1 DEF IInv, Numbers, Grow, Under, WorkGrows, Running, sessions
  <2>5. Follows => Follows'
    BY <2>1, <1>1, SMTT(30) DEF Follows, LastBefore, Moves, Joined
  <2>6. Known => Known'
    BY <2>1, <1>1 DEF Known, NoneBefore, Moves, sessions
  <2>7. ASSUME registered = "yes", NEW c, Wanted(c) PROVE Wanted(c)'
    <3>1. Head(out) = Cmd("JOIN", c) => c \in in'
      BY <2>1, <2>7, <1>1, <1>4, <1>6
    <3> QED BY <2>1, <2>7, <3>1, <1>1, OutPopped
  <2>8. Served'
    BY <2>1, <2>5, <2>6, <2>7, <1>1 DEF IInv, Served, Running, sessions
  <2> QED BY <2>2, <2>3, <2>4, <2>8 DEF IInv
<1> QED BY <1>5, <1>6
(* The reader reports the end, behind the lines that came before.          *)
LEMMA DiesStep ==
  ASSUME IInv, ConnectionDies
  PROVE  IInv'
<1>1. /\ Post("gone", NoChannel, 0) /\ reader # 0 /\ reader' = 0
      /\ UNCHANGED <<phase, cur, dialed, timers, channels, out, registered, in, received,
                     dispatched, sessions>>
  BY DEF ConnectionDies, Post, server
<1>2. Line(reader, "gone", NoChannel, 0) \in WorkLine
  BY <1>1, LineTyped DEF Targets
<1>3. TypeInv'
  BY <1>1, <1>2, PostFacts DEF IInv, TypeInv, sessions
<1>4. \A i \in 1..Len(work) : work[i].kind # "gone" /\ work[i].conn = cur
  BY <1>1, <1>2, PostFacts DEF IInv, Lifeline, NoStaleLine, Running
<1>5. ASSUME NEW i \in 1..Len(work')
      PROVE  (work'[i].kind = "gone" <=> i = Len(work')) /\ work'[i].conn = cur
  <2>1. CASE i \in 1..Len(work)
    BY <2>1, <1>1, <1>2, <1>4, PostFacts
  <2>2. CASE i = Len(work) + 1
    BY <2>2, <1>1, <1>2, PostFacts DEF Line
  <2> QED BY <2>1, <2>2, <1>1, <1>2, PostFacts
<1>6. Lifeline' /\ NoStaleLine'
  <2>1. work' # <<>> /\ Running /\ cur # 0 /\ timers = 0
    BY <1>1, <1>2, PostFacts
  <2> QED BY <2>1, <1>1, <1>5 DEF IInv, Lifeline, NoStaleLine, Running, sessions
<1>7. Numbers'
  <2>1. received' \in {received, received + 1}
    BY <1>1
  <2> QED BY <2>1, <1>1, <1>2, PostNumbers DEF sessions
<1>8. Served'
  <2>1. \A c \in Range(channels) : Wanted(c) => Wanted(c)'
    BY <1>1 DEF Wanted, NoPart
  <2> QED BY <2>1, <1>1, <1>2, PostServed DEF sessions
<1> QED BY <1>3, <1>6, <1>7, <1>8 DEF IInv

(* A message is dispatched, held or, when too many are held, dropped.      *)
LEMMA GrowAppend ==
  ASSUME NEW s \in Seq(WorkLine), NEW e \in WorkLine, Grow(s), Under(s, e.n), NEW n \in Nat, e.n < n,
         Under(s, n)
  PROVE  Append(s, e) \in Seq(WorkLine) /\ Grow(Append(s, e)) /\ Under(Append(s, e), n)
<1>1. /\ Append(s, e) \in Seq(WorkLine) /\ Len(Append(s, e)) = Len(s) + 1 /\ Len(s) \in Nat
      /\ \A i \in 1..Len(s) : Append(s, e)[i] = s[i]
      /\ Append(s, e)[Len(s) + 1] = e
  BY AppendProperties, LenProperties
<1> QED BY <1>1 DEF Grow, Under

LEMMA HandleMsgStep ==
  ASSUME IInv, HandleMsg
  PROVE  IInv'
<1> PICK m : m = work[1]
  OBVIOUS
<1>1. /\ Takes("msg") /\ Head(work) = m /\ m \in WorkLine /\ m.kind = "msg" /\ m.conn = cur
      /\ cur \in Conns /\ cur # 0 /\ Running
      /\ UNCHANGED <<phase, cur, dialed, reader, timers, welcomed, tracked, channels, out,
                     registered, in, received>>
  BY TakeFacts DEF HandleMsg, server
<1>2. /\ dispatched \in Seq(WorkLine) /\ held \in [Conns -> Seq(WorkLine)] /\ received \in Nat
      /\ held[cur] \in Seq(WorkLine) /\ m.n \in Nat
  BY <1>1 DEF IInv, TypeInv, WorkLine
<1>3. /\ Grow(dispatched) /\ Under(dispatched, received + 1) /\ Grow(held[cur])
      /\ Under(held[cur], received + 1) /\ (\A i \in 1..Len(held[cur]) : Under(dispatched, held[cur][i].n))
      /\ WorkGrows /\ \A g \in Conns : welcomed[g] => held[g] = <<>>
  BY <1>1 DEF IInv, Numbers
<1>4. /\ m.n < received + 1 /\ Under(dispatched, m.n) /\ Under(held[cur], m.n)
  <2>1. 1 \in 1..Len(work)
    BY <1>1, TakeFacts
  <2> QED BY <2>1, <1>1, <1>2, <1>3 DEF WorkGrows
<1>5. ASSUME NEW i \in 1..Len(work'), work'[i].kind = "msg"
      PROVE  /\ work'[i].n <= received /\ Under(dispatched, work'[i].n)
             /\ Under(held[cur], work'[i].n) /\ m.n < work'[i].n
             /\ \A j \in 1..Len(work') :
                   j < i /\ work'[j].kind = "msg" => work'[j].n < work'[i].n
  <2>1. i + 1 \in 1..Len(work) /\ 1 \in 1..Len(work) /\ 1 < i + 1 /\ work'[i] = work[i + 1]
    BY <1>1, TakeFacts
  <2>2. \A j \in 1..Len(work') : j < i => /\ j + 1 \in 1..Len(work) /\ work'[j] = work[j + 1]
                                          /\ j + 1 < i + 1
    BY <1>1, TakeFacts
  <2> QED BY <2>1, <2>2, <1>1, <1>3, <1>5 DEF WorkGrows
<1>6. \A i \in 1..Len(work') : work'[i].n \in Nat
  <2>1. work' \in Seq(WorkLine)
    BY <1>1, TakeFacts
  <2> QED BY <2>1, LineNumber
<1>7. ASSUME dispatched' = Append(dispatched, m), held' = held, welcomed[cur]
      PROVE  Numbers' /\ dispatched' \in Seq(WorkLine) /\ held' \in [Conns -> Seq(WorkLine)]
  <2>1. dispatched' \in Seq(WorkLine) /\ Grow(dispatched') /\ Under(dispatched', received + 1)
    <3>1. received + 1 \in Nat
      BY <1>2
    <3> QED BY <3>1, <1>1, <1>2, <1>3, <1>4, <1>7, GrowAppend
  <2>2. ASSUME NEW i \in 1..Len(work'), work'[i].kind = "msg" PROVE Under(dispatched', work'[i].n)
    BY <2>2, <1>1, <1>2, <1>3, <1>4, <1>5, <1>6, <1>7, GrowAppend
  <2>3. held[cur] = <<>>
    BY <1>1, <1>3, <1>7
  <2>4. WorkGrows'
    BY <2>2, <1>1, <1>5, <1>7 DEF WorkGrows, Under
  <2>5. Numbers'
    BY <2>1, <2>3, <2>4, <1>1, <1>3, <1>7 DEF Numbers, Grow, Under
  <2> QED BY <2>1, <2>5, <1>1, <1>2, <1>7
<1>8. ASSUME ~welcomed[cur], dispatched' = dispatched,
             held' = [held EXCEPT ![cur] = Append(held[cur], m)]
      PROVE  Numbers' /\ dispatched' \in Seq(WorkLine) /\ held' \in [Conns -> Seq(WorkLine)]
  <2> PICK h : h = Append(held[cur], m)
    OBVIOUS
  <2>1. h \in Seq(WorkLine) /\ Grow(h) /\ Under(h, received + 1)
    <3>1. received + 1 \in Nat
      BY <1>2
    <3> QED BY <3>1, <1>1, <1>2, <1>3, <1>4, GrowAppend
  <2>2. ASSUME NEW i \in 1..Len(work'), work'[i].kind = "msg" PROVE Under(h, work'[i].n)
    BY <2>2, <1>1, <1>2, <1>3, <1>4, <1>5, <1>6, GrowAppend
  <2>3. held' = [held EXCEPT ![cur] = h] /\ held'[cur] = h
    BY <1>1, <1>2, <1>8
  <2>4. ASSUME NEW i \in 1..Len(h) PROVE Under(dispatched, h[i].n)
    <3>1. /\ Len(held[cur]) \in Nat /\ Len(h) = Len(held[cur]) + 1 /\ h[Len(held[cur]) + 1] = m
          /\ \A j \in 1..Len(held[cur]) : h[j] = held[cur][j]
      BY <1>1, <1>2, AppendProperties, LenProperties
    <3>2. h[i] = m \/ (i \in 1..Len(held[cur]) /\ h[i] = held[cur][i])
      BY <3>1
    <3> QED BY <3>2, <1>3, <1>4
  <2>5. WorkGrows'
    BY <2>2, <2>3, <1>1, <1>5, <1>8 DEF WorkGrows, Under
  <2>6. \A g \in Conns : welcomed'[g] => held'[g] = <<>>
    BY <2>3, <1>1, <1>2, <1>3, <1>8
  <2>7. Numbers'
    BY <2>1, <2>3, <2>4, <2>5, <2>6, <1>1, <1>3, <1>8 DEF Numbers, Grow, Under
  <2> QED BY <2>1, <2>3, <2>7, <1>1, <1>2, <1>8
<1>9. ASSUME dispatched' = dispatched, held' = held
      PROVE  Numbers' /\ dispatched' \in Seq(WorkLine) /\ held' \in [Conns -> Seq(WorkLine)]
  BY <1>1, <1>2, <1>3, <1>9, TakeNumbers
<1>10. \/ dispatched' = Append(dispatched, m) /\ held' = held /\ welcomed[cur]
       \/ /\ ~welcomed[cur] /\ dispatched' = dispatched
          /\ held' = [held EXCEPT ![cur] = Append(held[cur], m)]
       \/ dispatched' = dispatched /\ held' = held
  BY <1>1 DEF HandleMsg, Dispatches
<1>11. Numbers' /\ dispatched' \in Seq(WorkLine) /\ held' \in [Conns -> Seq(WorkLine)]
  BY <1>7, <1>8, <1>9, <1>10
<1>12. \A g \in Conns : g # cur => held'[g] = held[g]
  BY <1>2, <1>10
<1>13. Lifeline' /\ NoStaleLine'
  <2>1. cur <= dialed /\ dialed \in Nat /\ \A g \in Conns : g > dialed => g # cur
    BY <1>1, TransportAssumption DEF IInv, TypeInv, Conns
  <2>2. \A g \in Conns : g > dialed => ~welcomed'[g] /\ held'[g] = <<>>
    BY <2>1, <1>1, <1>12 DEF IInv, Lifeline
  <2> QED BY <2>2, <1>1, TakeLifeline
<1>14. Served'
  <2>1. \A ch : ~Moves(1, ch)
    BY <1>1 DEF Moves
  <2> QED BY <2>1, <1>1, TakeServed
<1>15. TypeInv'
  <2>1. work' \in Seq(WorkLine)
    BY <1>1, TakeFacts
  <2> QED BY <2>1, <1>1, <1>11 DEF IInv, TypeInv
<1> QED BY <1>11, <1>13, <1>14, <1>15 DEF IInv

(* The bot's own JOIN and PART: the session tracks what the line says.     *)
LEMMA MoveStep ==
  ASSUME IInv, NEW k \in {"join", "part"}, Takes(k), NEW ch \in Targets, ch = work[1].ch,
         tracked' = [tracked EXCEPT ![cur] = IF k = "join" THEN @ \cup {ch} ELSE @ \ {ch}],
         UNCHANGED <<phase, cur, dialed, reader, timers, welcomed, held, channels, out, registered,
                     in, received, dispatched>>
  PROVE  IInv'
<1>1. /\ work' \in Seq(WorkLine) /\ cur \in Conns /\ work[1].kind = k
  BY TakeFacts
<1>2. tracked' \in [Conns -> SUBSET Targets]
      /\ tracked'[cur] = IF k = "join" THEN tracked[cur] \cup {ch} ELSE tracked[cur] \ {ch}
  BY <1>1 DEF IInv, TypeInv
<1>3. TypeInv'
  BY <1>1, <1>2 DEF IInv, TypeInv
<1>4. Lifeline' /\ NoStaleLine'
  <2>1. \A g \in Conns : g > dialed => ~welcomed'[g] /\ held'[g] = <<>>
    BY DEF IInv, Lifeline
  <2> QED BY <2>1, TakeLifeline
<1>5. Numbers'
  <2>1. \A g \in Conns : welcomed'[g] => held[g] = <<>>
    BY DEF IInv, Numbers
  <2> QED BY <2>1, TakeNumbers
<1>6. Served'
  <2>1. \A c : /\ Moves(1, c) /\ Joined(1) => c \in tracked'[cur]
               /\ ~Moves(1, c) /\ c \in tracked[cur] => c \in tracked'[cur]
    BY <1>1, <1>2 DEF Moves, Joined
  <2> QED BY <2>1, TakeServed
<1> QED BY <1>3, <1>4, <1>5, <1>6 DEF IInv

LEMMA HandleJoinStep ==
  ASSUME IInv, HandleJoin
  PROVE  IInv'
<1> PICK ch : ch = work[1].ch
  OBVIOUS
<1>1. /\ Takes("join") /\ tracked' = [tracked EXCEPT ![cur] = @ \cup {ch}] /\ ch \in Targets
      /\ UNCHANGED <<phase, cur, dialed, reader, timers, welcomed, held, channels, out, registered,
                     in, received, dispatched>>
  BY TakeFacts DEF HandleJoin, server, WorkLine
<1> QED BY <1>1, MoveStep

LEMMA HandlePartStep ==
  ASSUME IInv, HandlePart
  PROVE  IInv'
<1> PICK ch : ch = work[1].ch
  OBVIOUS
<1>1. /\ Takes("part") /\ tracked' = [tracked EXCEPT ![cur] = @ \ {ch}] /\ ch \in Targets
      /\ UNCHANGED <<phase, cur, dialed, reader, timers, welcomed, held, channels, out, registered,
                     in, received, dispatched>>
  BY TakeFacts DEF HandlePart, server, WorkLine
<1> QED BY <1>1, MoveStep

(* The report of the end is the last line there is.                        *)
LEMMA DisconnectedStep ==
  ASSUME IInv, Disconnected
  PROVE  IInv'
<1>1. /\ Takes("gone") /\ cur' = 0 /\ out' = <<>> /\ timers' = timers + 1
      /\ reader' = IF reader = cur THEN 0 ELSE reader
      /\ UNCHANGED <<phase, dialed, channels, dispatched, registered, in, received, sessions>>
  BY DEF Disconnected, Rescheduled, server
<1>2. Running /\ cur # 0 /\ 1 \in 1..Len(work) /\ work[1].kind = "gone" /\ work \in Seq(WorkLine)
  BY <1>1, TakeFacts DEF IInv, TypeInv
<1>3. reader = 0 /\ timers = 0 /\ Len(work) = 1
  BY <1>2 DEF IInv, Lifeline
<1>4. work' = <<>>
  <2>1. work' \in Seq(WorkLine) /\ Len(work') = 0
    BY <1>1, <1>3, TakeFacts
  <2> QED BY <2>1, EmptySeq
<1>5. TypeInv'
  BY <1>1, <1>3, <1>4 DEF IInv, TypeInv, sessions
<1>6. Lifeline' /\ NoStaleLine'
  BY <1>1, <1>2, <1>3, <1>4 DEF IInv, Lifeline, NoStaleLine, Running, sessions
<1>7. Numbers' /\ Served'
  BY <1>1 DEF IInv, Numbers, Served, Grow, Under, Running, sessions
<1> QED BY <1>5, <1>6, <1>7 DEF IInv

(* The JOINs of the first welcome, behind the commands still unanswered.   *)
LEMMA Joins ==
  ASSUME IInv, out' = out \o JoinCmds(channels), in' = in
  PROVE  out' \in Seq(Command) /\ \A c \in Range(channels) : Wanted(c)'
<1> PICK l : l = Len(out)
  OBVIOUS
<1> PICK js : js = JoinCmds(channels)
  OBVIOUS
<1>1. out \in Seq(Command) /\ l \in Nat /\ channels \in Seq(Channels) /\ Len(channels) \in Nat
  BY LenProperties DEF IInv, TypeInv
<1>2. js \in Seq(Command) /\ Len(js) = Len(channels)
      /\ \A i \in 1..Len(channels) : js[i] = Cmd("JOIN", channels[i])
  <2>1. \A i \in 1..Len(channels) : channels[i] \in Channels
    BY <1>1, ElementOfSeq
  <2>2. js \in [1..Len(channels) -> Command]
    BY <2>1 DEF JoinCmds, Cmd, Command, Targets
  <2>3. js \in Seq(Command)
    BY <2>2, <1>1, SeqDef
  <2>4. Len(js) = Len(channels)
    BY <2>2, <2>3, <1>1, LenProperties
  <2> QED BY <2>3, <2>4 DEF JoinCmds
<1>3. /\ out' \in Seq(Command) /\ Len(out') = l + Len(channels)
      /\ \A i \in 1..(l + Len(channels)) : out'[i] = IF i <= l THEN out[i] ELSE js[i - l]
  <2>1. out' = out \o js
    OBVIOUS
  <2>2. /\ out \o js \in Seq(Command) /\ Len(out \o js) = Len(out) + Len(js)
        /\ \A i \in 1..(Len(out) + Len(js)) :
              (out \o js)[i] = IF i <= Len(out) THEN out[i] ELSE js[i - Len(out)]
    <3>1. out \in Seq(Command) /\ js \in Seq(Command)
      BY <1>1, <1>2
    <3> QED BY <3>1, ConcatProperties
  <2> QED BY <2>1, <2>2, <1>2
<1>4. \A i \in 1..Len(channels) :
         l + i \in 1..Len(out') /\ out'[l + i] = Cmd("JOIN", channels[i])
  <2> TAKE i \in 1..Len(channels)
  <2>1. l + i \in 1..(l + Len(channels)) /\ ~(l + i <= l) /\ (l + i) - l = i
    BY <1>1
  <2>2. out'[l + i] = js[i]
    BY <2>1, <1>3
  <2> QED BY <2>1, <2>2, <1>2, <1>3
<1>5. ASSUME NEW c \in Range(channels) PROVE Wanted(c)'
  <2>1. PICK i \in 1..Len(channels) : channels[i] = c
    BY DEF Range
  <2>2. ASSUME NEW j \in 1..Len(out'), l < j PROVE out'[j] # Cmd("PART", c)
    <3>1. j - l \in 1..Len(channels) /\ l + (j - l) = j
      BY <2>2, <1>1, <1>3
    <3>2. PICK k \in 1..Len(channels) : k = j - l
      BY <3>1
    <3>3. out'[j] = Cmd("JOIN", channels[k])
      BY <3>1, <3>2, <1>4
    <3> QED BY <3>3 DEF Cmd
  <2>3. PICK k : k = l + i
    OBVIOUS
  <2>4. k \in 1..Len(out') /\ out'[k] = Cmd("JOIN", c)
    BY <2>1, <2>3, <1>4
  <2>5. \A j \in 1..Len(out') : k < j => l < j
    BY <2>3, <1>1, <1>3
  <2>6. NoPart(k, c)'
    BY <2>2, <2>5 DEF NoPart, Cmd
  <2> QED BY <2>4, <2>6 DEF Wanted, Cmd
<1> QED BY <1>3, <1>5

(* The held messages go out behind the dispatched ones.                    *)
LEMMA Replay ==
  ASSUME NEW s \in Seq(WorkLine), NEW t \in Seq(WorkLine), NEW n, Grow(s), Grow(t),
         Under(s, n), Under(t, n), \A i \in 1..Len(t) : Under(s, t[i].n)
  PROVE  s \o t \in Seq(WorkLine) /\ Grow(s \o t) /\ Under(s \o t, n)
<1> PICK u : u = s \o t
  OBVIOUS
<1>1. /\ Len(s) \in Nat /\ Len(t) \in Nat /\ u \in Seq(WorkLine) /\ Len(u) = Len(s) + Len(t)
      /\ \A i \in 1..(Len(s) + Len(t)) : u[i] = IF i <= Len(s) THEN s[i] ELSE t[i - Len(s)]
  BY ConcatProperties, LenProperties
<1>2. \A i \in 1..Len(u) :
         \/ i \in 1..Len(s) /\ u[i] = s[i]
         \/ i - Len(s) \in 1..Len(t) /\ u[i] = t[i - Len(s)] /\ i > Len(s)
  BY <1>1
<1>3. ASSUME NEW i \in 1..Len(u), NEW j \in 1..Len(u), i < j PROVE u[i].n < u[j].n
  <2>1. CASE i \in 1..Len(s) /\ j \in 1..Len(s)
    BY <2>1, <1>1, <1>3 DEF Grow
  <2>2. CASE i \in 1..Len(s) /\ j - Len(s) \in 1..Len(t) /\ j > Len(s)
    BY <2>2, <1>1 DEF Under
  <2>3. CASE i - Len(s) \in 1..Len(t) /\ i > Len(s) /\ j > Len(s)
    <3>1. j - Len(s) \in 1..Len(t) /\ i - Len(s) < j - Len(s)
      BY <2>3, <1>1, <1>3
    <3>2. u[i] = t[i - Len(s)] /\ u[j] = t[j - Len(s)]
      BY <2>3, <1>1
    <3> QED BY <2>3, <3>1, <3>2 DEF Grow
  <2> QED BY <2>1, <2>2, <2>3, <1>1, <1>3
<1>4. \A i \in 1..Len(u) : u[i].n < n
  BY <1>2 DEF Under
<1> QED BY <1>1, <1>3, <1>4 DEF Grow, Under

LEMMA HandleWelcomeStep ==
  ASSUME IInv, HandleWelcome
  PROVE  IInv'
<1>1. /\ Takes("welcome") /\ Head(work).conn = cur /\ cur \in Conns /\ cur # 0 /\ Running
      /\ work[1].kind = "welcome" /\ 1 \in 1..Len(work) /\ work' \in Seq(WorkLine)
      /\ UNCHANGED <<phase, cur, dialed, reader, timers, channels, registered, in, received>>
  BY TakeFacts DEF HandleWelcome, server
<1>2. welcomed' = [welcomed EXCEPT ![cur] = TRUE] /\ welcomed'[cur]
  BY <1>1 DEF HandleWelcome, IInv, TypeInv
<1>3. /\ dispatched \in Seq(WorkLine) /\ held \in [Conns -> Seq(WorkLine)] /\ received \in Nat
      /\ held[cur] \in Seq(WorkLine) /\ tracked \in [Conns -> SUBSET Targets]
      /\ welcomed' \in [Conns -> BOOLEAN]
  BY <1>1, <1>2 DEF IInv, TypeInv
<1>4. cur <= dialed /\ dialed \in Nat /\ \A g \in Conns : g > dialed => g # cur
  BY <1>1, TransportAssumption DEF IInv, TypeInv, Conns
<1>5. registered = "yes"
  BY <1>1 DEF IInv, Served
<1>6. CASE ~welcomed[cur]
  <2>1. /\ out' = out \o JoinCmds(channels) /\ dispatched' = dispatched \o held[cur]
        /\ tracked' = [tracked EXCEPT ![cur] = tracked[cur] \cup Range(channels)]
        /\ held' = [held EXCEPT ![cur] = <<>>]
    BY <1>1, <1>6 DEF HandleWelcome, Marked, Replayed, Unheld
  <2>2. out' \in Seq(Command) /\ \A c \in Range(channels) : Wanted(c)'
    BY <2>1, <1>1, Joins
  <2>3. tracked'[cur] = tracked[cur] \cup Range(channels) /\ tracked' \in [Conns -> SUBSET Targets]
    BY <2>1, <1>1, <1>3, ListType DEF Targets
  <2>4. /\ held' \in [Conns -> Seq(WorkLine)] /\ held'[cur] = <<>>
        /\ \A g \in Conns : g # cur => held'[g] = held[g] /\ welcomed'[g] = welcomed[g]
    BY <2>1, <1>1, <1>2, <1>3, EmptySeq DEF IInv, TypeInv
  <2>5. /\ Grow(dispatched) /\ Under(dispatched, received + 1) /\ Grow(held[cur])
        /\ Under(held[cur], received + 1)
        /\ \A i \in 1..Len(held[cur]) : Under(dispatched, held[cur][i].n)
        /\ WorkGrows /\ \A g \in Conns : welcomed[g] => held[g] = <<>>
    BY <1>1 DEF IInv, Numbers
  <2>6. /\ dispatched' \in Seq(WorkLine) /\ Grow(dispatched') /\ Under(dispatched', received + 1)
    BY <2>1, <2>5, <1>3, Replay
  <2>7. TypeInv'
    BY <2>2, <2>3, <2>4, <2>6, <1>1, <1>3 DEF IInv, TypeInv
  <2>8. Lifeline' /\ NoStaleLine'
    <3>1. \A g \in Conns : g > dialed => ~welcomed'[g] /\ held'[g] = <<>>
      BY <2>4, <1>4 DEF IInv, Lifeline
    <3> QED BY <3>1, <1>1, TakeLifeline
  <2>9. ASSUME NEW i \in 1..Len(work'), work'[i].kind = "msg"
        PROVE  /\ work'[i].n <= received /\ Under(dispatched', work'[i].n)
               /\ \A j \in 1..Len(work') :
                     j < i /\ work'[j].kind = "msg" => work'[j].n < work'[i].n
    <3>1. i + 1 \in 1..Len(work) /\ work'[i] = work[i + 1]
      BY <1>1, TakeFacts
    <3>2. \A j \in 1..Len(work') : j < i => /\ j + 1 \in 1..Len(work) /\ work'[j] = work[j + 1]
                                            /\ j + 1 < i + 1
      BY <1>1, TakeFacts
    <3>3. Under(dispatched, work'[i].n) /\ Under(held[cur], work'[i].n)
      BY <3>1, <2>5, <2>9 DEF WorkGrows
    <3>4. Under(dispatched', work'[i].n)
      BY <3>3, <2>1, <2>5, <1>3, Replay
    <3> QED BY <3>1, <3>2, <3>4, <2>5, <2>9 DEF WorkGrows
  <2>10. WorkGrows'
    BY <2>4, <2>9, <1>1 DEF WorkGrows, Under
  <2>11. Numbers'
    <3>1. \A g \in Conns : welcomed'[g] => held'[g] = <<>>
      BY <2>4, <2>5
    <3> QED BY <3>1, <2>4, <2>6, <2>10, <1>1 DEF Numbers, Grow, Under
  <2>12. Served'
    <3>1. Follows'
      BY <1>1, TakeFollows
    <3>2. Known'
      BY <2>3, <1>1 DEF Known
    <3> QED BY <3>1, <3>2, <2>2, <1>1, <1>5 DEF Served
  <2> QED BY <2>7, <2>8, <2>11, <2>12 DEF IInv
<1>7. CASE welcomed[cur]
  <2>1. UNCHANGED <<out, tracked, dispatched, held>>
    BY <1>1, <1>7 DEF HandleWelcome
  <2>2. welcomed' = welcomed
    BY <1>1, <1>2, <1>7 DEF IInv, TypeInv
  <2>3. TypeInv'
    BY <2>1, <2>2, <1>1 DEF IInv, TypeInv
  <2>4. Lifeline' /\ NoStaleLine'
    <3>1. \A g \in Conns : g > dialed => ~welcomed'[g] /\ held'[g] = <<>>
      BY <2>1, <2>2 DEF IInv, Lifeline
    <3> QED BY <3>1, <1>1, TakeLifeline
  <2>5. Numbers'
    <3>1. \A g \in Conns : welcomed'[g] => held[g] = <<>>
      BY <2>2 DEF IInv, Numbers
    <3> QED BY <3>1, <2>1, <1>1, TakeNumbers
  <2>6. Served'
    <3>1. \A c : ~Moves(1, c)
      BY <1>1 DEF Moves
    <3> QED BY <3>1, <2>1, <2>2, <1>1, TakeServed
  <2> QED BY <2>3, <2>4, <2>5, <2>6 DEF IInv
<1> QED BY <1>6, <1>7

(* One more command leaves a channel wanted, unless it parts it.           *)
LEMMA WantedAppend ==
  ASSUME IInv, NEW e \in Command, out' = Append(out, e), in' = in, NEW c, e # Cmd("PART", c)
  PROVE  out' \in Seq(Command) /\ (Wanted(c) \/ e = Cmd("JOIN", c) => Wanted(c)')
<1> PICK l : l = Len(out)
  OBVIOUS
<1>1. /\ l \in Nat /\ out' \in Seq(Command) /\ Len(out') = l + 1 /\ out'[l + 1] = e
      /\ \A i \in 1..l : out'[i] = out[i]
  <2>1. out \in Seq(Command)
    BY DEF IInv, TypeInv
  <2> QED BY <2>1, AppendProperties, LenProperties
<1>2. ASSUME NEW m \in Nat, NoPart(m, c) PROVE NoPart(m, c)'
  <2>1. \A j \in 1..(l + 1) : m < j => out'[j] # Cmd("PART", c)
    BY <1>1, <1>2 DEF NoPart
  <2> QED BY <2>1, <1>1 DEF NoPart, Cmd
<1>3. CASE c \in in /\ NoPart(0, c)
  BY <1>1, <1>2, <1>3 DEF Wanted
<1>4. ASSUME NEW i \in 1..l, out[i] = Cmd("JOIN", c), NoPart(i, c) PROVE Wanted(c)'
  <2>1. i \in 1..Len(out') /\ out'[i] = Cmd("JOIN", c) /\ NoPart(i, c)'
    BY <1>1, <1>2, <1>4
  <2> QED BY <2>1 DEF Wanted, Cmd
<1>5. CASE e = Cmd("JOIN", c)
  <2> PICK k : k = l + 1
    OBVIOUS
  <2>1. k \in 1..Len(out') /\ out'[k] = Cmd("JOIN", c)
    BY <1>1, <1>5
  <2>2. \A j \in 1..Len(out') : ~(k < j)
    BY <1>1
  <2>3. NoPart(k, c)'
    BY <2>2 DEF NoPart
  <2> QED BY <2>1, <2>3, <1>1 DEF Wanted, Cmd
<1> QED BY <1>1, <1>3, <1>4, <1>5 DEF Wanted

(* What the administrator's commands leave alone.                          *)
LEMMA AdminKeeps ==
  ASSUME IInv, UNCHANGED <<phase, work, cur, dialed, reader, timers, welcomed, held, dispatched, server>>
  PROVE  Lifeline' /\ NoStaleLine' /\ Numbers' /\ (Running /\ cur # 0 => Follows')
<1>1. Lifeline' /\ NoStaleLine'
  BY DEF IInv, Lifeline, NoStaleLine, Running
<1>2. Numbers'
  BY DEF IInv, Numbers, Grow, Under, WorkGrows, Running, server
<1>3. Running /\ cur # 0 => Follows'
  BY DEF IInv, Served, Follows, LastBefore, Moves, Joined, server
<1> QED BY <1>1, <1>2, <1>3

LEMMA AdminJoinStep ==
  ASSUME IInv, NEW ch \in Channels, AdminJoin(ch)
  PROVE  IInv'
<1>1. /\ UNCHANGED <<phase, work, cur, dialed, reader, timers, welcomed, held, dispatched, server>>
      /\ registered' = registered /\ in' = in /\ received' = received /\ Running
  BY DEF AdminJoin, server, Running
<1>2. channels' \in Seq(Channels) /\ Range(channels') = Range(channels) \cup {ch}
  <2>1. channels \in Seq(Channels)
    BY DEF IInv, TypeInv
  <2> QED BY <2>1, RangeAppend DEF AdminJoin, addChannel
<1>3. Lifeline' /\ NoStaleLine' /\ Numbers' /\ (cur # 0 => Follows')
  BY <1>1, AdminKeeps
<1>4. CASE cur # 0
  <2>1. cur \in Conns /\ ch \in Targets /\ tracked \in [Conns -> SUBSET Targets]
    BY <1>4, TransportAssumption DEF IInv, TypeInv, Conns, Targets
  <2>2. Range(<<ch>>) = {ch}
    BY DEF Range
  <2>3. /\ out' = Append(out, Cmd("JOIN", ch))
        /\ tracked' = [tracked EXCEPT ![cur] = tracked[cur] \cup {ch}]
    BY <2>2, <1>4 DEF AdminJoin, Marked
  <2>4. tracked' \in [Conns -> SUBSET Targets] /\ tracked'[cur] = tracked[cur] \cup {ch}
    BY <2>1, <2>3
  <2>5. Cmd("JOIN", ch) \in Command /\ \A c : Cmd("JOIN", ch) # Cmd("PART", c)
    BY <2>1 DEF Cmd, Command
  <2>6. out' \in Seq(Command) /\ \A c : Wanted(c) \/ c = ch => Wanted(c)'
    BY <2>3, <2>5, <1>1, WantedAppend
  <2>7. TypeInv'
    BY <2>4, <2>6, <1>1, <1>2 DEF IInv, TypeInv
  <2>8. Known => Known'
    BY <2>4, <1>1, <1>2 DEF Known, NoneBefore, Moves
  <2>9. Served'
    BY <2>6, <2>8, <1>1, <1>2, <1>3, <1>4 DEF IInv, Served
  <2> QED BY <2>7, <2>9, <1>3 DEF IInv
<1>5. CASE cur = 0
  <2>1. out' = out /\ tracked' = tracked
    BY <1>5 DEF AdminJoin
  <2>2. TypeInv'
    BY <2>1, <1>1, <1>2 DEF IInv, TypeInv
  <2>3. Served'
    BY <1>1, <1>5 DEF Served
  <2> QED BY <2>2, <2>3, <1>3 DEF IInv
<1> QED BY <1>4, <1>5

LEMMA AdminPartStep ==
  ASSUME IInv, NEW ch \in Channels, AdminPart(ch)
  PROVE  IInv'
<1>1. /\ UNCHANGED <<phase, work, cur, dialed, reader, timers, welcomed, held, dispatched, server>>
      /\ registered' = registered /\ in' = in /\ received' = received /\ tracked' = tracked /\ Running
  BY DEF AdminPart, server, sessions, Running
<1>2. channels' \in Seq(Channels) /\ Range(channels') = Range(channels) \ {ch}
  <2>1. channels \in Seq(Channels)
    BY DEF IInv, TypeInv
  <2> QED BY <2>1, RemoveFacts DEF AdminPart
<1>3. Lifeline' /\ NoStaleLine' /\ Numbers' /\ (cur # 0 => Follows')
  BY <1>1, AdminKeeps
<1>4. Known => Known'
  BY <1>1, <1>2 DEF Known, NoneBefore, Moves
<1>5. CASE cur # 0
  <2>1. out' = Append(out, Cmd("PART", ch))
    BY <1>5 DEF AdminPart
  <2>2. Cmd("PART", ch) \in Command /\ \A c : c # ch => Cmd("PART", ch) # Cmd("PART", c)
    BY DEF Cmd, Command, Targets
  <2>3. out' \in Seq(Command)
    <3>1. out \in Seq(Command)
      BY DEF IInv, TypeInv
    <3> QED BY <3>1, <2>1, <2>2, AppendProperties
  <2>4. \A c : c # ch /\ Wanted(c) => Wanted(c)'
    BY <2>1, <2>2, <1>1, WantedAppend
  <2>5. TypeInv'
    BY <2>3, <1>1, <1>2 DEF IInv, TypeInv
  <2>6. Served'
    BY <2>4, <1>1, <1>2, <1>3, <1>4, <1>5 DEF IInv, Served
  <2> QED BY <2>5, <2>6, <1>3 DEF IInv
<1>6. CASE cur = 0
  <2>1. out' = out
    BY <1>6 DEF AdminPart
  <2>2. TypeInv'
    BY <2>1, <1>1, <1>2 DEF IInv, TypeInv
  <2>3. Served'
    BY <1>1, <1>6 DEF Served
  <2> QED BY <2>2, <2>3, <1>3 DEF IInv
<1> QED BY <1>5, <1>6

LEMMA NextStep == IInv /\ [Next]_vars => IInv'
<1> SUFFICES ASSUME IInv, [Next]_vars PROVE IInv'
  OBVIOUS
<1>1. CASE UNCHANGED vars
  <2>1. TypeInv'
    BY <1>1 DEF IInv, TypeInv, vars
  <2>2. Lifeline' /\ NoStaleLine'
    BY <1>1 DEF IInv, Lifeline, NoStaleLine, Running, vars
  <2>3. Numbers'
    BY <1>1 DEF IInv, Numbers, Grow, Under, WorkGrows, Running, vars
  <2>4. Served'
    BY <1>1 DEF IInv, Served, Follows, LastBefore, Moves, Joined, Known, NoneBefore, Wanted,
                NoPart, Running, vars
  <2> QED BY <2>1, <2>2, <2>3, <2>4 DEF IInv
<1>2. CASE Next
  BY <1>2, ConnectStep, ConnectFailsStep, ServerUserStep, ServerWelcomeStep, ServerJoinPartStep,
     DiesStep, ServerMsgStep, AdminJoinStep, AdminPartStep, HandleMsgStep, HandleWelcomeStep,
     HandleJoinStep, HandlePartStep, DisconnectedStep, ShutdownStep DEF Next
<1> QED BY <1>1, <1>2

LEMMA InvInductive == Spec => []IInv
BY InitInv, NextStep, PTL DEF Spec

(***************************************************************************)
(* What follows                                                            *)
(***************************************************************************)
(* The bot hangs by exactly one thread while it runs (connect,             *)
(* disconnected, scheduleReconnect), for any number of connections.        *)
THEOREM TransportOneLifeline == Spec => []OneLifeline
<1>1. IInv => OneLifeline
  <2> SUFFICES ASSUME IInv, phase = "run" PROVE OneLifeline
    BY DEF OneLifeline
  <2>1. CASE \A i \in 1..Len(work) : work[i].kind # "gone"
    BY <2>1 DEF IInv, Lifeline, Running, OneLifeline, Gone
  <2>2. CASE work = <<>>
    BY <2>2 DEF IInv, Lifeline, Running, OneLifeline, Gone
  <2>3. CASE /\ reader = 0 /\ cur # 0 /\ timers = 0 /\ work # <<>>
             /\ \A i \in 1..Len(work) : work[i].kind = "gone" <=> i = Len(work)
    <3>1. Len(work) \in 1..Len(work)
      BY <2>3, EmptySeq, LenProperties DEF IInv, TypeInv
    <3>2. Gone = {Len(work)}
      BY <2>3, <3>1 DEF Gone
    <3> QED BY <2>3, <3>1, <3>2 DEF OneLifeline
  <2> QED BY <2>1, <2>2, <2>3 DEF IInv, Lifeline, Running
<1> QED BY <1>1, InvInductive, PTL

(* No line reaches a session it is not of, and messages are dispatched in  *)
(* the order they arrived, the held ones too (Emit, the hold of connect).  *)
THEOREM TransportOrderly == Spec => []Orderly
<1>1. IInv => Orderly
  <2> SUFFICES ASSUME IInv PROVE Orderly
    OBVIOUS
  <2>1. ASSUME NEW i \in 1..(Len(dispatched) - 1) PROVE dispatched[i].n < dispatched[i + 1].n
    <3>1. i \in 1..Len(dispatched) /\ i + 1 \in 1..Len(dispatched) /\ i < i + 1
      BY LenProperties DEF IInv, TypeInv
    <3> QED BY <3>1 DEF IInv, Numbers, Grow
  <2> QED BY <2>1 DEF IInv, Orderly, InOrder, Numbers
<1> QED BY <1>1, InvInductive, PTL

(* When all is answered and handled the bot is in every channel of its     *)
(* list and knows it, whatever was joined and parted meanwhile             *)
(* (JoinChannels, the commands join and part).                             *)
THEOREM TransportAutojoinHolds == Spec => []AutojoinHolds
<1>1. IInv => AutojoinHolds
  <2> SUFFICES ASSUME IInv, phase = "run", reader # 0, welcomed[cur], work = <<>>, out = <<>>,
                      NEW c \in Range(channels)
               PROVE  c \in tracked[cur] /\ c \in in
    BY DEF AutojoinHolds
  <2>1. cur # 0 /\ Known /\ Wanted(c)
    BY DEF IInv, Lifeline, Served, Running
  <2>2. c \in in
    BY <2>1 DEF Wanted
  <2>3. NoneBefore(Len(work) + 1, c)
    BY DEF NoneBefore
  <2> QED BY <2>1, <2>2, <2>3 DEF Known
<1> QED BY <1>1, InvInductive, PTL

(* A message of a channel of the list is dispatched only when replies to   *)
(* that channel get through (privmsg).                                     *)
THEOREM TransportAnswerable == Spec => Answerable
<1>1. IInv /\ [Next]_vars =>
        [\A ch \in Channels :
           /\ ch \in Range(channels)
           /\ \E i \in (Len(dispatched) + 1)..Len(dispatched') : dispatched'[i].ch = ch
           => Speaks(ch)']_vars
  <2> SUFFICES ASSUME IInv, Next, NEW ch \in Channels, ch \in Range(channels),
                      NEW i \in (Len(dispatched) + 1)..Len(dispatched'), dispatched'[i].ch = ch
               PROVE  Speaks(ch)'
    OBVIOUS
  <2>1. dispatched \in Seq(WorkLine) /\ Len(dispatched) \in Nat /\ dispatched' # dispatched
    BY LenProperties DEF IInv, TypeInv
  <2>2. CASE HandleMsg
    <3>1. Takes("msg") /\ work[1].conn = cur /\ cur # 0 /\ Running /\ Head(work) = work[1]
          /\ 1 \in 1..Len(work) /\ work[1] \in WorkLine /\ work[1].kind = "msg"
      BY <2>2, TakeFacts DEF HandleMsg
    <3>2. dispatched' = Append(dispatched, work[1]) /\ welcomed[cur]
      BY <2>1, <2>2, <3>1 DEF HandleMsg, Dispatches
    <3>3. work[1].ch = ch
      BY <2>1, <3>1, <3>2, AppendProperties
    <3>4. Known /\ NoneBefore(1, ch)
      BY <3>1, <3>2 DEF IInv, Served, NoneBefore
    <3>5. ch \in tracked[cur]
      BY <3>1, <3>3, <3>4 DEF Known
    <3> QED BY <2>2, <3>1, <3>2, <3>5 DEF Speaks, HandleMsg
  <2>3. CASE HandleWelcome
    <3>1. Head(work).conn = cur /\ cur # 0 /\ cur \in Conns /\ cur' = cur
      BY <2>3, TakeFacts DEF HandleWelcome
    <3>2. /\ welcomed' = [welcomed EXCEPT ![cur] = TRUE]
          /\ tracked' = [tracked EXCEPT ![cur] = tracked[cur] \cup Range(channels)]
      BY <2>1, <2>3, <3>1 DEF HandleWelcome, Marked
    <3> QED BY <3>1, <3>2 DEF Speaks, IInv, TypeInv
  <2>4. CASE dispatched' = dispatched
    BY <2>1, <2>4
  <2> QED BY <2>2, <2>3, <2>4 DEF Next, ConnectOK, ConnectFails, ServerUser, ServerWelcome,
             ServerJoinPart, ConnectionDies, ServerMsg, AdminJoin, AdminPart, HandleJoin,
             HandlePart, Disconnected, Shutdown
<1> QED BY <1>1, InvInductive, PTL DEF Spec, Answerable
=============================================================================
