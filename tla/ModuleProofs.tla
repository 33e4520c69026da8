---------------------------- MODULE ModuleProofs ----------------------------
(***************************************************************************)
(* The bus, and the modules that run on it, each proved on its own and for *)
(* any constants: these as the instances of MCBus, and last what that says *)
(* of the run.                                                             *)
(***************************************************************************)
EXTENDS MCBus, Lemmas, FiniteSetTheorems, FunctionTheorems, SequenceTheorems,
        WellFoundedInduction, TLAPS

(***************************************************************************)
(* The bus (internal/bus/bus.go): what it guarantees for any modules and   *)
(* events and any nesting of Submit, whatever handlers do.                 *)
(***************************************************************************)
(* Only the innermost Submit is between two handlers. *)
OnlyTopLoops == \A i \in 1..Depth : stack[i].running = Nobody => i = Depth

IInv == TypeOK /\ ChainExact /\ OnlyTopLoops /\ NobodySkipped /\ OncePerSubmit

-----------------------------------------------------------------------------
(* The three ways a step changes the call stack. *)
LEMMA PushFrame ==
  ASSUME NEW s \in Seq(Frames), NEW f \in Frames
  PROVE  /\ Append(s, f) \in Seq(Frames)
         /\ Len(Append(s, f)) = Len(s) + 1
         /\ \A i \in 1..Len(s) : Append(s, f)[i] = s[i]
         /\ Append(s, f)[Len(s) + 1] = f
  BY AppendProperties

LEMMA ReplaceTop ==
  ASSUME NEW s \in Seq(Frames), NEW f \in Frames, s # <<>>
  PROVE  /\ [s EXCEPT ![Len(s)] = f] \in Seq(Frames)
         /\ Len([s EXCEPT ![Len(s)] = f]) = Len(s)
         /\ \A i \in 1..(Len(s) - 1) : [s EXCEPT ![Len(s)] = f][i] = s[i]
         /\ [s EXCEPT ![Len(s)] = f][Len(s)] = f
<1>1. Len(s) \in 1..Len(s)
  BY EmptySeq, LenProperties
<1>2. QED BY <1>1, ExceptSeq, LenProperties

LEMMA PopFrame ==
  ASSUME NEW s \in Seq(Frames), s # <<>>
  PROVE  /\ SubSeq(s, 1, Len(s) - 1) \in Seq(Frames)
         /\ Len(SubSeq(s, 1, Len(s) - 1)) = Len(s) - 1
         /\ \A i \in 1..(Len(s) - 1) : SubSeq(s, 1, Len(s) - 1)[i] = s[i]
<1>1. Len(s) \in Nat \ {0}
  BY EmptySeq, LenProperties
<1> DEFINE n == Len(s) - 1
           t == SubSeq(s, 1, n)
<1>2. n \in Nat /\ \A i \in 1..n : s[i] \in Frames
  BY <1>1, ElementOfSeq
<1> HIDE DEF n
<1>3. /\ t \in Seq(Frames)
      /\ Len(t) = IF 1 <= n THEN n - 1 + 1 ELSE 0
      /\ \A i \in 1..(n - 1 + 1) : t[i] = s[1 + i - 1]
  BY <1>2, SubSeqProperties
<1> HIDE DEF t
<1>4. Len(t) = n /\ \A i \in 1..n : t[i] = s[i]
  BY <1>2, <1>3
<1>5. QED BY <1>3, <1>4 DEF n, t

(* The rest of a range loop over distinct modules. *)
LEMMA TailFacts ==
  ASSUME NEW s \in Seq(Modules), s # <<>>
  PROVE  /\ Head(s) \in Modules /\ Tail(s) \in Seq(Modules)
         /\ Range(s) = {Head(s)} \cup Range(Tail(s))
         /\ IsInjective(s) => IsInjective(Tail(s)) /\ Head(s) \notin Range(Tail(s))
<1>1. /\ Len(s) \in Nat \ {0}
      /\ Head(s) = s[1] /\ Tail(s) \in Seq(Modules) /\ Len(Tail(s)) = Len(s) - 1
      /\ \A i \in 1..Len(Tail(s)) : Tail(s)[i] = s[i + 1]
  BY HeadTailProperties, EmptySeq, LenProperties
<1>2. /\ DOMAIN s = 1..Len(s) /\ DOMAIN Tail(s) = 1..(Len(s) - 1)
  BY <1>1, LenProperties
<1>3. Head(s) \in Modules
  BY <1>1, ElementOfSeq
<1>4. Range(s) = {Head(s)} \cup Range(Tail(s))
  <2>1. ASSUME NEW z \in Range(s) PROVE z = Head(s) \/ z \in Range(Tail(s))
    <3>1. PICK i \in 1..Len(s) : z = s[i]
      BY <1>2 DEF Range
    <3>2. CASE i = 1
      BY <3>1, <3>2, <1>1
    <3>3. CASE i # 1
      <4>1. i - 1 \in 1..(Len(s) - 1) /\ Tail(s)[i - 1] = s[i]
        BY <1>1, <3>3
      <4>2. QED BY <4>1, <3>1, <1>2 DEF Range
    <3>4. QED BY <3>2, <3>3
  <2>2. Head(s) \in Range(s)
    BY <1>1, <1>2 DEF Range
  <2>3. ASSUME NEW z \in Range(Tail(s)) PROVE z \in Range(s)
    <3>1. PICK i \in 1..(Len(s) - 1) : z = Tail(s)[i]
      BY <1>2 DEF Range
    <3>2. i + 1 \in 1..Len(s) /\ z = s[i + 1]
      BY <1>1, <3>1
    <3>3. QED BY <3>2, <1>2 DEF Range
  <2>4. QED BY <2>1, <2>2, <2>3
<1>5. ASSUME IsInjective(s) PROVE IsInjective(Tail(s)) /\ Head(s) \notin Range(Tail(s))
  <2>1. \A i, j \in 1..Len(s) : s[i] = s[j] => i = j
    BY <1>5, <1>2 DEF IsInjective
  <2>2. ASSUME NEW i \in 1..(Len(s) - 1), NEW j \in 1..(Len(s) - 1), Tail(s)[i] = Tail(s)[j]
        PROVE  i = j
    <3>1. i + 1 \in 1..Len(s) /\ j + 1 \in 1..Len(s) /\ s[i + 1] = s[j + 1]
      BY <1>1, <2>2
    <3>2. i + 1 = j + 1
      BY <3>1, <2>1
    <3>3. QED BY <3>2
  <2>3. ASSUME NEW i \in 1..(Len(s) - 1), Tail(s)[i] = Head(s) PROVE FALSE
    <3>1. i + 1 \in 1..Len(s) /\ s[i + 1] = s[1] /\ 1 \in 1..Len(s)
      BY <1>1, <2>3
    <3>2. i + 1 = 1
      BY <3>1, <2>1
    <3>3. QED BY <3>2
  <2>4. QED BY <2>2, <2>3, <1>2 DEF IsInjective, Range
<1>6. QED BY <1>1, <1>3, <1>4, <1>5

(* RegisterHook keeps a list of distinct modules one. *)
LEMMA WithHookFacts ==
  ASSUME NEW s \in Seq(Modules), NEW m \in Modules, IsInjective(s)
  PROVE  WithHook(m, s) \in Seq(Modules) /\ IsInjective(WithHook(m, s))
<1>1. CASE m \in Range(s)
  BY <1>1 DEF WithHook
<1>2. CASE m \notin Range(s)
  <2>1. /\ Append(s, m) \in Seq(Modules) /\ DOMAIN Append(s, m) = 1..(Len(s) + 1)
        /\ DOMAIN s = 1..Len(s) /\ Len(s) \in Nat
        /\ \A i \in 1..Len(s) : Append(s, m)[i] = s[i]
        /\ Append(s, m)[Len(s) + 1] = m
    BY AppendProperties, LenProperties
  <2>2. \A i \in 1..Len(s) : s[i] # m
    BY <1>2, <2>1 DEF Range
  <2>3. ASSUME NEW i \in 1..(Len(s) + 1), NEW j \in 1..(Len(s) + 1),
               Append(s, m)[i] = Append(s, m)[j]
        PROVE  i = j
    <3>1. CASE i \in 1..Len(s) /\ j \in 1..Len(s)
      BY <3>1, <2>1, <2>3 DEF IsInjective
    <3>2. CASE i = Len(s) + 1 \/ j = Len(s) + 1
      BY <3>2, <2>1, <2>2, <2>3
    <3>3. QED BY <3>1, <3>2, <2>1
  <2>4. QED BY <1>2, <2>1, <2>3 DEF WithHook, IsInjective
<1>3. QED BY <1>1, <1>2

(* UnregisterModule keeps a list of distinct modules one. *)
LEMMA WithoutFacts ==
  ASSUME NEW s \in Seq(Modules), NEW m \in Modules, IsInjective(s)
  PROVE  Without(m, s) \in Seq(Modules) /\ IsInjective(Without(m, s))
<1>1. CASE m \notin Range(s)
  BY <1>1 DEF Without
<1>2. CASE m \in Range(s)
  <2> DEFINE k == CHOOSE i \in DOMAIN s : s[i] = m
             t == [i \in 1..(Len(s) - 1) |-> IF i < k THEN s[i] ELSE s[i + 1]]
  <2>1. /\ DOMAIN s = 1..Len(s) /\ Len(s) \in Nat
        /\ \A i \in 1..Len(s) : s[i] \in Modules
    BY LenProperties, ElementOfSeq
  <2>2. k \in 1..Len(s)
    BY <1>2, <2>1 DEF Range
  <2> HIDE DEF k
  <2>3. \A i \in 1..(Len(s) - 1) : t[i] \in Modules
    BY <2>1, <2>2
  <2>4. t \in Seq(Modules)
    BY <2>1, <2>2, <2>3, IsASeq
  <2>5. \A i, j \in 1..Len(s) : s[i] = s[j] => i = j
    BY <2>1 DEF IsInjective
  <2>6. ASSUME NEW i \in 1..(Len(s) - 1), NEW j \in 1..(Len(s) - 1), t[i] = t[j]
        PROVE  i = j
    BY <2>1, <2>2, <2>5, <2>6
  <2>7. IsInjective(t)
    BY <2>6 DEF IsInjective
  <2>8. Without(m, s) = t
    BY <1>2 DEF Without, k
  <2>9. QED BY <2>4, <2>7, <2>8
<1>3. QED BY <1>1, <1>2

-----------------------------------------------------------------------------
LEMMA InitIInv == Init => IInv
  BY BusAssumption, EmptySeq
     DEF Init, IInv, TypeOK, ChainExact, OnlyTopLoops, NobodySkipped, OncePerSubmit,
         Depth, IsInjective

(* The innermost frame while the bus runs. *)
LEMMA TopFacts ==
  ASSUME TypeOK, ~Idle
  PROVE  Depth \in Nat \ {0} /\ Top \in Frames
  BY EmptySeq, LenProperties, ElementOfSeq DEF TypeOK, Idle, Depth, Top

LEMMA TypeOKStep == TypeOK /\ OncePerSubmit /\ [Next]_vars => TypeOK'
<1> SUFFICES ASSUME TypeOK, OncePerSubmit, [Next]_vars PROVE TypeOK'
  OBVIOUS
<1> USE BusAssumption DEF TypeOK
<1>1. ASSUME NEW e \in Events, RegisterEvent(e) PROVE TypeOK'
  BY <1>1 DEF RegisterEvent
<1>2. ASSUME NEW e \in Events, Submit(e) PROVE TypeOK'
  <2> DEFINE f == [event |-> e, todo |-> hooks[e], hooked |-> Range(hooks[e]),
                   called |-> {}, running |-> Nobody]
  <2>1. hooks[e] \in Seq(Modules) /\ Range(hooks[e]) \subseteq Modules
    BY ElementOfSeq, LenProperties DEF Range
  <2>2. f \in Frames
    BY <2>1 DEF Frames
  <2> HIDE DEF f
  <2>3. stack' \in Seq(Frames)
    BY <1>2, <2>2, PushFrame DEF Submit, f
  <2>4. submits' \in 0..MaxSubmits
    BY <1>2 DEF Submit
  <2>5. QED BY <1>2, <2>3, <2>4 DEF Submit
<1>3. ASSUME NEW m \in Modules, NEW e \in Events, RegisterHook(m, e) PROVE TypeOK'
  <2>1. WithHook(m, hooks[e]) \in Seq(Modules)
    BY WithHookFacts DEF OncePerSubmit
  <2>2. hooks' \in [Events -> Seq(Modules)]
    BY <1>3, <2>1 DEF RegisterHook
  <2>3. QED BY <1>3, <2>2 DEF RegisterHook
<1>4. ASSUME NEW m \in Modules PROVE Unhooked(m) \in [Events -> Seq(Modules)]
  BY WithoutFacts DEF Unhooked, OncePerSubmit
<1>5. ASSUME NEW m \in Modules, UnregisterModule(m) PROVE TypeOK'
  BY <1>4, <1>5 DEF UnregisterModule
<1>6. ASSUME ~Idle, NEW f \in Frames, stack' = WithTop(f) PROVE stack' \in Seq(Frames)
  BY <1>6, ReplaceTop DEF Idle, WithTop, Depth
<1>7. ASSUME ~Idle, stack' = SubSeq(stack, 1, Depth - 1) PROVE stack' \in Seq(Frames)
  BY <1>7, PopFrame DEF Idle, Depth
<1>8. ASSUME ~Idle PROVE [Top EXCEPT !.running = Nobody] \in Frames
  BY <1>8, TopFacts DEF Frames
<1>9. ASSUME ~Idle, Top.todo # <<>>
      PROVE  /\ Head(Top.todo) \in Modules /\ Tail(Top.todo) \in Seq(Modules)
             /\ Top.event \in Events
  BY <1>9, TopFacts, TailFacts DEF Frames
<1>10. ASSUME Refuse PROVE TypeOK'
  <2>1. [Top EXCEPT !.todo = Rest] \in Frames
    BY <1>9, <1>10, TopFacts DEF Refuse, HasNext, InLoop, Rest, Frames
  <2>2. QED BY <1>6, <1>10, <2>1 DEF Refuse, HasNext, InLoop
<1>11. ASSUME Call PROVE TypeOK'
  <2>1. [Top EXCEPT !.todo = Tail(Top.todo), !.running = Head(Top.todo),
                    !.called = Top.called \cup {Head(Top.todo)}] \in Frames
    BY <1>9, <1>11, TopFacts DEF Call, HasNext, InLoop, Frames
  <2>2. stack' \in Seq(Frames)
    BY <1>6, <1>11, <2>1 DEF Call, HasNext, InLoop
  <2>3. chain' \subseteq Modules \X Events
    BY <1>9, <1>11 DEF Call, HasNext, InLoop, Id
  <2>4. QED BY <1>11, <2>2, <2>3 DEF Call
<1>12. ASSUME Return PROVE TypeOK'
  BY <1>6, <1>8, <1>12 DEF Return, HandlerRuns, ChainAfter
<1>13. ASSUME ReturnStop PROVE TypeOK'
  BY <1>7, <1>13 DEF ReturnStop, HandlerRuns, ChainAfter
<1>14. ASSUME Panic PROVE TypeOK'
  <2>1. Top.running \in Modules
    BY <1>14, TopFacts DEF Panic, HandlerRuns, Frames
  <2>2. stack' \in Seq(Frames)
    BY <1>6, <1>8, <1>14 DEF Panic, HandlerRuns
  <2>3. QED BY <1>4, <1>14, <2>1, <2>2 DEF Panic, ChainAfter
<1>15. ASSUME Done PROVE TypeOK'
  BY <1>7, <1>15 DEF Done, InLoop
<1>16. ASSUME UNCHANGED vars PROVE TypeOK'
  BY <1>16 DEF vars
<1>17. QED
  BY <1>1, <1>2, <1>3, <1>5, <1>10, <1>11, <1>12, <1>13, <1>14, <1>15, <1>16 DEF Next

(* How each kind of step changes the frames, one index at a time. *)
LEMMA SubmitShape ==
  ASSUME TypeOK, NEW e \in Events, Submit(e)
  PROVE  /\ Depth \in Nat /\ Depth' = Depth + 1
         /\ \A i \in 1..Depth : stack'[i] = stack[i]
         /\ stack'[Depth + 1].running = Nobody
         /\ stack'[Depth + 1].todo = hooks[e]
         /\ stack'[Depth + 1].hooked = Range(hooks[e])
         /\ stack'[Depth + 1].called = {}
<1> DEFINE f == [event |-> e, todo |-> hooks[e], hooked |-> Range(hooks[e]),
                 called |-> {}, running |-> Nobody]
<1>1. hooks[e] \in Seq(Modules) /\ Range(hooks[e]) \subseteq Modules
  BY ElementOfSeq, LenProperties DEF Range, TypeOK
<1>2. f \in Frames /\ stack' = Append(stack, f)
  BY <1>1 DEF Frames, Submit
<1>3. f.running = Nobody /\ f.todo = hooks[e] /\ f.hooked = Range(hooks[e]) /\ f.called = {}
  OBVIOUS
<1> HIDE DEF f
<1>4. /\ Depth \in Nat /\ Depth' = Depth + 1
      /\ \A i \in 1..Depth : stack'[i] = stack[i]
      /\ stack'[Depth + 1] = f
  BY <1>2, PushFrame, LenProperties DEF TypeOK, Depth
<1>5. QED BY <1>3, <1>4

LEMMA TopShape ==
  ASSUME TypeOK, ~Idle, NEW f \in Frames, stack' = WithTop(f)
  PROVE  /\ Depth \in Nat \ {0} /\ Depth' = Depth
         /\ \A i \in 1..(Depth - 1) : stack'[i] = stack[i]
         /\ stack'[Depth] = f
  BY TopFacts, ReplaceTop DEF TypeOK, Depth, WithTop, Idle

LEMMA PopShape ==
  ASSUME TypeOK, ~Idle, stack' = SubSeq(stack, 1, Depth - 1)
  PROVE  /\ Depth \in Nat \ {0} /\ Depth' = Depth - 1
         /\ \A i \in 1..(Depth - 1) : stack'[i] = stack[i]
  BY TopFacts, PopFrame DEF TypeOK, Depth, Idle

LEMMA RefuseShape ==
  ASSUME TypeOK, Refuse
  PROVE  /\ Depth \in Nat \ {0} /\ Depth' = Depth /\ Top.todo # <<>>
         /\ \A i \in 1..(Depth - 1) : stack'[i] = stack[i]
         /\ stack'[Depth] = [stack[Depth] EXCEPT !.todo = Tail(stack[Depth].todo)]
         /\ stack[Depth] \in Frames
<1>1. [Top EXCEPT !.todo = Rest] \in Frames /\ ~Idle
  BY TopFacts, TailFacts DEF Refuse, HasNext, InLoop, Rest, Frames
<1>2. QED BY <1>1, TopShape, TopFacts DEF Refuse, Top, Rest, HasNext

LEMMA CallShape ==
  ASSUME TypeOK, Call
  PROVE  /\ Depth \in Nat \ {0} /\ Depth' = Depth /\ Top.todo # <<>>
         /\ \A i \in 1..(Depth - 1) : stack'[i] = stack[i]
         /\ stack'[Depth] = [stack[Depth] EXCEPT
                               !.todo = Tail(stack[Depth].todo),
                               !.running = Head(stack[Depth].todo),
                               !.called = stack[Depth].called \cup {Head(stack[Depth].todo)}]
         /\ stack[Depth] \in Frames
<1>1. /\ [Top EXCEPT !.todo = Tail(Top.todo), !.running = Head(Top.todo),
                     !.called = Top.called \cup {Head(Top.todo)}] \in Frames
      /\ ~Idle
  <2>1. ~Idle /\ Top \in Frames /\ Top.todo # <<>>
    BY TopFacts DEF Call, HasNext, InLoop
  <2>2. Head(Top.todo) \in Modules /\ Tail(Top.todo) \in Seq(Modules)
    BY <2>1, TailFacts DEF Frames
  <2>3. QED BY <2>1, <2>2 DEF Frames
<1>2. QED BY <1>1, TopShape, TopFacts DEF Call, Top, HasNext

LEMMA ReturnShape ==
  ASSUME TypeOK, Return \/ Panic
  PROVE  /\ Depth \in Nat \ {0} /\ Depth' = Depth
         /\ \A i \in 1..(Depth - 1) : stack'[i] = stack[i]
         /\ stack'[Depth] = [stack[Depth] EXCEPT !.running = Nobody]
         /\ stack[Depth] \in Frames /\ stack[Depth].running # Nobody
         /\ chain' = chain \ {<<stack[Depth].running, stack[Depth].event>>}
<1>1. [Top EXCEPT !.running = Nobody] \in Frames /\ ~Idle
  BY TopFacts DEF Return, Panic, HandlerRuns, Frames
<1>2. QED BY <1>1, TopShape, TopFacts DEF Return, Panic, HandlerRuns, Top, ChainAfter

-----------------------------------------------------------------------------
LEMMA ChainStep ==
  ASSUME TypeOK, ChainExact, OnlyTopLoops, Next
  PROVE  ChainExact' /\ OnlyTopLoops'
<1> USE DEF ChainExact, OnlyTopLoops
<1>1. ASSUME UNCHANGED <<stack, chain>> PROVE ChainExact' /\ OnlyTopLoops'
  BY <1>1 DEF Depth
<1>2. ASSUME NEW e \in Events, Submit(e) PROVE ChainExact' /\ OnlyTopLoops'
  <2>1. chain' = chain
    BY <1>2 DEF Submit
  <2>2. \A i \in 1..Depth : stack[i].running # Nobody
    BY <1>2, SubmitShape DEF Submit, CallerRuns, Idle, Top, Depth
  <2>0. /\ Depth \in Nat /\ Depth' = Depth + 1
        /\ \A i \in 1..Depth : stack'[i] = stack[i]
        /\ stack'[Depth + 1].running = Nobody
    BY <1>2, SubmitShape
  <2>3. \A i \in 1..Depth' : i \in 1..Depth \/ (i = Depth + 1 /\ stack'[i].running = Nobody)
    BY <2>0
  <2>4. \A i \in 1..Depth : i \in 1..Depth' /\ stack'[i] = stack[i]
    BY <2>0
  <2>5. OnlyTopLoops'
    BY <2>0, <2>2, <2>3, <2>4
  <2>6. ChainExact'
    BY <2>1, <2>3, <2>4
  <2>7. QED BY <2>5, <2>6
<1>3. ASSUME Refuse PROVE ChainExact' /\ OnlyTopLoops'
  <2>1. chain' = chain /\ Depth' = Depth
    BY <1>3, RefuseShape DEF Refuse
  <2>2. \A i \in 1..Depth : stack'[i].running = stack[i].running /\ stack'[i].event = stack[i].event
    BY <1>3, RefuseShape DEF Frames
  <2>3. QED BY <2>1, <2>2
<1>4. ASSUME Call PROVE ChainExact' /\ OnlyTopLoops'
  <2> DEFINE m == Head(stack[Depth].todo)
             e == stack[Depth].event
  <2>1. /\ Depth \in Nat \ {0} /\ Depth' = Depth
        /\ \A i \in 1..(Depth - 1) : stack'[i] = stack[i]
        /\ stack'[Depth].running = m /\ stack'[Depth].event = e
    BY <1>4, CallShape DEF Frames
  <2>2. /\ chain' = chain \cup {<<m, e>>} /\ <<m, e>> \notin chain
        /\ stack[Depth].running = Nobody
    BY <1>4 DEF Call, HasNext, InLoop, OnChain, Id, Top
  <2>3. m # Nobody
    BY <1>4, CallShape, TailFacts, BusAssumption DEF Frames, Top
  <2> HIDE DEF m, e
  <2>4. \A i \in 1..Depth : i # Depth => stack'[i] = stack[i] /\ stack[i].running # Nobody
    BY <2>1
  <2>5. OnlyTopLoops'
    BY <2>1, <2>3, <2>4
  <2>6. \A i \in 1..Depth' : stack'[i].running # Nobody
                             => <<stack'[i].running, stack'[i].event>> \in chain'
    BY <2>1, <2>2, <2>4
  <2>7. ASSUME NEW id \in chain'
        PROVE  \E i \in 1..Depth' : stack'[i].running = id[1] /\ stack'[i].event = id[2]
    <3>1. CASE id = <<m, e>>
      BY <3>1, <2>1
    <3>2. CASE id \in chain
      <4>0. id \in Modules \X Events
        BY <3>2 DEF TypeOK
      <4>1. PICK i \in 1..Depth : stack[i].running = id[1] /\ stack[i].event = id[2]
        BY <3>2
      <4>2. i # Depth
        BY <2>2, <4>0, <4>1, BusAssumption
      <4>3. QED BY <2>1, <2>4, <4>1, <4>2
    <3>3. QED BY <3>1, <3>2, <2>2
  <2>8. ASSUME NEW i \in 1..Depth', NEW j \in 1..Depth', stack'[i].running # Nobody,
               stack'[i].running = stack'[j].running, stack'[i].event = stack'[j].event
        PROVE  i = j
    <3>1. CASE i # Depth /\ j # Depth
      BY <2>1, <2>4, <2>8, <3>1
    <3>2. CASE i = Depth /\ j # Depth
      BY <2>1, <2>2, <2>4, <2>8, <3>2
    <3>3. CASE i # Depth /\ j = Depth
      BY <2>1, <2>2, <2>4, <2>8, <3>3
    <3>4. QED BY <3>1, <3>2, <3>3
  <2>9. QED BY <2>5, <2>6, <2>7, <2>8
<1>5. ASSUME Return \/ Panic PROVE ChainExact' /\ OnlyTopLoops'
  <2>1. /\ Depth \in Nat \ {0} /\ Depth' = Depth
        /\ \A i \in 1..(Depth - 1) : stack'[i] = stack[i]
        /\ stack'[Depth].running = Nobody
        /\ stack[Depth].running # Nobody
        /\ chain' = chain \ {<<stack[Depth].running, stack[Depth].event>>}
    BY <1>5, ReturnShape DEF Frames
  <2>2. \A i \in 1..Depth : i # Depth => stack'[i] = stack[i] /\ stack[i].running # Nobody
    BY <2>1
  <2>3. OnlyTopLoops'
    BY <2>1, <2>2
  <2>4. \A i \in 1..Depth' : stack'[i].running # Nobody
                             => <<stack'[i].running, stack'[i].event>> \in chain'
    BY <2>1, <2>2
  <2>5. ASSUME NEW id \in chain'
        PROVE  \E i \in 1..Depth' : stack'[i].running = id[1] /\ stack'[i].event = id[2]
    <3>1. id \in Modules \X Events /\ id \in chain
      BY <2>1 DEF TypeOK
    <3>2. PICK i \in 1..Depth : stack[i].running = id[1] /\ stack[i].event = id[2]
      BY <3>1
    <3>3. id = <<id[1], id[2]>>
      BY <3>1
    <3>4. i # Depth
      BY <2>1, <2>5, <3>2, <3>3
    <3>5. QED BY <2>1, <2>2, <3>2, <3>4
  <2>6. \A i, j \in 1..Depth' :
          stack'[i].running # Nobody /\ stack'[i].running = stack'[j].running
          /\ stack'[i].event = stack'[j].event => i = j
    BY <2>1, <2>2
  <2>7. QED BY <2>3, <2>4, <2>5, <2>6
<1>6. ASSUME ReturnStop PROVE ChainExact' /\ OnlyTopLoops'
  <2>1. /\ Depth \in Nat \ {0} /\ Depth' = Depth - 1
        /\ \A i \in 1..(Depth - 1) : stack'[i] = stack[i]
        /\ stack[Depth].running # Nobody
        /\ chain' = chain \ {<<stack[Depth].running, stack[Depth].event>>}
    BY <1>6, PopShape DEF ReturnStop, HandlerRuns, ChainAfter, Top
  <2>2. \A i \in 1..Depth' : i \in 1..Depth /\ i # Depth /\ stack'[i] = stack[i] /\ stack[i].running # Nobody
    BY <2>1
  <2>3. OnlyTopLoops'
    BY <2>2
  <2>4. \A i \in 1..Depth' : <<stack'[i].running, stack'[i].event>> \in chain'
    BY <2>1, <2>2
  <2>5. ASSUME NEW id \in chain'
        PROVE  \E i \in 1..Depth' : stack'[i].running = id[1] /\ stack'[i].event = id[2]
    <3>1. id \in Modules \X Events /\ id \in chain
      BY <2>1 DEF TypeOK
    <3>2. PICK i \in 1..Depth : stack[i].running = id[1] /\ stack[i].event = id[2]
      BY <3>1
    <3>3. id = <<id[1], id[2]>>
      BY <3>1
    <3>4. i # Depth
      BY <2>1, <2>5, <3>2, <3>3
    <3>5. QED BY <2>1, <3>2, <3>4
  <2>6. \A i, j \in 1..Depth' :
          stack'[i].running # Nobody /\ stack'[i].running = stack'[j].running
          /\ stack'[i].event = stack'[j].event => i = j
    BY <2>2
  <2>7. QED BY <2>3, <2>4, <2>5, <2>6
<1>7. ASSUME Done PROVE ChainExact' /\ OnlyTopLoops'
  <2>1. /\ Depth \in Nat \ {0} /\ Depth' = Depth - 1
        /\ \A i \in 1..(Depth - 1) : stack'[i] = stack[i]
        /\ stack[Depth].running = Nobody /\ chain' = chain
    BY <1>7, PopShape DEF Done, InLoop, Top
  <2>2. \A i \in 1..Depth' : i \in 1..Depth /\ i # Depth /\ stack'[i] = stack[i] /\ stack[i].running # Nobody
    BY <2>1
  <2>3. ASSUME NEW id \in chain'
        PROVE  \E i \in 1..Depth' : stack'[i].running = id[1] /\ stack'[i].event = id[2]
    <3>1. id \in Modules \X Events /\ id \in chain
      BY <2>1 DEF TypeOK
    <3>2. PICK i \in 1..Depth : stack[i].running = id[1] /\ stack[i].event = id[2]
      BY <3>1
    <3>3. i # Depth
      BY <2>1, <3>1, <3>2, BusAssumption
    <3>4. QED BY <2>1, <3>2, <3>3
  <2>4. QED BY <2>1, <2>2, <2>3
<1>8. QED
  BY <1>1, <1>2, <1>3, <1>4, <1>5, <1>6, <1>7 DEF Next, RegisterEvent, RegisterHook, UnregisterModule

(* Hook lists and the lists of the range loops hold a module once. *)
LEMMA OnceStep ==
  ASSUME TypeOK, OncePerSubmit, Next
  PROVE  OncePerSubmit'
<1> DEFINE ListsOK == \A e \in Events : IsInjective(hooks[e])
           FrameOK(f) == IsInjective(f.todo) /\ Range(f.todo) \cap f.called = {}
           FramesOK == \A k \in 1..Depth : FrameOK(stack[k])
<1>1. ListsOK /\ FramesOK
  BY DEF OncePerSubmit
<1>2. ListsOK' /\ FramesOK' => OncePerSubmit'
  BY DEF OncePerSubmit
<1>3. ASSUME NEW m \in Modules, hooks' = Unhooked(m) PROVE ListsOK'
  BY <1>1, <1>3, WithoutFacts DEF Unhooked, TypeOK
<1>4. ASSUME NEW m \in Modules, NEW e \in Events, RegisterHook(m, e) PROVE OncePerSubmit'
  <2>1. ASSUME NEW d \in Events PROVE IsInjective(hooks'[d])
    <3>1. hooks'[d] = IF d = e THEN WithHook(m, hooks[d]) ELSE hooks[d]
      BY <1>4 DEF RegisterHook, TypeOK
    <3>2. hooks[d] \in Seq(Modules) /\ IsInjective(hooks[d])
      BY <1>1 DEF TypeOK
    <3>3. IsInjective(WithHook(m, hooks[d]))
      BY <3>2, WithHookFacts
    <3>4. QED BY <3>1, <3>2, <3>3
  <2>2. FramesOK'
    BY <1>1, <1>4 DEF RegisterHook, Depth
  <2>3. QED BY <1>2, <2>1, <2>2
<1>5. ASSUME NEW m \in Modules, UnregisterModule(m) PROVE OncePerSubmit'
  <2>1. FramesOK'
    BY <1>1, <1>5 DEF UnregisterModule, Depth
  <2>2. QED BY <1>2, <1>3, <1>5, <2>1 DEF UnregisterModule
<1>6. ASSUME NEW e \in Events, RegisterEvent(e) PROVE OncePerSubmit'
  BY <1>1, <1>6 DEF RegisterEvent, OncePerSubmit, Depth
<1>7. ASSUME NEW e \in Events, Submit(e) PROVE OncePerSubmit'
  <2>1. FrameOK(stack'[Depth + 1])
    <3>1. stack'[Depth + 1].todo = hooks[e] /\ stack'[Depth + 1].called = {}
      BY <1>7, SubmitShape
    <3>2. QED BY <1>1, <3>1
  <2>2. /\ Depth \in Nat /\ Depth' = Depth + 1
        /\ \A i \in 1..Depth : stack'[i] = stack[i]
    BY <1>7, SubmitShape
  <2>3. ASSUME NEW k \in 1..Depth' PROVE FrameOK(stack'[k])
    <3>1. k \in 1..Depth \/ k = Depth + 1
      BY <2>2
    <3>2. CASE k \in 1..Depth
      <4>1. stack'[k] = stack[k] /\ FrameOK(stack[k])
        BY <1>1, <2>2, <3>2
      <4>2. QED BY <4>1
    <3>3. QED BY <3>1, <3>2, <2>1
  <2>4. ListsOK'
    BY <1>1, <1>7 DEF Submit
  <2>5. QED BY <1>2, <2>3, <2>4
<1>8. ASSUME Depth \in Nat \ {0}, Depth' = Depth, \A i \in 1..(Depth - 1) : stack'[i] = stack[i],
             FrameOK(stack'[Depth])
      PROVE  FramesOK'
  <2>1. ASSUME NEW k \in 1..Depth' PROVE FrameOK(stack'[k])
    <3>1. CASE k = Depth
      BY <1>8, <3>1
    <3>2. CASE k # Depth
      <4>1. stack'[k] = stack[k] /\ FrameOK(stack[k])
        BY <1>1, <1>8, <3>2
      <4>2. QED BY <4>1
    <3>3. QED BY <3>1, <3>2
  <2>2. QED BY <2>1
<1>9. ASSUME Depth \in Nat \ {0}, Depth' = Depth - 1, \A i \in 1..(Depth - 1) : stack'[i] = stack[i]
      PROVE  FramesOK'
  <2>1. ASSUME NEW k \in 1..Depth' PROVE FrameOK(stack'[k])
    <3>1. stack'[k] = stack[k] /\ FrameOK(stack[k])
      BY <1>1, <1>9
    <3>2. QED BY <3>1
  <2>2. QED BY <2>1
<1>10. ASSUME Depth \in Nat \ {0}, stack[Depth] \in Frames, stack[Depth].todo # <<>>
       PROVE  LET f == stack[Depth] IN
              /\ f.todo \in Seq(Modules)
              /\ IsInjective(Tail(f.todo)) /\ Range(Tail(f.todo)) \cap f.called = {}
              /\ Head(f.todo) \notin Range(Tail(f.todo))
  <2>1. FrameOK(stack[Depth]) /\ stack[Depth].todo \in Seq(Modules)
    BY <1>1, <1>10 DEF Frames
  <2>2. QED BY <2>1, <1>10, TailFacts
<1>11. ASSUME Refuse PROVE OncePerSubmit'
  <2>1. stack'[Depth].todo = Tail(stack[Depth].todo) /\ stack'[Depth].called = stack[Depth].called
    BY <1>11, RefuseShape DEF Frames
  <2>2. FrameOK(stack'[Depth])
    BY <1>10, <1>11, <2>1, RefuseShape DEF Top
  <2>3. FramesOK'
    BY <1>8, <1>11, <2>2, RefuseShape
  <2>4. ListsOK'
    BY <1>1, <1>11 DEF Refuse
  <2>5. QED BY <1>2, <2>3, <2>4
<1>12. ASSUME Call PROVE OncePerSubmit'
  <2>1. /\ stack'[Depth].todo = Tail(stack[Depth].todo)
        /\ stack'[Depth].called = stack[Depth].called \cup {Head(stack[Depth].todo)}
    BY <1>12, CallShape DEF Frames
  <2>2. FrameOK(stack'[Depth])
    BY <1>10, <1>12, <2>1, CallShape DEF Top
  <2>3. FramesOK'
    BY <1>8, <1>12, <2>2, CallShape
  <2>4. ListsOK'
    BY <1>1, <1>12 DEF Call
  <2>5. QED BY <1>2, <2>3, <2>4
<1>13. ASSUME Return \/ Panic PROVE OncePerSubmit'
  <2>1. /\ Depth \in Nat \ {0} /\ stack[Depth] \in Frames
        /\ stack'[Depth].todo = stack[Depth].todo /\ stack'[Depth].called = stack[Depth].called
    BY <1>13, ReturnShape DEF Frames
  <2>2. FrameOK(stack[Depth])
    BY <1>1, <2>1
  <2>3. FrameOK(stack'[Depth])
    BY <2>1, <2>2
  <2>4. FramesOK'
    BY <1>8, <1>13, <2>3, ReturnShape
  <2>5. ListsOK'
    <3>1. CASE Return
      BY <1>1, <3>1 DEF Return
    <3>2. CASE Panic
      <4>1. Top.running \in Modules
        BY <3>2, TopFacts DEF Panic, HandlerRuns, Frames
      <4>2. QED BY <1>3, <3>2, <4>1 DEF Panic
    <3>3. QED BY <1>13, <3>1, <3>2
  <2>6. QED BY <1>2, <2>4, <2>5
<1>14. ASSUME ReturnStop \/ Done PROVE OncePerSubmit'
  <2>1. FramesOK'
    BY <1>9, <1>14, PopShape DEF ReturnStop, Done, HandlerRuns, InLoop
  <2>2. ListsOK'
    BY <1>1, <1>14 DEF ReturnStop, Done
  <2>3. QED BY <1>2, <2>1, <2>2
<1>15. QED
  BY <1>4, <1>5, <1>6, <1>7, <1>11, <1>12, <1>13, <1>14 DEF Next

(* A frame's excuse for a module lies further out, where nothing changes   *)
(* until the frame is gone.                                                *)
LEMMA SkippedStep ==
  ASSUME TypeOK, ChainExact, OncePerSubmit, NobodySkipped, Next
  PROVE  NobodySkipped'
<1> DEFINE Missing(f) == f.hooked \ (f.called \cup Range(f.todo))
           Excused(i) == \A m \in Missing(stack[i]) : \E j \in 1..(i - 1) :
                           stack[j].running = m /\ stack[j].event = stack[i].event
<1>1. \A i \in 1..Depth : Excused(i)
  BY DEF NobodySkipped
<1>2. (\A i \in 1..Depth' : Excused(i)') => NobodySkipped'
  BY DEF NobodySkipped
<1>3. ASSUME UNCHANGED stack PROVE NobodySkipped'
  BY <1>1, <1>2, <1>3 DEF Depth
<1>4. ASSUME NEW i \in 1..Depth, Depth \in Nat, Depth' \in Nat,
             \A k \in 1..i : stack'[k] = stack[k]
      PROVE  Excused(i)'
  <2>1. stack'[i] = stack[i] /\ \A j \in 1..(i - 1) : stack'[j] = stack[j]
    BY <1>4
  <2>2. QED BY <1>1, <1>4, <2>1
<1>5. ASSUME NEW e \in Events, Submit(e) PROVE NobodySkipped'
  <2>1. /\ Depth \in Nat /\ Depth' = Depth + 1
        /\ \A i \in 1..Depth : stack'[i] = stack[i]
    BY <1>5, SubmitShape
  <2>2. ASSUME NEW i \in 1..Depth PROVE Excused(i)'
    BY <1>4, <2>1
  <2>3. Missing(stack'[Depth + 1]) = {}
    <3>1. /\ stack'[Depth + 1].todo = hooks[e]
          /\ stack'[Depth + 1].hooked = Range(hooks[e])
      BY <1>5, SubmitShape
    <3>2. QED BY <3>1
  <2>4. ASSUME NEW i \in 1..Depth', i = Depth + 1 PROVE Excused(i)'
    BY <2>3, <2>4
  <2>5. ASSUME NEW i \in 1..Depth' PROVE Excused(i)'
    <3>1. i \in 1..Depth \/ i = Depth + 1
      BY <2>1
    <3>2. QED BY <3>1, <2>2, <2>4
  <2>6. QED BY <1>2, <2>5
(* A change of the innermost frame alone. *)
<1>6. ASSUME Depth \in Nat \ {0}, Depth' = Depth, \A i \in 1..(Depth - 1) : stack'[i] = stack[i],
             Excused(Depth)'
      PROVE  NobodySkipped'
  <2>1. ASSUME NEW i \in 1..Depth' PROVE Excused(i)'
    <3>1. CASE i = Depth
      BY <1>6, <3>1
    <3>2. CASE i # Depth
      <4>1. i \in 1..Depth /\ \A k \in 1..i : stack'[k] = stack[k]
        BY <1>6, <3>2
      <4>2. QED BY <1>4, <1>6, <4>1
    <3>3. QED BY <3>1, <3>2
  <2>2. QED BY <1>2, <2>1
<1>7. ASSUME Depth \in Nat \ {0}, Depth' = Depth, \A i \in 1..(Depth - 1) : stack'[i] = stack[i],
             stack'[Depth].event = stack[Depth].event,
             Missing(stack'[Depth]) \subseteq Missing(stack[Depth])
      PROVE  Excused(Depth)'
  <2>0. Depth \in 1..Depth
    BY <1>7
  <2>1. ASSUME NEW m \in Missing(stack'[Depth])
        PROVE  \E j \in 1..(Depth - 1) : stack'[j].running = m /\ stack'[j].event = stack'[Depth].event
    <3>1. m \in Missing(stack[Depth])
      BY <1>7, <2>1
    <3>2. PICK j \in 1..(Depth - 1) : stack[j].running = m /\ stack[j].event = stack[Depth].event
      BY <1>1, <2>0, <3>1
    <3>3. QED BY <1>7, <3>2
  <2>2. QED BY <1>7, <2>1
<1>8. ASSUME Refuse PROVE NobodySkipped'
  <2> DEFINE m == Head(stack[Depth].todo)
  <2>1. /\ Depth \in Nat \ {0} /\ Depth' = Depth /\ stack[Depth] \in Frames
        /\ \A i \in 1..(Depth - 1) : stack'[i] = stack[i]
        /\ stack[Depth].todo # <<>>
    BY <1>8, RefuseShape DEF Top
  <2>2. /\ stack'[Depth].todo = Tail(stack[Depth].todo)
        /\ stack'[Depth].hooked = stack[Depth].hooked
        /\ stack'[Depth].called = stack[Depth].called
        /\ stack'[Depth].event = stack[Depth].event
    BY <1>8, RefuseShape DEF Frames
  <2>3. m \in Modules /\ Range(stack[Depth].todo) = {m} \cup Range(Tail(stack[Depth].todo))
    BY <2>1, TailFacts DEF Frames
  <2>4. <<m, stack[Depth].event>> \in chain /\ stack[Depth].running = Nobody
    BY <1>8 DEF Refuse, HasNext, InLoop, OnChain, Id, Top
  <2> HIDE DEF m
  <2>5. PICK j \in 1..Depth : stack[j].running = m /\ stack[j].event = stack[Depth].event
    BY <2>4 DEF ChainExact
  <2>6. j \in 1..(Depth - 1)
    BY <2>1, <2>3, <2>4, <2>5, BusAssumption
  <2>7. ASSUME NEW z \in Missing(stack'[Depth])
        PROVE  \E i \in 1..(Depth - 1) : stack'[i].running = z /\ stack'[i].event = stack'[Depth].event
    <3>1. CASE z = m
      BY <2>1, <2>2, <2>5, <2>6, <3>1
    <3>2. CASE z # m
      <4>1. z \in Missing(stack[Depth]) /\ Depth \in 1..Depth
        BY <2>1, <2>2, <2>3, <2>7, <3>2
      <4>2. PICK i \in 1..(Depth - 1) : stack[i].running = z /\ stack[i].event = stack[Depth].event
        BY <1>1, <4>1
      <4>3. QED BY <2>1, <2>2, <4>2
    <3>3. QED BY <3>1, <3>2
  <2>8. QED BY <1>6, <2>1, <2>7
<1>9. ASSUME Call PROVE NobodySkipped'
  <2>1. /\ Depth \in Nat \ {0} /\ Depth' = Depth /\ stack[Depth] \in Frames
        /\ \A i \in 1..(Depth - 1) : stack'[i] = stack[i]
        /\ stack[Depth].todo # <<>>
    BY <1>9, CallShape DEF Top
  <2>2. /\ stack'[Depth].todo = Tail(stack[Depth].todo)
        /\ stack'[Depth].hooked = stack[Depth].hooked
        /\ stack'[Depth].called = stack[Depth].called \cup {Head(stack[Depth].todo)}
        /\ stack'[Depth].event = stack[Depth].event
    BY <1>9, CallShape DEF Frames
  <2>3. Range(stack[Depth].todo) = {Head(stack[Depth].todo)} \cup Range(Tail(stack[Depth].todo))
    BY <2>1, TailFacts DEF Frames
  <2>4. Missing(stack'[Depth]) \subseteq Missing(stack[Depth])
    BY <2>2, <2>3
  <2>5. QED BY <1>6, <1>7, <2>1, <2>2, <2>4
<1>10. ASSUME Return \/ Panic PROVE NobodySkipped'
  <2>1. /\ Depth \in Nat \ {0} /\ Depth' = Depth
        /\ \A i \in 1..(Depth - 1) : stack'[i] = stack[i]
    BY <1>10, ReturnShape
  <2>2. /\ stack'[Depth].todo = stack[Depth].todo
        /\ stack'[Depth].hooked = stack[Depth].hooked
        /\ stack'[Depth].called = stack[Depth].called
        /\ stack'[Depth].event = stack[Depth].event
    BY <1>10, ReturnShape DEF Frames
  <2>3. QED BY <1>6, <1>7, <2>1, <2>2
<1>11. ASSUME ReturnStop \/ Done PROVE NobodySkipped'
  <2>1. /\ Depth \in Nat \ {0} /\ Depth' = Depth - 1
        /\ \A i \in 1..(Depth - 1) : stack'[i] = stack[i]
    BY <1>11, PopShape DEF ReturnStop, Done, HandlerRuns, InLoop
  <2>2. ASSUME NEW i \in 1..Depth' PROVE Excused(i)'
    <3>1. i \in 1..Depth /\ Depth' \in Nat /\ \A k \in 1..i : stack'[k] = stack[k]
      BY <2>1
    <3>2. QED BY <1>4, <2>1, <3>1
  <2>3. QED BY <1>2, <2>2
<1>12. QED
  BY <1>3, <1>5, <1>8, <1>9, <1>10, <1>11 DEF Next, RegisterEvent, RegisterHook, UnregisterModule

LEMMA IInvStep == IInv /\ [Next]_vars => IInv'
<1>1. ASSUME IInv, Next PROVE IInv'
  BY <1>1, TypeOKStep, ChainStep, OnceStep, SkippedStep DEF IInv
<1>2. ASSUME IInv, UNCHANGED vars PROVE IInv'
  BY <1>2 DEF vars, IInv, TypeOK, ChainExact, OnlyTopLoops, NobodySkipped, OncePerSubmit, Depth
<1>3. QED BY <1>1, <1>2

LEMMA BusInvariant == Spec => []IInv
  BY InitIInv, IInvStep, PTL DEF Spec

-----------------------------------------------------------------------------
(* The bus's variables keep their types: hook lists hold modules, the      *)
(* chain holds (module, event) pairs (bus.go, Bus).                        *)
THEOREM BusTypeOK == Spec => []TypeOK
<1>1. IInv => TypeOK
  BY DEF IInv
<1>2. QED BY <1>1, BusInvariant, PTL

(* Call chain and call stack agree however a handler ends, so re-entry is  *)
(* refused exactly while the handler runs (bus.go, call).                  *)
THEOREM BusChainExact == Spec => []ChainExact
<1>1. IInv => ChainExact
  BY DEF IInv
<1>2. QED BY <1>1, BusInvariant, PTL

(* Hooks that come and go during a dispatch make it skip nobody it started *)
(* with, except to refuse re-entry, and call nobody twice (bus.go,         *)
(* RegisterHook and Submit).                                               *)
THEOREM BusEachOnce == Spec => []EachOnce
<1>1. IInv => EachOnce
  BY DEF IInv, EachOnce
<1>2. QED BY <1>1, BusInvariant, PTL

(* Both, whatever handlers do (bus.go, Submit and call).                   *)
THEOREM BusDispatchExact == Spec => []DispatchExact
<1>1. ChainExact /\ EachOnce => DispatchExact
  BY DEF DispatchExact
<1>2. QED BY <1>1, BusChainExact, BusEachOnce, PTL

(***************************************************************************)
(* Pager: a reply is paged in full, in order and once, unless it is        *)
(* replaced or its own expiry comes.                                       *)
(***************************************************************************)
(* What a stash knows of its reply, and that no two stashes share one:     *)
(* without it a page of one could move another, and a timer end another.   *)
StashOK(k) ==
    LET st == stashes[k] IN
    /\ st.reply \in 1..replies /\ st.timer = st.reply
    /\ st.len = told[st.reply].len
    /\ st.displayed = Len(told[st.reply].lines) /\ st.displayed < st.len

StashInv ==
    /\ stashes \in [DOMAIN stashes ->
                       [reply : Nat, len : Nat, displayed : Nat, timer : Nat]]
    /\ \A k \in DOMAIN stashes : StashOK(k)
    /\ \A j, k \in DOMAIN stashes : stashes[j].reply = stashes[k].reply => j = k

PagerTypeInv ==
    /\ replies \in Nat
    /\ told \in Seq([len : Nat, lines : Seq(Nat)]) /\ Len(told) = replies

(* Each reply was sent in order so far, and is complete, given up or       *)
(* stashed.                                                                *)
PagerInOrder(r) == told[r].lines = G!Lines(1, Len(told[r].lines))
PagerSettled(r) ==
    \/ Len(told[r].lines) = told[r].len \/ r \in ended
    \/ \E k \in DOMAIN stashes : /\ stashes[k].reply = r
                                 /\ stashes[k].displayed = Len(told[r].lines)
RepliesInv == \A r \in 1..replies : PagerInOrder(r) /\ PagerSettled(r)

TimersInv == expiries = {[tag |-> stashes[k].timer, key |-> k] : k \in DOMAIN stashes}

PagerInv == PagerTypeInv /\ StashInv /\ RepliesInv /\ TimersInv

LEMMA PagerInvImplies == PagerInv => G!PagedInFull
BY DEF PagerInv, RepliesInv, PagerInOrder, PagerSettled, TimersInv, G!PagedInFull

(* Pages of consecutive lines join up (EventMsg, More).                    *)
LEMMA LinesType ==
  ASSUME NEW from \in Nat, NEW to \in Nat, from >= 1, to >= from - 1
  PROVE  G!Lines(from, to) \in Seq(Nat) /\ Len(G!Lines(from, to)) = to - from + 1
<1>1. to - from + 1 \in Nat
  OBVIOUS
<1>2. \A i \in 1..(to - from + 1) : from + i - 1 \in Nat
  OBVIOUS
<1> QED BY <1>1, <1>2 DEF G!Lines

LEMMA LinesFromOne ==
  ASSUME NEW to \in Nat
  PROVE  G!Lines(1, to) \in Seq(Nat) /\ Len(G!Lines(1, to)) = to
BY LinesType

LEMMA LinesJoin ==
  ASSUME NEW from \in Nat, NEW to \in Nat, to >= from
  PROVE  G!Lines(1, from) \o G!Lines(from + 1, to) = G!Lines(1, to)
<1> DEFINE s == G!Lines(1, from) t == G!Lines(from + 1, to) u == G!Lines(1, to)
<1>1. s \in Seq(Nat) /\ Len(s) = from
  BY LinesType
<1>2. t \in Seq(Nat) /\ Len(t) = to - from
  <2>1. from + 1 \in Nat /\ from + 1 >= 1 /\ to >= (from + 1) - 1 /\ to - (from + 1) + 1 = to - from
    OBVIOUS
  <2> QED BY <2>1, LinesType
<1>3. u \in Seq(Nat) /\ Len(u) = to
  BY LinesType
<1>4. /\ \A i \in 1..from : s[i] = i
      /\ \A i \in 1..(to - from) : t[i] = from + i
      /\ \A i \in 1..to : u[i] = i
  BY DEF G!Lines
<1> HIDE DEF s, t, u
<1>5. /\ s \o t \in Seq(Nat) /\ Len(s \o t) = from + (to - from)
      /\ \A i \in 1..(from + (to - from)) : (s \o t)[i] = IF i <= from THEN s[i] ELSE t[i - from]
  <2>1. /\ s \o t \in Seq(Nat) /\ Len(s \o t) = Len(s) + Len(t)
        /\ \A i \in 1..Len(s) + Len(t) :
              (s \o t)[i] = IF i <= Len(s) THEN s[i] ELSE t[i - Len(s)]
    <3>1. s \in Seq(Nat) /\ t \in Seq(Nat)
      BY <1>1, <1>2
    <3> QED BY <3>1, ConcatProperties
  <2>2. Len(s) = from /\ Len(t) = to - from
    BY <1>1, <1>2
  <2> QED BY <2>1, <2>2
<1>6. ASSUME NEW i \in 1..to PROVE (s \o t)[i] = u[i]
  <2>1. CASE i <= from
    BY <2>1, <1>4, <1>5
  <2>2. CASE i > from
    <3>1. i - from \in 1..(to - from)
      BY <2>2
    <3> QED BY <2>2, <3>1, <1>4, <1>5
  <2>3. i <= from \/ i > from
    OBVIOUS
  <2> QED BY <2>1, <2>2, <2>3
<1>7. Len(s \o t) = Len(u)
  BY <1>3, <1>5
<1>8. s \o t = u
  BY <1>3, <1>5, <1>6, <1>7, SeqEqual
<1> QED BY <1>8 DEF s, t, u

(* drop leaves the timers of the other keys (drop).                        *)
LEMMA DropFacts ==
  ASSUME StashInv, TimersInv, NEW key
  PROVE  G!drop(key) = {[tag |-> stashes[k].timer, key |-> k] : k \in DOMAIN stashes \ {key}}
<1>1. CASE key \in DOMAIN stashes
  <2>1. \A k \in DOMAIN stashes : stashes[k].timer = stashes[key].timer => k = key
    BY <1>1 DEF StashInv, StashOK
  <2> QED BY <1>1, <2>1 DEF G!drop, G!Cancelled, TimersInv
<1>2. CASE key \notin DOMAIN stashes
  BY <1>2 DEF G!drop, TimersInv
<1> QED BY <1>1, <1>2

LEMMA PagerInitInv == G!Init => PagerInv
BY DEF G!Init, PagerInv, PagerTypeInv, StashInv, RepliesInv, TimersInv

(* A new reply, with or without a stash of its own (EventMsg).             *)
LEMMA EventMsgStep ==
  ASSUME PagerInv, NEW key, NEW n \in Nat, NEW max \in Nat, G!EventMsg(key, n, max)
  PROVE  PagerInv'
<1> PICK r : r = replies + 1
  OBVIOUS
<1> DEFINE shown == G!Min2(n, max)
           new == [len |-> n, lines |-> G!Lines(1, shown)]
<1>1. r \in Nat /\ shown \in Nat /\ r \notin 1..replies /\ 1..r = (1..replies) \cup {r}
  BY DEF PagerInv, PagerTypeInv, G!Min2
<1>2. G!Lines(1, shown) \in Seq(Nat) /\ Len(G!Lines(1, shown)) = shown
  BY <1>1, LinesFromOne
<1>3. new \in [len : Nat, lines : Seq(Nat)]
  BY <1>2
<1>4. /\ told' \in Seq([len : Nat, lines : Seq(Nat)]) /\ Len(told') = r
      /\ told'[r] = new /\ \A i \in 1..replies : told'[i] = told[i]
  <2>1. told' = Append(told, new)
    BY DEF G!EventMsg
  <2> HIDE DEF new
  <2>2. told \in Seq([len : Nat, lines : Seq(Nat)]) /\ Len(told) = replies
    BY DEF PagerInv, PagerTypeInv
  <2>3. /\ Append(told, new) \in Seq([len : Nat, lines : Seq(Nat)])
        /\ Len(Append(told, new)) = Len(told) + 1
        /\ \A i \in 1..Len(told) : Append(told, new)[i] = told[i]
        /\ Append(told, new)[Len(told) + 1] = new
    BY <2>2, <1>3, AppendProperties
  <2> QED BY <2>1, <2>2, <2>3
<1>5. replies' = r
  BY DEF G!EventMsg
<1>6. PagerTypeInv'
  BY <1>1, <1>4, <1>5 DEF PagerTypeInv
<1>7. /\ DOMAIN stashes' \ {key} = DOMAIN stashes \ {key}
      /\ \A k \in DOMAIN stashes \ {key} : stashes'[k] = stashes[k]
      /\ stashes' = [k \in DOMAIN stashes' |-> stashes'[k]]
  BY DEF G!EventMsg, G!Without
<1>8. key \in DOMAIN stashes' <=> n > max
  BY DEF G!EventMsg, G!Without
<1>9. n > max => stashes'[key] = [reply |-> r, len |-> n, displayed |-> max, timer |-> r]
  BY DEF G!EventMsg
<1>10. n > max => shown = max
  BY DEF G!Min2
<1>11. ASSUME NEW k \in DOMAIN stashes', k # key
       PROVE  k \in DOMAIN stashes /\ stashes'[k] = stashes[k] /\ stashes[k].reply \in 1..replies
  BY <1>7, <1>11 DEF PagerInv, StashInv, StashOK
<1>12. StashInv'
  <2>1. ASSUME NEW k \in DOMAIN stashes'
        PROVE  StashOK(k)' /\ stashes'[k] \in [reply : Nat, len : Nat, displayed : Nat, timer : Nat]
    <3>1. CASE k = key
      BY <3>1, <1>1, <1>2, <1>4, <1>5, <1>8, <1>9, <1>10 DEF StashOK
    <3>2. CASE k # key
      <4>1. StashOK(k) /\ stashes[k] \in [reply : Nat, len : Nat, displayed : Nat, timer : Nat]
        BY <3>2, <1>11 DEF PagerInv, StashInv
      <4> QED BY <4>1, <3>2, <1>1, <1>4, <1>5, <1>11 DEF StashOK
    <3> QED BY <3>1, <3>2
  <2>2. ASSUME NEW j \in DOMAIN stashes', NEW k \in DOMAIN stashes',
               stashes'[j].reply = stashes'[k].reply
        PROVE  j = k
    <3>1. CASE j = key /\ k # key
      BY <3>1, <2>2, <1>1, <1>8, <1>9, <1>11
    <3>2. CASE j # key /\ k = key
      BY <3>2, <2>2, <1>1, <1>8, <1>9, <1>11
    <3>3. CASE j # key /\ k # key
      BY <3>3, <2>2, <1>11 DEF PagerInv, StashInv
    <3> QED BY <3>1, <3>2, <3>3
  <2> QED BY <2>1, <2>2, <1>5, <1>7 DEF StashInv
<1>13. RepliesInv'
  <2>1. PagerInOrder(r)' /\ PagerSettled(r)'
    <3>1. PagerInOrder(r)'
      BY <1>2, <1>4, <1>5 DEF PagerInOrder
    <3>2. CASE n > max
      <4>1. /\ key \in DOMAIN stashes' /\ stashes'[key].reply = r
            /\ stashes'[key].displayed = max
        BY <3>2, <1>8, <1>9
      <4>2. Len(told'[r].lines) = max
        BY <3>2, <1>2, <1>4, <1>10
      <4> QED BY <3>1, <4>1, <4>2 DEF PagerSettled
    <3>3. CASE ~(n > max)
      <4>1. shown = n
        BY <3>3 DEF G!Min2
      <4> QED BY <4>1, <3>1, <1>2, <1>4 DEF PagerSettled
    <3> QED BY <3>1, <3>2, <3>3
  <2>2. ASSUME NEW i \in 1..replies PROVE PagerInOrder(i)' /\ PagerSettled(i)'
    <3>1. PagerInOrder(i)'
      BY <1>4 DEF PagerInOrder, PagerInv, RepliesInv
    <3>2. CASE Len(told[i].lines) = told[i].len \/ i \in ended
      <4>1. told'[i] = told[i] /\ (i \in ended => i \in ended')
        BY <1>4 DEF G!EventMsg
      <4> QED BY <3>1, <4>1, <3>2 DEF PagerSettled
    <3>3. ASSUME NEW k \in DOMAIN stashes, stashes[k].reply = i,
                 stashes[k].displayed = Len(told[i].lines)
          PROVE  PagerSettled(i)'
      <4>1. CASE k = key
        <5>1. i \in ended'
          BY <3>3, <4>1 DEF G!EventMsg
        <5> QED BY <5>1 DEF PagerSettled
      <4>2. CASE k # key
        <5>1. k \in DOMAIN stashes' /\ stashes'[k] = stashes[k]
          BY <4>2, <1>7
        <5> QED BY <5>1, <3>3, <1>4 DEF PagerSettled
      <4> QED BY <4>1, <4>2
    <3> QED BY <3>1, <3>2, <3>3 DEF PagerInv, RepliesInv, PagerSettled
  <2> QED BY <2>1, <2>2, <1>1, <1>5 DEF RepliesInv
<1>14. TimersInv'
  <2>1. G!drop(key) = {[tag |-> stashes[k].timer, key |-> k] : k \in DOMAIN stashes \ {key}}
    BY DropFacts DEF PagerInv
  <2>2. CASE n > max
    <3>1. expiries' = G!drop(key) \cup {[tag |-> r, key |-> key]}
      BY <2>2 DEF G!EventMsg
    <3> QED BY <2>1, <2>2, <3>1, <1>7, <1>8, <1>9 DEF TimersInv
  <2>3. CASE ~(n > max)
    <3>1. expiries' = G!drop(key)
      BY <2>3 DEF G!EventMsg
    <3> QED BY <2>1, <2>3, <3>1, <1>7, <1>8 DEF TimersInv
  <2> QED BY <2>2, <2>3
<1> QED BY <1>6, <1>12, <1>13, <1>14 DEF PagerInv

(* A page of a stash, the last one or not (More).                          *)
LEMMA MoreStep ==
  ASSUME PagerInv, NEW key, NEW named, NEW max \in Nat, G!More(key, named, max)
  PROVE  PagerInv'
<1> PICK r : r = stashes[key].reply
  OBVIOUS
<1> PICK from : from = stashes[key].displayed
  OBVIOUS
<1> PICK l : l = stashes[key].len
  OBVIOUS
<1> DEFINE to == G!Min2(from + max, l)
           Rec == [len : Nat, lines : Seq(Nat)]
<1>1. key \in DOMAIN stashes
  BY DEF G!More
<1>2. /\ StashOK(key)
      /\ stashes[key] \in [reply : Nat, len : Nat, displayed : Nat, timer : Nat]
  BY <1>1 DEF PagerInv, StashInv
<1>3. /\ r \in 1..replies /\ from \in Nat /\ l \in Nat /\ from < l
      /\ stashes[key].timer = r
      /\ l = told[r].len /\ from = Len(told[r].lines)
  BY <1>2 DEF StashOK
<1>4. told[r].lines = G!Lines(1, from)
  BY <1>3 DEF PagerInv, RepliesInv, PagerInOrder
<1>5. to \in Nat /\ to >= from /\ (from + max < l => to = from + max) /\ (~(from + max < l) => to = l)
  BY <1>3, SMTT(30) DEF G!Min2
<1> HIDE DEF to
<1>6. told \in Seq(Rec) /\ Len(told) = replies /\ replies \in Nat
  BY DEF PagerInv, PagerTypeInv
<1>7. told[r] \in Rec
  BY <1>3, <1>6, ElementOfSeq
<1>8. told' = [told EXCEPT ![r].lines = @ \o G!Lines(from + 1, to)]
  BY DEF G!More, to
<1>9. told[r].lines \o G!Lines(from + 1, to) = G!Lines(1, to)
  BY <1>3, <1>4, <1>5, LinesJoin
<1>10. G!Lines(1, to) \in Seq(Nat) /\ Len(G!Lines(1, to)) = to
  BY <1>5, LinesFromOne
<1> PICK e : e = [len |-> l, lines |-> G!Lines(1, to)]
  OBVIOUS
<1>11. e \in Rec /\ e.len = l /\ e.lines = G!Lines(1, to)
  BY <1>3, <1>10
<1>12. [told[r] EXCEPT !.lines = G!Lines(1, to)] = e
  BY <1>3, <1>7
<1>13. told' = [told EXCEPT ![r] = e]
  BY <1>8, <1>9, <1>12
<1>14. /\ told' \in Seq(Rec) /\ Len(told') = replies /\ told'[r] = e
       /\ \A i \in 1..replies : i # r => told'[i] = told[i]
  <2> HIDE DEF Rec
  <2>1. r \in 1..Len(told)
    BY <1>3, <1>6
  <2>2. /\ [told EXCEPT ![r] = e] \in Seq(Rec)
        /\ Len([told EXCEPT ![r] = e]) = Len(told)
        /\ \A j \in 1..Len(told) : [told EXCEPT ![r] = e][j] = IF j = r THEN e ELSE told[j]
    BY <2>1, <1>6, <1>11, ExceptSeq
  <2> QED BY <2>1, <2>2, <1>6, <1>13
<1>15. replies' = replies /\ ended' = ended
  BY DEF G!More
<1>16. PagerTypeInv'
  BY <1>6, <1>14, <1>15 DEF PagerTypeInv
<1>17. \A i \in 1..replies : PagerInOrder(i)'
  <2>1. PagerInOrder(r)'
    BY <1>10, <1>11, <1>14 DEF PagerInOrder
  <2>2. ASSUME NEW i \in 1..replies, i # r PROVE PagerInOrder(i)'
    BY <2>2, <1>14 DEF PagerInOrder, PagerInv, RepliesInv
  <2> QED BY <2>1, <2>2
<1>18. \A k \in DOMAIN stashes : k # key => stashes[k].reply # r
  BY <1>1 DEF PagerInv, StashInv
<1>19. DOMAIN stashes' \ {key} = DOMAIN stashes \ {key}
  BY DEF G!More, G!Without
<1>20. \A k \in DOMAIN stashes \ {key} : stashes'[k] = stashes[k]
  BY DEF G!More, G!Without
<1>21. CASE from + max < l
  <2>1. stashes' = [stashes EXCEPT ![key].displayed = from + max] /\ expiries' = expiries
    BY <1>21 DEF G!More
  <2>2. /\ DOMAIN stashes' = DOMAIN stashes
        /\ stashes'[key] = [reply |-> r, len |-> l, displayed |-> to, timer |-> r]
    BY <2>1, <1>1, <1>2, <1>3, <1>5, <1>21 DEF PagerInv, StashInv
  <2>3. StashInv'
    <3>1. ASSUME NEW k \in DOMAIN stashes
          PROVE  StashOK(k)' /\ stashes'[k] \in [reply : Nat, len : Nat, displayed : Nat, timer : Nat]
      <4>1. CASE k = key
        BY <4>1, <2>2, <1>3, <1>5, <1>10, <1>11, <1>14, <1>15, <1>21 DEF StashOK
      <4>2. CASE k # key
        <5>1. StashOK(k) /\ stashes[k] \in [reply : Nat, len : Nat, displayed : Nat, timer : Nat]
          BY DEF PagerInv, StashInv
        <5> QED BY <4>2, <5>1, <1>14, <1>15, <1>18, <1>20 DEF StashOK
      <4> QED BY <4>1, <4>2
    <3>2. \A k \in DOMAIN stashes : stashes'[k].reply = stashes[k].reply
      BY <2>2, <1>20
    <3>3. stashes' = [k \in DOMAIN stashes' |-> stashes'[k]]
      BY <2>1
    <3> QED BY <3>1, <3>2, <3>3, <2>2 DEF StashInv, PagerInv
  <2>4. RepliesInv'
    <3>1. PagerSettled(r)'
      <4>1. Len(told'[r].lines) = to
        BY <1>10, <1>11, <1>14
      <4>2. key \in DOMAIN stashes' /\ stashes'[key].reply = r /\ stashes'[key].displayed = to
        BY <2>2, <1>1
      <4> QED BY <4>1, <4>2 DEF PagerSettled
    <3>2. ASSUME NEW i \in 1..replies, i # r PROVE PagerSettled(i)'
      <4>1. told'[i] = told[i] /\ PagerSettled(i)
        BY <3>2, <1>14 DEF PagerInv, RepliesInv
      <4> QED BY <4>1, <3>2, <2>2, <1>15, <1>20 DEF PagerSettled
    <3> QED BY <3>1, <3>2, <1>15, <1>17 DEF RepliesInv
  <2>5. TimersInv'
    <3>1. \A k \in DOMAIN stashes : stashes'[k].timer = stashes[k].timer
      BY <2>2, <1>3, <1>20
    <3> QED BY <3>1, <2>1, <2>2 DEF TimersInv, PagerInv
  <2> QED BY <2>3, <2>4, <2>5, <1>16 DEF PagerInv
<1>22. CASE ~(from + max < l)
  <2>1. stashes' = G!Without(stashes, {key}) /\ expiries' = G!drop(key)
    BY <1>22 DEF G!More
  <2>2. DOMAIN stashes' = DOMAIN stashes \ {key}
    BY <2>1 DEF G!Without
  <2>3. StashInv'
    <3>1. ASSUME NEW k \in DOMAIN stashes'
          PROVE  /\ StashOK(k)' /\ stashes'[k] = stashes[k]
                 /\ stashes[k] \in [reply : Nat, len : Nat, displayed : Nat, timer : Nat]
      <4>1. /\ StashOK(k) /\ k # key /\ stashes'[k] = stashes[k]
            /\ stashes[k] \in [reply : Nat, len : Nat, displayed : Nat, timer : Nat]
        BY <2>2, <1>20 DEF PagerInv, StashInv
      <4> QED BY <4>1, <2>2, <1>14, <1>15, <1>18 DEF StashOK
    <3>2. stashes' = [k \in DOMAIN stashes' |-> stashes'[k]]
      BY <2>1 DEF G!Without
    <3> QED BY <3>1, <3>2, <2>2 DEF StashInv, PagerInv
  <2>4. RepliesInv'
    <3>1. PagerSettled(r)'
      BY <1>5, <1>22, <1>10, <1>11, <1>14 DEF PagerSettled
    <3>2. ASSUME NEW i \in 1..replies, i # r PROVE PagerSettled(i)'
      <4>1. told'[i] = told[i] /\ PagerSettled(i)
        BY <3>2, <1>14 DEF PagerInv, RepliesInv
      <4> QED BY <4>1, <3>2, <2>2, <1>15, <1>20 DEF PagerSettled
    <3> QED BY <3>1, <3>2, <1>15, <1>17 DEF RepliesInv
  <2>5. TimersInv'
    <3>1. G!drop(key) = {[tag |-> stashes[k].timer, key |-> k] : k \in DOMAIN stashes \ {key}}
      BY DropFacts DEF PagerInv
    <3> QED BY <3>1, <2>1, <2>2, <1>20 DEF TimersInv
  <2> QED BY <2>3, <2>4, <2>5, <1>16 DEF PagerInv
<1> QED BY <1>21, <1>22

(* The oldest timer fires; it is the timer of the stash it deletes         *)
(* (EventMsg's closure).                                                   *)
LEMMA ExpireStep ==
  ASSUME PagerInv, NEW e, G!Expire(e)
  PROVE  PagerInv'
<1>1. PICK key \in DOMAIN stashes : e = [tag |-> stashes[key].timer, key |-> key]
  BY DEF G!Expire, PagerInv, TimersInv
<1>2. /\ stashes' = G!Without(stashes, {key}) /\ expiries' = expiries \ {e}
      /\ ended' = ended \cup {stashes[key].reply}
      /\ replies' = replies /\ told' = told
  BY <1>1 DEF G!Expire
<1>3. /\ DOMAIN stashes' = DOMAIN stashes \ {key}
      /\ \A k \in DOMAIN stashes' : stashes'[k] = stashes[k]
      /\ stashes' = [k \in DOMAIN stashes' |-> stashes'[k]]
  BY <1>2 DEF G!Without
<1>4. StashInv'
  <2>1. ASSUME NEW k \in DOMAIN stashes'
        PROVE  StashOK(k)' /\ stashes'[k] \in [reply : Nat, len : Nat, displayed : Nat, timer : Nat]
    <3>1. /\ StashOK(k) /\ stashes'[k] = stashes[k]
          /\ stashes[k] \in [reply : Nat, len : Nat, displayed : Nat, timer : Nat]
      BY <1>3 DEF PagerInv, StashInv
    <3> QED BY <3>1, <1>2 DEF StashOK
  <2> QED BY <2>1, <1>3 DEF StashInv, PagerInv
<1>5. RepliesInv'
  <2>1. ASSUME NEW i \in 1..replies PROVE PagerInOrder(i)' /\ PagerSettled(i)'
    <3>1. PagerInOrder(i) /\ PagerSettled(i)
      BY DEF PagerInv, RepliesInv
    <3>2. PagerInOrder(i)'
      BY <3>1, <1>2 DEF PagerInOrder
    <3> QED BY <3>1, <3>2, <1>2, <1>3 DEF PagerSettled
  <2> QED BY <2>1, <1>2 DEF RepliesInv
<1>6. TimersInv'
  <2>1. \A k \in DOMAIN stashes : stashes[k].timer = stashes[key].timer => k = key
    BY DEF PagerInv, StashInv, StashOK
  <2>2. expiries = {[tag |-> stashes[k].timer, key |-> k] : k \in DOMAIN stashes}
    BY DEF TimersInv, PagerInv
  <2> DEFINE Tag(k) == [tag |-> stashes[k].timer, key |-> k]
  <2>3. \A k \in DOMAIN stashes : Tag(k) = e <=> k = key
    <3>1. \A k \in DOMAIN stashes : Tag(k).key = k
      OBVIOUS
    <3> QED BY <3>1, <1>1
  <2>4. expiries' = {Tag(k) : k \in DOMAIN stashes \ {key}}
    <3> HIDE DEF Tag
    <3>1. expiries = {Tag(k) : k \in DOMAIN stashes}
      BY <2>2 DEF Tag
    <3> QED BY <3>1, <2>3, <1>2
  <2>5. \A k \in DOMAIN stashes' : Tag(k) = [tag |-> stashes'[k].timer, key |-> k]
    BY <1>3
  <2> QED BY <2>4, <2>5, <1>3 DEF TimersInv
<1>7. PagerTypeInv'
  BY <1>2 DEF PagerTypeInv, PagerInv
<1> QED BY <1>4, <1>5, <1>6, <1>7 DEF PagerInv

LEMMA StepInv == G!PagerConstants /\ PagerInv /\ [G!Next]_G!vars => PagerInv'
<1> SUFFICES ASSUME G!PagerConstants, PagerInv, [G!Next]_G!vars PROVE PagerInv'
  OBVIOUS
<1>1. ASSUME NEW key \in G!StashKeys, NEW max \in Budgets, NEW n \in 0..MaxLength,
             G!EventMsg(key, n, max)
      PROVE  PagerInv'
  <2>1. n \in Nat /\ max \in Nat
    BY DEF G!PagerConstants
  <2> QED BY <1>1, <2>1, EventMsgStep
<1>2. ASSUME NEW key \in G!StashKeys, NEW max \in Budgets, NEW named \in BOOLEAN,
             G!More(key, named, max)
      PROVE  PagerInv'
  <2>1. max \in Nat
    BY DEF G!PagerConstants
  <2> QED BY <1>2, <2>1, MoreStep
<1>3. ASSUME NEW e \in expiries, G!Expire(e) PROVE PagerInv'
  BY <1>3, ExpireStep
<1>4. CASE UNCHANGED G!vars
  BY <1>4 DEF G!vars, PagerInv, PagerTypeInv, StashInv, StashOK, RepliesInv, PagerInOrder, PagerSettled, TimersInv
<1> QED BY <1>1, <1>2, <1>3, <1>4 DEF G!Next

(* Whatever budgets and replies there are, a reader gets a reply's lines   *)
(* once and in order, and the rest until it is read, replaced or expires   *)
(* by its own timer (pager.go, EventMsg, More and drop).                   *)
THEOREM PagerPagedInFull == ASSUME G!PagerConstants PROVE G!Spec => []G!PagedInFull
<1>1. PagerInv /\ [G!Next]_G!vars => PagerInv'
  BY StepInv
<1> QED BY <1>1, PagerInitInv, PagerInvImplies, PTL DEF G!Spec

(***************************************************************************)
(* Conf: for any settings, releases and defaults, what was set stays set.  *)
(***************************************************************************)
(* A created setting shows what is stored of it, or the default.  Without  *)
(* this a value could be kept in the row and yet not be the one in force;  *)
(* and what a process holds is what it promised, unless it could not read  *)
(* the row.                                                                *)
ConfInv ==
    /\ DOMAIN settings \subseteq Settings
    /\ \A n \in DOMAIN settings : settings[n] = S!create(n, S!Stored(valued, n), release)
    /\ \A n \in Settings : S!Stored(row, n) \in pledged[n]
    /\ ~blind => \A n \in Settings : S!Stored(valued, n) \in pledged[n]

LEMMA ConfWithStored ==
  ASSUME NEW tbl, NEW n, NEW raw, NEW m
  PROVE  S!Stored(S!With(tbl, n, raw), m) = IF m = n THEN raw ELSE S!Stored(tbl, m)
BY DEF S!Stored, S!With

(* A value is set and stored, or not stored (Set).                         *)
LEMMA ConfSetStep ==
  ASSUME ConfInv, NEW n \in Settings, NEW raw \in Raws, S!Set(n, raw)
  PROVE  ConfInv'
<1>1. /\ n \in DOMAIN settings /\ raw \in Parses[release][n]
      /\ release' = release /\ blind' = blind
      /\ settings' = [settings EXCEPT ![n] = raw]
      /\ valued' = S!With(valued, n, raw)
  BY DEF S!Set
<1>2. \A m \in Settings : S!Stored(valued', m) = IF m = n THEN raw ELSE S!Stored(valued, m)
  BY <1>1, ConfWithStored
<1>3. DOMAIN settings' \subseteq Settings
  BY <1>1 DEF ConfInv
<1>4. ASSUME NEW m \in DOMAIN settings'
      PROVE  settings'[m] = S!create(m, S!Stored(valued', m), release')
  <2>1. CASE m = n
    BY <2>1, <1>1, <1>2, <1>3, <1>4 DEF S!create
  <2>2. CASE m # n
    BY <2>2, <1>1, <1>2, <1>3, <1>4 DEF ConfInv, S!create
  <2> QED BY <2>1, <2>2
<1>5. \A m \in Settings :
         /\ pledged[m] \subseteq pledged'[m] \/ m = n
         /\ m = n => raw \in pledged'[m]
         /\ blind => S!Stored(valued, m) \in pledged'[m] \/ m = n
  BY DEF S!Set
<1>6. \A m \in Settings : S!Stored(valued', m) \in pledged'[m]
  BY <1>2, <1>5 DEF ConfInv
<1>7. ASSUME NEW m \in Settings PROVE S!Stored(row', m) \in pledged'[m]
  <2>1. CASE row' = valued'
    BY <2>1, <1>6
  <2>2. CASE row' = row /\ pledged[m] \subseteq pledged'[m]
    BY <2>2 DEF ConfInv
  <2>3. row' = valued' \/ (row' = row /\ pledged[m] \subseteq pledged'[m])
    BY DEF S!Set, S!Persisted
  <2> QED BY <2>1, <2>2, <2>3
<1> QED BY <1>3, <1>4, <1>6, <1>7 DEF ConfInv

(* The process starts, with the row or without it (Start).                 *)
LEMMA ConfStartStep ==
  ASSUME ConfInv, NEW rel \in Releases, NEW loaded \in SUBSET Settings, NEW read \in BOOLEAN,
         S!Start(rel, loaded, read)
  PROVE  ConfInv'
<1>1. /\ release' = rel /\ row' = row /\ blind' = ~read
      /\ settings' = [n \in loaded |-> S!create(n, S!Stored(valued', n), rel)]
      /\ valued' = IF read THEN row ELSE S!Nothing
      /\ pledged' = IF read THEN [n \in Settings |-> {S!Stored(row, n)}] ELSE pledged
  BY DEF S!Start
<1>2. DOMAIN settings' \subseteq Settings
  BY <1>1
<1>3. \A n \in DOMAIN settings' : settings'[n] = S!create(n, S!Stored(valued', n), release')
  BY <1>1
<1>4. \A n \in Settings : S!Stored(row', n) \in pledged'[n]
  BY <1>1 DEF ConfInv
<1>5. ~blind' => \A n \in Settings : S!Stored(valued', n) \in pledged'[n]
  BY <1>1
<1> QED BY <1>2, <1>3, <1>4, <1>5 DEF ConfInv, S!create

(* What was set stays set, and what never was follows the default of the   *)
(* release (conf.create, conf.Set, the OnChange of the core).              *)
THEOREM ConfSettingsKept ==
  ASSUME S!ConfConstants
  PROVE  S!Spec => []S!SettingsKept
<1>1. S!Init => ConfInv
  <2> SUFFICES ASSUME S!Init PROVE ConfInv
    OBVIOUS
  <2>1. \A n \in Settings : S!Stored(S!Nothing, n) = S!NoValue
    BY DEF S!Stored, S!Nothing
  <2>2. \A n \in Settings : S!create(n, S!NoValue, release) = Default[release][n]
    BY DEF S!ConfConstants, S!create, S!Init
  <2> QED BY <2>1, <2>2 DEF S!Init, ConfInv
<1>2. ConfInv /\ [S!Next]_S!vars => ConfInv'
  <2> SUFFICES ASSUME ConfInv, [S!Next]_S!vars PROVE ConfInv'
    OBVIOUS
  <2>1. CASE S!Next
    BY <2>1, ConfSetStep, ConfStartStep DEF S!Next
  <2>2. CASE UNCHANGED S!vars
    BY <2>2 DEF S!vars, ConfInv, S!Stored, S!create
  <2> QED BY <2>1, <2>2
<1>3. ConfInv => S!SettingsKept
  BY DEF ConfInv, S!SettingsKept
<1> QED BY <1>1, <1>2, <1>3, PTL DEF S!Spec

(***************************************************************************)
(* Admin: a session's lines run one at a time and none after its last, and *)
(* what the port acknowledged of an account holds.                         *)
(***************************************************************************)
Usernames == Users \cup Passwords \cup {superName, A!NoName}
AdminSession == [state : {"user", "pass", "in"}, username : Usernames, su : BOOLEAN, tries : Nat]
Closure == [client : Nicks, line : Inputs]

PortTypeInv ==
    /\ client \in [Nicks -> {"none", "open", "gone"}]
    /\ handler \in [Nicks -> {"none", "waits", "posted", "done", "left"}]
    /\ typed \in [Nicks -> Seq(Inputs)] /\ work \in Seq(Closure)
    /\ sess \in [Nicks -> AdminSession]
    /\ handled \in [Nicks -> Nat] /\ bye \in [Nicks -> Nat]

(* Who waits for a closure has exactly one in the work channel.            *)
QueueInv ==
    /\ \A i, j \in 1..Len(work) : work[i].client = work[j].client => i = j
    /\ \A i \in 1..Len(work) : handler[work[i].client] = "posted"
    /\ \A c \in Nicks : handler[c] = "posted" => \E i \in 1..Len(work) : work[i].client = c

(* The instance's Cardinality is the standard one.                         *)
LEMMA AdminCardinality ==
  ASSUME NEW set
  PROVE  A!Cardinality(set) = Cardinality(set)
BY DEF A!Cardinality, Cardinality

(* Where a session is.  Without the first clause a connection could come   *)
(* back after its goodbye; without the third a password could be refused   *)
(* to one who is in.                                                       *)
Standing(c) ==
    /\ client[c] = "none" => handler[c] = "none"
    /\ bye[c] # 0 => handler[c] \in {"done", "left"} /\ handled[c] = bye[c]
    /\ sess[c].su => sess[c].state = "in"
    /\ sess[c].tries <= maxTries
    /\ sess[c].tries = maxTries => bye[c] # 0 /\ sess[c].state # "in"

SessInv == \A c \in Nicks : Standing(c)

AccountsInv == accept = [n \in Users |-> accept[n]] /\ A!AccountsKept

PortInv == PortTypeInv /\ QueueInv /\ SessInv

(***************************************************************************)
(* The accounts                                                            *)
(***************************************************************************)
LEMMA PasswordSet ==
  ASSUME NEW tbl, NEW n, NEW p, NEW m
  PROVE  A!Password(A!Set(tbl, n, p), m) = IF m = n THEN p ELSE A!Password(tbl, m)
BY DEF A!Password, A!Set

(* An account is changed in memory, and stored or put in doubt (setHash).  *)
LEMMA HashStep ==
  ASSUME AccountsInv, NEW name \in Users, NEW password, A!setHash(name, password)
  PROVE  AccountsInv'
<1>1. CASE password \in TooLong
  BY <1>1 DEF A!setHash, A!accounts, AccountsInv, A!AccountsKept
<1>2. CASE password \notin TooLong
  <2>1. users' = A!Set(users, name, password)
    BY <1>2 DEF A!setHash
  <2>2. \A m : A!Password(users', m) = IF m = name THEN password ELSE A!Password(users, m)
    BY <2>1, PasswordSet
  <2>3. CASE tables' = users' /\ accept' = [accept EXCEPT ![name] = {password}]
    <3>1. accept' = [m \in Users |-> IF m = name THEN {password} ELSE accept[m]]
      BY <2>3 DEF AccountsInv
    <3> QED BY <2>2, <2>3, <3>1 DEF AccountsInv, A!AccountsKept
  <2>4. CASE tables' = tables /\ accept' = [accept EXCEPT ![name] = @ \cup {password}]
    <3>1. accept' = [m \in Users |-> IF m = name THEN accept[m] \cup {password} ELSE accept[m]]
      BY <2>4 DEF AccountsInv
    <3> QED BY <2>2, <2>4, <3>1 DEF AccountsInv, A!AccountsKept
  <2> QED BY <1>2, <2>3, <2>4 DEF A!setHash
<1> QED BY <1>1, <1>2

LEMMA KeptStep ==
  ASSUME AccountsInv, UNCHANGED A!accounts
  PROVE  AccountsInv'
BY DEF A!accounts, AccountsInv, A!AccountsKept

(* The commands of a session (dispatch).                                   *)
LEMMA DispatchStep ==
  ASSUME A!AdminConstants, AccountsInv, NEW c, NEW line \in Inputs, A!dispatch(c, line)
  PROVE  AccountsInv'
<1>1. CASE line.verb = "adduser" /\ sess[c].su
  <2>1. line.name \in Users
    BY <1>1 DEF A!AdminConstants
  <2>2. A!AddUser(line.name, line.pass)
    BY <1>1 DEF A!dispatch
  <2> QED BY <2>1, <2>2, HashStep, KeptStep DEF A!AddUser
<1>2. CASE ~(line.verb = "adduser" /\ sess[c].su) /\ line.verb = "passwd" /\ sess[c].su
  <2>1. line.name \in Users
    BY <1>2 DEF A!AdminConstants
  <2>2. A!SetPassword(line.name, line.pass)
    BY <1>2 DEF A!dispatch
  <2> QED BY <2>1, <2>2, HashStep, KeptStep DEF A!SetPassword
<1>3. CASE ~(line.verb = "adduser" /\ sess[c].su) /\ ~(line.verb = "passwd" /\ sess[c].su)
  <2>1. UNCHANGED A!accounts
    BY <1>3 DEF A!dispatch
  <2> QED BY <2>1, KeptStep
<1> QED BY <1>1, <1>2, <1>3

(* The other process writes its copy, with one account more.               *)
LEMMA CliStep ==
  ASSUME AccountsInv, A!adduserWrites
  PROVE  AccountsInv'
<1>1. /\ accept' = [m \in Users |-> accept[m] \cup {A!Password(tables', m)}]
      /\ users' = users
  BY DEF A!adduserWrites
<1> QED BY <1>1 DEF AccountsInv, A!AccountsKept, A!Password

(* The core reads the store, which settles what was in doubt (Restart).    *)
LEMMA AdminRestartAccounts ==
  ASSUME A!Restart
  PROVE  AccountsInv'
<1>1. /\ accept' = [n \in Users |-> {A!Password(tables, n)}]
      /\ users' = tables /\ tables' = tables
  BY DEF A!Restart
<1> QED BY <1>1 DEF AccountsInv, A!AccountsKept, A!Password

(***************************************************************************)
(* The sessions                                                            *)
(***************************************************************************)
LEMMA InitPort ==
  ASSUME A!AdminConstants, A!Init
  PROVE  PortInv /\ AccountsInv
<1>1. PortTypeInv
  BY DEF A!AdminConstants, A!Init, PortTypeInv, AdminSession, Usernames, A!Greeted, Closure
<1>2. QueueInv
  BY DEF A!Init, QueueInv
<1>3. SessInv
  BY DEF A!AdminConstants, A!Init, SessInv, Standing, A!Greeted
<1>4. AccountsInv
  BY DEF A!Init, AccountsInv, A!AccountsKept, A!Password, A!NoUsers
<1> QED BY <1>1, <1>2, <1>3, <1>4 DEF PortInv

(* What is in the work channel.                                            *)
LEMMA ClosureFacts ==
  ASSUME PortInv, NEW i \in 1..Len(work)
  PROVE  work[i] \in Closure /\ work[i].client \in Nicks /\ work[i].line \in Inputs
<1>1. work \in Seq(Closure)
  BY DEF PortInv, PortTypeInv
<1>2. work[i] \in Closure
  BY <1>1, ElementOfSeq
<1> QED BY <1>2 DEF Closure

LEMMA ConnectStep ==
  ASSUME PortInv, NEW c \in Nicks, A!Connect(c)
  PROVE  PortInv'
<1>1. handler[c] = "none" /\ bye[c] = 0
  BY DEF PortInv, SessInv, Standing, A!Connect, PortTypeInv
<1>2. PortTypeInv'
  BY DEF PortInv, PortTypeInv, A!Connect
<1>3. \A d \in Nicks : handler'[d] = IF d = c THEN "waits" ELSE handler[d]
  BY DEF PortInv, PortTypeInv, A!Connect
<1>4. QueueInv'
  <2>1. work' = work /\ (\A i \in 1..Len(work) : work[i].client \in Nicks)
    BY ClosureFacts DEF A!Connect
  <2> QED BY <2>1, <1>1, <1>3 DEF PortInv, QueueInv
<1>5. SessInv'
  BY <1>1, <1>3 DEF PortInv, PortTypeInv, SessInv, Standing, A!Connect
<1> QED BY <1>2, <1>4, <1>5 DEF PortInv

(* What touches neither handle, nor its closure, nor the session.          *)
LEMMA AsideStep ==
  ASSUME PortInv, UNCHANGED <<sess, handler, work, handled, bye>>,
         typed' \in [Nicks -> Seq(Inputs)],
         client' \in [Nicks -> {"none", "open", "gone"}],
         \A c \in Nicks : client'[c] = "none" => client[c] = "none"
  PROVE  PortInv'
BY DEF PortInv, PortTypeInv, QueueInv, SessInv, Standing

LEMMA TypeStep ==
  ASSUME PortInv, NEW c \in Nicks, NEW line \in Inputs, A!Type(c, line)
  PROVE  PortInv'
<1>1. typed[c] \in Seq(Inputs)
  BY DEF PortInv, PortTypeInv
<1>2. Append(typed[c], line) \in Seq(Inputs)
  BY <1>1, AppendProperties
<1>3. typed' \in [Nicks -> Seq(Inputs)]
  BY <1>2 DEF PortInv, PortTypeInv, A!Type
<1> QED BY <1>3, AsideStep DEF A!Type, PortInv, PortTypeInv

LEMMA ReadStep ==
  ASSUME PortInv, NEW c \in Nicks, A!Read(c)
  PROVE  PortInv'
BY AsideStep DEF A!Read, PortInv, PortTypeInv

LEMMA HangUpStep ==
  ASSUME PortInv, NEW c \in Nicks, A!HangUp(c)
  PROVE  PortInv'
<1>1. typed' \in [Nicks -> Seq(Inputs)]
  <2>1. typed \in [Nicks -> Seq(Inputs)] /\ <<>> \in Seq(Inputs)
    BY EmptySeq DEF PortInv, PortTypeInv
  <2>2. [typed EXCEPT ![c] = <<>>] \in [Nicks -> Seq(Inputs)]
    BY <2>1
  <2> QED BY <2>1, <2>2 DEF A!HangUp
<1>2. /\ client' \in [Nicks -> {"none", "open", "gone"}]
      /\ \A d \in Nicks : client'[d] = "none" => client[d] = "none"
  BY DEF A!HangUp, PortInv, PortTypeInv
<1>3. UNCHANGED <<sess, handler, work, handled, bye>>
  BY DEF A!HangUp
<1> QED BY <1>1, <1>2, <1>3, AsideStep

(* One line goes to the dispatcher, from a handle that has none there.     *)
LEMMA TakeStep ==
  ASSUME PortInv, NEW c \in Nicks, A!Take(c)
  PROVE  PortInv'
<1> DEFINE new == [client |-> c, line |-> Head(typed[c])]
<1>1. handler[c] = "waits" /\ typed[c] # <<>> /\ typed[c] \in Seq(Inputs)
  BY DEF A!Take, A!Free, PortInv, PortTypeInv
<1>2. Head(typed[c]) \in Inputs /\ Tail(typed[c]) \in Seq(Inputs)
  BY <1>1, HeadTailProperties
<1>3. new \in Closure /\ new.client = c
  BY <1>2 DEF Closure
<1>4. work' = Append(work, new) /\ work \in Seq(Closure)
  BY DEF A!Take, PortInv, PortTypeInv
<1> HIDE DEF new
<1>5. /\ work' \in Seq(Closure) /\ Len(work') = Len(work) + 1
      /\ \A i \in 1..Len(work) : work'[i] = work[i]
      /\ work'[Len(work) + 1] = new /\ Len(work) \in Nat
  BY <1>3, <1>4, AppendProperties
<1>6. \A d \in Nicks : handler'[d] = IF d = c THEN "posted" ELSE handler[d]
  BY DEF A!Take, PortInv, PortTypeInv
<1>7. PortTypeInv'
  BY <1>2, <1>5 DEF A!Take, PortInv, PortTypeInv
<1>8. \A i \in 1..Len(work) : work[i].client \in Nicks /\ work[i].client # c
  BY <1>1, ClosureFacts DEF PortInv, QueueInv
<1>9. QueueInv'
  <2>1. ASSUME NEW i \in 1..Len(work'), NEW j \in 1..Len(work'), work'[i].client = work'[j].client
        PROVE  i = j
    <3>1. CASE i \in 1..Len(work) /\ j \in 1..Len(work)
      BY <3>1, <2>1, <1>5 DEF PortInv, QueueInv
    <3>2. CASE i = Len(work) + 1 /\ j = Len(work) + 1
      BY <3>2
    <3>3. CASE i = Len(work) + 1 /\ j \in 1..Len(work)
      BY <3>3, <2>1, <1>3, <1>5, <1>8
    <3>4. CASE j = Len(work) + 1 /\ i \in 1..Len(work)
      BY <3>4, <2>1, <1>3, <1>5, <1>8
    <3> QED BY <3>1, <3>2, <3>3, <3>4, <1>5
  <2>2. ASSUME NEW i \in 1..Len(work') PROVE handler'[work'[i].client] = "posted"
    <3>1. CASE i \in 1..Len(work)
      BY <3>1, <1>5, <1>6, <1>8 DEF PortInv, QueueInv
    <3>2. CASE i = Len(work) + 1
      BY <3>2, <1>3, <1>5, <1>6
    <3> QED BY <3>1, <3>2, <1>5
  <2>3. ASSUME NEW d \in Nicks, handler'[d] = "posted"
        PROVE  \E i \in 1..Len(work') : work'[i].client = d
    <3>1. CASE d = c
      BY <3>1, <1>3, <1>5
    <3>2. CASE d # c
      <4>1. PICK i \in 1..Len(work) : work[i].client = d
        BY <3>2, <2>3, <1>6 DEF PortInv, QueueInv
      <4> QED BY <4>1, <1>5
    <3> QED BY <3>1, <3>2
  <2> QED BY <2>1, <2>2, <2>3 DEF QueueInv
<1>10. SessInv'
  BY <1>1, <1>6 DEF A!Take, PortInv, SessInv, Standing
<1> QED BY <1>7, <1>9, <1>10 DEF PortInv

LEMMA LeaveStep ==
  ASSUME PortInv, NEW c \in Nicks, A!Leave(c)
  PROVE  PortInv'
<1>1. \A d \in Nicks : /\ handler'[d] = IF d = c THEN "left" ELSE handler[d]
                       /\ client'[d] = IF d = c THEN "gone" ELSE client[d]
  BY DEF A!Leave, PortInv, PortTypeInv
<1>2. handler[c] \in {"done", "waits"}
  BY DEF A!Leave
<1>3. PortTypeInv'
  BY DEF A!Leave, PortInv, PortTypeInv
<1>4. QueueInv'
  <2>1. work' = work /\ (\A i \in 1..Len(work) : work[i].client \in Nicks)
    BY ClosureFacts DEF A!Leave
  <2> QED BY <2>1, <1>1, <1>2 DEF PortInv, QueueInv
<1>5. SessInv'
  BY <1>1, <1>2 DEF A!Leave, PortInv, SessInv, Standing
<1> QED BY <1>3, <1>4, <1>5 DEF PortInv

(* The first closure leaves the work channel.                              *)
LEMMA PopFacts ==
  ASSUME PortInv, work # <<>>
  PROVE  /\ Head(work) \in Closure /\ Head(work).client \in Nicks /\ Head(work).line \in Inputs
         /\ Head(work) = work[1] /\ Tail(work) \in Seq(Closure)
         /\ Len(work) \in Nat \ {0} /\ Len(Tail(work)) = Len(work) - 1
         /\ \A i \in 1..Len(Tail(work)) : Tail(work)[i] = work[i + 1]
<1>1. work \in Seq(Closure)
  BY DEF PortInv, PortTypeInv
<1>2. /\ Head(work) = work[1] /\ Tail(work) \in Seq(Closure)
      /\ Len(work) \in Nat \ {0} /\ Len(Tail(work)) = Len(work) - 1
      /\ \A i \in 1..Len(Tail(work)) : Tail(work)[i] = work[i + 1]
  BY <1>1, HeadTailProperties
<1>3. 1 \in 1..Len(work)
  BY <1>2
<1> QED BY <1>2, <1>3, ClosureFacts

(* A closure has run and its handle goes on, with the session as it is now *)
(* (the end of handleLine, whatever the line).                             *)
LEMMA AnswerStep ==
  ASSUME PortInv, work # <<>>, NEW done \in BOOLEAN, NEW s \in AdminSession,
         NEW c, c = Head(work).client, A!Answer(c, done), sess' = [sess EXCEPT ![c] = s],
         s.su => s.state = "in", s.tries <= maxTries,
         s.tries = maxTries => done /\ s.state # "in"
  PROVE  PortInv'
<1>1. /\ c \in Nicks /\ c = work[1].client /\ Tail(work) \in Seq(Closure)
      /\ Len(work) \in Nat \ {0} /\ Len(Tail(work)) = Len(work) - 1
      /\ \A i \in 1..Len(Tail(work)) : Tail(work)[i] = work[i + 1]
  BY PopFacts
<1>2. work' = Tail(work)
  BY DEF A!Answer
<1>3. handler[c] = "posted" /\ bye[c] = 0
  <2>1. 1 \in 1..Len(work)
    BY <1>1
  <2>2. handler[c] = "posted"
    BY <1>1, <2>1 DEF PortInv, QueueInv
  <2> QED BY <1>1, <2>2 DEF PortInv, SessInv, Standing
<1>4. /\ client' = client /\ typed' = typed
      /\ \A d \in Nicks :
            /\ handler'[d] = IF d = c THEN IF done THEN "done" ELSE "waits" ELSE handler[d]
            /\ handled'[d] = IF d = c THEN handled[d] + 1 ELSE handled[d]
            /\ bye'[d] = IF d = c THEN IF done THEN handled[d] + 1 ELSE 0 ELSE bye[d]
            /\ sess'[d] = IF d = c THEN s ELSE sess[d]
  BY <1>1, <1>3 DEF A!Answer, PortInv, PortTypeInv
<1>5. PortTypeInv'
  BY <1>1, <1>2 DEF A!Answer, PortInv, PortTypeInv
<1>6. \A i \in 1..Len(work') : i + 1 \in 1..Len(work) /\ work'[i] = work[i + 1] /\ i \in Nat
  BY <1>1, <1>2
<1>7. QueueInv'
  <2>1. ASSUME NEW i \in 1..Len(work'), NEW j \in 1..Len(work'), work'[i].client = work'[j].client
        PROVE  i = j
    <3>1. i + 1 = j + 1
      BY <2>1, <1>6 DEF PortInv, QueueInv
    <3> QED BY <3>1, <1>6
  <2>2. ASSUME NEW i \in 1..Len(work') PROVE handler'[work'[i].client] = "posted"
    <3>1. work[i + 1].client \in Nicks /\ handler[work[i + 1].client] = "posted"
      BY <1>6, ClosureFacts DEF PortInv, QueueInv
    <3>2. work[i + 1].client # c
      <4>1. i + 1 # 1 /\ i + 1 \in 1..Len(work) /\ 1 \in 1..Len(work)
        BY <1>1, <1>6
      <4> QED BY <4>1, <1>1 DEF PortInv, QueueInv
    <3> QED BY <3>1, <3>2, <1>4, <1>6
  <2>3. ASSUME NEW d \in Nicks, handler'[d] = "posted"
        PROVE  \E i \in 1..Len(work') : work'[i].client = d
    <3>1. d # c /\ handler[d] = "posted"
      BY <2>3, <1>4
    <3>2. PICK i \in 1..Len(work) : work[i].client = d
      BY <3>1 DEF PortInv, QueueInv
    <3>3. i # 1
      BY <3>1, <3>2, <1>1
    <3>4. i - 1 \in 1..Len(work') /\ (i - 1) + 1 = i
      BY <3>3, <1>1, <1>2
    <3> QED BY <3>2, <3>4, <1>6
  <2> QED BY <2>1, <2>2, <2>3 DEF QueueInv
<1>8. SessInv'
  <2>1. ASSUME NEW d \in Nicks PROVE Standing(d)'
    <3>1. CASE d = c
      <4>1. handled[c] \in Nat /\ client[c] # "none"
        BY <1>1, <1>3 DEF PortInv, PortTypeInv, SessInv, Standing
      <4> QED BY <3>1, <4>1, <1>1, <1>4 DEF Standing
    <3>2. CASE d # c
      BY <3>2, <1>4 DEF PortInv, SessInv, Standing
    <3> QED BY <3>1, <3>2
  <2> QED BY <2>1 DEF SessInv
<1> QED BY <1>5, <1>7, <1>8 DEF PortInv

(* A password comes in (checkLogin).                                       *)
LEMMA LoginStep ==
  ASSUME A!AdminConstants, PortInv, work # <<>>, NEW c, c = Head(work).client, NEW password,
         sess[c].state = "pass", A!checkLogin(c, password)
  PROVE  PortInv'
<1>1. /\ c \in Nicks /\ sess[c] \in AdminSession /\ maxTries \in Nat \ {0}
  BY PopFacts DEF A!AdminConstants, PortInv, PortTypeInv
<1>2. ~sess[c].su /\ sess[c].tries < maxTries
  <2>1. handler[c] = "posted"
    BY PopFacts, <1>1 DEF PortInv, QueueInv
  <2>2. sess[c].tries \in Nat
    BY <1>1 DEF AdminSession
  <2> QED BY <2>1, <2>2, <1>1 DEF PortInv, SessInv, Standing
<1> DEFINE res == A!Check(sess[c].username, password)
           in == [sess[c] EXCEPT !.state = "in", !.su = (res = "super")]
           done == sess[c].tries + 1 >= maxTries
           out == [sess[c] EXCEPT !.tries = @ + 1, !.state = IF done THEN @ ELSE "user"]
<1>3. CASE res \in {"valid", "super"}
  <2>1. in \in AdminSession /\ in.state = "in" /\ in.tries = sess[c].tries
    BY <1>1 DEF AdminSession
  <2>2. sess' = [sess EXCEPT ![c] = in] /\ A!Answer(c, FALSE)
    BY <1>3 DEF A!checkLogin
  <2> HIDE DEF in
  <2>3. in.tries <= maxTries /\ in.tries # maxTries
    BY <2>1, <1>1, <1>2 DEF AdminSession
  <2> QED BY <2>1, <2>2, <2>3, AnswerStep
<1>4. CASE res \notin {"valid", "super"}
  <2>1. /\ out \in AdminSession /\ out.tries = sess[c].tries + 1 /\ ~out.su
        /\ out.state = IF done THEN "pass" ELSE "user"
    <3>1. sess[c].tries + 1 \in Nat
      BY <1>1 DEF AdminSession
    <3>2. CASE done
      BY <1>1, <1>2, <3>1, <3>2 DEF AdminSession
    <3>3. CASE ~done
      BY <1>1, <1>2, <3>1, <3>3 DEF AdminSession
    <3> QED BY <3>2, <3>3
  <2>2. sess' = [sess EXCEPT ![c] = out] /\ A!Answer(c, done)
    BY <1>4 DEF A!checkLogin
  <2>3. out.tries <= maxTries /\ (out.tries = maxTries => done)
    BY <2>1, <1>1, <1>2 DEF AdminSession
  <2>4. done \in BOOLEAN
    OBVIOUS
  <2> HIDE DEF out, done
  <2> QED BY <2>1, <2>2, <2>3, <2>4, AnswerStep
<1> QED BY <1>3, <1>4

(* The dispatcher runs the closure of a line (handleLine).                 *)
LEMMA HandleStep ==
  ASSUME A!AdminConstants, PortInv, AccountsInv, A!handleLine
  PROVE  PortInv' /\ AccountsInv'
<1> DEFINE c == Head(work).client
           line == Head(work).line
<1>1. work # <<>>
  BY DEF A!handleLine
<1>2. c \in Nicks /\ line \in Inputs /\ sess[c] \in AdminSession
  BY <1>1, PopFacts DEF PortInv, PortTypeInv
<1>3. sess[c].tries <= maxTries /\ (sess[c].tries = maxTries => FALSE)
  <2>1. handler[c] = "posted"
    BY <1>1, PopFacts DEF PortInv, QueueInv
  <2> QED BY <2>1, <1>2 DEF PortInv, SessInv, Standing
<1>4. CASE sess[c].state = "user"
  <2> DEFINE s == [sess[c] EXCEPT !.username = A!Word(line), !.state = "pass"]
  <2>1. sess' = [sess EXCEPT ![c] = s] /\ A!Answer(c, FALSE) /\ UNCHANGED A!accounts
    BY <1>4 DEF A!handleLine
  <2>2. ~sess[c].su
    BY <1>4, <1>2 DEF PortInv, SessInv, Standing
  <2>3. A!Word(line) \in Usernames
    BY <1>2 DEF A!Word, Usernames, A!AdminConstants, A!Line
  <2>4. s \in AdminSession /\ ~s.su /\ s.tries = sess[c].tries
    BY <1>2, <2>2, <2>3 DEF AdminSession
  <2> HIDE DEF s
  <2> QED BY <2>1, <2>4, <1>1, <1>3, AnswerStep, KeptStep
<1>5. CASE sess[c].state = "pass"
  <2>1. A!checkLogin(c, A!Word(line))
    BY <1>5 DEF A!handleLine
  <2>2. UNCHANGED A!accounts
    BY <2>1 DEF A!checkLogin
  <2> QED BY <2>1, <2>2, <1>1, <1>5, LoginStep, KeptStep
<1>6. CASE sess[c].state \notin {"user", "pass"}
  <2>1. /\ A!Answer(c, line.verb = "quit") /\ sess' = sess
        /\ IF line.verb = "quit" THEN UNCHANGED <<A!accounts, refusals>> ELSE A!dispatch(c, line)
    BY <1>6 DEF A!handleLine
  <2>2. AccountsInv'
    BY <2>1, <1>2, DispatchStep, KeptStep
  <2>3. sess' = [sess EXCEPT ![c] = sess[c]]
    BY <2>1 DEF PortInv, PortTypeInv
  <2>4. sess[c].su => sess[c].state = "in"
    BY <1>2 DEF PortInv, SessInv, Standing
  <2>5. (line.verb = "quit") \in BOOLEAN
    OBVIOUS
  <2> QED BY <2>1, <2>2, <2>3, <2>4, <2>5, <1>1, <1>2, <1>3, AnswerStep
<1> QED BY <1>4, <1>5, <1>6

LEMMA AdminRestartStep ==
  ASSUME A!AdminConstants, PortInv, A!Restart
  PROVE  PortInv'
<1>1. PortTypeInv'
  BY DEF A!AdminConstants, A!Restart, PortTypeInv, AdminSession, Usernames, A!Greeted, Closure
<1>2. QueueInv'
  BY DEF A!Restart, QueueInv
<1>3. SessInv'
  BY DEF A!AdminConstants, A!Restart, SessInv, Standing, A!Greeted
<1> QED BY <1>1, <1>2, <1>3 DEF PortInv

(* botje adduser touches no connection.                                    *)
LEMMA AdminApartStep ==
  ASSUME PortInv, UNCHANGED <<A!net, sess, handled, bye>>
  PROVE  PortInv'
BY DEF A!net, PortInv, PortTypeInv, QueueInv, SessInv, Standing

LEMMA AdminNextStep ==
  ASSUME A!AdminConstants, PortInv, AccountsInv, [A!Next]_A!vars
  PROVE  PortInv' /\ AccountsInv'
<1>1. ASSUME NEW c \in Nicks, A!Connect(c) PROVE PortInv' /\ AccountsInv'
  BY <1>1, ConnectStep, KeptStep DEF A!Connect
<1>2. ASSUME NEW c \in Nicks, A!Read(c) PROVE PortInv' /\ AccountsInv'
  BY <1>2, ReadStep, KeptStep DEF A!Read
<1>3. ASSUME NEW c \in Nicks, A!HangUp(c) PROVE PortInv' /\ AccountsInv'
  BY <1>3, HangUpStep, KeptStep DEF A!HangUp
<1>4. ASSUME NEW c \in Nicks, A!Take(c) PROVE PortInv' /\ AccountsInv'
  BY <1>4, TakeStep, KeptStep DEF A!Take
<1>5. ASSUME NEW c \in Nicks, A!Leave(c) PROVE PortInv' /\ AccountsInv'
  BY <1>5, LeaveStep, KeptStep DEF A!Leave
<1>6. ASSUME NEW c \in Nicks, NEW line \in Inputs, A!Type(c, line) PROVE PortInv' /\ AccountsInv'
  BY <1>6, TypeStep, KeptStep DEF A!Type
<1>7. CASE A!handleLine
  BY <1>7, HandleStep
<1>8. CASE A!Restart
  BY <1>8, AdminRestartStep, AdminRestartAccounts
<1>9. CASE A!adduserReads
  BY <1>9, AdminApartStep, KeptStep DEF A!adduserReads
<1>10. CASE A!adduserWrites
  BY <1>10, AdminApartStep, CliStep DEF A!adduserWrites
<1>11. CASE UNCHANGED A!vars
  BY <1>11, AdminApartStep, KeptStep DEF A!vars
<1> QED BY <1>1, <1>2, <1>3, <1>4, <1>5, <1>6, <1>7, <1>8, <1>9, <1>10, <1>11 DEF A!Next

LEMMA PortInvHolds ==
  ASSUME PortInv, AccountsInv
  PROVE  A!AdminHolds
<1>1. ASSUME NEW c \in Nicks
      PROVE  A!Cardinality(A!Closures(c)) = IF handler[c] = "posted" THEN 1 ELSE 0
  <2>1. DOMAIN work = 1..Len(work)
    BY DEF PortInv, PortTypeInv
  <2>2. CASE handler[c] = "posted"
    <3>1. PICK i \in 1..Len(work) : work[i].client = c
      BY <2>2 DEF PortInv, QueueInv
    <3>2. A!Closures(c) = {i}
      BY <2>1, <3>1 DEF PortInv, QueueInv, A!Closures
    <3> QED BY <2>2, <3>2, FS_Singleton, AdminCardinality
  <2>3. CASE handler[c] # "posted"
    <3>1. A!Closures(c) = {}
      BY <2>1, <2>3 DEF PortInv, QueueInv, A!Closures
    <3> QED BY <2>3, <3>1, FS_EmptySet, AdminCardinality
  <2> QED BY <2>2, <2>3
<1>2. A!LastWord
  BY <1>1 DEF PortInv, SessInv, Standing, A!LastWord
<1> QED BY <1>2 DEF AccountsInv, A!AdminHolds

(* For any number of connections and accounts, whatever people type, the   *)
(* store refuses, botje adduser writes and however often the core starts:  *)
(* one line at a time, none behind the last, and every acknowledged        *)
(* password holds (handle, handleLine, checkLogin, setHash).               *)
THEOREM AdminPortHolds ==
  ASSUME A!AdminConstants
  PROVE  A!Spec => []A!AdminHolds
<1>1. A!Init => PortInv /\ AccountsInv
  BY InitPort
<1>2. (PortInv /\ AccountsInv) /\ [A!Next]_A!vars => (PortInv /\ AccountsInv)'
  BY AdminNextStep
<1>3. PortInv /\ AccountsInv => A!AdminHolds
  BY PortInvHolds
<1> QED BY <1>1, <1>2, <1>3, PTL DEF A!Spec

(***************************************************************************)
(* Oven timers: an alarm that was set and not cleared rings once           *)
(***************************************************************************)
Alarm == [Nick : Nicks, ID : Names \cup Nat, When : Int, Repeat : Nat, uid : Nat]

(* A map of alarms, in memory or stored: each under its own key, no two of *)
(* one number, nor of one id whoever set them: without that clearing one   *)
(* would give away the name of another.                                    *)
AlarmTable(f, n) ==
    /\ f = [k \in DOMAIN f |-> f[k]]
    /\ \A k \in DOMAIN f : f[k] \in Alarm /\ k = P!Key(f[k]) /\ f[k].uid < n
    /\ \A j, k \in DOMAIN f : f[j].uid = f[k].uid \/ f[j].ID = f[k].ID => j = k

(* Without a failed save the store differs in the times at most.           *)
InStep ==
    /\ DOMAIN disk = DOMAIN timers
    /\ \A k \in DOMAIN timers : disk[k].uid = timers[k].uid

AlarmsInv ==
    /\ now \in Int /\ alarms \in Nat /\ fallback \in Nat
    /\ ~reused =>
        /\ AlarmTable(timers, alarms) /\ AlarmTable(disk, alarms)
        /\ armed = {timers[k] : k \in DOMAIN timers}
        /\ promised = {timers[k].uid : k \in DOMAIN timers}
        /\ \A k \in DOMAIN timers : timers[k].ID \in Names => timers[k].ID \in used
        /\ ~behind => InStep

(***************************************************************************)
(* Maps of alarms                                                          *)
(***************************************************************************)
LEMMA KeyParts == \A ring \in Alarm : P!Key(ring)[1] = ring.Nick /\ P!Key(ring)[2] = ring.ID
BY DEF P!Key

LEMMA AlarmTableWith ==
  ASSUME NEW f, NEW n \in Nat, NEW m \in Nat, n <= m, AlarmTable(f, n), NEW ring \in Alarm, ring.uid < m,
         \A k \in DOMAIN f : k # P!Key(ring) => f[k].uid # ring.uid /\ f[k].ID # ring.ID
  PROVE  AlarmTable(P!With(f, P!Key(ring), ring), m)
<1> PICK g : g = P!With(f, P!Key(ring), ring)
  OBVIOUS
<1>1. /\ g = [k \in DOMAIN f \cup {P!Key(ring)} |-> IF k = P!Key(ring) THEN ring ELSE f[k]]
  BY DEF P!With
<1>2. /\ DOMAIN g = DOMAIN f \cup {P!Key(ring)} /\ g[P!Key(ring)] = ring
      /\ \A k \in DOMAIN f : k # P!Key(ring) => g[k] = f[k]
  BY <1>1
<1>3. g = [k \in DOMAIN g |-> g[k]]
  BY <1>1
<1>4. ASSUME NEW k \in DOMAIN g PROVE g[k] \in Alarm /\ k = P!Key(g[k]) /\ g[k].uid < m
  <2>1. CASE k = P!Key(ring)
    BY <2>1, <1>2
  <2>2. CASE k # P!Key(ring)
    <3>1. k \in DOMAIN f /\ g[k] = f[k]
      BY <2>2, <1>2
    <3>2. f[k] \in Alarm /\ k = P!Key(f[k]) /\ f[k].uid < n
      BY <3>1 DEF AlarmTable
    <3>3. f[k].uid \in Nat
      BY <3>2 DEF Alarm
    <3> QED BY <3>1, <3>2, <3>3
  <2> QED BY <2>1, <2>2
<1>5. ASSUME NEW j \in DOMAIN g, NEW k \in DOMAIN g, g[j].uid = g[k].uid \/ g[j].ID = g[k].ID
      PROVE  j = k
  BY <1>2, <1>5 DEF AlarmTable
<1> QED BY <1>3, <1>4, <1>5 DEF AlarmTable

LEMMA AlarmTableWithout ==
  ASSUME NEW f, NEW n, AlarmTable(f, n), NEW taken
  PROVE  /\ AlarmTable(P!Without(f, taken), n) /\ DOMAIN P!Without(f, taken) = DOMAIN f \ taken
         /\ \A k \in DOMAIN f \ taken : P!Without(f, taken)[k] = f[k]
BY DEF AlarmTable, P!Without

(* Load changes nothing but times.                                         *)
LEMMA RestoredParts ==
  ASSUME P!PizzaConstants, NEW ring \in Alarm, now \in Int
  PROVE  /\ P!Restored(ring) \in Alarm /\ P!Restored(ring).uid = ring.uid /\ P!Restored(ring).ID = ring.ID
         /\ P!Key(P!Restored(ring)) = P!Key(ring)
<1>1. Soon \in Int
  BY DEF P!PizzaConstants
<1> QED BY <1>1 DEF P!Restored, Alarm, P!Key

(***************************************************************************)
(* Steps                                                                   *)
(***************************************************************************)
LEMMA AlarmTableGrows ==
  ASSUME NEW f, NEW n \in Nat, NEW m \in Nat, n <= m, AlarmTable(f, n)
  PROVE  AlarmTable(f, m)
<1>1. \A k \in DOMAIN f : f[k].uid \in Nat
  BY DEF AlarmTable, Alarm
<1> QED BY <1>1 DEF AlarmTable

(* A new table, stored or not, next to an old one.                         *)
LEMMA SavedTable ==
  ASSUME P!save(timers'), AlarmTable(timers', alarms'), AlarmTable(disk, alarms')
  PROVE  AlarmTable(disk', alarms') /\ (~behind' => InStep')
<1>1. (disk' = timers' /\ ~behind') \/ (disk' = disk /\ behind')
  BY DEF P!save
<1> QED BY <1>1 DEF InStep

LEMMA NewId ==
  ASSUME P!PizzaConstants, AlarmsInv, NEW g \in P!get
  PROVE  /\ g.fallback \in Nat /\ g.id \in Names \cup Nat
         /\ \/ g.id \in Names /\ g.id \notin used /\ g.used = used \cup {g.id}
            \/ g.id \in Nat /\ g.id \notin Names /\ g.used = used
<1>1. fallback + 1 \in Nat /\ fallback \in Nat /\ \A n \in Names : n \notin Nat
  BY DEF AlarmsInv, P!PizzaConstants
<1>2. \/ \E id \in Names \ used : g = [id |-> id, used |-> used \cup {id}, fallback |-> fallback]
      \/ g = [id |-> fallback + 1, used |-> used, fallback |-> fallback + 1]
  BY DEF P!get
<1> QED BY <1>1, <1>2

LEMMA PizzaSetStep ==
  ASSUME P!PizzaConstants, AlarmsInv, NEW n \in Nicks, NEW d \in Delays, NEW r \in Repeats, P!set(n, d, r)
  PROVE  AlarmsInv'
<1> PICK g \in P!get :
      /\ used' = g.used /\ fallback' = g.fallback
      /\ reused' = (reused \/ g.id \in P!IDs(timers))
      /\ P!schedule([Nick |-> n, ID |-> g.id, When |-> now + d, Repeat |-> r, uid |-> alarms], armed)
  BY DEF P!set
<1> PICK ring : ring = [Nick |-> n, ID |-> g.id, When |-> now + d, Repeat |-> r, uid |-> alarms]
  OBVIOUS
<1>1. /\ timers' = P!With(timers, P!Key(ring), ring) /\ armed' = armed \cup {ring}
      /\ alarms' = alarms + 1 /\ promised' = promised \cup {alarms} /\ now' = now /\ P!save(timers')
  BY DEF P!set, P!schedule
<1>2. alarms \in Nat /\ now \in Int /\ fallback' \in Nat /\ alarms + 1 \in Nat
  BY NewId DEF AlarmsInv
<1>3. ring \in Alarm /\ ring.uid = alarms /\ ring.ID = g.id
  <2>1. d \in Nat /\ r \in Nat
    BY DEF P!PizzaConstants
  <2> QED BY <2>1, <1>2, NewId DEF Alarm
<1>4. ASSUME ~reused'
      PROVE  /\ AlarmTable(timers', alarms') /\ AlarmTable(disk', alarms')
             /\ armed' = {timers'[k] : k \in DOMAIN timers'}
             /\ promised' = {timers'[k].uid : k \in DOMAIN timers'}
             /\ \A k \in DOMAIN timers' : timers'[k].ID \in Names => timers'[k].ID \in used'
             /\ ~behind' => InStep'
  <2>1. ~reused /\ g.id \notin P!IDs(timers)
    BY <1>4
  <2>2. /\ AlarmTable(timers, alarms) /\ AlarmTable(disk, alarms)
        /\ armed = {timers[k] : k \in DOMAIN timers}
        /\ promised = {timers[k].uid : k \in DOMAIN timers}
        /\ \A k \in DOMAIN timers : timers[k].ID \in Names => timers[k].ID \in used
    BY <2>1 DEF AlarmsInv
  <2>3. \A k \in DOMAIN timers : timers[k] \in Alarm /\ timers[k].uid \in Nat /\ timers[k].uid < alarms
                                 /\ k[2] = timers[k].ID
    BY <2>2, KeyParts DEF AlarmTable, Alarm
  <2>4. \A k \in DOMAIN timers : timers[k].uid # ring.uid /\ timers[k].ID # ring.ID
    BY <2>1, <2>3, <1>2, <1>3 DEF P!IDs
  <2>5. P!Key(ring) \notin DOMAIN timers
    BY <2>2, <2>4, <1>3, KeyParts DEF AlarmTable
  <2>6. AlarmTable(timers', alarms') /\ AlarmTable(disk, alarms')
    BY <2>2, <2>4, <1>1, <1>2, <1>3, AlarmTableWith, AlarmTableGrows
  <2>7. /\ DOMAIN timers' = DOMAIN timers \cup {P!Key(ring)} /\ timers'[P!Key(ring)] = ring
        /\ \A k \in DOMAIN timers : timers'[k] = timers[k]
    BY <2>5, <1>1 DEF P!With
  <2>8. armed' = {timers'[k] : k \in DOMAIN timers'}
    BY <2>2, <2>7, <1>1
  <2>9. promised' = {timers'[k].uid : k \in DOMAIN timers'}
    BY <2>2, <2>7, <1>1, <1>3
  <2>10. \A k \in DOMAIN timers' : timers'[k].ID \in Names => timers'[k].ID \in used'
    BY <2>2, <2>7, <1>3, NewId
  <2> QED BY <2>6, <2>8, <2>9, <2>10, <1>1, SavedTable
<1> QED BY <1>1, <1>2, <1>4 DEF AlarmsInv

LEMMA RefusedStep ==
  ASSUME P!PizzaConstants, AlarmsInv, NEW leak \in BOOLEAN, P!setRefused(leak)
  PROVE  AlarmsInv'
<1> PICK g \in P!get : used' \in {g.used, g.used \ {g.id}} /\ fallback' = g.fallback
  BY DEF P!setRefused
<1>1. fallback' \in Nat /\ \A id \in Names : id \in used => id \in used'
  BY NewId
<1>2. UNCHANGED <<now, timers, armed, disk, alarms, promised, reused, behind>>
  BY DEF P!setRefused
<1>3. \A k \in DOMAIN timers : (timers[k].ID \in Names => timers[k].ID \in used)
                               => (timers[k].ID \in Names => timers[k].ID \in used')
  BY <1>1
<1>4. InStep => InStep'
  BY <1>2 DEF InStep
<1> QED BY <1>1, <1>2, <1>3, <1>4 DEF AlarmsInv

LEMMA FireStep ==
  ASSUME AlarmsInv, NEW ring \in armed, P!fire(ring)
  PROVE  AlarmsInv'
<1>1. /\ P!save(timers') /\ UNCHANGED <<now, fallback, alarms, reused>>
  BY DEF P!fire
<1> SUFFICES ASSUME ~reused
             PROVE  /\ AlarmTable(timers', alarms') /\ AlarmTable(disk', alarms')
                    /\ armed' = {timers'[k] : k \in DOMAIN timers'}
                    /\ promised' = {timers'[k].uid : k \in DOMAIN timers'}
                    /\ \A k \in DOMAIN timers' : timers'[k].ID \in Names => timers'[k].ID \in used'
                    /\ ~behind' => InStep'
  BY <1>1 DEF AlarmsInv
<1>2. /\ AlarmTable(timers, alarms) /\ AlarmTable(disk, alarms)
      /\ armed = {timers[k] : k \in DOMAIN timers}
      /\ promised = {timers[k].uid : k \in DOMAIN timers}
      /\ \A k \in DOMAIN timers : timers[k].ID \in Names => timers[k].ID \in used
      /\ alarms \in Nat
  BY DEF AlarmsInv
<1>3. /\ P!Key(ring) \in DOMAIN timers /\ timers[P!Key(ring)] = ring /\ ring \in Alarm /\ ring.uid < alarms
      /\ \A k \in DOMAIN timers : k # P!Key(ring) => timers[k].uid # ring.uid /\ timers[k].ID # ring.ID
  BY <1>2 DEF AlarmTable
<1>4. CASE P!GoesOn(ring)
  <2> PICK next : next = [ring EXCEPT !.When = P!nextRepeat(ring)]
    OBVIOUS
  <2>1. next \in Alarm /\ next.uid = ring.uid /\ next.ID = ring.ID /\ P!Key(next) = P!Key(ring)
    BY <1>3 DEF Alarm, P!Key, P!nextRepeat
  <2>2. /\ timers' = P!With(timers, P!Key(next), next) /\ armed' = (armed \ {ring}) \cup {next}
        /\ used' = used /\ promised' = promised
    BY <1>4 DEF P!fire, P!schedule
  <2>3. AlarmTable(timers', alarms')
    <3>1. alarms <= alarms /\ \A k \in DOMAIN timers : k # P!Key(next) =>
                                 timers[k].uid # next.uid /\ timers[k].ID # next.ID
      BY <2>1, <1>2, <1>3
    <3>2. AlarmTable(P!With(timers, P!Key(next), next), alarms)
      BY <3>1, <2>1, <1>2, <1>3, AlarmTableWith
    <3> QED BY <3>2, <2>2, <1>1
  <2>4. /\ DOMAIN timers' = DOMAIN timers /\ timers'[P!Key(ring)] = next
        /\ \A k \in DOMAIN timers : k # P!Key(ring) => timers'[k] = timers[k]
    BY <2>1, <2>2, <1>3 DEF P!With
  <2>5. \A k \in DOMAIN timers : k # P!Key(ring) => timers[k] # ring
    BY <1>3
  <2>6. armed' = {timers'[k] : k \in DOMAIN timers'}
    BY <2>2, <2>4, <2>5, <1>2, <1>3
  <2>7. promised' = {timers'[k].uid : k \in DOMAIN timers'}
    <3>1. \A k \in DOMAIN timers : timers'[k].uid = timers[k].uid
      BY <2>1, <2>4, <1>3
    <3> QED BY <3>1, <2>2, <2>4, <1>2
  <2>8. \A k \in DOMAIN timers' : timers'[k].ID \in Names => timers'[k].ID \in used'
    BY <2>1, <2>2, <2>4, <1>2, <1>3, ZenonT(60)
  <2> QED BY <2>3, <2>6, <2>7, <2>8, <1>1, <1>2, SavedTable
<1>5. CASE ~P!GoesOn(ring)
  <2>1. /\ timers' = P!Without(timers, {P!Key(ring)}) /\ armed' = armed \ {ring}
        /\ used' = used \ {ring.ID} /\ promised' = promised \ {ring.uid}
    BY <1>5 DEF P!fire
  <2>2. /\ AlarmTable(timers', alarms') /\ DOMAIN timers' = DOMAIN timers \ {P!Key(ring)}
        /\ \A k \in DOMAIN timers' : timers'[k] = timers[k]
    <3> PICK taken : taken = {P!Key(ring)}
      OBVIOUS
    <3>1. /\ AlarmTable(P!Without(timers, taken), alarms) /\ DOMAIN P!Without(timers, taken) = DOMAIN timers \ taken
          /\ \A k \in DOMAIN timers \ taken : P!Without(timers, taken)[k] = timers[k]
      BY <1>2, AlarmTableWithout
    <3> QED BY <3>1, <2>1, <1>1
  <2>3. \A k \in DOMAIN timers : /\ timers[k] = ring <=> k = P!Key(ring)
                                 /\ timers[k].uid = ring.uid <=> k = P!Key(ring)
    BY <1>3
  <2>4. armed' = {timers'[k] : k \in DOMAIN timers'}
    <3>1. {timers[k] : k \in DOMAIN timers} \ {ring} = {timers[k] : k \in DOMAIN timers \ {P!Key(ring)}}
      BY <2>3
    <3> QED BY <2>1, <2>2, <3>1, <1>2, ZenonT(30)
  <2>5. promised' = {timers'[k].uid : k \in DOMAIN timers'}
    <3>1. {timers[k].uid : k \in DOMAIN timers} \ {ring.uid}
            = {timers[k].uid : k \in DOMAIN timers \ {P!Key(ring)}}
      BY <2>3
    <3>2. {timers'[k].uid : k \in DOMAIN timers'} = {timers[k].uid : k \in DOMAIN timers \ {P!Key(ring)}}
      BY <2>2
    <3> QED BY <2>1, <3>1, <3>2, <1>2
  <2>6. \A k \in DOMAIN timers' : timers'[k].ID \in Names => timers'[k].ID \in used'
    BY <2>1, <2>2, <1>2, <1>3
  <2> QED BY <2>2, <2>4, <2>5, <2>6, <1>1, <1>2, SavedTable
<1> QED BY <1>4, <1>5

LEMMA RemovedStep ==
  ASSUME AlarmsInv, NEW ks \in SUBSET DOMAIN timers, P!Removed(ks)
  PROVE  AlarmsInv'
<1> PICK as : as = {timers[k] : k \in ks}
  OBVIOUS
<1>1. /\ P!save(timers') /\ UNCHANGED <<now, fallback, alarms, reused>>
      /\ armed' = armed \ as /\ used' = used \ {k[2] : k \in ks}
      /\ timers' = P!Without(timers, ks) /\ promised' = promised \ {ring.uid : ring \in as}
  BY DEF P!Removed, P!Unscheduled
<1> SUFFICES ASSUME ~reused
             PROVE  /\ AlarmTable(timers', alarms') /\ AlarmTable(disk', alarms')
                    /\ armed' = {timers'[k] : k \in DOMAIN timers'}
                    /\ promised' = {timers'[k].uid : k \in DOMAIN timers'}
                    /\ \A k \in DOMAIN timers' : timers'[k].ID \in Names => timers'[k].ID \in used'
                    /\ ~behind' => InStep'
  BY <1>1 DEF AlarmsInv
<1>2. /\ AlarmTable(timers, alarms) /\ AlarmTable(disk, alarms)
      /\ armed = {timers[k] : k \in DOMAIN timers}
      /\ promised = {timers[k].uid : k \in DOMAIN timers}
      /\ \A k \in DOMAIN timers : timers[k].ID \in Names => timers[k].ID \in used
  BY DEF AlarmsInv
<1>3. \A k \in DOMAIN timers, j \in ks :
         /\ k \notin ks => timers[k] # timers[j] /\ timers[k].uid # timers[j].uid
         /\ k \notin ks => timers[k].ID # j[2]
  <2>1. \A j \in ks : j \in DOMAIN timers /\ j[2] = timers[j].ID
    BY <1>2, KeyParts DEF AlarmTable
  <2> QED BY <2>1, <1>2 DEF AlarmTable
<1>4. /\ AlarmTable(timers', alarms') /\ DOMAIN timers' = DOMAIN timers \ ks
      /\ \A k \in DOMAIN timers' : timers'[k] = timers[k]
  <2>1. /\ AlarmTable(P!Without(timers, ks), alarms) /\ DOMAIN P!Without(timers, ks) = DOMAIN timers \ ks
        /\ \A k \in DOMAIN timers \ ks : P!Without(timers, ks)[k] = timers[k]
    BY <1>2, AlarmTableWithout
  <2> QED BY <2>1, <1>1
<1>5. armed' = {timers'[k] : k \in DOMAIN timers'}
  BY <1>1, <1>2, <1>3, <1>4
<1>6. promised' = {timers'[k].uid : k \in DOMAIN timers'}
  BY <1>1, <1>2, <1>3, <1>4
<1>7. \A k \in DOMAIN timers' : timers'[k].ID \in Names => timers'[k].ID \in used'
  BY <1>1, <1>2, <1>3, <1>4
<1> QED BY <1>1, <1>2, <1>4, <1>5, <1>6, <1>7, SavedTable

LEMMA PizzaApartStep ==
  ASSUME AlarmsInv, UNCHANGED <<timers, armed, used, fallback, disk, alarms, promised, reused, behind>>,
         now' \in Int
  PROVE  AlarmsInv'
BY DEF AlarmsInv, InStep

LEMMA StartStopStep ==
  ASSUME AlarmsInv, P!startStop
  PROVE  AlarmsInv'
<1>1. UNCHANGED <<now, timers, armed, used, fallback, alarms, promised, reused>>
  BY DEF P!startStop
<1>2. (disk' = timers /\ ~behind') \/ (disk' = disk /\ behind')
  BY DEF P!startStop, P!save
<1> QED BY <1>1, <1>2 DEF AlarmsInv, InStep

LEMMA PizzaRestartStep ==
  ASSUME P!PizzaConstants, AlarmsInv, NEW clean \in BOOLEAN, P!Restart(clean)
  PROVE  AlarmsInv'
<1>1. /\ timers' = [k \in DOMAIN disk' |-> P!Restored(disk'[k])]
      /\ armed' = {timers'[k] : k \in DOMAIN timers'}
      /\ used' = P!IDs(disk') /\ fallback' = 0
      /\ promised' = IF behind' THEN {ring.uid : ring \in armed'} ELSE promised
      /\ UNCHANGED <<now, alarms, reused>>
  BY DEF P!Restart
<1>2. (disk' = timers /\ ~behind') \/ (disk' = disk /\ behind') \/ (disk' = disk /\ behind' = behind)
  BY DEF P!Restart, P!save
<1> SUFFICES ASSUME ~reused
             PROVE  /\ AlarmTable(timers', alarms') /\ AlarmTable(disk', alarms')
                    /\ promised' = {timers'[k].uid : k \in DOMAIN timers'}
                    /\ \A k \in DOMAIN timers' : timers'[k].ID \in Names => timers'[k].ID \in used'
                    /\ ~behind' => InStep'
  BY <1>1 DEF AlarmsInv
<1>3. AlarmTable(disk', alarms') /\ now \in Int
  BY <1>1, <1>2 DEF AlarmsInv
<1>4. DOMAIN timers' = DOMAIN disk' /\ \A k \in DOMAIN disk' : timers'[k] = P!Restored(disk'[k])
  BY <1>1
<1>5. \A k \in DOMAIN disk' : /\ disk'[k] \in Alarm /\ k[2] = disk'[k].ID
                              /\ timers'[k] \in Alarm /\ timers'[k].uid = disk'[k].uid
                              /\ timers'[k].ID = disk'[k].ID /\ P!Key(timers'[k]) = P!Key(disk'[k])
  BY <1>3, <1>4, RestoredParts, KeyParts DEF AlarmTable
<1>6. AlarmTable(timers', alarms')
  <2>1. timers' = [k \in DOMAIN timers' |-> timers'[k]]
    BY <1>1
  <2> QED BY <2>1, <1>3, <1>4, <1>5 DEF AlarmTable
<1>7. promised' = {timers'[k].uid : k \in DOMAIN timers'}
  <2>1. CASE behind'
    BY <2>1, <1>1
  <2>2. CASE ~behind'
    <3>1. /\ DOMAIN disk' = DOMAIN timers /\ \A k \in DOMAIN timers : disk'[k].uid = timers[k].uid
      BY <2>2, <1>2 DEF AlarmsInv, InStep
    <3>2. promised = {timers[k].uid : k \in DOMAIN timers}
      BY DEF AlarmsInv
    <3> QED BY <2>2, <3>1, <3>2, <1>1, <1>4, <1>5
  <2> QED BY <2>1, <2>2
<1>8. \A k \in DOMAIN timers' : timers'[k].ID \in used'
  BY <1>1, <1>4, <1>5 DEF P!IDs
<1>9. InStep'
  BY <1>4, <1>5 DEF InStep
<1> QED BY <1>3, <1>6, <1>7, <1>8, <1>9

LEMMA InitAlarms == P!Init => AlarmsInv
BY DEF P!Init, AlarmsInv, AlarmTable, InStep

LEMMA PizzaNextStep == P!PizzaConstants /\ AlarmsInv /\ [P!Next]_P!vars => AlarmsInv'
<1> SUFFICES ASSUME P!PizzaConstants, AlarmsInv, [P!Next]_P!vars PROVE AlarmsInv'
  OBVIOUS
<1>1. ASSUME NEW n \in Nicks, P!clearAsk(n) PROVE AlarmsInv'
  BY <1>1, PizzaApartStep DEF P!clearAsk, AlarmsInv
<1>2. ASSUME NEW n \in Nicks, P!clearAll(n) PROVE AlarmsInv'
  <2> PICK mine : mine = {k \in DOMAIN timers : k[1] = n}
    OBVIOUS
  <2>1. CASE mine = {}
    BY <2>1, <1>2, PizzaApartStep DEF P!clearAll, AlarmsInv
  <2>2. CASE mine # {}
    BY <2>2, <1>2, RemovedStep DEF P!clearAll
  <2> QED BY <2>1, <2>2
<1>3. ASSUME NEW k \in DOMAIN timers, P!clear(k) PROVE AlarmsInv'
  BY <1>3, RemovedStep DEF P!clear
<1>4. CASE P!Tick
  BY <1>4, PizzaApartStep DEF P!Tick, AlarmsInv
<1>5. CASE UNCHANGED P!vars
  BY <1>5, PizzaApartStep DEF P!vars, AlarmsInv
<1> QED BY <1>1, <1>2, <1>3, <1>4, <1>5, PizzaSetStep, RefusedStep, FireStep, StartStopStep, PizzaRestartStep
     DEF P!Next

(* The instance's own Cardinality is that of FiniteSets.                   *)
LEMMA AlarmCardinality == \A taken : P!Cardinality(taken) = Cardinality(taken)
BY DEF P!Cardinality, Cardinality, P!IsFiniteSet, IsFiniteSet

LEMMA AlarmsInvHolds ==
  ASSUME AlarmsInv
  PROVE  P!AlarmsKept
<1> SUFFICES ASSUME ~reused
             PROVE  /\ {ring.uid : ring \in armed} = promised
                    /\ P!Cardinality(armed) = P!Cardinality(promised)
                    /\ armed = {timers[k] : k \in DOMAIN timers}
                    /\ \A k \in DOMAIN timers : k = P!Key(timers[k])
                    /\ P!IDs(timers) \cap Names \subseteq used
  BY DEF P!AlarmsKept
<1>1. /\ AlarmTable(timers, alarms) /\ alarms \in Nat
      /\ armed = {timers[k] : k \in DOMAIN timers}
      /\ promised = {timers[k].uid : k \in DOMAIN timers}
      /\ \A k \in DOMAIN timers : timers[k].ID \in Names => timers[k].ID \in used
  BY DEF AlarmsInv
<1>2. {ring.uid : ring \in armed} = promised
  BY <1>1
<1>3. \A k \in DOMAIN timers : k = P!Key(timers[k]) /\ k[2] = timers[k].ID
  BY <1>1, KeyParts DEF AlarmTable
<1>4. P!IDs(timers) \cap Names \subseteq used
  BY <1>1, <1>3 DEF P!IDs
<1>5. P!Cardinality(armed) = P!Cardinality(promised)
  <2> DEFINE f == [ring \in armed |-> ring.uid]
  <2>1. f \in [armed -> promised] /\ \A ring, next \in armed : f[ring] = f[next] => ring = next
    BY <1>1, <1>2 DEF AlarmTable
  <2>2. \A p \in promised : \E ring \in armed : f[ring] = p
    BY <1>2
  <2>3. f \in Injection(armed, promised) /\ f \in Surjection(armed, promised)
    BY <2>1, <2>2 DEF Injection, Surjection, IsInjective
  <2>4. IsFiniteSet(promised)
    <3>1. promised \in SUBSET Nat /\ \A p \in promised : p <= alarms
      BY <1>1 DEF AlarmTable, Alarm
    <3> QED BY <3>1, <1>1, FS_BoundedSetOfNaturals
  <2> QED BY <2>3, <2>4, FS_Injection, AlarmCardinality
<1> QED BY <1>1, <1>2, <1>3, <1>4, <1>5

(* Whatever was set, rung, repeated and cleared and however often the      *)
(* module was loaded again: armed timers, the map and the promises agree,  *)
(* and no pending alarm's name is free (set, fire, clear, Load).           *)
THEOREM PizzaAlarmsKept == ASSUME P!PizzaConstants PROVE P!Spec => []P!AlarmsKept
BY InitAlarms, PizzaNextStep, AlarmsInvHolds, PTL DEF P!Spec

(***************************************************************************)
(* Reminders: one timer each, for what has not rung yet, and the notepad   *)
(***************************************************************************)
Reminder == [Nick : Nicks, Channel : Channels, cron : Crons, uid : Nat]

(* A map of reminders, in memory or stored, its ids below top and numbers  *)
(* below n: each in its owner's name, no two of one number.                *)
Book(f, top, n) ==
    /\ f = [k \in DOMAIN f |-> f[k]]
    /\ \A k \in DOMAIN f : /\ f[k] \in Reminder /\ k[1] = f[k].Nick /\ f[k].uid < n
                           /\ k[2] \in Nat /\ k[2] < top
    /\ \A j, k \in DOMAIN f : f[j].uid = f[k].uid => j = k

(* One timer of each reminder, whose occurrence is the next that did not   *)
(* ring.                                                                   *)
Armed ==
    /\ waiting \subseteq [who : Reminder, at : Nat]
    /\ {t.who : t \in waiting} = {reminders[k] : k \in DOMAIN reminders}
    /\ \A s, t \in waiting : s.who.uid = t.who.uid => s = t
    /\ \A t \in waiting : t.who.cron # M!Never =>
          /\ t.at <= minute + t.who.cron
          /\ t.who.uid \in DOMAIN rung => rung[t.who.uid] < t.at

(* A notepad holds no more than its caller keeps of each title.            *)
Pad(f) ==
    /\ f = [u \in DOMAIN f |-> f[u]]
    /\ \A u \in DOMAIN f : f[u] \in Seq(Nat) /\ Len(f[u]) <= maxRemembered

NotesKept ==
    /\ Pad(notes) /\ Pad(kept.notes)
    /\ values = [u \in DOMAIN values |-> values[u]]
    /\ \A u \in DOMAIN values : values[u] \in Seq(Nat)
    /\ \A u : M!Noted(notes, u) = M!Latest(M!Noted(values, u))

(* What was stored without a failure is what is in memory.                 *)
Stored ==
    /\ "reminders" \notin unstored => kept.reminders = reminders
    /\ "notes" \notin unstored => kept.notes = notes

Counts ==
    /\ minute \in Nat /\ maxID \in Nat /\ requests \in Nat
    /\ kept = [reminders |-> kept.reminders, notes |-> kept.notes]
    /\ rung = [u \in DOMAIN rung |-> rung[u]]
    /\ \A u \in DOMAIN rung : rung[u] \in Nat /\ rung[u] <= minute

Books ==
    /\ Book(reminders, maxID, requests) /\ Book(kept.reminders, maxID, requests)
    /\ owed = {reminders[k].uid : k \in DOMAIN reminders}

RemindInv == Counts /\ Books /\ Armed /\ NotesKept /\ Stored

(***************************************************************************)
(* Arithmetic and sequences                                                *)
(***************************************************************************)
(* The next occurrence lies ahead, and no further than a period.           *)
LEMMA NextAhead ==
  ASSUME NEW c \in Nat, NEW t \in Nat
  PROVE  /\ M!CronNext(c, t) \in Nat
         /\ c # M!Never => t < M!CronNext(c, t) /\ M!CronNext(c, t) <= t + c
<1>1. CASE c = 0
  BY <1>1 DEF M!CronNext, M!Never
<1>2. CASE c # 0
  <2>1. t \div c \in Nat /\ c * (t \div c) <= t /\ t < c * (t \div c) + c
    BY <1>2
  <2> PICK q \in Nat : q = t \div c
    BY <2>1
  <2>2. (q + 1) * c = c * q + c /\ (q + 1) * c \in Nat
    OBVIOUS
  <2> QED BY <1>2, <2>1, <2>2 DEF M!CronNext, M!Never
<1> QED BY <1>1, <1>2

LEMMA LatestFacts ==
  ASSUME M!RemindConstants, NEW s \in Seq(Nat)
  PROVE  /\ M!Latest(s) \in Seq(Nat) /\ Len(M!Latest(s)) <= maxRemembered
         /\ Len(M!Latest(s)) = IF Len(s) > maxRemembered THEN maxRemembered ELSE Len(s)
         /\ \A i \in 1..Len(M!Latest(s)) : M!Latest(s)[i] = s[i]
         /\ Len(s) <= maxRemembered => M!Latest(s) = s
<1>1. Len(s) \in Nat /\ maxRemembered \in Nat
  BY LenProperties DEF M!RemindConstants
<1> PICK e \in Nat : e = IF Len(s) > maxRemembered THEN maxRemembered ELSE Len(s)
  BY <1>1
<1>2. \A i \in 1..e : s[i] \in Nat
  BY <1>1, ElementOfSeq
<1>3. M!Latest(s) = SubSeq(s, 1, e)
  BY DEF M!Latest
<1>4. /\ SubSeq(s, 1, e) \in Seq(Nat) /\ Len(SubSeq(s, 1, e)) = e
      /\ \A i \in 1..e : SubSeq(s, 1, e)[i] = s[i]
  BY <1>1, <1>2
<1>5. ASSUME Len(s) <= maxRemembered PROVE M!Latest(s) = s
  BY <1>1, <1>3, <1>4, <1>5, SeqEqual
<1> QED BY <1>1, <1>3, <1>4, <1>5

(* Keeping the latest of what was kept loses nothing.                      *)
LEMMA LatestPrepended ==
  ASSUME M!RemindConstants, NEW s \in Seq(Nat), NEW r \in Nat
  PROVE  M!Latest(<<r>> \o M!Latest(s)) = M!Latest(<<r>> \o s)
<1> PICK p \in Seq(Nat) : p = M!Latest(s)
  BY LatestFacts
<1>1. /\ <<r>> \o s \in Seq(Nat) /\ <<r>> \o p \in Seq(Nat)
      /\ Len(<<r>> \o s) = 1 + Len(s) /\ Len(<<r>> \o p) = 1 + Len(p)
      /\ \A i \in 1..(1 + Len(s)) : (<<r>> \o s)[i] = IF i = 1 THEN r ELSE s[i - 1]
      /\ \A i \in 1..(1 + Len(p)) : (<<r>> \o p)[i] = IF i = 1 THEN r ELSE p[i - 1]
  OBVIOUS
<1>2. Len(s) \in Nat /\ maxRemembered \in Nat /\ maxRemembered >= 1 /\ Len(p) \in Nat
  BY LenProperties DEF M!RemindConstants
<1>3. Len(p) = (IF Len(s) > maxRemembered THEN maxRemembered ELSE Len(s))
      /\ \A i \in 1..Len(p) : p[i] = s[i]
  BY LatestFacts
<1> PICK d, e : d = <<r>> \o p /\ e = <<r>> \o s
  OBVIOUS
<1> PICK u, v : u = M!Latest(d) /\ v = M!Latest(e)
  OBVIOUS
<1>4. /\ u \in Seq(Nat) /\ Len(u) = IF 1 + Len(p) > maxRemembered THEN maxRemembered ELSE 1 + Len(p)
      /\ \A i \in 1..Len(u) : u[i] = d[i]
  <2>1. d \in Seq(Nat) /\ Len(d) = 1 + Len(p)
    BY <1>1
  <2>2. /\ M!Latest(d) \in Seq(Nat)
        /\ Len(M!Latest(d)) = IF Len(d) > maxRemembered THEN maxRemembered ELSE Len(d)
        /\ \A i \in 1..Len(M!Latest(d)) : M!Latest(d)[i] = d[i]
    BY <2>1, LatestFacts
  <2> QED BY <2>1, <2>2, Zenon
<1>5. /\ v \in Seq(Nat) /\ Len(v) = IF 1 + Len(s) > maxRemembered THEN maxRemembered ELSE 1 + Len(s)
      /\ \A i \in 1..Len(v) : v[i] = e[i]
  <2>1. e \in Seq(Nat) /\ Len(e) = 1 + Len(s)
    BY <1>1
  <2>2. /\ M!Latest(e) \in Seq(Nat)
        /\ Len(M!Latest(e)) = IF Len(e) > maxRemembered THEN maxRemembered ELSE Len(e)
        /\ \A i \in 1..Len(M!Latest(e)) : M!Latest(e)[i] = e[i]
    BY <2>1, LatestFacts
  <2> QED BY <2>1, <2>2, Zenon
<1>6. Len(u) = Len(v) /\ Len(u) \in Nat /\ Len(u) <= 1 + Len(p) /\ Len(u) <= 1 + Len(s)
  <2>1. /\ Len(u) = IF 1 + Len(p) > maxRemembered THEN maxRemembered ELSE 1 + Len(p)
        /\ Len(v) = IF 1 + Len(s) > maxRemembered THEN maxRemembered ELSE 1 + Len(s)
        /\ Len(p) = IF Len(s) > maxRemembered THEN maxRemembered ELSE Len(s)
    BY <1>3, <1>4, <1>5
  <2> QED BY <2>1, <1>2
<1>7. ASSUME NEW i \in 1..Len(u) PROVE u[i] = v[i]
  <2>1. /\ i \in 1..(1 + Len(p)) /\ i \in 1..(1 + Len(s)) /\ i \in 1..Len(v)
        /\ i # 1 => i - 1 \in 1..Len(p)
    BY <1>2, <1>6
  <2>2. u[i] = d[i] /\ v[i] = e[i]
    BY <2>1, <1>4, <1>5
  <2>3. d[i] = (IF i = 1 THEN r ELSE p[i - 1]) /\ e[i] = (IF i = 1 THEN r ELSE s[i - 1])
    BY <2>1, <1>1
  <2> QED BY <2>1, <2>2, <2>3, <1>3
<1>8. u = v
  <2>1. u \in Seq(Nat) /\ v \in Seq(Nat)
    BY <1>4, <1>5
  <2> QED BY <2>1, <1>6, <1>7, SeqEqual
<1> QED BY <1>8

(* A set of numbers below a bound has a highest.                           *)
LEMMA Highest ==
  ASSUME NEW I \in SUBSET Nat, NEW top \in Nat, 0 \in I, \A i \in I : i <= top
  PROVE  \E i \in I : \A j \in I : j <= i
<1> DEFINE R == OpToRel(<, Nat)
           Above == {m \in Nat : \A i \in I : i <= m}
<1>1. Above \subseteq Nat /\ top \in Above
  OBVIOUS
<1>2. PICK m \in Above : \A k \in Above : ~(<<k, m>> \in R)
  <2> HIDE DEF R, Above
  <2>1. IsWellFoundedOn(R, Nat)
    BY NatLessThanWellFounded, Zenon DEF R
  <2> QED BY <1>1, <2>1, WFMin
<1>3. CASE m \in I
  BY <1>2, <1>3
<1>4. CASE m \notin I
  <2>1. m - 1 \in Nat /\ \A i \in I : i <= m - 1
    <3>1. m \in Nat /\ \A i \in I : i \in Nat /\ i < m
      BY <1>4
    <3>2. 0 < m
      BY <3>1
    <3> QED BY <3>1, <3>2
  <2>2. <<m - 1, m>> \in R
    BY <1>2, <2>1 DEF OpToRel
  <2> QED BY <1>2, <2>1, <2>2
<1> QED BY <1>3, <1>4

LEMMA FreshAbove ==
  ASSUME NEW rs, NEW top \in Nat, NEW n, Book(rs, top, n)
  PROVE  M!FreshID(rs) \in Nat /\ \A k \in DOMAIN rs : k[2] < M!FreshID(rs)
<1> PICK I : I = {0} \cup {k[2] : k \in DOMAIN rs}
  OBVIOUS
<1>1. I \in SUBSET Nat /\ 0 \in I /\ \A i \in I : i <= top
  BY DEF Book
<1>2. \E i \in I : \A k \in DOMAIN rs : k[2] <= i
  <2>1. PICK i \in I : \A j \in I : j <= i
    BY <1>1, Highest
  <2> QED BY <2>1
<1> DEFINE h == CHOOSE i \in I : \A k \in DOMAIN rs : k[2] <= i
<1>3. h \in I /\ \A k \in DOMAIN rs : k[2] <= h
  BY <1>2, Zenon
<1>4. M!FreshID(rs) = 1 + h
  BY DEF M!FreshID
<1> HIDE DEF h
<1>5. \A k \in DOMAIN rs : k[2] \in Nat
  BY DEF Book
<1> QED BY <1>1, <1>3, <1>4, <1>5
(***************************************************************************)
(* Books and timers                                                        *)
(***************************************************************************)
LEMMA BookWith ==
  ASSUME NEW f, NEW top \in Nat, NEW n \in Nat, Book(f, top, n),
         NEW r \in Reminder, r.uid = n
  PROVE  Book(M!With(f, <<r.Nick, top>>, r), top + 1, n + 1)
<1> PICK d : d = <<r.Nick, top>>
  OBVIOUS
<1> PICK g : g = M!With(f, d, r)
  OBVIOUS
<1>1. d[1] = r.Nick /\ d[2] = top
  OBVIOUS
<1>2. /\ g = [k \in DOMAIN g |-> g[k]] /\ DOMAIN g = DOMAIN f \cup {d} /\ g[d] = r
      /\ \A k \in DOMAIN f : k # d => g[k] = f[k]
  BY DEF M!With
<1>3. d \notin DOMAIN f /\ \A k \in DOMAIN f : f[k].uid # n
  <2>1. \A k \in DOMAIN f : f[k].uid \in Nat /\ f[k].uid < n /\ k[2] \in Nat /\ k[2] < top
    BY DEF Book, Reminder
  <2> QED BY <2>1, <1>1
<1>4. ASSUME NEW k \in DOMAIN g
      PROVE  /\ g[k] \in Reminder /\ k[1] = g[k].Nick /\ g[k].uid < n + 1
             /\ k[2] \in Nat /\ k[2] < top + 1
  <2>1. CASE k = d
    BY <2>1, <1>1, <1>2
  <2>2. CASE k # d
    <3>1. k \in DOMAIN f /\ g[k] = f[k]
      BY <2>2, <1>2
    <3>2. /\ f[k] \in Reminder /\ k[1] = f[k].Nick /\ f[k].uid < n /\ f[k].uid \in Nat
          /\ k[2] \in Nat /\ k[2] < top
      BY <3>1 DEF Book, Reminder
    <3> QED BY <3>1, <3>2
  <2> QED BY <2>1, <2>2
<1>5. ASSUME NEW j \in DOMAIN g, NEW k \in DOMAIN g, g[j].uid = g[k].uid PROVE j = k
  BY <1>2, <1>3, <1>5 DEF Book
<1> QED BY <1>2, <1>4, <1>5 DEF Book

LEMMA BookWithout ==
  ASSUME NEW f, NEW top, NEW n, Book(f, top, n), NEW U
  PROVE  /\ Book(M!Without(f, U), top, n) /\ DOMAIN M!Without(f, U) = DOMAIN f \ U
         /\ \A k \in DOMAIN f \ U : M!Without(f, U)[k] = f[k]
BY DEF Book, M!Without

LEMMA BookGrows ==
  ASSUME NEW f, NEW top \in Nat, NEW n \in Nat, Book(f, top, n),
         NEW more \in Nat, NEW m \in Nat, top <= more, n <= m
  PROVE  Book(f, more, m)
<1>1. \A k \in DOMAIN f : f[k].uid \in Nat
  BY DEF Book, Reminder
<1> QED BY <1>1 DEF Book

(* A timer set now is for an occurrence that did not ring.                 *)
LEMMA TimerFacts ==
  ASSUME M!RemindConstants, Counts, NEW r \in Reminder
  PROVE  /\ M!setTimer(r) \in [who : Reminder, at : Nat] /\ M!setTimer(r).who = r
         /\ r.cron # M!Never => minute < M!setTimer(r).at /\ M!setTimer(r).at <= minute + r.cron
<1>1. r.cron \in Nat /\ minute \in Nat
  BY DEF M!RemindConstants, Counts, Reminder
<1> QED BY <1>1, NextAhead DEF M!setTimer

(* What a save leaves in the store.                                        *)
LEMMA SaveFacts ==
  ASSUME NEW rs, NEW ns, Counts, M!save(rs, ns)
  PROVE  /\ kept' = [reminders |-> kept'.reminders, notes |-> kept'.notes]
         /\ \/ kept'.reminders = rs
            \/ kept'.reminders = kept.reminders /\ "reminders" \in unstored'
         /\ \/ kept'.notes = ns
            \/ kept'.notes = kept.notes /\ "notes" \in unstored'
<1>1. kept = [reminders |-> kept.reminders, notes |-> kept.notes]
  BY DEF Counts
<1>2. \/ kept' = [reminders |-> rs, notes |-> ns]
      \/ kept' = kept /\ unstored' = {"reminders", "notes"}
      \/ kept' = [kept EXCEPT !.reminders = rs] /\ unstored' = {"notes"}
  BY DEF M!save
<1> QED BY <1>1, <1>2

(***************************************************************************)
(* Steps                                                                   *)
(***************************************************************************)
LEMMA NotesStand ==
  ASSUME RemindInv, UNCHANGED <<notes, values>>, kept'.notes = notes \/ kept'.notes = kept.notes
  PROVE  NotesKept'
<1>1. \A u : M!Noted(notes', u) = M!Latest(M!Noted(values', u))
  BY DEF RemindInv, NotesKept
<1>2. Pad(notes') /\ Pad(kept'.notes)
  BY DEF RemindInv, NotesKept
<1> QED BY <1>1, <1>2 DEF RemindInv, NotesKept, Pad, M!Noted, M!Latest

LEMMA AddStep ==
  ASSUME M!RemindConstants, RemindInv, NEW n \in Nicks, NEW ch \in Channels, NEW c \in Crons,
         M!addReminder(n, ch, c)
  PROVE  RemindInv'
<1> PICK r : r = [Nick |-> n, Channel |-> ch, cron |-> c, uid |-> requests]
  OBVIOUS
<1> PICK d : d = <<n, maxID>>
  OBVIOUS
<1> PICK w : w = M!setTimer(r)
  OBVIOUS
<1>1. /\ reminders' = M!With(reminders, d, r) /\ waiting' = waiting \cup {w}
      /\ owed' = owed \cup {r.uid} /\ maxID' = maxID + 1 /\ requests' = requests + 1
      /\ M!save(reminders', notes) /\ UNCHANGED <<minute, notes, rung, values>>
  BY DEF M!addReminder, M!Request
<1>2. /\ minute \in Nat /\ maxID \in Nat /\ requests \in Nat
      /\ Book(reminders, maxID, requests) /\ Book(kept.reminders, maxID, requests)
      /\ owed = {reminders[k].uid : k \in DOMAIN reminders}
  BY DEF RemindInv, Counts, Books
<1>3. r \in Reminder /\ r.uid = requests /\ r.Nick = n
  BY <1>2 DEF Reminder
<1>4. /\ kept' = [reminders |-> kept'.reminders, notes |-> kept'.notes]
      /\ \/ kept'.reminders = reminders'
         \/ kept'.reminders = kept.reminders /\ "reminders" \in unstored'
      /\ \/ kept'.notes = notes
         \/ kept'.notes = kept.notes /\ "notes" \in unstored'
  BY <1>1, SaveFacts DEF RemindInv
<1>5. Book(reminders', maxID', requests')
  BY <1>1, <1>2, <1>3, BookWith
<1>6. Book(kept.reminders, maxID + 1, requests + 1)
  BY <1>2, BookGrows
<1>7. Book(kept'.reminders, maxID', requests')
  BY <1>1, <1>4, <1>5, <1>6
<1>8. /\ DOMAIN reminders' = DOMAIN reminders \cup {d} /\ reminders'[d] = r
      /\ \A k \in DOMAIN reminders : reminders'[k] = reminders[k]
      /\ \A k \in DOMAIN reminders : reminders[k].uid # r.uid
  <2>1. \A k \in DOMAIN reminders : k[2] \in Nat /\ k[2] < maxID
                                    /\ reminders[k].uid \in Nat /\ reminders[k].uid < requests
    BY <1>2 DEF Book, Reminder
  <2>2. d[2] = maxID
    OBVIOUS
  <2> QED BY <2>1, <2>2, <1>1, <1>2, <1>3 DEF M!With
<1>9. owed' = {reminders'[k].uid : k \in DOMAIN reminders'}
  BY <1>1, <1>2, <1>8
<1>10. Counts'
  BY <1>1, <1>2, <1>4 DEF RemindInv, Counts
<1>11. Armed'
  <2>1. /\ waiting \subseteq [who : Reminder, at : Nat]
        /\ {t.who : t \in waiting} = {reminders[k] : k \in DOMAIN reminders}
        /\ \A s, t \in waiting : s.who.uid = t.who.uid => s = t
        /\ \A t \in waiting : t.who.cron # M!Never =>
              /\ t.at <= minute + t.who.cron
              /\ t.who.uid \in DOMAIN rung => rung[t.who.uid] < t.at
    BY DEF RemindInv, Armed
  <2>2. /\ w \in [who : Reminder, at : Nat] /\ w.who = r
        /\ r.cron # M!Never => minute < w.at /\ w.at <= minute + r.cron
    BY <1>3, TimerFacts DEF RemindInv
  <2>3. \A u \in DOMAIN rung : rung[u] \in Nat /\ rung[u] <= minute
    BY DEF RemindInv, Counts
  <2>4. {t.who : t \in waiting'} = {reminders'[k] : k \in DOMAIN reminders'}
    <3>1. {t.who : t \in waiting'} = {t.who : t \in waiting} \cup {r}
      BY <2>2, <1>1
    <3>2. {reminders'[k] : k \in DOMAIN reminders'}
            = {reminders[k] : k \in DOMAIN reminders} \cup {r}
      BY <1>8
    <3> QED BY <3>1, <3>2, <2>1
  <2>5. ASSUME NEW t \in waiting PROVE t.who.uid # r.uid
    <3>1. PICK k \in DOMAIN reminders : t.who = reminders[k]
      BY <2>1
    <3> QED BY <3>1, <1>8
  <2>6. \A s, t \in waiting' : s.who.uid = t.who.uid => s = t
    BY <2>1, <2>2, <2>5, <1>1
  <2>7. ASSUME NEW t \in waiting', t.who.cron # M!Never
        PROVE  /\ t.at <= minute + t.who.cron
               /\ t.who.uid \in DOMAIN rung => rung[t.who.uid] < t.at
    <3>1. CASE t \in waiting
      BY <3>1, <2>1, <2>7
    <3>2. CASE t = w
      <4>1. w.at \in Nat
        BY <2>2
      <4> QED BY <3>2, <4>1, <2>2, <2>3, <2>7, <1>2
    <3> QED BY <3>1, <3>2, <1>1
  <2> QED BY <2>1, <2>2, <2>4, <2>6, <2>7, <1>1 DEF Armed
<1>12. Stored'
  BY <1>1, <1>4 DEF Stored
<1>13. NotesKept'
  BY <1>1, <1>4, NotesStand
<1> QED BY <1>5, <1>7, <1>9, <1>10, <1>11, <1>12, <1>13 DEF RemindInv, Books

LEMMA ClearStep ==
  ASSUME M!RemindConstants, RemindInv, NEW n \in Nicks, NEW ch \in Channels, NEW ids,
         M!clear(n, ch, ids)
  PROVE  RemindInv'
<1>0. PICK found : found = {k \in DOMAIN reminders : /\ k[1] = n /\ k[2] \in ids
                                                   /\ reminders[k].Channel = ch}
  OBVIOUS
<1> PICK gone : gone = {reminders[k].uid : k \in found}
  OBVIOUS
<1>1. /\ reminders' = M!Without(reminders, found)
      /\ waiting' = {t \in waiting : t.who.uid \notin gone} /\ owed' = owed \ gone
      /\ M!save(reminders', notes) /\ UNCHANGED <<minute, maxID, notes, requests, rung, values>>
  BY <1>0 DEF M!clear
<1>2. /\ minute \in Nat /\ maxID \in Nat /\ requests \in Nat
      /\ Book(reminders, maxID, requests) /\ Book(kept.reminders, maxID, requests)
      /\ owed = {reminders[k].uid : k \in DOMAIN reminders}
  BY DEF RemindInv, Counts, Books
<1>3. /\ kept' = [reminders |-> kept'.reminders, notes |-> kept'.notes]
      /\ \/ kept'.reminders = reminders'
         \/ kept'.reminders = kept.reminders /\ "reminders" \in unstored'
      /\ \/ kept'.notes = notes
         \/ kept'.notes = kept.notes /\ "notes" \in unstored'
  BY <1>1, SaveFacts DEF RemindInv
<1>4. /\ Book(reminders', maxID', requests') /\ DOMAIN reminders' = DOMAIN reminders \ found
      /\ \A k \in DOMAIN reminders' : reminders'[k] = reminders[k]
  <2>1. Book(reminders, maxID, requests)
    BY <1>2
  <2>2. /\ Book(M!Without(reminders, found), maxID, requests)
        /\ DOMAIN M!Without(reminders, found) = DOMAIN reminders \ found
        /\ \A k \in DOMAIN reminders \ found : M!Without(reminders, found)[k] = reminders[k]
    <3>1. Book(M!Without(reminders, found), maxID, requests)
      BY <2>1, BookWithout
    <3>2. DOMAIN M!Without(reminders, found) = DOMAIN reminders \ found
      BY <2>1, BookWithout
    <3>3. \A k \in DOMAIN reminders \ found : M!Without(reminders, found)[k] = reminders[k]
      BY <2>1, BookWithout
    <3> QED BY <3>1, <3>2, <3>3
  <2> QED BY <2>2, <1>1
<1>5. Book(kept'.reminders, maxID', requests')
  BY <1>1, <1>2, <1>3, <1>4
<1>6. \A k \in DOMAIN reminders : reminders[k].uid \in gone <=> k \in found
  BY <1>0, <1>2 DEF Book
<1>7. owed' = {reminders'[k].uid : k \in DOMAIN reminders'}
  <2>1. owed \ gone = {reminders[k].uid : k \in DOMAIN reminders \ found}
    BY <1>2, <1>6
  <2>2. {reminders'[k].uid : k \in DOMAIN reminders'}
          = {reminders[k].uid : k \in DOMAIN reminders \ found}
    BY <1>4
  <2> QED BY <2>1, <2>2, <1>1
<1>8. Counts'
  BY <1>1, <1>2, <1>3 DEF RemindInv, Counts
<1>9. Armed'
  <2>1. /\ waiting \subseteq [who : Reminder, at : Nat]
        /\ {t.who : t \in waiting} = {reminders[k] : k \in DOMAIN reminders}
        /\ \A s, t \in waiting : s.who.uid = t.who.uid => s = t
        /\ \A t \in waiting : t.who.cron # M!Never =>
              /\ t.at <= minute + t.who.cron
              /\ t.who.uid \in DOMAIN rung => rung[t.who.uid] < t.at
    BY DEF RemindInv, Armed
  <2>2. {t.who : t \in waiting'} = {reminders[k] : k \in DOMAIN reminders \ found}
    <3>1. ASSUME NEW t \in waiting' PROVE t.who \in {reminders[k] : k \in DOMAIN reminders \ found}
      <4>1. t \in waiting /\ t.who.uid \notin gone
        BY <1>1
      <4>2. PICK k \in DOMAIN reminders : t.who = reminders[k]
        BY <4>1, <2>1
      <4> QED BY <4>1, <4>2, <1>6
    <3>2. ASSUME NEW k \in DOMAIN reminders \ found
          PROVE  reminders[k] \in {t.who : t \in waiting'}
      <4>1. PICK t \in waiting : t.who = reminders[k]
        BY <2>1
      <4>2. t \in waiting'
        BY <4>1, <1>1, <1>6
      <4> QED BY <4>1, <4>2
    <3> QED BY <3>1, <3>2
  <2>3. {t.who : t \in waiting'} = {reminders'[k] : k \in DOMAIN reminders'}
    BY <2>2, <1>4
  <2> QED BY <2>1, <2>3, <1>1 DEF Armed
<1>10. Stored'
  BY <1>1, <1>3 DEF Stored
<1>11. NotesKept'
  BY <1>1, <1>3, NotesStand
<1> QED BY <1>4, <1>5, <1>7, <1>8, <1>9, <1>10, <1>11 DEF RemindInv, Books

LEMMA RingStep ==
  ASSUME M!RemindConstants, RemindInv, NEW t \in waiting, M!fire(t)
  PROVE  RemindInv'
<1> PICK w : w = M!setTimer(t.who)
  OBVIOUS
<1>1. /\ waiting' = (waiting \ {t}) \cup {w} /\ rung' = M!With(rung, t.who.uid, minute)
      /\ UNCHANGED <<minute, reminders, maxID, notes, kept, requests, owed, values, unstored>>
  BY DEF M!fire
<1>2. /\ waiting \subseteq [who : Reminder, at : Nat]
      /\ {s.who : s \in waiting} = {reminders[k] : k \in DOMAIN reminders}
      /\ \A s, u \in waiting : s.who.uid = u.who.uid => s = u
      /\ \A s \in waiting : s.who.cron # M!Never =>
            /\ s.at <= minute + s.who.cron
            /\ s.who.uid \in DOMAIN rung => rung[s.who.uid] < s.at
  BY DEF RemindInv, Armed
<1>3. /\ w \in [who : Reminder, at : Nat] /\ w.who = t.who
      /\ t.who.cron # M!Never => minute < w.at /\ w.at <= minute + t.who.cron
  BY <1>2, TimerFacts DEF RemindInv
<1>4. /\ rung' = [u \in DOMAIN rung' |-> rung'[u]] /\ DOMAIN rung' = DOMAIN rung \cup {t.who.uid}
      /\ rung'[t.who.uid] = minute
      /\ \A u \in DOMAIN rung : u # t.who.uid => rung'[u] = rung[u]
  BY <1>1 DEF M!With
<1>5. Counts'
  <2>1. \A u \in DOMAIN rung : rung[u] \in Nat /\ rung[u] <= minute
    BY DEF RemindInv, Counts
  <2>2. minute \in Nat
    BY DEF RemindInv, Counts
  <2>3. \A u \in DOMAIN rung' : rung'[u] \in Nat /\ rung'[u] <= minute'
    BY <2>1, <2>2, <1>1, <1>4
  <2> QED BY <2>3, <1>1, <1>4 DEF RemindInv, Counts
<1>6. Books' /\ Stored'
  BY <1>1 DEF RemindInv, Books, Stored
<1>7. Armed'
  <2>1. {s.who : s \in waiting'} = {s.who : s \in waiting}
    BY <1>1, <1>3
  <2>2. \A s \in waiting' : s \in waiting \/ s = w
    BY <1>1
  <2>3. \A s, u \in waiting' : s.who.uid = u.who.uid => s = u
    BY <1>1, <1>2, <1>3
  <2>4. ASSUME NEW s \in waiting', s.who.cron # M!Never
        PROVE  /\ s.at <= minute + s.who.cron
               /\ s.who.uid \in DOMAIN rung' => rung'[s.who.uid] < s.at
    <3>1. CASE s = w
      BY <3>1, <2>4, <1>3, <1>4
    <3>2. CASE s # w
      <4>1. s \in waiting /\ s.who.uid # t.who.uid
        BY <3>2, <1>1, <1>2
      <4> QED BY <4>1, <2>4, <1>2, <1>4
    <3> QED BY <3>1, <3>2
  <2>5. waiting' \subseteq [who : Reminder, at : Nat]
    BY <1>1, <1>2, <1>3
  <2>6. {s.who : s \in waiting'} = {reminders'[k] : k \in DOMAIN reminders'}
    BY <2>1, <1>1, <1>2
  <2>7. \A s \in waiting' : s.who.cron # M!Never =>
           /\ s.at <= minute' + s.who.cron
           /\ s.who.uid \in DOMAIN rung' => rung'[s.who.uid] < s.at
    BY <2>4, <1>1
  <2> QED BY <2>3, <2>5, <2>6, <2>7 DEF Armed
<1>8. NotesKept'
  BY <1>1, NotesStand
<1> QED BY <1>5, <1>6, <1>7, <1>8 DEF RemindInv

LEMMA NotedWith ==
  ASSUME NEW f, NEW u, NEW v
  PROVE  /\ M!Noted(M!With(f, u, v), u) = v
         /\ \A w : w # u => M!Noted(M!With(f, u, v), w) = M!Noted(f, w)
BY DEF M!Noted, M!With

LEMMA NotedWithout ==
  ASSUME NEW f, NEW U
  PROVE  /\ \A w \in U : M!Noted(M!Without(f, U), w) = <<>>
         /\ \A w : w \notin U => M!Noted(M!Without(f, U), w) = M!Noted(f, w)
BY DEF M!Noted, M!Without

LEMMA PadWith ==
  ASSUME NEW f, Pad(f), NEW u, NEW v \in Seq(Nat), Len(v) <= maxRemembered
  PROVE  Pad(M!With(f, u, v))
BY DEF Pad, M!With

LEMMA LatestEmpty == ASSUME M!RemindConstants PROVE M!Latest(<<>>) = <<>>
<1>1. <<>> \in Seq(Nat) /\ Len(<<>>) = 0 /\ maxRemembered \in Nat
  BY DEF M!RemindConstants
<1> PICK s \in Seq(Nat) : s = <<>>
  BY <1>1
<1>2. Len(s) <= maxRemembered
  BY <1>1
<1>3. M!Latest(s) = s
  BY <1>2, LatestFacts
<1> QED BY <1>3

LEMMA TimersStand ==
  ASSUME M!RemindConstants, RemindInv,
         UNCHANGED <<reminders, waiting, rung, maxID, owed>>, requests' \in Nat,
         requests' >= requests, minute' \in Nat, minute' >= minute,
         kept' = [reminders |-> kept'.reminders, notes |-> kept'.notes],
         kept'.reminders \in {reminders, kept.reminders}
  PROVE  Counts' /\ Books' /\ Armed'
<1>1. /\ minute \in Nat /\ maxID \in Nat /\ requests \in Nat
      /\ Book(reminders, maxID, requests) /\ Book(kept.reminders, maxID, requests)
      /\ owed = {reminders[k].uid : k \in DOMAIN reminders}
      /\ \A u \in DOMAIN rung : rung[u] \in Nat /\ rung[u] <= minute
  BY DEF RemindInv, Counts, Books
<1>2. Book(reminders, maxID, requests') /\ Book(kept.reminders, maxID, requests')
  BY <1>1, BookGrows
<1>3. Books'
  BY <1>1, <1>2 DEF Books
<1>4. \A u \in DOMAIN rung : rung[u] \in Nat /\ rung[u] <= minute'
  BY <1>1
<1>5. Counts'
  BY <1>1, <1>4 DEF RemindInv, Counts
<1>6. ASSUME NEW t \in waiting, t.at <= minute + t.who.cron
      PROVE  t.at <= minute' + t.who.cron
  <2>1. t.at \in Nat /\ t.who.cron \in Nat
    BY DEF RemindInv, Armed, Reminder, M!RemindConstants
  <2> QED BY <2>1, <1>1, <1>6
<1>7. Armed'
  BY <1>1, <1>6 DEF RemindInv, Armed
<1> QED BY <1>3, <1>5, <1>7

LEMMA RememberStep ==
  ASSUME M!RemindConstants, RemindInv, NEW u, M!cbRemember(u)
  PROVE  RemindInv'
<1> PICK v : v = M!Latest(<<requests>> \o M!Noted(notes, u))
  OBVIOUS
<1> PICK l : l = <<requests>> \o M!Noted(values, u)
  OBVIOUS
<1>1. /\ requests' = requests + 1 /\ notes' = M!With(notes, u, v) /\ values' = M!With(values, u, l)
      /\ M!save(reminders, notes') /\ UNCHANGED <<minute, reminders, maxID, waiting, owed, rung>>
  BY DEF M!cbRemember, M!Request
<1>2. /\ Pad(notes) /\ Pad(kept.notes) /\ values = [w \in DOMAIN values |-> values[w]]
      /\ \A w \in DOMAIN values : values[w] \in Seq(Nat)
      /\ \A w : M!Noted(notes, w) = M!Latest(M!Noted(values, w))
      /\ requests \in Nat /\ minute \in Nat
  BY DEF RemindInv, NotesKept, Counts
<1>3. M!Noted(values, u) \in Seq(Nat)
  BY <1>2 DEF M!Noted
<1>4. l \in Seq(Nat) /\ v = M!Latest(l)
  <2> PICK s \in Seq(Nat) : s = M!Noted(values, u)
    BY <1>3
  <2>1. M!Latest(<<requests>> \o M!Latest(s)) = M!Latest(<<requests>> \o s)
    BY <1>2, LatestPrepended
  <2>2. <<requests>> \o s \in Seq(Nat)
    BY <1>2
  <2> QED BY <2>1, <2>2, <1>2
<1>5. v \in Seq(Nat) /\ Len(v) <= maxRemembered
  BY <1>4, LatestFacts
<1>6. /\ kept' = [reminders |-> kept'.reminders, notes |-> kept'.notes]
      /\ \/ kept'.reminders = reminders
         \/ kept'.reminders = kept.reminders /\ "reminders" \in unstored'
      /\ \/ kept'.notes = notes'
         \/ kept'.notes = kept.notes /\ "notes" \in unstored'
  BY <1>1, SaveFacts DEF RemindInv
<1>7. Pad(notes') /\ Pad(kept'.notes)
  BY <1>1, <1>2, <1>5, <1>6, PadWith
<1>8. /\ values' = [w \in DOMAIN values' |-> values'[w]]
      /\ \A w \in DOMAIN values' : values'[w] \in Seq(Nat)
  BY <1>1, <1>2, <1>4 DEF M!With
<1>9. ASSUME NEW w PROVE M!Noted(notes', w) = M!Latest(M!Noted(values', w))
  <2>1. CASE w = u
    BY <2>1, <1>1, <1>4, NotedWith
  <2>2. CASE w # u
    BY <2>2, <1>1, <1>2, NotedWith
  <2> QED BY <2>1, <2>2
<1>10. NotesKept'
  BY <1>7, <1>8, <1>9 DEF NotesKept, Pad, M!Noted, M!Latest
<1>11. Counts' /\ Books' /\ Armed'
  BY <1>1, <1>2, <1>6, TimersStand
<1>12. Stored'
  BY <1>1, <1>6 DEF Stored
<1> QED BY <1>10, <1>11, <1>12 DEF RemindInv

LEMMA ForgetStep ==
  ASSUME M!RemindConstants, RemindInv, NEW u, M!cbForget(u)
  PROVE  RemindInv'
<1>1. /\ notes' = M!Without(notes, {u}) /\ values' = M!Without(values, {u}) /\ M!save(reminders, notes')
      /\ UNCHANGED <<minute, reminders, maxID, waiting, requests, owed, rung>>
  BY DEF M!cbForget
<1>2. /\ Pad(notes) /\ Pad(kept.notes) /\ values = [w \in DOMAIN values |-> values[w]]
      /\ \A w \in DOMAIN values : values[w] \in Seq(Nat)
      /\ \A w : M!Noted(notes, w) = M!Latest(M!Noted(values, w))
      /\ requests \in Nat /\ minute \in Nat
  BY DEF RemindInv, NotesKept, Counts
<1>3. /\ kept' = [reminders |-> kept'.reminders, notes |-> kept'.notes]
      /\ \/ kept'.reminders = reminders
         \/ kept'.reminders = kept.reminders /\ "reminders" \in unstored'
      /\ \/ kept'.notes = notes'
         \/ kept'.notes = kept.notes /\ "notes" \in unstored'
  BY <1>1, SaveFacts DEF RemindInv
<1>4. Pad(notes') /\ Pad(kept'.notes)
  BY <1>1, <1>2, <1>3 DEF Pad, M!Without
<1>5. /\ values' = [w \in DOMAIN values' |-> values'[w]]
      /\ \A w \in DOMAIN values' : values'[w] \in Seq(Nat)
  BY <1>1, <1>2 DEF M!Without
<1>6. ASSUME NEW w PROVE M!Noted(notes', w) = M!Latest(M!Noted(values', w))
  <2> PICK U : U = {u}
    OBVIOUS
  <2>1. notes' = M!Without(notes, U) /\ values' = M!Without(values, U)
    BY <1>1
  <2>2. CASE w \in U
    BY <2>1, <2>2, NotedWithout, LatestEmpty
  <2>3. CASE w \notin U
    BY <2>1, <2>3, <1>2, NotedWithout
  <2> QED BY <2>2, <2>3
<1>7. NotesKept'
  BY <1>4, <1>5, <1>6 DEF NotesKept, Pad, M!Noted, M!Latest
<1>8. Counts' /\ Books' /\ Armed'
  BY <1>1, <1>2, <1>3, TimersStand
<1>9. Stored'
  BY <1>1, <1>3 DEF Stored
<1> QED BY <1>7, <1>8, <1>9 DEF RemindInv

LEMMA RemindRestartStep ==
  ASSUME M!RemindConstants, RemindInv, NEW clean \in BOOLEAN, M!Restart(clean)
  PROVE  RemindInv'
<1>1. /\ reminders' = kept'.reminders /\ notes' = kept'.notes
      /\ waiting' = {M!setTimer(reminders'[k]) : k \in DOMAIN reminders'}
      /\ maxID' = M!FreshID(reminders')
      /\ owed' = IF "reminders" \in unstored' THEN {reminders'[k].uid : k \in DOMAIN reminders'}
                                              ELSE owed
      /\ values' = IF "notes" \in unstored' THEN notes' ELSE values
      /\ UNCHANGED <<minute, requests, rung>>
  BY DEF M!Restart
<1>2. /\ minute \in Nat /\ maxID \in Nat /\ requests \in Nat
      /\ Book(reminders, maxID, requests) /\ Book(kept.reminders, maxID, requests)
      /\ owed = {reminders[k].uid : k \in DOMAIN reminders}
      /\ \A u \in DOMAIN rung : rung[u] \in Nat /\ rung[u] <= minute
  BY DEF RemindInv, Counts, Books
<1>3. /\ Pad(notes) /\ Pad(kept.notes) /\ values = [w \in DOMAIN values |-> values[w]]
      /\ \A w \in DOMAIN values : values[w] \in Seq(Nat)
      /\ \A w : M!Noted(notes, w) = M!Latest(M!Noted(values, w))
  BY DEF RemindInv, NotesKept
<1>4. /\ kept' = [reminders |-> kept'.reminders, notes |-> kept'.notes]
      /\ kept'.reminders \in {reminders, kept.reminders}
      /\ "reminders" \notin unstored' => kept'.reminders = reminders
      /\ kept'.notes \in {notes, kept.notes}
      /\ "notes" \notin unstored' => kept'.notes = notes
  <2>1. CASE clean
    BY <2>1, SaveFacts DEF M!Restart, RemindInv
  <2>2. CASE ~clean
    BY <2>2 DEF M!Restart, RemindInv, Stored, Counts
  <2> QED BY <2>1, <2>2
<1> PICK rs : rs = reminders'
  OBVIOUS
<1>5. Book(rs, maxID, requests)
  BY <1>1, <1>2, <1>4
<1>6. /\ maxID' \in Nat /\ \A k \in DOMAIN rs : k[2] < maxID'
  BY <1>1, <1>2, <1>5, FreshAbove
<1>7. Book(rs, maxID', requests)
  BY <1>5, <1>6 DEF Book
<1>8. owed' = {rs[k].uid : k \in DOMAIN rs}
  BY <1>1, <1>2, <1>4
<1>9. Books' /\ Counts'
  BY <1>1, <1>2, <1>4, <1>6, <1>7, <1>8 DEF RemindInv, Books, Counts
<1>10. Armed'
  <2>1. \A k \in DOMAIN rs : /\ rs[k] \in Reminder
                             /\ M!setTimer(rs[k]) \in [who : Reminder, at : Nat]
                             /\ M!setTimer(rs[k]).who = rs[k]
                             /\ rs[k].cron # M!Never => /\ minute < M!setTimer(rs[k]).at
                                                      /\ M!setTimer(rs[k]).at <= minute + rs[k].cron
    BY <1>5, TimerFacts DEF RemindInv, Book
  <2>2. waiting' = {M!setTimer(rs[k]) : k \in DOMAIN rs}
    BY <1>1
  <2>3. {t.who : t \in waiting'} = {rs[k] : k \in DOMAIN rs}
    BY <2>1, <2>2
  <2>4. \A s, t \in waiting' : s.who.uid = t.who.uid => s = t
    <3>1. \A j, k \in DOMAIN rs : rs[j].uid = rs[k].uid => j = k
      BY <1>5 DEF Book
    <3> QED BY <3>1, <2>1, <2>2
  <2>5. ASSUME NEW t \in waiting', t.who.cron # M!Never
        PROVE  /\ t.at <= minute + t.who.cron
               /\ t.who.uid \in DOMAIN rung => rung[t.who.uid] < t.at
    <3> PICK k \in DOMAIN rs : t = M!setTimer(rs[k])
      BY <2>2
    <3>1. t.at \in Nat /\ minute < t.at /\ t.at <= minute + t.who.cron
      BY <2>1, <2>5
    <3> QED BY <3>1, <1>2
  <2>6. waiting' \subseteq [who : Reminder, at : Nat]
    BY <2>1, <2>2
  <2> QED BY <2>3, <2>4, <2>5, <2>6, <1>1 DEF Armed
<1>11. NotesKept'
  <2>1. Pad(notes') /\ Pad(kept'.notes)
    BY <1>1, <1>3, <1>4
  <2>2. /\ values' = [w \in DOMAIN values' |-> values'[w]]
        /\ \A w \in DOMAIN values' : values'[w] \in Seq(Nat)
    BY <2>1, <1>1, <1>3 DEF Pad
  <2>3. ASSUME NEW w PROVE M!Noted(notes', w) = M!Latest(M!Noted(values', w))
    <3>1. CASE "notes" \in unstored'
      <4> PICK s : s = M!Noted(notes', w)
        OBVIOUS
      <4>1. s \in Seq(Nat) /\ Len(s) <= maxRemembered
        <5>1. w \in DOMAIN notes' => notes'[w] \in Seq(Nat) /\ Len(notes'[w]) <= maxRemembered
          BY <2>1 DEF Pad
        <5>2. <<>> \in Seq(Nat) /\ Len(<<>>) <= maxRemembered
          BY DEF M!RemindConstants
        <5> QED BY <5>1, <5>2 DEF M!Noted
      <4>2. M!Latest(s) = s
        BY <4>1, LatestFacts
      <4> QED BY <3>1, <4>2, <1>1
    <3>2. CASE "notes" \notin unstored'
      BY <3>2, <1>1, <1>3, <1>4
    <3> QED BY <3>1, <3>2
  <2> QED BY <2>1, <2>2, <2>3 DEF NotesKept, Pad, M!Noted, M!Latest
<1>12. Stored'
  BY <1>1 DEF Stored
<1> QED BY <1>9, <1>10, <1>11, <1>12 DEF RemindInv

LEMMA InitRemind == ASSUME M!RemindConstants PROVE M!Init => RemindInv
<1> SUFFICES ASSUME M!Init PROVE RemindInv
  OBVIOUS
<1>1. \A u : M!Noted(notes, u) = M!Latest(M!Noted(values, u))
  BY LatestEmpty DEF M!Init, M!Nothing, M!Noted
<1>2. Counts /\ Books /\ Armed /\ Stored
  BY DEF M!Init, M!Nothing, Counts, Books, Book, Armed, Stored
<1> QED BY <1>1, <1>2 DEF M!Init, M!Nothing, RemindInv, NotesKept, Pad

LEMMA RemindNextStep == M!RemindConstants /\ RemindInv /\ [M!Next]_M!vars => RemindInv'
<1> SUFFICES ASSUME M!RemindConstants, RemindInv, [M!Next]_M!vars PROVE RemindInv'
  OBVIOUS
<1>1. /\ minute \in Nat /\ requests \in Nat
      /\ kept = [reminders |-> kept.reminders, notes |-> kept.notes]
  BY DEF RemindInv, Counts
<1>2. ASSUME minute' \in {minute, minute + 1},
             UNCHANGED <<M!mem, kept, requests, M!history, unstored>>
      PROVE  RemindInv'
  <2>1. Counts' /\ Books' /\ Armed'
    BY <1>1, <1>2, TimersStand DEF M!mem, M!history
  <2>2. NotesKept'
    BY <1>2, NotesStand DEF M!mem, M!history
  <2>3. Stored'
    BY <1>2 DEF RemindInv, Stored, M!mem
  <2> QED BY <2>1, <2>2, <2>3 DEF RemindInv
<1>3. CASE M!Tick
  BY <1>2, <1>3 DEF M!Tick
<1>4. CASE UNCHANGED M!vars
  BY <1>2, <1>4 DEF M!vars
<1> QED BY <1>3, <1>4, AddStep, ClearStep, RingStep, RememberStep, ForgetStep, RemindRestartStep DEF M!Next

LEMMA RemindCardinality == \A U : M!Cardinality(U) = Cardinality(U)
BY DEF M!Cardinality, Cardinality, M!IsFiniteSet, IsFiniteSet

LEMMA RemindersInvHolds ==
  ASSUME RemindInv
  PROVE  M!RemindersKept
<1>1. /\ waiting \subseteq [who : Reminder, at : Nat] /\ requests \in Nat
      /\ {t.who : t \in waiting} = {reminders[k] : k \in DOMAIN reminders}
      /\ \A s, t \in waiting : s.who.uid = t.who.uid => s = t
      /\ owed = {reminders[k].uid : k \in DOMAIN reminders}
      /\ \A k \in DOMAIN reminders : /\ k[1] = reminders[k].Nick /\ reminders[k].uid \in Nat
                                     /\ reminders[k].uid < requests
  BY DEF RemindInv, Armed, Books, Book, Counts, Reminder
<1>2. {t.who.uid : t \in waiting} = owed
  <2>1. \A t \in waiting : \E k \in DOMAIN reminders : t.who = reminders[k]
    BY <1>1
  <2>2. \A k \in DOMAIN reminders : \E t \in waiting : t.who = reminders[k]
    BY <1>1
  <2> QED BY <2>1, <2>2, <1>1
<1>3. M!Cardinality(waiting) = M!Cardinality(owed)
  <2> DEFINE f == [t \in waiting |-> t.who.uid]
  <2>1. f \in [waiting -> owed] /\ \A s, t \in waiting : f[s] = f[t] => s = t
    BY <1>1, <1>2
  <2>2. \A u \in owed : \E t \in waiting : f[t] = u
    BY <1>2
  <2>3. f \in Injection(waiting, owed) /\ f \in Surjection(waiting, owed)
    BY <2>1, <2>2 DEF Injection, Surjection, IsInjective
  <2>4. IsFiniteSet(owed)
    <3>1. owed \in SUBSET Nat /\ \A u \in owed : u <= requests
      BY <1>1
    <3> QED BY <3>1, <1>1, FS_BoundedSetOfNaturals
  <2> QED BY <2>3, <2>4, FS_Injection, RemindCardinality
<1> QED BY <1>1, <1>2, <1>3 DEF RemindInv, Armed, NotesKept, M!RemindersKept

(* For any cron lines and titles, whatever is added, cleared, rung,        *)
(* remembered and forgotten, and however often the module is loaded again: *)
(* one armed timer for each reminder that is owed, for an occurrence ahead *)
(* that did not ring, and the latest values of each title (addReminder,    *)
(* cbRemind, fire, Load, cbRemember, cbForget).                            *)
THEOREM RemindRemindersKept == ASSUME M!RemindConstants PROVE M!Spec => []M!RemindersKept
<1>1. M!Init => RemindInv
  BY InitRemind
<1>2. RemindInv /\ [M!Next]_M!vars => RemindInv'
  BY RemindNextStep
<1>3. RemindInv => M!RemindersKept
  BY RemindersInvHolds
<1> QED BY <1>1, <1>2, <1>3, PTL DEF M!Spec

(***************************************************************************)
(* The guard: who is a resident, who is watched, and what restarts leave   *)
(***************************************************************************)
(* Who is trusted is a resident, and its row is late by less than the      *)
(* slack; who is not trusted any more is in no row that Load would keep.   *)
ResidentsInv ==
    /\ time \in Nat
    /\ residents = [m \in DOMAIN residents |-> residents[m]]
    /\ table = [m \in DOMAIN table |-> table[m]]
    /\ DOMAIN residents = trusted
    /\ \A m \in trusted : /\ m \in DOMAIN sighted /\ sighted[m] \in Nat /\ residents[m] \in Nat
                          /\ residents[m] <= sighted[m] /\ sighted[m] <= time
                          /\ sighted[m] - residents[m] < seenSlack
    /\ \A m \in DOMAIN table : /\ table[m] \in Nat /\ table[m] <= time
                               /\ m \in trusted \/ table[m] < time - guard_resident_days
    /\ ~unflushed => table = residents
    /\ wronged = {}

Stamp == [text : Texts \cup Chans, when : Nat]
Suspect == [lines : Seq(Stamp), joins : Seq(Stamp), channels : SUBSET Chans, actioned : BOOLEAN]

(* A suspect that was not thrown out is below the limits.                  *)
Below(s) == Len(s.lines) < guard_line_rate /\ W!distinct(s.joins) < guard_join_channels
SuspectsInv ==
    /\ suspects = [m \in DOMAIN suspects |-> suspects[m]]
    /\ \A m \in DOMAIN suspects : /\ suspects[m] \in Suspect
                                  /\ suspects[m].actioned \/ Below(suspects[m])

GuardInv == ResidentsInv /\ SuspectsInv

(***************************************************************************)
(* Suspects                                                                *)
(***************************************************************************)
(* What prune leaves are stamps.                                           *)
LEMMA PruneFacts ==
  ASSUME NEW stamps \in Seq(Stamp), NEW window, time \in Nat, window \in Nat
  PROVE  W!prune(stamps, window) \in Seq(Stamp)
<1> DEFINE Old(j) == stamps[j].when < time - window
           Stops(i) == (\A j \in 1..i : Old(j)) /\ (i < Len(stamps) => ~Old(i + 1))
<1>1. \E i \in 0..Len(stamps) : Stops(i)
  <2> DEFINE I == {i \in 0..Len(stamps) : \A j \in 1..i : Old(j)}
  <2>0. Len(stamps) \in Nat
    BY LenProperties
  <2>1. I \in SUBSET Nat /\ 0 \in I /\ \A i \in I : i <= Len(stamps)
    BY <2>0
  <2>2. PICK i \in I : \A j \in I : j <= i
    <3> HIDE DEF I
    <3> QED BY <2>0, <2>1, Highest
  <2>3. i \in 0..Len(stamps) /\ \A j \in 1..i : Old(j)
    OBVIOUS
  <2>4. ASSUME i < Len(stamps), Old(i + 1) PROVE FALSE
    <3>1. i + 1 \in 0..Len(stamps) /\ \A j \in 1..(i + 1) : j = i + 1 \/ j \in 1..i
      BY <2>0, <2>3, <2>4
    <3>2. i + 1 \in I
      BY <3>1, <2>3, <2>4
    <3> QED BY <3>2, <2>2, <2>3
  <2> QED BY <2>3, <2>4
<1> DEFINE p == CHOOSE i \in 0..Len(stamps) : Stops(i)
<1>2. p \in 0..Len(stamps)
  <2> HIDE DEF Stops
  <2> QED BY <1>1, Zenon
<1>3. W!prune(stamps, window) = SubSeq(stamps, p + 1, Len(stamps))
  BY DEF W!prune
<1> HIDE DEF p
<1>4. SubSeq(stamps, p + 1, Len(stamps)) \in Seq(Stamp)
  <2>1. Len(stamps) \in Nat /\ p \in Nat /\ \A i \in (p + 1)..Len(stamps) : stamps[i] \in Stamp
    BY <1>2, LenProperties, ElementOfSeq
  <2> QED BY <2>1
<1> QED BY <1>3, <1>4

LEMMA GuardCardinality == \A U : W!Cardinality(U) = Cardinality(U)
BY DEF W!Cardinality, Cardinality, W!IsFiniteSet, IsFiniteSet

LEMMA DistinctNat ==
  ASSUME NEW stamps \in Seq(Stamp)
  PROVE  W!distinct(stamps) \in Nat
<1>1. DOMAIN stamps = 1..Len(stamps) /\ Len(stamps) \in Nat
  BY LenProperties
<1>2. IsFiniteSet(DOMAIN stamps)
  BY <1>1, FS_Interval
<1> DEFINE t == [i \in DOMAIN stamps |-> stamps[i].text]
<1>3. IsFiniteSet({t[i] : i \in DOMAIN stamps})
  <2>1. t \in Surjection(DOMAIN stamps, {t[i] : i \in DOMAIN stamps})
    BY DEF Surjection
  <2> QED BY <1>2, <2>1, FS_Surjection
<1>4. {t[i] : i \in DOMAIN stamps} = {stamps[i].text : i \in DOMAIN stamps}
  OBVIOUS
<1> QED BY <1>3, <1>4, FS_CardinalityType, GuardCardinality DEF W!distinct

LEMMA NoStamps == <<>> \in Seq(Stamp) /\ Len(<<>>) = 0 /\ W!distinct(<<>>) = 0
<1>1. {<<>>[i].text : i \in DOMAIN <<>>} = {}
  OBVIOUS
<1> QED BY <1>1, FS_EmptySet, GuardCardinality DEF W!distinct

(* watchLine and watchJoin throw out who reaches a limit.                  *)
LEMMA SuspectFor ==
  ASSUME W!GuardConstants, SuspectsInv, NEW m
  PROVE  W!suspectFor(m) \in Suspect /\ (W!suspectFor(m).actioned \/ Below(W!suspectFor(m)))
<1>1. CASE m \in DOMAIN suspects
  BY <1>1 DEF SuspectsInv, W!suspectFor
<1>2. CASE m \notin DOMAIN suspects
  BY <1>2, NoStamps DEF W!suspectFor, Below, W!GuardConstants, Suspect
<1> QED BY <1>1, <1>2

(* What updates make of a suspect, field by field.                         *)
LEMMA FieldUpdate ==
  ASSUME NEW l, NEW j, NEW d, NEW e, NEW v, NEW u,
         u = [lines |-> l, joins |-> j, channels |-> d, actioned |-> e]
  PROVE  /\ [u EXCEPT !.lines = v] = [lines |-> v, joins |-> j, channels |-> d, actioned |-> e]
         /\ [u EXCEPT !.joins = v] = [lines |-> l, joins |-> v, channels |-> d, actioned |-> e]
         /\ [u EXCEPT !.channels = v] = [lines |-> l, joins |-> j, channels |-> v, actioned |-> e]
         /\ [u EXCEPT !.actioned = v] = [lines |-> l, joins |-> j, channels |-> d, actioned |-> v]
OBVIOUS

LEMMA LineUpdate ==
  ASSUME NEW l, NEW j, NEW d, NEW e, NEW c, NEW q, NEW s,
         s = [lines |-> l, joins |-> j, channels |-> d, actioned |-> e]
  PROVE  [s EXCEPT !.channels = c, !.lines = q]
           = [lines |-> q, joins |-> j, channels |-> c, actioned |-> e]
<1>0. PICK u : u = [s EXCEPT !.channels = c]
  OBVIOUS
<1>1. u = [lines |-> l, joins |-> j, channels |-> c, actioned |-> e]
  BY <1>0, FieldUpdate
<1>2. [s EXCEPT !.channels = c, !.lines = q] = [u EXCEPT !.lines = q]
  BY <1>0
<1>3. [u EXCEPT !.lines = q] = [lines |-> q, joins |-> j, channels |-> c, actioned |-> e]
  BY <1>1, FieldUpdate
<1> QED BY <1>2, <1>3, Zenon

LEMMA JoinUpdate ==
  ASSUME NEW l, NEW j, NEW d, NEW e, NEW c, NEW q, NEW s,
         s = [lines |-> l, joins |-> j, channels |-> d, actioned |-> e]
  PROVE  [s EXCEPT !.channels = c, !.joins = q]
           = [lines |-> l, joins |-> q, channels |-> c, actioned |-> e]
<1>0. PICK u : u = [s EXCEPT !.channels = c]
  OBVIOUS
<1>1. u = [lines |-> l, joins |-> j, channels |-> c, actioned |-> e]
  BY <1>0, FieldUpdate
<1>2. [s EXCEPT !.channels = c, !.joins = q] = [u EXCEPT !.joins = q]
  BY <1>0
<1>3. [u EXCEPT !.joins = q] = [lines |-> l, joins |-> q, channels |-> c, actioned |-> e]
  BY <1>1, FieldUpdate
<1> QED BY <1>2, <1>3, Zenon

LEMMA ActionUpdate ==
  ASSUME NEW l, NEW j, NEW c, NEW e, NEW w, NEW t,
         t = [lines |-> l, joins |-> j, channels |-> c, actioned |-> e]
  PROVE  /\ [t EXCEPT !.actioned = w]
              = [lines |-> l, joins |-> j, channels |-> c, actioned |-> w]
         /\ t.lines = l /\ t.joins = j /\ t.actioned = e
OBVIOUS

LEMMA SuspectType ==
  ASSUME NEW l \in Seq(Stamp), NEW j \in Seq(Stamp), NEW c \in SUBSET Chans, NEW w \in BOOLEAN
  PROVE  [lines |-> l, joins |-> j, channels |-> c, actioned |-> w] \in Suspect
BY DEF Suspect

LEMMA LineFacts ==
  ASSUME W!GuardConstants, time \in Nat, NEW s \in Suspect, s.actioned \/ Below(s),
         NEW ch \in Chans, NEW said \in Texts
  PROVE  LET t == W!watchLine(s, ch, said) IN t \in Suspect /\ (t.actioned \/ Below(t))
<1> SUFFICES ASSUME ~s.actioned
             PROVE  LET t == W!watchLine(s, ch, said) IN t \in Suspect /\ (t.actioned \/ Below(t))
  BY DEF W!watchLine
<1>1. PICK l \in Seq(Stamp), j \in Seq(Stamp), d \in SUBSET Chans, e \in BOOLEAN :
         s = [lines |-> l, joins |-> j, channels |-> d, actioned |-> e]
  BY DEF Suspect
<1>2. PICK q \in Seq(Stamp) :
         q = W!prune(Append(s.lines, [text |-> said, when |-> time]), guard_line_window_sec)
  <2> PICK r : r = [text |-> said, when |-> time]
    OBVIOUS
  <2>1. s.lines \in Seq(Stamp) /\ r \in Stamp /\ guard_line_window_sec \in Nat
    BY DEF Suspect, Stamp, W!GuardConstants
  <2>2. Append(s.lines, r) \in Seq(Stamp)
    BY <2>1, AppendProperties
  <2> QED BY <2>1, <2>2, PruneFacts
<1>3. PICK c \in SUBSET Chans : c = s.channels \cup {ch}
  BY <1>1
<1>4. PICK t : t = [s EXCEPT !.channels = c, !.lines = q]
  OBVIOUS
<1>5. t = [lines |-> q, joins |-> j, channels |-> c, actioned |-> e]
  BY <1>1, <1>4, LineUpdate
<1>6. PICK w : w = (Len(t.lines) >= guard_line_rate \/ W!dupChannels(t, said) >= guard_dup_channels)
  OBVIOUS
<1>7. W!watchLine(s, ch, said) = [t EXCEPT !.actioned = w]
  BY <1>2, <1>3, <1>4, <1>6 DEF W!watchLine
<1>8. /\ W!watchLine(s, ch, said) = [lines |-> q, joins |-> j, channels |-> c, actioned |-> w]
      /\ t.lines = q
  BY <1>5, <1>7, ActionUpdate
<1>9. w \in BOOLEAN /\ (w \/ Len(q) < guard_line_rate)
  <2>1. Len(q) \in Nat /\ guard_line_rate \in Nat
    BY LenProperties DEF W!GuardConstants
  <2>2. w \in BOOLEAN /\ (w \/ ~(Len(t.lines) >= guard_line_rate))
    BY <1>6
  <2> QED BY <2>1, <2>2, <1>8
<1>10. W!distinct(j) < guard_join_channels
  BY <1>1 DEF Below
<1>11. PICK v : v = W!watchLine(s, ch, said)
  OBVIOUS
<1>12. v \in Suspect /\ v.lines = q /\ v.joins = j /\ v.actioned = w
  BY <1>8, <1>9, <1>11, SuspectType
<1> QED BY <1>9, <1>10, <1>11, <1>12 DEF Below

LEMMA JoinFacts ==
  ASSUME W!GuardConstants, time \in Nat, NEW s \in Suspect, s.actioned \/ Below(s), NEW ch \in Chans
  PROVE  LET t == W!watchJoin(s, ch) IN t \in Suspect /\ (t.actioned \/ Below(t))
<1> SUFFICES ASSUME ~s.actioned
             PROVE  LET t == W!watchJoin(s, ch) IN t \in Suspect /\ (t.actioned \/ Below(t))
  BY DEF W!watchJoin
<1>1. PICK l \in Seq(Stamp), j \in Seq(Stamp), d \in SUBSET Chans, e \in BOOLEAN :
         s = [lines |-> l, joins |-> j, channels |-> d, actioned |-> e]
  BY DEF Suspect
<1>2. PICK q \in Seq(Stamp) :
         q = W!prune(Append(s.joins, [text |-> ch, when |-> time]), guard_join_window_sec)
  <2> PICK r : r = [text |-> ch, when |-> time]
    OBVIOUS
  <2>1. s.joins \in Seq(Stamp) /\ r \in Stamp /\ guard_join_window_sec \in Nat
    BY DEF Suspect, Stamp, W!GuardConstants
  <2>2. Append(s.joins, r) \in Seq(Stamp)
    BY <2>1, AppendProperties
  <2> QED BY <2>1, <2>2, PruneFacts
<1>3. PICK c \in SUBSET Chans : c = s.channels \cup {ch}
  BY <1>1
<1>4. PICK t : t = [s EXCEPT !.channels = c, !.joins = q]
  OBVIOUS
<1>5. t = [lines |-> l, joins |-> q, channels |-> c, actioned |-> e]
  BY <1>1, <1>4, JoinUpdate
<1>6. PICK w : w = (W!distinct(t.joins) >= guard_join_channels)
  OBVIOUS
<1>7. W!watchJoin(s, ch) = [t EXCEPT !.actioned = w]
  BY <1>2, <1>3, <1>4, <1>6 DEF W!watchJoin
<1>8. /\ W!watchJoin(s, ch) = [lines |-> l, joins |-> q, channels |-> c, actioned |-> w]
      /\ t.joins = q
  BY <1>5, <1>7, ActionUpdate
<1>9. w \in BOOLEAN /\ (w \/ W!distinct(q) < guard_join_channels)
  <2>1. W!distinct(q) \in Nat /\ guard_join_channels \in Nat
    BY DistinctNat DEF W!GuardConstants
  <2>2. w = (W!distinct(q) >= guard_join_channels)
    BY <1>6, <1>8
  <2>3. CASE W!distinct(q) >= guard_join_channels
    BY <2>2, <2>3
  <2>4. CASE ~(W!distinct(q) >= guard_join_channels)
    BY <2>1, <2>2, <2>4
  <2> QED BY <2>3, <2>4
<1>10. Len(l) < guard_line_rate
  BY <1>1 DEF Below
<1>11. PICK v : v = W!watchJoin(s, ch)
  OBVIOUS
<1>12. v \in Suspect /\ v.lines = l /\ v.joins = q /\ v.actioned = w
  BY <1>8, <1>9, <1>11, SuspectType
<1> QED BY <1>9, <1>10, <1>11, <1>12 DEF Below

(***************************************************************************)
(* Sightings                                                               *)
(***************************************************************************)
(* Only a suspect that is not trusted is thrown out.                       *)
LEMMA WatchStep ==
  ASSUME GuardInv, NEW m, NEW s \in Suspect, s.actioned \/ Below(s), W!Watch(m, s)
  PROVE  SuspectsInv' /\ wronged' = {}
<1>1. /\ suspects = [k \in DOMAIN suspects |-> suspects[k]]
      /\ \A k \in DOMAIN suspects : /\ suspects[k] \in Suspect
                                    /\ suspects[k].actioned \/ Below(suspects[k])
      /\ DOMAIN residents = trusted /\ wronged = {}
  BY DEF GuardInv, SuspectsInv, ResidentsInv
<1>2. CASE W!Watched(m)
  <2>1. /\ suspects' = W!With(suspects, m, s)
        /\ wronged' = wronged \cup ({m} \cap trusted) \/ wronged' = wronged
    BY <1>2 DEF W!Watch, W!enforce
  <2>2. m \notin trusted
    BY <1>1, <1>2 DEF W!Watched, W!isResident
  <2>3. wronged' = {}
    BY <1>1, <2>1, <2>2
  <2>4. /\ DOMAIN suspects' = DOMAIN suspects \cup {m} /\ suspects'[m] = s
        /\ \A k \in DOMAIN suspects : k # m => suspects'[k] = suspects[k]
        /\ suspects' = [k \in DOMAIN suspects' |-> suspects'[k]]
    BY <2>1 DEF W!With
  <2>5. ASSUME NEW k \in DOMAIN suspects'
        PROVE  suspects'[k] \in Suspect /\ (suspects'[k].actioned \/ Below(suspects'[k]))
    BY <1>1, <2>4
  <2> QED BY <2>3, <2>4, <2>5 DEF SuspectsInv, Below
<1>3. CASE ~W!Watched(m)
  <2>1. suspects' = suspects /\ wronged' = wronged
    BY <1>3 DEF W!Watch
  <2> QED BY <2>1, <1>1 DEF SuspectsInv, Below
<1> QED BY <1>2, <1>3

(* The rows of mask m after a sighting.                                    *)
LEMMA SightStep ==
  ASSUME W!GuardConstants, ResidentsInv, NEW m, W!Sighting(m), wronged' = {}
  PROVE  ResidentsInv'
<1>1. /\ time \in Nat /\ seenSlack \in Nat /\ seenSlack >= 1
      /\ residents = [k \in DOMAIN residents |-> residents[k]]
      /\ table = [k \in DOMAIN table |-> table[k]]
      /\ DOMAIN residents = trusted
      /\ \A k \in trusted : /\ k \in DOMAIN sighted /\ sighted[k] \in Nat /\ residents[k] \in Nat
                            /\ residents[k] <= sighted[k] /\ sighted[k] <= time
                            /\ sighted[k] - residents[k] < seenSlack
      /\ \A k \in DOMAIN table : /\ table[k] \in Nat /\ table[k] <= time
                                 /\ k \in trusted \/ table[k] < time - guard_resident_days
      /\ ~unflushed => table = residents
  BY DEF ResidentsInv, W!GuardConstants
<1>2. /\ trusted' = IF enabled THEN trusted ELSE trusted \cup {m}
      /\ sighted' = IF m \in trusted' THEN W!With(sighted, m, time) ELSE sighted
      /\ time' = time /\ table' = table /\ W!record(m)
  BY DEF W!Sighting
<1>3. trusted \subseteq trusted'
  BY <1>2
<1>4. CASE m \in trusted'
  <2>1. /\ DOMAIN sighted' = DOMAIN sighted \cup {m} /\ sighted'[m] = time
        /\ \A k \in DOMAIN sighted : k # m => sighted'[k] = sighted[k]
    BY <1>2, <1>4 DEF W!With
  <2>2. trusted' = trusted \cup {m}
    BY <1>2, <1>4
  <2>3. CASE residents' = W!With(residents, m, time) /\ unflushed' = TRUE
    <3>1. /\ DOMAIN residents' = DOMAIN residents \cup {m} /\ residents'[m] = time
          /\ \A k \in DOMAIN residents : k # m => residents'[k] = residents[k]
          /\ residents' = [k \in DOMAIN residents' |-> residents'[k]]
      BY <2>3 DEF W!With
    <3>2. ASSUME NEW k \in trusted'
          PROVE  /\ k \in DOMAIN sighted' /\ sighted'[k] \in Nat /\ residents'[k] \in Nat
                 /\ residents'[k] <= sighted'[k] /\ sighted'[k] <= time
                 /\ sighted'[k] - residents'[k] < seenSlack
      <4>1. CASE k = m
        BY <4>1, <1>1, <2>1, <3>1
      <4>2. CASE k # m
        <5>1. k \in trusted /\ sighted'[k] = sighted[k] /\ residents'[k] = residents[k]
          BY <4>2, <1>1, <2>1, <2>2, <3>1
        <5> QED BY <5>1, <1>1, <2>1
      <4> QED BY <4>1, <4>2
    <3> QED BY <1>1, <1>2, <1>3, <2>2, <2>3, <3>1, <3>2 DEF ResidentsInv
  <2>4. CASE UNCHANGED <<residents, unflushed>> /\ m \in trusted /\ time - residents[m] < seenSlack
    <3>1. ASSUME NEW k \in trusted'
          PROVE  /\ k \in DOMAIN sighted' /\ sighted'[k] \in Nat /\ residents'[k] \in Nat
                 /\ residents'[k] <= sighted'[k] /\ sighted'[k] <= time
                 /\ sighted'[k] - residents'[k] < seenSlack
      <4>1. k \in trusted /\ residents'[k] = residents[k]
        BY <2>2, <2>4
      <4>2. CASE k = m
        <5>1. residents[m] \in Nat /\ residents[m] <= time
          BY <1>1, <2>4
        <5> QED BY <5>1, <4>1, <4>2, <1>1, <2>1, <2>4
      <4>3. CASE k # m
        BY <4>1, <4>3, <1>1, <2>1
      <4> QED BY <4>2, <4>3
    <3>2. trusted' = trusted
      BY <2>2, <2>4
    <3> QED BY <1>1, <1>2, <2>4, <3>1, <3>2 DEF ResidentsInv
  <2>5. m \in trusted \/ ~enabled
    BY <1>2, <1>4
  <2> QED BY <2>3, <2>4, <2>5, <1>1, <1>2 DEF W!record, W!isResident
<1>5. CASE m \notin trusted'
  <2>1. trusted' = trusted /\ sighted' = sighted /\ enabled /\ m \notin trusted
    BY <1>2, <1>5
  <2>2. UNCHANGED <<residents, unflushed>>
    BY <2>1, <1>1, <1>2 DEF W!record, W!isResident
  <2> QED BY <2>1, <2>2, <1>1, <1>2 DEF ResidentsInv
<1> QED BY <1>4, <1>5

LEMMA AuthStep ==
  ASSUME W!GuardConstants, GuardInv, NEW m, W!tryAuth(m)
  PROVE  GuardInv'
<1>1. /\ time \in Nat /\ seenSlack \in Nat /\ seenSlack >= 1
      /\ residents = [k \in DOMAIN residents |-> residents[k]]
      /\ table = [k \in DOMAIN table |-> table[k]]
      /\ DOMAIN residents = trusted
      /\ \A k \in trusted : /\ k \in DOMAIN sighted /\ sighted[k] \in Nat /\ residents[k] \in Nat
                            /\ residents[k] <= sighted[k] /\ sighted[k] <= time
                            /\ sighted[k] - residents[k] < seenSlack
      /\ \A k \in DOMAIN table : /\ table[k] \in Nat /\ table[k] <= time
                                 /\ k \in trusted \/ table[k] < time - guard_resident_days
      /\ wronged = {}
  BY DEF GuardInv, ResidentsInv, W!GuardConstants
<1>2. /\ residents' = W!With(residents, m, time) /\ unflushed' = TRUE
      /\ suspects' = W!Without(suspects, {m})
      /\ trusted' = trusted \cup {m} /\ sighted' = W!With(sighted, m, time)
      /\ UNCHANGED <<time, table, wronged>>
  BY DEF W!tryAuth, W!LetIn
<1>3. /\ DOMAIN residents' = DOMAIN residents \cup {m} /\ residents'[m] = time
      /\ \A k \in DOMAIN residents : k # m => residents'[k] = residents[k]
      /\ residents' = [k \in DOMAIN residents' |-> residents'[k]]
  BY <1>2 DEF W!With
<1>4. /\ DOMAIN sighted' = DOMAIN sighted \cup {m} /\ sighted'[m] = time
      /\ \A k \in DOMAIN sighted : k # m => sighted'[k] = sighted[k]
  BY <1>2 DEF W!With
<1>5. ASSUME NEW k \in trusted'
      PROVE  /\ k \in DOMAIN sighted' /\ sighted'[k] \in Nat /\ residents'[k] \in Nat
             /\ residents'[k] <= sighted'[k] /\ sighted'[k] <= time
             /\ sighted'[k] - residents'[k] < seenSlack
  <2>1. CASE k = m
    BY <2>1, <1>1, <1>3, <1>4
  <2>2. CASE k # m
    <3>1. k \in trusted /\ sighted'[k] = sighted[k] /\ residents'[k] = residents[k]
      BY <2>2, <1>1, <1>2, <1>3, <1>4
    <3> QED BY <3>1, <1>1, <1>4
  <2> QED BY <2>1, <2>2
<1>6. ResidentsInv'
  BY <1>1, <1>2, <1>3, <1>5 DEF ResidentsInv
<1>7. SuspectsInv'
  <2>1. /\ DOMAIN suspects' = DOMAIN suspects \ {m}
        /\ \A k \in DOMAIN suspects' : suspects'[k] = suspects[k]
        /\ suspects' = [k \in DOMAIN suspects' |-> suspects'[k]]
    BY <1>2 DEF W!Without
  <2> QED BY <2>1 DEF GuardInv, SuspectsInv, Below
<1> QED BY <1>6, <1>7 DEF GuardInv

(***************************************************************************)
(* Settings, flushes, time and restarts                                    *)
(***************************************************************************)
LEMMA SuspectsStand ==
  ASSUME SuspectsInv, suspects' \in {suspects, W!NoSightings}
  PROVE  SuspectsInv'
BY DEF SuspectsInv, Below, W!NoSightings

LEMMA ConfStep ==
  ASSUME GuardInv, NEW on, W!ConfSet(on), suspects' \in {suspects, W!NoSightings}
  PROVE  GuardInv'
<1>1. UNCHANGED <<time, residents, unflushed, table, trusted, sighted, wronged>>
  BY DEF W!ConfSet, W!history
<1>2. ResidentsInv'
  BY <1>1 DEF GuardInv, ResidentsInv
<1> QED BY <1>2, SuspectsStand DEF GuardInv

LEMMA FlushStep ==
  ASSUME GuardInv, W!FlushTimer
  PROVE  GuardInv'
<1>1. UNCHANGED <<time, residents, suspects, trusted, sighted, wronged>>
  BY DEF W!FlushTimer, W!history
<1>2. \/ UNCHANGED <<table, unflushed>>
      \/ table' = residents /\ unflushed' = FALSE
  BY DEF W!FlushTimer, W!flush
<1>3. ResidentsInv'
  <2>1. CASE UNCHANGED <<table, unflushed>>
    BY <2>1, <1>1 DEF GuardInv, ResidentsInv
  <2>2. CASE table' = residents /\ unflushed' = FALSE
    <3>1. \A m \in trusted : residents[m] \in Nat /\ residents[m] <= time
      BY DEF GuardInv, ResidentsInv
    <3> QED BY <2>2, <3>1, <1>1 DEF GuardInv, ResidentsInv
  <2> QED BY <1>2, <2>1, <2>2
<1> QED BY <1>1, <1>3, SuspectsStand DEF GuardInv

LEMMA GuardTickStep ==
  ASSUME W!GuardConstants, GuardInv, W!Tick
  PROVE  GuardInv'
<1>1. /\ time' = time + 1
      /\ UNCHANGED <<residents, unflushed, suspects, table, trusted, sighted, wronged>>
  BY DEF W!Tick, W!history
<1>2. time \in Nat /\ guard_resident_days \in Nat
  BY DEF GuardInv, ResidentsInv, W!GuardConstants
<1>3. \A m \in trusted : sighted[m] \in Nat /\ sighted[m] <= time + 1
  BY <1>2 DEF GuardInv, ResidentsInv
<1>4. \A m \in DOMAIN table : /\ table[m] <= time + 1
                              /\ m \in trusted \/ table[m] < time + 1 - guard_resident_days
  BY <1>2 DEF GuardInv, ResidentsInv
<1>5. ResidentsInv'
  BY <1>1, <1>2, <1>3, <1>4 DEF GuardInv, ResidentsInv
<1> QED BY <1>1, <1>5, SuspectsStand DEF GuardInv

(* Load keeps who was seen lately and nobody else: a row is late by less   *)
(* than the slack, and one of a mask not trusted any more is too old.      *)
LEMMA GuardRestartStep ==
  ASSUME W!GuardConstants, GuardInv, NEW clean \in BOOLEAN, W!Restart(clean)
  PROVE  GuardInv'
<1> PICK stay : stay = IF clean THEN trusted ELSE trusted \cap DOMAIN table
  OBVIOUS
<1> PICK seen : seen = IF clean THEN sighted ELSE table
  OBVIOUS
<1> PICK rows : rows = table'
  OBVIOUS
<1>1. /\ rows = table \/ (clean /\ rows = residents)
      /\ clean => rows = residents
      /\ residents' = W!age(rows) /\ suspects' = W!NoSightings /\ sighted' = seen
      /\ unflushed' = (DOMAIN residents' # DOMAIN rows)
      /\ time' = time /\ wronged' = wronged
  BY DEF W!Restart, GuardInv, ResidentsInv
<1>2. trusted' = {m \in stay : time - seen[m] <= guard_resident_days - seenSlack + 1}
                 \cup ((stay \ {m \in stay : time - seen[m] > guard_resident_days})
                       \cap DOMAIN residents')
  BY <1>1 DEF W!Restart
<1>3. /\ time \in Nat /\ seenSlack \in Nat /\ seenSlack >= 1 /\ guard_resident_days \in Nat
      /\ residents = [k \in DOMAIN residents |-> residents[k]]
      /\ table = [k \in DOMAIN table |-> table[k]]
      /\ DOMAIN residents = trusted
      /\ \A k \in trusted : /\ k \in DOMAIN sighted /\ sighted[k] \in Nat /\ residents[k] \in Nat
                            /\ residents[k] <= sighted[k] /\ sighted[k] <= time
                            /\ sighted[k] - residents[k] < seenSlack
      /\ \A k \in DOMAIN table : /\ table[k] \in Nat /\ table[k] <= time
                                 /\ k \in trusted \/ table[k] < time - guard_resident_days
      /\ wronged = {}
  BY DEF GuardInv, ResidentsInv, W!GuardConstants
<1>4. /\ rows = [k \in DOMAIN rows |-> rows[k]] /\ stay \subseteq DOMAIN rows
      /\ \A k \in stay : /\ k \in DOMAIN seen /\ seen[k] \in Nat /\ rows[k] \in Nat
                         /\ rows[k] <= seen[k] /\ seen[k] <= time /\ seen[k] - rows[k] < seenSlack
      /\ \A k \in DOMAIN rows : /\ rows[k] \in Nat /\ rows[k] <= time
                                /\ k \in stay \/ rows[k] < time - guard_resident_days
  <2>1. CASE clean
    <3>1. rows = residents /\ stay = trusted /\ seen = sighted
      BY <2>1, <1>1
    <3>2. \A k \in trusted : residents[k] <= time
      BY <1>3
    <3> QED BY <3>1, <3>2, <1>3
  <2>2. CASE ~clean
    <3>1. rows = table /\ stay = trusted \cap DOMAIN table /\ seen = table
      BY <2>2, <1>1
    <3>2. \A k \in DOMAIN table : table[k] <= table[k] /\ table[k] - table[k] < seenSlack
      BY <1>3
    <3> QED BY <3>1, <3>2, <1>3
  <2> QED BY <2>1, <2>2
<1>5. /\ DOMAIN residents' = {m \in DOMAIN rows : rows[m] >= time - guard_resident_days}
      /\ \A m \in DOMAIN residents' : residents'[m] = rows[m]
      /\ residents' = [m \in DOMAIN residents' |-> residents'[m]]
  BY <1>1 DEF W!age
<1>6. ASSUME NEW m \in stay
      PROVE  /\ m \in DOMAIN residents' => ~(time - seen[m] > guard_resident_days)
             /\ time - seen[m] <= guard_resident_days - seenSlack + 1 => m \in DOMAIN residents'
  <2>1. /\ m \in DOMAIN rows /\ seen[m] \in Nat /\ rows[m] \in Nat
        /\ rows[m] <= seen[m] /\ seen[m] <= time /\ seen[m] - rows[m] < seenSlack
    BY <1>4
  <2>2. m \in DOMAIN residents' <=> rows[m] >= time - guard_resident_days
    BY <2>1, <1>5
  <2>3. rows[m] >= time - guard_resident_days => ~(time - seen[m] > guard_resident_days)
    BY <2>1, <1>3
  <2>4. time - seen[m] <= guard_resident_days - seenSlack + 1
          => rows[m] >= time - guard_resident_days
    BY <2>1, <1>3
  <2> QED BY <2>2, <2>3, <2>4
<1>7. \A m \in DOMAIN residents' : m \in stay
  <2>1. \A m \in DOMAIN rows : rows[m] >= time - guard_resident_days
                               => ~(rows[m] < time - guard_resident_days)
    BY <1>3, <1>4
  <2> QED BY <2>1, <1>4, <1>5
<1>8. trusted' = DOMAIN residents'
  BY <1>2, <1>6, <1>7
<1>9. ASSUME NEW m \in trusted'
      PROVE  /\ m \in DOMAIN sighted' /\ sighted'[m] \in Nat /\ residents'[m] \in Nat
             /\ residents'[m] <= sighted'[m] /\ sighted'[m] <= time'
             /\ sighted'[m] - residents'[m] < seenSlack
  <2>1. m \in stay /\ residents'[m] = rows[m]
    BY <1>5, <1>7, <1>8
  <2> QED BY <2>1, <1>1, <1>4
<1>10. ASSUME NEW m \in DOMAIN rows
       PROVE  m \in trusted' \/ rows[m] < time' - guard_resident_days
  <2>1. m \in trusted' <=> rows[m] >= time - guard_resident_days
    BY <1>5, <1>8
  <2>2. rows[m] >= time - guard_resident_days \/ rows[m] < time - guard_resident_days
    BY <1>3, <1>4
  <2> QED BY <2>1, <2>2, <1>1
<1>11. ~unflushed' => table' = residents'
  BY <1>1, <1>4, <1>5
<1>12. ResidentsInv'
  BY <1>1, <1>3, <1>4, <1>5, <1>8, <1>9, <1>10, <1>11 DEF ResidentsInv
<1> QED BY <1>1, <1>12, SuspectsStand DEF GuardInv

LEMMA GuardNextStep == W!GuardConstants /\ GuardInv /\ [W!Next]_W!vars => GuardInv'
<1> SUFFICES ASSUME W!GuardConstants, GuardInv, [W!Next]_W!vars PROVE GuardInv'
  OBVIOUS
<1>0. SuspectsInv /\ ResidentsInv /\ time \in Nat
  BY DEF GuardInv, ResidentsInv
<1>1. ASSUME NEW m \in Masks, NEW ch \in Chans, NEW said \in Texts, W!onSeen(m, ch, said) PROVE GuardInv'
  <2> PICK s : s = W!watchLine(W!suspectFor(m), ch, said)
    OBVIOUS
  <2>1. s \in Suspect /\ (s.actioned \/ Below(s))
    BY <1>0, SuspectFor, LineFacts
  <2>2. W!Sighting(m) /\ W!Watch(m, s)
    BY <1>1 DEF W!onSeen
  <2> QED BY <1>0, <2>1, <2>2, WatchStep, SightStep DEF GuardInv
<1>2. ASSUME NEW m \in Masks, NEW ch \in Chans, W!onJoin(m, ch) PROVE GuardInv'
  <2> PICK s : s = W!watchJoin(W!suspectFor(m), ch)
    OBVIOUS
  <2>1. s \in Suspect /\ (s.actioned \/ Below(s))
    BY <1>0, SuspectFor, JoinFacts
  <2>2. W!Sighting(m) /\ W!Watch(m, s)
    BY <1>2 DEF W!onJoin
  <2> QED BY <1>0, <2>1, <2>2, WatchStep, SightStep DEF GuardInv
<1>3. CASE W!guardOn \/ W!guardOff \/ W!confOff
  BY <1>3, ConfStep DEF W!guardOn, W!guardOff, W!confOff
<1>4. CASE UNCHANGED W!vars
  BY <1>0, <1>4, SuspectsStand DEF W!vars, W!history, GuardInv, ResidentsInv
<1> QED BY <1>1, <1>2, <1>3, <1>4, AuthStep, FlushStep, GuardTickStep, GuardRestartStep DEF W!Next

LEMMA InitGuard == W!Init => GuardInv
BY DEF W!Init, W!NoSightings, GuardInv, ResidentsInv, SuspectsInv

LEMMA GuardInvHolds == GuardInv => W!TrustHolds
BY DEF GuardInv, ResidentsInv, SuspectsInv, Below, W!TrustHolds

(* For any masks, limits and windows, whatever is said, joined, let in,    *)
(* switched, flushed or not and however often the module is loaded again:  *)
(* residents are exactly the trusted, none of them was thrown out, and no  *)
(* stranger at a limit is spared (record, watchLine, watchJoin, tryAuth,   *)
(* flush, age, Load).                                                      *)
THEOREM GuardTrustHolds == ASSUME W!GuardConstants PROVE W!Spec => []W!TrustHolds
<1>1. W!Init => GuardInv
  BY InitGuard
<1>2. GuardInv /\ [W!Next]_W!vars => GuardInv'
  BY GuardNextStep
<1>3. GuardInv => W!TrustHolds
  BY GuardInvHolds
<1> QED BY <1>1, <1>2, <1>3, PTL DEF W!Spec

(***************************************************************************)
(* The ticker: one timer or request for each symbol that is subscribed to  *)
(***************************************************************************)
(* The types of a fetcher and of a timer; what an answer can be.           *)
Fetcher == [data : Nat, tag : Nat, tries : Nat, errors : Nat, down : BOOLEAN, last : Int]
Poll == [sym : Symbols, tag : Nat \ {0}, at : Nat]
Answers == {"error", "no JSON", "no price", "price", "jump"}

(* The inductive invariant: what is in memory and what is stored; a timer  *)
(* is the one its fetcher knows, and a fetcher that knows one has it armed;*)
(* who is to be refreshed; and the last time a price was told, in memory,  *)
(* and in the store when its last Put was not lost.                        *)
TickerFetchersInv ==
    /\ clock \in Nat /\ DOMAIN fetchers \subseteq Symbols
    /\ \A s \in DOMAIN fetchers : fetchers[s] \in Fetcher
    /\ IsFiniteSet(DOMAIN tickers) /\ DOMAIN tickers \subseteq DOMAIN fetchers
    /\ landed \in Seq([sym : Symbols, res : Answers])
TickerStoredInv ==
    /\ DOMAIN stored = {"tickers", "data", "state"}
    /\ IsFiniteSet(DOMAIN stored.tickers) /\ DOMAIN stored.tickers \subseteq Symbols
    /\ DOMAIN stored.data \subseteq Symbols /\ DOMAIN stored.state \subseteq Symbols
    /\ \A s \in DOMAIN stored.data : stored.data[s] \in Nat
    /\ \A s \in DOMAIN stored.state : stored.state[s] \in Int
PollsInv ==
    /\ IsFiniteSet(polls)
    /\ \A t \in polls : t \in Poll /\ t.sym \in DOMAIN fetchers /\ fetchers[t.sym].tag = t.tag
    /\ \A t, u \in polls : t.tag = u.tag => t = u
    /\ \A s \in DOMAIN fetchers : fetchers[s].tag # T!NoTag => \E t \in polls : t.sym = s
Polled(s) == \E t \in polls : t.sym = s
Answered(s) == \E i \in DOMAIN landed : landed[i].sym = s
RefreshInv ==
    /\ \A t \in polls : t.sym \in DOMAIN tickers
    /\ \A s \in DOMAIN tickers : s \in asked \/ Polled(s) \/ Answered(s) \/ fetchers[s].down
ToldInv ==
    /\ ~early
    /\ \A s \in DOMAIN toldAt : s \in DOMAIN fetchers /\ fetchers[s].last = toldAt[s]
    /\ "state" \notin unsaved =>
          \A s \in DOMAIN toldAt : s \in DOMAIN stored.state /\ stored.state[s] = toldAt[s]
TickerInv == TickerFetchersInv /\ TickerStoredInv /\ PollsInv /\ RefreshInv /\ ToldInv

(* The instance's cardinality is the library's.                            *)
LEMMA TickerCardinality == \A U : T!Cardinality(U) = Cardinality(U)
BY DEF T!Cardinality, Cardinality, T!IsFiniteSet, IsFiniteSet

(* Among one number more than there are timers one is free (FreeTag).      *)
LEMMA FreeNumber ==
  ASSUME NEW U, IsFiniteSet(U)
  PROVE  /\ T!FreeTag(U) \in Nat \ {0}
         /\ \A t \in U : t.tag # T!FreeTag(U)
<1> DEFINE n == Cardinality(U)
           tags == {t.tag : t \in U}
           g == [t \in U |-> t.tag]
<1>1. n \in Nat
  BY FS_CardinalityType
<1>2. g \in Surjection(U, tags)
  BY DEF Surjection
<1>3. IsFiniteSet(tags) /\ Cardinality(tags) <= n
  BY <1>2, FS_Surjection
<1>4. IsFiniteSet(1 .. n + 1) /\ Cardinality(1 .. n + 1) = n + 1
  BY <1>1, FS_Interval
<1>5. ASSUME 1 .. n + 1 \subseteq tags PROVE FALSE
  <2>1. Cardinality(1 .. n + 1) <= Cardinality(tags)
    BY <1>3, <1>5, FS_Subset
  <2>2. Cardinality(tags) \in Nat
    BY <1>3, FS_CardinalityType
  <2> QED BY <2>1, <2>2, <1>1, <1>3, <1>4
<1>6. \E k \in 1 .. Cardinality(U) + 1 : \A t \in U : t.tag # k
  BY <1>5
<1>7. T!FreeTag(U) \in 1 .. Cardinality(U) + 1 /\ \A t \in U : t.tag # T!FreeTag(U)
  <2>1. T!Cardinality(U) = Cardinality(U)
    BY TickerCardinality
  <2>2. \E k \in 1 .. T!Cardinality(U) + 1 : \A t \in U : t.tag # k
    BY <1>6, <2>1
  <2>3. T!FreeTag(U) \in 1 .. T!Cardinality(U) + 1 /\ \A t \in U : t.tag # T!FreeTag(U)
    BY <2>2, Zenon DEF T!FreeTag
  <2> QED BY <2>1, <2>3
<1> QED BY <1>1, <1>7

(* Every finite set of symbols can be numbered apart (TagOf).              *)
LEMMA Numbering ==
  ASSUME NEW D, IsFiniteSet(D)
  PROVE  \E g \in [D -> 1 .. Cardinality(D)] : \A s, t \in D : s # t => g[s] # g[t]
<1>1. ExistsBijection(1 .. Cardinality(D), D)
  BY FS_CardinalityType
<1>2. ExistsBijection(D, 1 .. Cardinality(D))
  BY <1>1, Fun_ExistsBijSymmetric
<1>3. PICK g : g \in Bijection(D, 1 .. Cardinality(D))
  BY <1>2 DEF ExistsBijection
<1> QED BY <1>3 DEF Bijection, Injection, Surjection, IsInjective

(* A symbol moves on: its timer is replaced or taken away, its price was   *)
(* told at since, and the other symbols are left alone.                    *)
Moved(sym, since) ==
    /\ PollsInv'
    /\ DOMAIN fetchers' = DOMAIN fetchers \cup {sym}
    /\ \A s \in DOMAIN fetchers : s # sym => fetchers'[s] = fetchers[s]
    /\ fetchers'[sym] \in Fetcher /\ fetchers'[sym].last = since
    /\ \A t \in polls : t.sym # sym => t \in polls'
    /\ \A t \in polls' : t.sym = sym \/ t \in polls

(* Unschedule takes the timer of the symbol and no other: numbers are not  *)
(* shared, and a number that is set is that of an armed timer.             *)
LEMMA OwnTimer ==
  ASSUME PollsInv, NEW sym, NEW f, f.tag = T!fetcherFor(fetchers, sym).tag
  PROVE  \A t \in polls : t \in T!Unscheduled(polls, f) <=> t.sym # sym
<1>1. CASE sym \in DOMAIN fetchers
  BY <1>1 DEF PollsInv, T!Unscheduled, T!fetcherFor, T!NoTag, Poll
<1>2. CASE sym \notin DOMAIN fetchers
  <2>1. f.tag = 0
    BY <1>2 DEF T!fetcherFor, T!Fresh, T!NoTag
  <2> QED BY <1>2, <2>1 DEF PollsInv, T!Unscheduled, Poll
<1> QED BY <1>1, <1>2

LEMMA OthersFinite ==
  ASSUME NEW U, IsFiniteSet(U), NEW f
  PROVE  IsFiniteSet(T!Unscheduled(U, f)) /\ T!Unscheduled(U, f) \subseteq U
<1>1. T!Unscheduled(U, f) \subseteq U
  BY DEF T!Unscheduled
<1> QED BY <1>1, FS_Subset

(* scheduleRefresh moves its symbol on, to a timer unless it is given up.  *)
LEMMA Rescheduled ==
  ASSUME T!TickerConstants, TickerFetchersInv, PollsInv, NEW sym \in Symbols, NEW f \in Fetcher,
         f.tag = T!fetcherFor(fetchers, sym).tag,
         NEW delay \in Nat, T!scheduleRefresh(sym, f, delay)
  PROVE  /\ Moved(sym, f.last)
         /\ fetchers'[sym].down \/ \E t \in polls' : t.sym = sym
<1> DEFINE rest == T!Unscheduled(polls, f)
<1>0. PICK tag : tag = IF f.down THEN T!NoTag ELSE T!FreeTag(polls)
  OBVIOUS
<1>1. /\ fetchers' = T!With(fetchers, sym, [f EXCEPT !.tag = tag])
      /\ f.down => polls' = rest /\ tag = 0
      /\ ~f.down => /\ polls' = rest \cup {[sym |-> sym, tag |-> tag, at |-> clock + delay]}
                    /\ tag = T!FreeTag(polls)
  BY <1>0 DEF T!scheduleRefresh, T!NoTag
<1>2. T!FreeTag(polls) \in Nat \ {0} /\ \A t \in polls : t.tag # T!FreeTag(polls)
  BY FreeNumber DEF PollsInv
<1>3. PICK g : g = [f EXCEPT !.tag = tag]
  OBVIOUS
<1>4. g \in Fetcher /\ g.tag = tag /\ g.last = f.last /\ g.down = f.down
  BY <1>1, <1>2, <1>3 DEF Fetcher
<1>5. /\ DOMAIN fetchers' = DOMAIN fetchers \cup {sym}
      /\ fetchers'[sym] = g
      /\ \A s \in DOMAIN fetchers : s # sym => fetchers'[s] = fetchers[s]
  <2>1. fetchers' = T!With(fetchers, sym, g)
    BY <1>1, <1>3
  <2> QED BY <2>1 DEF T!With
<1>6. \A t \in polls : t \in rest <=> t.sym # sym
  BY OwnTimer
<1>7. IsFiniteSet(rest) /\ rest \subseteq polls
  BY OthersFinite DEF PollsInv
<1>8. PICK p : p = [sym |-> sym, tag |-> tag, at |-> clock + delay]
  OBVIOUS
<1>9. ~f.down => p \in Poll /\ p.sym = sym /\ p.tag = tag
  BY <1>1, <1>2, <1>8 DEF Poll, TickerFetchersInv
<1>10. \A t \in polls' : t \in rest \/ (~f.down /\ t = p)
  BY <1>1, <1>8
<1>11. /\ \A t \in rest : t \in polls'
       /\ ~f.down => p \in polls'
  BY <1>1, <1>8
<1>12. IsFiniteSet(polls')
  <2>1. IsFiniteSet(rest \cup {p})
    BY <1>7, FS_AddElement
  <2>2. polls' = rest \/ polls' = rest \cup {p}
    BY <1>1, <1>8
  <2> QED BY <1>7, <2>1, <2>2
<1>13. \A t \in polls' : t \in Poll /\ t.sym \in DOMAIN fetchers' /\ fetchers'[t.sym].tag = t.tag
  BY <1>4, <1>5, <1>6, <1>7, <1>9, <1>10 DEF PollsInv
<1>14. \A t, u \in polls' : t.tag = u.tag => t = u
  BY <1>1, <1>2, <1>7, <1>9, <1>10 DEF PollsInv
<1>15. \A s \in DOMAIN fetchers' : fetchers'[s].tag # T!NoTag => \E t \in polls' : t.sym = s
  <2> SUFFICES ASSUME NEW s \in DOMAIN fetchers', fetchers'[s].tag # T!NoTag
               PROVE  \E t \in polls' : t.sym = s
    OBVIOUS
  <2>1. CASE s = sym
    BY <2>1, <1>1, <1>4, <1>5, <1>9, <1>11 DEF T!NoTag
  <2>2. CASE s # sym
    <3>1. s \in DOMAIN fetchers /\ fetchers'[s] = fetchers[s]
      BY <1>5, <2>2
    <3>2. PICK t \in polls : t.sym = s
      BY <3>1 DEF PollsInv
    <3> QED BY <2>2, <3>2, <1>6, <1>11
  <2> QED BY <2>1, <2>2
<1>15a. PollsInv'
  BY <1>12, <1>13, <1>14, <1>15 DEF PollsInv
<1>16. /\ \A t \in polls : t.sym # sym => t \in polls'
       /\ \A t \in polls' : t.sym = sym \/ t \in polls
  BY <1>6, <1>7, <1>9, <1>10, <1>11
<1>17. Moved(sym, f.last)
  BY <1>4, <1>5, <1>15a, <1>16 DEF Moved
<1>18. fetchers'[sym].down \/ \E t \in polls' : t.sym = sym
  BY <1>4, <1>5, <1>9, <1>11
<1> QED BY <1>17, <1>18

LEMMA FetcherFor ==
  ASSUME TickerFetchersInv, NEW sym
  PROVE  T!fetcherFor(fetchers, sym) \in Fetcher
BY DEF TickerFetchersInv, T!fetcherFor, T!Fresh, Fetcher, T!NoTag, T!Never

(* refreshTicker does as well, to a request or to a timer.                 *)
LEMMA Refreshed ==
  ASSUME T!TickerConstants, TickerFetchersInv, PollsInv, NEW sym \in Symbols,
         sym \in DOMAIN tickers', T!refreshTicker(sym)
  PROVE  /\ Moved(sym, T!fetcherFor(fetchers, sym).last)
         /\ \/ sym \in asked'
            \/ fetchers'[sym].down
            \/ \E t \in polls' : t.sym = sym
         /\ asked \subseteq asked'
<1>0. PICK f : f = T!fetcherFor(fetchers, sym)
  OBVIOUS
<1>1. f \in Fetcher
  BY <1>0, FetcherFor
<1>2. CASE sym \in asked
  <2>1. T!scheduleRefresh(sym, f, Minute) /\ UNCHANGED asked
    BY <1>0, <1>2, Zenon DEF T!refreshTicker
  <2>2. Moved(sym, f.last) 
    BY <2>1, <1>0, <1>1, Rescheduled DEF T!TickerConstants
  <2> QED BY <2>1, <2>2, <1>0, <1>2
<1>3. CASE sym \notin asked
  <2>1. /\ polls' = T!Unscheduled(polls, f)
        /\ fetchers' = T!With(fetchers, sym, [f EXCEPT !.tag = T!NoTag])
        /\ asked' = asked \cup {sym}
    BY <1>0, <1>3, Zenon DEF T!refreshTicker
  <2>2. PICK g : g = [f EXCEPT !.tag = T!NoTag]
    OBVIOUS
  <2>3. g \in Fetcher /\ g.last = f.last
    BY <1>1, <2>2 DEF Fetcher, T!NoTag
  <2>4. /\ DOMAIN fetchers' = DOMAIN fetchers \cup {sym}
        /\ fetchers'[sym] = g
        /\ \A s \in DOMAIN fetchers : s # sym => fetchers'[s] = fetchers[s]
    <3>1. fetchers' = T!With(fetchers, sym, g)
      BY <2>1, <2>2
    <3> QED BY <3>1, Zenon DEF T!With
  <2>5. \A t \in polls : t \in polls' <=> t.sym # sym
    BY <1>0, <2>1, OwnTimer
  <2>6. IsFiniteSet(polls') /\ polls' \subseteq polls
    BY <2>1, OthersFinite DEF PollsInv
  <2>7. \A s \in DOMAIN fetchers' : fetchers'[s].tag # T!NoTag => \E t \in polls' : t.sym = s
    <3> SUFFICES ASSUME NEW s \in DOMAIN fetchers', fetchers'[s].tag # T!NoTag
                 PROVE  \E t \in polls' : t.sym = s
      OBVIOUS
    <3>1. g.tag = T!NoTag
      BY <1>1, <2>2 DEF Fetcher
    <3>2. s # sym /\ s \in DOMAIN fetchers /\ fetchers'[s] = fetchers[s]
      BY <2>4, <3>1
    <3>3. PICK t \in polls : t.sym = s
      BY <3>2 DEF PollsInv
    <3> QED BY <2>5, <3>2, <3>3
  <2>7a. PollsInv'
    BY <2>4, <2>5, <2>6, <2>7 DEF PollsInv
  <2>8. Moved(sym, f.last)
    BY <2>3, <2>4, <2>5, <2>6, <2>7a DEF Moved
  <2> QED BY <2>1, <2>8, <1>0
<1> QED BY <1>2, <1>3

(* What save is called with.                                               *)
Saving(ts, fs) ==
    /\ IsFiniteSet(DOMAIN ts) /\ DOMAIN ts \subseteq Symbols
    /\ DOMAIN fs \subseteq Symbols
    /\ \A s \in DOMAIN fs : fs[s] \in Fetcher

LEMMA PutsFacts ==
  ASSUME NEW done \in 0 .. 3, NEW im, DOMAIN stored = {"tickers", "data", "state"}, T!Puts(im, done)
  PROVE  /\ DOMAIN stored' = {"tickers", "data", "state"}
         /\ stored'.tickers = stored.tickers \/ stored'.tickers = im.tickers
         /\ stored'.data = stored.data \/ stored'.data = im.data
         /\ stored'.state = stored.state \/ stored'.state = im.state
         /\ done < 3 => "state" \in unsaved'
         /\ done = 3 => stored'.state = im.state
<1>1. T!Parts = <<"tickers", "data", "state">>
  BY DEF T!Parts
<1>2. T!Parts[3] = "state"
  BY <1>1
<1>3. stored' = [p \in DOMAIN stored |-> IF \E i \in 1 .. done : T!Parts[i] = p THEN im[p] ELSE stored[p]]
  BY DEF T!Puts
<1>4. done < 3 => "state" \in unsaved'
  <2>1. unsaved' = {T!Parts[i] : i \in (done + 1) .. 3}
    BY DEF T!Puts
  <2>2. done < 3 => 3 \in (done + 1) .. 3
    OBVIOUS
  <2> QED BY <2>1, <2>2, <1>2
<1>5. done = 3 => stored'.state = im.state
  <2>1. done = 3 => \E i \in 1 .. done : T!Parts[i] = "state"
    BY <1>2
  <2> QED BY <1>3, <2>1
<1> QED BY <1>3, <1>4, <1>5

(* A save that reached its last Put stored when each price was told.       *)
LEMMA Saved ==
  ASSUME TickerStoredInv, NEW ts, NEW fs, Saving(ts, fs), T!save(ts, fs)
  PROVE  /\ TickerStoredInv'
         /\ "state" \notin unsaved' => /\ DOMAIN stored'.state = DOMAIN fs
                                       /\ \A s \in DOMAIN fs : stored'.state[s] = fs[s].last
<1>1. PICK im : im = T!Image(ts, fs)
  OBVIOUS
<1>2. PICK done \in 0 .. 3 : T!Puts(im, done)
  <2>1. \/ T!Puts(T!Image(ts, fs), 3)
        \/ \E done \in 0 .. 2 : T!Puts(T!Image(ts, fs), done)
    BY Zenon DEF T!save
  <2>2. CASE T!Puts(T!Image(ts, fs), 3)
    <3>1. T!Puts(im, 3) /\ 3 \in 0 .. 3
      BY <1>1, <2>2
    <3> QED BY <3>1
  <2>3. CASE \E done \in 0 .. 2 : T!Puts(T!Image(ts, fs), done)
    <3>1. PICK done \in 0 .. 2 : T!Puts(T!Image(ts, fs), done)
      BY <2>3
    <3>2. T!Puts(im, done) /\ done \in 0 .. 3
      BY <1>1, <3>1
    <3> QED BY <3>2
  <2> QED BY <2>1, <2>2, <2>3
<1>3. /\ im.tickers = ts
      /\ im.data = [s \in {s \in DOMAIN fs : fs[s].data > 0} |-> fs[s].data]
      /\ im.state = [s \in DOMAIN fs |-> fs[s].last]
  BY <1>1 DEF T!Image
<1>4. /\ DOMAIN im.data \subseteq Symbols
      /\ \A s \in DOMAIN im.data : im.data[s] \in Nat
      /\ DOMAIN im.state = DOMAIN fs
      /\ \A s \in DOMAIN fs : im.state[s] = fs[s].last /\ im.state[s] \in Int
  BY <1>3 DEF Saving, Fetcher
<1>5. /\ DOMAIN stored' = {"tickers", "data", "state"}
      /\ stored'.tickers = stored.tickers \/ stored'.tickers = im.tickers
      /\ stored'.data = stored.data \/ stored'.data = im.data
      /\ stored'.state = stored.state \/ stored'.state = im.state
      /\ done < 3 => "state" \in unsaved'
      /\ done = 3 => stored'.state = im.state
  BY <1>2, PutsFacts DEF TickerStoredInv
<1>6. TickerStoredInv'
  BY <1>3, <1>4, <1>5 DEF TickerStoredInv, Saving
<1>7. "state" \notin unsaved' => stored'.state = im.state
  BY <1>5
<1> QED BY <1>4, <1>6, <1>7

LEMMA TicksOn ==
  ASSUME TickerFetchersInv, NEW sym \in Symbols, NEW l, Moved(sym, l),
         UNCHANGED <<clock, landed>>, IsFiniteSet(DOMAIN tickers'),
         DOMAIN tickers' \subseteq DOMAIN tickers \cup {sym}
  PROVE  TickerFetchersInv'
BY DEF TickerFetchersInv, Moved

LEMMA RefreshKeeps ==
  ASSUME T!TickerConstants, TickerInv, NEW sym \in Symbols,
         sym \in DOMAIN tickers', DOMAIN tickers \subseteq DOMAIN tickers',
         DOMAIN tickers' \subseteq DOMAIN tickers \cup {sym}, IsFiniteSet(DOMAIN tickers'),
         UNCHANGED <<clock, landed, T!told>>, T!refreshTicker(sym)
  PROVE  /\ TickerFetchersInv' /\ PollsInv' /\ RefreshInv'
         /\ \A s \in DOMAIN toldAt' : s \in DOMAIN fetchers' /\ fetchers'[s].last = toldAt'[s]
         /\ ~early'
<1>0. PICK l : l = T!fetcherFor(fetchers, sym).last
  OBVIOUS
<1>1. /\ Moved(sym, l)
      /\ sym \in asked' \/ fetchers'[sym].down \/ \E t \in polls' : t.sym = sym
      /\ asked \subseteq asked'
  BY <1>0, Refreshed DEF TickerInv
<1>2. TickerFetchersInv'
  BY <1>1, TicksOn DEF TickerInv
<1>3. RefreshInv'
  <2>1. \A t \in polls' : t.sym \in DOMAIN tickers'
    BY <1>1 DEF Moved, TickerInv, RefreshInv
  <2>2. ASSUME NEW s \in DOMAIN tickers'
        PROVE  s \in asked' \/ Polled(s)' \/ Answered(s)' \/ fetchers'[s].down
    <3>1. CASE s = sym
      BY <3>1, <1>1 DEF Polled
    <3>2. CASE s # sym
      <4>1. s \in DOMAIN tickers /\ s \in DOMAIN fetchers
        BY <3>2 DEF TickerInv, TickerFetchersInv
      <4>2. s \in asked \/ Polled(s) \/ Answered(s) \/ fetchers[s].down
        BY <4>1 DEF TickerInv, RefreshInv
      <4>3. Polled(s) => Polled(s)'
        BY <1>1, <3>2 DEF Polled, Moved
      <4>4. fetchers'[s] = fetchers[s]
        BY <1>1, <3>2, <4>1 DEF Moved
      <4> QED BY <1>1, <4>2, <4>3, <4>4 DEF Answered
    <3> QED BY <3>1, <3>2
  <2> QED BY <2>1, <2>2 DEF RefreshInv
<1>4. \A s \in DOMAIN toldAt' : s \in DOMAIN fetchers' /\ fetchers'[s].last = toldAt'[s]
  <2> SUFFICES ASSUME NEW s \in DOMAIN toldAt
               PROVE  s \in DOMAIN fetchers' /\ fetchers'[s].last = toldAt[s]
    BY DEF T!told
  <2>1. s \in DOMAIN fetchers /\ fetchers[s].last = toldAt[s]
    BY DEF TickerInv, ToldInv
  <2>2. CASE s = sym
    BY <2>1, <2>2, <1>0, <1>1 DEF Moved, T!fetcherFor
  <2>3. CASE s # sym
    BY <2>1, <2>3, <1>1 DEF Moved
  <2> QED BY <2>2, <2>3
<1> QED BY <1>1, <1>2, <1>3, <1>4 DEF Moved, T!told, TickerInv, ToldInv

LEMMA RefreshTimerStep ==
  ASSUME T!TickerConstants, TickerInv, NEW t \in polls, T!RefreshTimer(t)
  PROVE  TickerInv'
<1>0. PICK sym : sym = t.sym
  OBVIOUS
<1>1. sym \in Symbols /\ sym \in DOMAIN tickers
  BY <1>0 DEF TickerInv, PollsInv, RefreshInv, Poll
<1>2. UNCHANGED <<clock, tickers, landed, T!disk, T!told, T!bounds>> /\ T!refreshTicker(sym)
  BY <1>0 DEF T!RefreshTimer
<1>3. /\ TickerFetchersInv' /\ PollsInv' /\ RefreshInv'
      /\ \A s \in DOMAIN toldAt' : s \in DOMAIN fetchers' /\ fetchers'[s].last = toldAt'[s]
      /\ ~early'
  BY <1>1, <1>2, RefreshKeeps DEF TickerInv, TickerFetchersInv
<1> QED BY <1>2, <1>3 DEF T!disk, T!told, TickerInv, TickerStoredInv, ToldInv

LEMMA RefreshCmdStep ==
  ASSUME T!TickerConstants, TickerInv, NEW sym \in Symbols, T!refreshCmd(sym)
  PROVE  TickerInv'
<1>1. /\ sym \in DOMAIN tickers
      /\ UNCHANGED <<clock, tickers, landed, T!disk, T!told, restarts>> /\ T!refreshTicker(sym)
  BY DEF T!refreshCmd
<1>2. /\ TickerFetchersInv' /\ PollsInv' /\ RefreshInv'
      /\ \A s \in DOMAIN toldAt' : s \in DOMAIN fetchers' /\ fetchers'[s].last = toldAt'[s]
      /\ ~early'
  BY <1>1, RefreshKeeps DEF TickerInv, TickerFetchersInv
<1> QED BY <1>1, <1>2 DEF T!disk, T!told, TickerInv, TickerStoredInv, ToldInv

LEMMA TickerAddStep ==
  ASSUME T!TickerConstants, TickerInv, NEW sym \in Symbols, NEW target, NEW user,
         T!addTicker(sym, target, user)
  PROVE  TickerInv'
<1>1. /\ DOMAIN tickers' = DOMAIN tickers \cup {sym}
      /\ T!save(tickers', fetchers)
      /\ UNCHANGED <<clock, landed, T!told, restarts>> /\ T!refreshTicker(sym)
  BY DEF T!addTicker, T!With
<1>2. IsFiniteSet(DOMAIN tickers')
  BY <1>1, FS_AddElement DEF TickerInv, TickerFetchersInv
<1>3. /\ TickerFetchersInv' /\ PollsInv' /\ RefreshInv'
      /\ \A s \in DOMAIN toldAt' : s \in DOMAIN fetchers' /\ fetchers'[s].last = toldAt'[s]
      /\ ~early'
  BY <1>1, <1>2, RefreshKeeps
<1>4. Saving(tickers', fetchers)
  BY <1>1, <1>2 DEF Saving, TickerInv, TickerFetchersInv
<1>5. /\ TickerStoredInv'
      /\ "state" \notin unsaved' => /\ DOMAIN stored'.state = DOMAIN fetchers
                                    /\ \A s \in DOMAIN fetchers :
                                          stored'.state[s] = fetchers[s].last
  BY <1>1, <1>4, Saved DEF TickerInv
<1>6. \A s \in DOMAIN toldAt : s \in DOMAIN fetchers /\ fetchers[s].last = toldAt[s]
  BY DEF TickerInv, ToldInv
<1>7. ToldInv'
  BY <1>1, <1>3, <1>5, <1>6 DEF T!told, ToldInv
<1> QED BY <1>3, <1>5, <1>7 DEF TickerInv

LEMMA DropStep ==
  ASSUME TickerInv, NEW sym \in Symbols, NEW target, T!delTicker(sym, target)
  PROVE  TickerInv'
<1>1. /\ sym \in DOMAIN tickers /\ T!save(tickers', fetchers')
      /\ UNCHANGED <<clock, asked, landed, early>>
  BY DEF T!delTicker, T!net
<1>2. CASE /\ DOMAIN tickers' = DOMAIN tickers
           /\ UNCHANGED <<fetchers, polls, toldAt>>
  <2>1. /\ TickerFetchersInv' /\ PollsInv' /\ RefreshInv'
    BY <1>1, <1>2 DEF TickerInv, TickerFetchersInv, PollsInv, RefreshInv, Polled, Answered
  <2>2. Saving(tickers', fetchers')
    BY <1>1, <1>2 DEF Saving, TickerInv, TickerFetchersInv
  <2>3. /\ TickerStoredInv'
        /\ "state" \notin unsaved' => /\ DOMAIN stored'.state = DOMAIN fetchers'
                                      /\ \A s \in DOMAIN fetchers' :
                                            stored'.state[s] = fetchers'[s].last
    BY <1>1, <2>2, Saved DEF TickerInv
  <2>4. ToldInv'
    BY <1>1, <1>2, <2>3 DEF TickerInv, ToldInv
  <2> QED BY <2>1, <2>3, <2>4 DEF TickerInv
<1>3. CASE T!dropTicker(sym)
  <2>0. PICK f : f = T!fetcherFor(fetchers, sym)
    OBVIOUS
  <2>1. /\ DOMAIN tickers' = DOMAIN tickers \ {sym}
        /\ DOMAIN fetchers' = DOMAIN fetchers \ {sym}
        /\ \A s \in DOMAIN fetchers' : fetchers'[s] = fetchers[s]
        /\ DOMAIN toldAt' = DOMAIN toldAt \ {sym}
        /\ \A s \in DOMAIN toldAt' : toldAt'[s] = toldAt[s]
        /\ polls' = T!Unscheduled(polls, f)
    BY <1>3, <2>0 DEF T!dropTicker, T!Without
  <2>2. /\ \A t \in polls : t \in polls' <=> t.sym # sym
        /\ IsFiniteSet(polls') /\ polls' \subseteq polls
    BY <2>0, <2>1, OwnTimer, OthersFinite DEF TickerInv, PollsInv
  <2>3. IsFiniteSet(DOMAIN tickers')
    BY <2>1, FS_RemoveElement DEF TickerInv, TickerFetchersInv
  <2>4. TickerFetchersInv'
    BY <1>1, <2>1, <2>3 DEF TickerInv, TickerFetchersInv
  <2>5. PollsInv'
    <3>1. \A s \in DOMAIN fetchers' : fetchers'[s].tag # T!NoTag => \E t \in polls' : t.sym = s
      BY <2>1, <2>2 DEF TickerInv, PollsInv
    <3> QED BY <2>1, <2>2, <3>1 DEF TickerInv, PollsInv
  <2>6. RefreshInv'
    <3>1. \A t \in polls' : t.sym \in DOMAIN tickers'
      BY <2>1, <2>2 DEF TickerInv, RefreshInv
    <3>2. ASSUME NEW s \in DOMAIN tickers'
          PROVE  s \in asked' \/ Polled(s)' \/ Answered(s)' \/ fetchers'[s].down
      <4>1. s \in DOMAIN tickers /\ s # sym
        BY <2>1
      <4>2. s \in asked \/ Polled(s) \/ Answered(s) \/ fetchers[s].down
        BY <4>1 DEF TickerInv, RefreshInv
      <4>3. Polled(s) => Polled(s)'
        BY <4>1, <2>2 DEF Polled
      <4>4. fetchers'[s] = fetchers[s]
        BY <2>1, <4>1 DEF TickerInv, TickerFetchersInv
      <4> QED BY <1>1, <4>2, <4>3, <4>4 DEF Answered
    <3> QED BY <3>1, <3>2 DEF RefreshInv
  <2>7. Saving(tickers', fetchers')
    BY <2>1, <2>3, <2>4 DEF Saving, TickerFetchersInv
  <2>8. /\ TickerStoredInv'
        /\ "state" \notin unsaved' => /\ DOMAIN stored'.state = DOMAIN fetchers'
                                      /\ \A s \in DOMAIN fetchers' :
                                            stored'.state[s] = fetchers'[s].last
    BY <1>1, <2>7, Saved DEF TickerInv
  <2>9. \A s \in DOMAIN toldAt' : s \in DOMAIN fetchers' /\ fetchers'[s].last = toldAt'[s]
    BY <2>1 DEF TickerInv, ToldInv
  <2>10. ToldInv'
    BY <1>1, <2>8, <2>9 DEF TickerInv, ToldInv
  <2> QED BY <2>4, <2>5, <2>6, <2>8, <2>10 DEF TickerInv
<1> QED BY <1>2, <1>3 DEF T!delTicker

LEMMA AlarmsStand ==
  ASSUME TickerInv, T!save(tickers', fetchers), DOMAIN tickers' = DOMAIN tickers,
         UNCHANGED <<clock, fetchers, polls, T!net, T!told>>
  PROVE  TickerInv'
<1>1. TickerFetchersInv' /\ PollsInv' /\ RefreshInv'
  BY DEF TickerInv, TickerFetchersInv, PollsInv, RefreshInv, Polled, Answered, T!net
<1>2. Saving(tickers', fetchers)
  BY DEF Saving, TickerInv, TickerFetchersInv
<1>3. /\ TickerStoredInv'
      /\ "state" \notin unsaved' => /\ DOMAIN stored'.state = DOMAIN fetchers
                                    /\ \A s \in DOMAIN fetchers :
                                          stored'.state[s] = fetchers[s].last
  BY <1>2, Saved DEF TickerInv
<1>4. ToldInv'
  BY <1>3 DEF TickerInv, ToldInv, T!told
<1> QED BY <1>1, <1>3, <1>4 DEF TickerInv

LEMMA AddAlarmStep ==
  ASSUME TickerInv, NEW sym, NEW target, NEW user, T!addAlarm(sym, target, user)
  PROVE  TickerInv'
BY AlarmsStand DEF T!addAlarm

LEMMA DelAlarmStep ==
  ASSUME TickerInv, NEW sym, NEW target, NEW user, T!delAlarm(sym, target, user)
  PROVE  TickerInv'
BY AlarmsStand DEF T!delAlarm

LEMMA LandStep ==
  ASSUME TickerInv, NEW sym \in Symbols, NEW res \in Answers, T!Land(sym, res)
  PROVE  TickerInv'
<1>0. PICK n : n = [sym |-> sym, res |-> res]
  OBVIOUS
<1>1. /\ asked' = asked \ {sym} /\ landed' = Append(landed, n)
      /\ UNCHANGED <<clock, T!mem, T!disk, T!told, T!bounds>>
  BY <1>0 DEF T!Land
<1>2. landed \in Seq([sym : Symbols, res : Answers]) /\ n \in [sym : Symbols, res : Answers]
  BY <1>0 DEF TickerInv, TickerFetchersInv
<1>3. landed' \in Seq([sym : Symbols, res : Answers])
  BY <1>1, <1>2
<1>4. /\ \A i \in DOMAIN landed : i \in DOMAIN landed' /\ landed'[i] = landed[i]
      /\ Len(landed) + 1 \in DOMAIN landed' /\ landed'[Len(landed) + 1] = n
  BY <1>1, <1>2
<1>5. TickerFetchersInv' /\ PollsInv' /\ TickerStoredInv' /\ ToldInv'
  BY <1>1, <1>3 DEF TickerInv, TickerFetchersInv, PollsInv, TickerStoredInv, ToldInv, T!mem, T!disk, T!told
<1>6. ASSUME NEW s \in DOMAIN tickers
      PROVE  s \in asked' \/ Polled(s)' \/ Answered(s)' \/ fetchers'[s].down
  <2>1. s \in asked \/ Polled(s) \/ Answered(s) \/ fetchers[s].down
    BY DEF TickerInv, RefreshInv
  <2>2. s = sym => Answered(s)'
    BY <1>0, <1>4 DEF Answered
  <2>3. Answered(s) => Answered(s)'
    BY <1>4 DEF Answered
  <2>4. Polled(s) => Polled(s)'
    BY <1>1 DEF Polled, T!mem
  <2> QED BY <1>1, <2>1, <2>2, <2>3, <2>4 DEF T!mem
<1>7. RefreshInv'
  BY <1>1, <1>6 DEF TickerInv, RefreshInv, T!mem
<1> QED BY <1>5, <1>7 DEF TickerInv

LEMMA TickerTickStep ==
  ASSUME TickerInv, T!Tick
  PROVE  TickerInv'
BY DEF TickerInv, TickerFetchersInv, PollsInv, TickerStoredInv, RefreshInv, ToldInv, Polled, Answered,
       T!Tick, T!mem, T!net, T!disk, T!told

(* What an answer of sym writes and tells; g is its fetcher after it.      *)
Tells(sym, f, g) ==
    \/ g.last = f.last /\ UNCHANGED <<T!disk, T!told>>
    \/ /\ T!save(tickers, fetchers') /\ ~early'
       /\ \/ g.last = f.last /\ UNCHANGED toldAt
          \/ g.last = clock /\ toldAt' = T!With(toldAt, sym, clock)

(* broadcastTicker does not tell a price that has not jumped in the gap.   *)
LEMMA PriceTold ==
  ASSUME T!TickerConstants, TickerInv, NEW sym \in DOMAIN fetchers, NEW f, f = fetchers[sym],
         NEW jumped \in BOOLEAN, T!Announces(f, jumped),
         early' => early \/ (/\ ~jumped /\ sym \in DOMAIN toldAt
                             /\ clock - toldAt[sym] < broadcastGap)
  PROVE  ~early'
<1>1. sym \in DOMAIN toldAt => toldAt[sym] = f.last
  BY DEF TickerInv, ToldInv
<1>2. f.last \in Int /\ clock \in Int /\ broadcastGap \in Int
  BY DEF TickerInv, TickerFetchersInv, Fetcher, T!TickerConstants
<1>3. ~early
  BY DEF TickerInv, ToldInv
<1>4. CASE jumped
  BY <1>3, <1>4
<1>5. CASE ~jumped
  <2>1. clock - f.last >= broadcastGap
    BY <1>5 DEF T!Announces
  <2>2. sym \in DOMAIN toldAt => ~(clock - toldAt[sym] < broadcastGap)
    BY <1>1, <1>2, <2>1
  <2> QED BY <1>3, <2>2
<1> QED BY <1>4, <1>5

LEMMA FetcherUpdates ==
  ASSUME NEW f \in Fetcher
  PROVE  /\ [f EXCEPT !.tries = @ + 1] \in Fetcher
         /\ [f EXCEPT !.tries = 0] \in Fetcher
         /\ [f EXCEPT !.tries = 0, !.errors = 0] \in Fetcher
         /\ \A e \in Nat, d \in BOOLEAN :
               [f EXCEPT !.tries = 0, !.errors = e, !.down = d] \in Fetcher
         /\ \A n \in Nat, l \in Int :
               [f EXCEPT !.tries = 0, !.errors = 0, !.data = n, !.last = l] \in Fetcher
<1>1. \A e \in Nat, d \in BOOLEAN :
               [f EXCEPT !.tries = 0, !.errors = e, !.down = d] \in Fetcher
  BY DEF Fetcher
<1>2. \A n \in Nat, l \in Int :
               [f EXCEPT !.tries = 0, !.errors = 0, !.data = n, !.last = l] \in Fetcher
  BY DEF Fetcher
<1>3. [f EXCEPT !.tries = @ + 1] \in Fetcher
  BY DEF Fetcher
<1>4. [f EXCEPT !.tries = 0] \in Fetcher /\ [f EXCEPT !.tries = 0, !.errors = 0] \in Fetcher
  BY DEF Fetcher
<1> QED BY <1>1, <1>2, <1>3, <1>4

LEMMA TickerAnswerStep ==
  ASSUME T!TickerConstants, TickerInv, NEW sym \in DOMAIN fetchers, sym \in DOMAIN tickers,
         NEW g \in Fetcher, g.tag = fetchers[sym].tag, NEW delay \in Nat,
         landed # <<>>, Head(landed).sym = sym, landed' = Tail(landed),
         UNCHANGED <<clock, tickers, asked, T!bounds>>, T!scheduleRefresh(sym, g, delay),
         Tells(sym, fetchers[sym], g)
  PROVE  TickerInv'
<1>1. sym \in Symbols
  BY DEF TickerInv, TickerFetchersInv
<1>2. /\ Moved(sym, g.last)
      /\ fetchers'[sym].down \/ \E t \in polls' : t.sym = sym
  BY <1>1, Rescheduled DEF TickerInv, T!fetcherFor
<1>3. landed \in Seq([sym : Symbols, res : Answers])
  BY DEF TickerInv, TickerFetchersInv
<1>4. landed' \in Seq([sym : Symbols, res : Answers])
  BY <1>3
<1>5. TickerFetchersInv'
  BY <1>1, <1>2, <1>4 DEF Moved, TickerInv, TickerFetchersInv
<1>6. ASSUME NEW s \in DOMAIN tickers
      PROVE  s \in asked' \/ Polled(s)' \/ Answered(s)' \/ fetchers'[s].down
  <2>1. CASE s = sym
    BY <2>1, <1>2 DEF Polled
  <2>2. CASE s # sym
    <3>1. s \in asked \/ Polled(s) \/ Answered(s) \/ fetchers[s].down
      BY DEF TickerInv, RefreshInv
    <3>2. Answered(s) => Answered(s)'
      <4> SUFFICES ASSUME NEW i \in DOMAIN landed, landed[i].sym = s
                   PROVE  Answered(s)'
        BY DEF Answered
      <4>1. i \in Nat /\ i >= 1 /\ i <= Len(landed) /\ Len(landed) \in Nat
        BY <1>3
      <4>2. i # 1
        BY <1>3, <2>2
      <4>3. i - 1 \in DOMAIN landed' /\ landed'[i - 1] = landed[i]
        BY <1>3, <4>1, <4>2
      <4> QED BY <4>3 DEF Answered
    <3>3. Polled(s) => Polled(s)'
      BY <1>2, <2>2 DEF Polled, Moved
    <3>4. fetchers'[s] = fetchers[s]
      BY <1>2, <2>2 DEF Moved, TickerInv, TickerFetchersInv
    <3> QED BY <3>1, <3>2, <3>3, <3>4
  <2> QED BY <2>1, <2>2
<1>7. RefreshInv'
  <2>1. \A t \in polls' : t.sym \in DOMAIN tickers'
    BY <1>2 DEF Moved, TickerInv, RefreshInv
  <2> QED BY <1>6, <2>1 DEF RefreshInv
<1>8. PollsInv'
  BY <1>2 DEF Moved
<1>9. CASE g.last = fetchers[sym].last /\ UNCHANGED <<T!disk, T!told>>
  <2>1. TickerStoredInv'
    BY <1>9 DEF TickerInv, TickerStoredInv, T!disk
  <2>2. ToldInv'
    BY <1>2, <1>9 DEF TickerInv, ToldInv, T!disk, T!told, Moved
  <2> QED BY <1>5, <1>7, <1>8, <2>1, <2>2 DEF TickerInv
<1>10. CASE /\ T!save(tickers, fetchers') /\ ~early'
            /\ \/ g.last = fetchers[sym].last /\ UNCHANGED toldAt
               \/ g.last = clock /\ toldAt' = T!With(toldAt, sym, clock)
  <2>1. Saving(tickers, fetchers')
    BY <1>5 DEF Saving, TickerFetchersInv
  <2>2. /\ TickerStoredInv'
        /\ "state" \notin unsaved' => /\ DOMAIN stored'.state = DOMAIN fetchers'
                                      /\ \A s \in DOMAIN fetchers' :
                                            stored'.state[s] = fetchers'[s].last
    BY <1>10, <2>1, Saved DEF TickerInv
  <2>3. \A s \in DOMAIN toldAt : s \in DOMAIN fetchers /\ fetchers[s].last = toldAt[s]
    BY DEF TickerInv, ToldInv
  <2>4. \A s \in DOMAIN toldAt' : s \in DOMAIN fetchers' /\ fetchers'[s].last = toldAt'[s]
    <3>1. CASE g.last = fetchers[sym].last /\ UNCHANGED toldAt
      BY <3>1, <1>2, <2>3 DEF Moved
    <3>2. CASE g.last = clock /\ toldAt' = T!With(toldAt, sym, clock)
      <4>1. /\ DOMAIN toldAt' = DOMAIN toldAt \cup {sym} /\ toldAt'[sym] = clock
            /\ \A s \in DOMAIN toldAt : s # sym => toldAt'[s] = toldAt[s]
        BY <3>2 DEF T!With
      <4> QED BY <3>2, <4>1, <1>2, <2>3 DEF Moved
    <3> QED BY <1>10, <3>1, <3>2
  <2>5. ToldInv'
    BY <1>10, <2>2, <2>4 DEF ToldInv
  <2> QED BY <1>5, <1>7, <1>8, <2>2, <2>5 DEF TickerInv
<1> QED BY <1>9, <1>10 DEF Tells

LEMMA FetchedStep ==
  ASSUME T!TickerConstants, TickerInv, T!fetched
  PROVE  TickerInv'
<1>0. PICK sym : sym = Head(landed).sym
  OBVIOUS
<1>1. PICK res : res = Head(landed).res
  OBVIOUS
<1>2. PICK f : f = fetchers[sym]
  OBVIOUS
<1>3. /\ landed # <<>> /\ landed' = Tail(landed)
      /\ UNCHANGED <<clock, tickers, asked, T!bounds>>
  BY DEF T!fetched
<1>4. landed \in Seq([sym : Symbols, res : Answers]) /\ {Minute, refreshEvery, Hour} \subseteq Nat
  BY DEF TickerInv, TickerFetchersInv, T!TickerConstants
<1>5. CASE sym \notin DOMAIN tickers
  <2>1. UNCHANGED <<fetchers, polls, T!disk, T!told>>
    BY <1>0, <1>5, Zenon DEF T!fetched
  <2>2. landed' \in Seq([sym : Symbols, res : Answers])
    BY <1>3, <1>4
  <2>3. TickerFetchersInv' /\ PollsInv' /\ TickerStoredInv' /\ ToldInv'
    BY <1>3, <2>1, <2>2 DEF TickerInv, TickerFetchersInv, PollsInv, TickerStoredInv, ToldInv, T!disk, T!told
  <2>4. ASSUME NEW s \in DOMAIN tickers, Answered(s) PROVE Answered(s)'
    <3>1. PICK i \in DOMAIN landed : landed[i].sym = s
      BY <2>4 DEF Answered
    <3>2. i \in Nat /\ i >= 1 /\ i <= Len(landed) /\ Len(landed) \in Nat
      BY <1>4
    <3>3. i # 1
      BY <1>0, <1>4, <1>5, <3>1
    <3>4. i - 1 \in DOMAIN landed' /\ landed'[i - 1] = landed[i]
      BY <1>3, <1>4, <3>2, <3>3
    <3> QED BY <3>1, <3>4 DEF Answered
  <2>5. RefreshInv'
    BY <1>3, <2>1, <2>4 DEF TickerInv, RefreshInv, Polled
  <2> QED BY <2>3, <2>5 DEF TickerInv
<1>6. CASE sym \in DOMAIN tickers
  <2>1. sym \in DOMAIN fetchers /\ f \in Fetcher
    BY <1>2, <1>6 DEF TickerInv, TickerFetchersInv
  <2>2. ASSUME NEW g \in Fetcher, g.tag = f.tag, NEW delay \in Nat, T!scheduleRefresh(sym, g, delay),
               Tells(sym, f, g)
        PROVE  TickerInv'
    BY <1>0, <1>2, <1>3, <1>6, <2>1, <2>2, TickerAnswerStep
  <2>3. \/ /\ res = "error" /\ f.tries < 2
           /\ T!scheduleRefresh(sym, [f EXCEPT !.tries = @ + 1], Minute) /\ UNCHANGED <<T!disk, T!told>>
        \/ /\ res = "error" /\ f.tries = 2
           /\ T!scheduleRefresh(sym, [f EXCEPT !.tries = 0], Hour) /\ UNCHANGED <<T!disk, T!told>>
        \/ /\ res = "no JSON"
           /\ T!scheduleRefresh(sym, [f EXCEPT !.tries = 0, !.errors = @ + 1,
                                   !.down = @ \/ f.errors >= maxJSONErrors], refreshEvery)
           /\ UNCHANGED <<T!disk, T!told>>
        \/ /\ res = "no price"
           /\ T!scheduleRefresh(sym, [f EXCEPT !.tries = 0, !.errors = 0], refreshEvery)
           /\ UNCHANGED <<T!disk, T!told>>
        \/ /\ res \in {"price", "jump"}
           /\ T!scheduleRefresh(sym, [f EXCEPT !.tries = 0, !.errors = 0,
                     !.data = IF @ < maxData THEN @ + 1 ELSE @,
                     !.last = IF T!Announces(f, res = "jump") THEN clock ELSE @], refreshEvery)
           /\ toldAt' = IF T!Announces(f, res = "jump") THEN T!With(toldAt, sym, clock) ELSE toldAt
           /\ early' = (early \/ (/\ T!Announces(f, res = "jump") /\ res = "price"
                                  /\ sym \in DOMAIN toldAt
                                  /\ clock - toldAt[sym] < broadcastGap))
           /\ T!save(tickers, fetchers')
    BY <1>0, <1>1, <1>2, <1>6, <2>1, ZenonT(30) DEF T!fetched
  <2>4. CASE /\ res = "error" /\ f.tries < 2
             /\ T!scheduleRefresh(sym, [f EXCEPT !.tries = @ + 1], Minute) /\ UNCHANGED <<T!disk, T!told>>
    <3>1. PICK g : g = [f EXCEPT !.tries = @ + 1]
      OBVIOUS
    <3>2. g \in Fetcher /\ g.tag = f.tag /\ g.last = f.last
      BY <2>1, <3>1 DEF Fetcher
    <3>3. T!scheduleRefresh(sym, g, Minute) /\ Tells(sym, f, g)
      BY <2>4, <3>1, <3>2 DEF Tells
    <3> QED BY <2>2, <3>2, <3>3, <1>4
  <2>5. CASE /\ res = "error" /\ f.tries = 2
             /\ T!scheduleRefresh(sym, [f EXCEPT !.tries = 0], Hour) /\ UNCHANGED <<T!disk, T!told>>
    <3>1. PICK g : g = [f EXCEPT !.tries = 0]
      OBVIOUS
    <3>2. g \in Fetcher /\ g.tag = f.tag /\ g.last = f.last
      BY <2>1, <3>1 DEF Fetcher
    <3>3. T!scheduleRefresh(sym, g, Hour) /\ Tells(sym, f, g)
      BY <2>5, <3>1, <3>2 DEF Tells
    <3> QED BY <2>2, <3>2, <3>3, <1>4
  <2>6. CASE /\ res = "no JSON"
             /\ T!scheduleRefresh(sym, [f EXCEPT !.tries = 0, !.errors = @ + 1,
                                     !.down = @ \/ f.errors >= maxJSONErrors], refreshEvery)
             /\ UNCHANGED <<T!disk, T!told>>
    <3>1. PICK d : d = (f.down \/ f.errors >= maxJSONErrors)
      OBVIOUS
    <3>2. d \in BOOLEAN
      BY <3>1
    <3>3. PICK e : e = f.errors + 1
      OBVIOUS
    <3>4. e \in Nat
      BY <2>1, <3>3 DEF Fetcher
    <3>5. PICK g : g = [f EXCEPT !.tries = 0, !.errors = e, !.down = d]
      OBVIOUS
    <3>6. g \in Fetcher
      BY <2>1, <3>2, <3>4, <3>5, FetcherUpdates
    <3>7. g.tag = f.tag /\ g.last = f.last
      BY <2>1, <3>5 DEF Fetcher
    <3>8. T!scheduleRefresh(sym, g, refreshEvery)
      BY <2>6, <3>1, <3>3, <3>5, Zenon
    <3>9. Tells(sym, f, g)
      BY <2>6, <3>7 DEF Tells
    <3> QED BY <2>2, <3>6, <3>7, <3>8, <3>9, <1>4
  <2>7. CASE /\ res = "no price"
             /\ T!scheduleRefresh(sym, [f EXCEPT !.tries = 0, !.errors = 0], refreshEvery)
             /\ UNCHANGED <<T!disk, T!told>>
    <3>1. PICK g : g = [f EXCEPT !.tries = 0, !.errors = 0]
      OBVIOUS
    <3>2. g \in Fetcher /\ g.tag = f.tag /\ g.last = f.last
      BY <2>1, <3>1 DEF Fetcher
    <3>3. T!scheduleRefresh(sym, g, refreshEvery) /\ Tells(sym, f, g)
      BY <2>7, <3>1, <3>2 DEF Tells
    <3> QED BY <2>2, <3>2, <3>3, <1>4
  <2>8. CASE /\ res \in {"price", "jump"}
             /\ T!scheduleRefresh(sym, [f EXCEPT !.tries = 0, !.errors = 0,
                       !.data = IF @ < maxData THEN @ + 1 ELSE @,
                       !.last = IF T!Announces(f, res = "jump") THEN clock ELSE @], refreshEvery)
             /\ toldAt' = IF T!Announces(f, res = "jump") THEN T!With(toldAt, sym, clock) ELSE toldAt
             /\ early' = (early \/ (/\ T!Announces(f, res = "jump") /\ res = "price"
                                    /\ sym \in DOMAIN toldAt
                                    /\ clock - toldAt[sym] < broadcastGap))
             /\ T!save(tickers, fetchers')
    <3>1. PICK n : n = IF f.data < maxData THEN f.data + 1 ELSE f.data
      OBVIOUS
    <3>2. n \in Nat
      BY <2>1, <3>1 DEF Fetcher, T!TickerConstants
    <3>3. PICK l : l = IF T!Announces(f, res = "jump") THEN clock ELSE f.last
      OBVIOUS
    <3>4. l \in Int
      BY <2>1, <3>3 DEF Fetcher, TickerInv, TickerFetchersInv
    <3>5. PICK g : g = [f EXCEPT !.tries = 0, !.errors = 0, !.data = n, !.last = l]
      OBVIOUS
    <3>6. g \in Fetcher
      BY <2>1, <3>2, <3>4, <3>5, FetcherUpdates
    <3>7. g.tag = f.tag /\ g.last = l
      BY <2>1, <3>5 DEF Fetcher
    <3>8. T!scheduleRefresh(sym, g, refreshEvery)
      BY <2>8, <3>1, <3>3, <3>5, Zenon
    <3>9. ~early'
      <4>1. CASE T!Announces(f, res = "jump")
        <5>1. PICK jumped \in BOOLEAN : jumped = (res = "jump")
          OBVIOUS
        <5>2. T!Announces(f, jumped)
          BY <4>1, <5>1
        <5>3. early' => early \/ (/\ ~jumped /\ sym \in DOMAIN toldAt
                                  /\ clock - toldAt[sym] < broadcastGap)
          BY <2>8, <5>1
        <5> QED BY <1>2, <2>1, <5>2, <5>3, PriceTold
      <4>2. CASE ~T!Announces(f, res = "jump")
        BY <2>8, <4>2 DEF TickerInv, ToldInv
      <4> QED BY <4>1, <4>2
    <3>10. \/ g.last = f.last /\ UNCHANGED toldAt
           \/ g.last = clock /\ toldAt' = T!With(toldAt, sym, clock)
      BY <2>8, <3>3, <3>7
    <3>11. Tells(sym, f, g)
      BY <2>8, <3>9, <3>10 DEF Tells
    <3> QED BY <2>2, <3>6, <3>7, <3>8, <3>11, <1>4
  <2> QED BY <2>3, <2>4, <2>5, <2>6, <2>7, <2>8
<1> QED BY <1>5, <1>6

LEMMA TickerRestartStep ==
  ASSUME TickerInv, T!Restart
  PROVE  TickerInv'
<1> DEFINE Apart(D, g) == /\ g \in [D -> 1 .. Cardinality(D)]
                          /\ \A s, t \in D : s # t => g[s] # g[t]
<1>1. PICK D : D = DOMAIN tickers'
  OBVIOUS
<1>2. D = DOMAIN stored.tickers /\ IsFiniteSet(D) /\ D \subseteq Symbols
  BY <1>1 DEF T!Restart, TickerInv, TickerStoredInv
<1>3. PICK tagOf : tagOf = T!TagOf(D)
  OBVIOUS
<1>4. Apart(D, tagOf)
  <2>1. \E g \in [D -> 1 .. Cardinality(D)] : \A s, t \in D : s # t => g[s] # g[t]
    BY <1>2, Numbering
  <2>2. T!Cardinality(D) = Cardinality(D)
    BY TickerCardinality
  <2>3. \E g \in [D -> 1 .. T!Cardinality(D)] : \A s, t \in D : s # t => g[s] # g[t]
    BY <2>1, <2>2
  <2>4. /\ tagOf \in [D -> 1 .. T!Cardinality(D)]
        /\ \A s, t \in D : s # t => tagOf[s] # tagOf[t]
    BY <1>3, <2>3, Zenon DEF T!TagOf
  <2> QED BY <2>2, <2>4
<1>5. \A s \in D : tagOf[s] \in Nat \ {0}
  BY <1>2, <1>4, FS_CardinalityType
<1>6. PICK known : known = DOMAIN stored.data \cup DOMAIN stored.state \cup D
  OBVIOUS
<1>7. tickers' = stored.tickers /\ DOMAIN tickers' = D
  BY <1>1 DEF T!Restart
<1>8. /\ asked' = {} /\ landed' = <<>>
      /\ UNCHANGED <<clock, T!disk, early>>
      /\ toldAt' = IF "state" \in unsaved
                   THEN [s \in DOMAIN stored.state |-> stored.state[s]] ELSE toldAt
  BY DEF T!Restart
<1>9. polls' = {[sym |-> s, tag |-> tagOf[s], at |-> clock] : s \in D}
  BY <1>1, <1>3, <1>7 DEF T!Restart
<1>9a. \A s \in D : \E t \in polls' : t.sym = s
  <2> SUFFICES ASSUME NEW s \in D PROVE \E t \in polls' : t.sym = s
    OBVIOUS
  <2>1. PICK t : t = [sym |-> s, tag |-> tagOf[s], at |-> clock]
    OBVIOUS
  <2>2. t \in polls' /\ t.sym = s
    BY <2>1, <1>9
  <2> QED BY <2>2
<1>10. fetchers' = [s \in known |->
              [T!Fresh EXCEPT !.data = IF s \in DOMAIN stored.data THEN stored.data[s] ELSE 0,
                            !.last = IF s \in DOMAIN stored.state THEN stored.state[s] ELSE T!Never,
                            !.tag = IF s \in D THEN tagOf[s] ELSE T!NoTag]]
  BY <1>1, <1>3, <1>6 DEF T!Restart
<1>11. known \subseteq Symbols /\ D \subseteq known
  BY <1>2, <1>6 DEF TickerInv, TickerStoredInv
<1>12. ASSUME NEW s \in known
       PROVE  /\ fetchers'[s] \in Fetcher
              /\ s \in D => fetchers'[s].tag = tagOf[s]
              /\ s \notin D => fetchers'[s].tag = T!NoTag
              /\ s \in DOMAIN stored.state => fetchers'[s].last = stored.state[s]
  <2>1. PICK n : n = IF s \in DOMAIN stored.data THEN stored.data[s] ELSE 0
    OBVIOUS
  <2>2. PICK l : l = IF s \in DOMAIN stored.state THEN stored.state[s] ELSE T!Never
    OBVIOUS
  <2>3. PICK tag : tag = IF s \in D THEN tagOf[s] ELSE T!NoTag
    OBVIOUS
  <2>4. n \in Nat /\ l \in Int /\ tag \in Nat
    BY <1>5, <2>1, <2>2, <2>3 DEF TickerInv, TickerStoredInv, T!Never, T!NoTag
  <2>5. fetchers'[s] = [T!Fresh EXCEPT !.data = n, !.last = l, !.tag = tag]
    BY <1>10, <2>1, <2>2, <2>3
  <2>6. fetchers'[s] = [data |-> n, tag |-> tag, tries |-> 0, errors |-> 0,
                        down |-> FALSE, last |-> l]
    BY <2>5 DEF T!Fresh
  <2> QED BY <2>2, <2>3, <2>4, <2>6 DEF Fetcher
<1>13. DOMAIN fetchers' = known
  BY <1>10
<1>14. TickerFetchersInv'
  BY <1>2, <1>7, <1>8, <1>11, <1>12, <1>13 DEF TickerFetchersInv, TickerInv
<1>15. TickerStoredInv'
  BY <1>8 DEF T!disk, TickerInv, TickerStoredInv
<1>16. PollsInv'
  <2>1. IsFiniteSet(polls')
    <3> DEFINE g == [s \in D |-> [sym |-> s, tag |-> tagOf[s], at |-> clock]]
               U == {[sym |-> s, tag |-> tagOf[s], at |-> clock] : s \in D}
    <3>1. g \in Surjection(D, U)
      BY DEF Surjection
    <3>2. IsFiniteSet(U)
      BY <3>1, <1>2, FS_Surjection
    <3> QED BY <3>2, <1>9
  <2>2. \A t \in polls' : t.sym \in D /\ t = [sym |-> t.sym, tag |-> tagOf[t.sym], at |-> clock]
    BY <1>9
  <2>3. \A t \in polls' : t.sym \in D /\ t.tag = tagOf[t.sym] /\ t \in Poll
    <3> SUFFICES ASSUME NEW t \in polls'
                 PROVE  t.sym \in D /\ t.tag = tagOf[t.sym] /\ t \in Poll
      OBVIOUS
    <3>1. PICK s \in D : t = [sym |-> s, tag |-> tagOf[s], at |-> clock]
      BY <1>9
    <3> QED BY <3>1, <1>2, <1>5 DEF Poll, TickerInv, TickerFetchersInv
  <2>4. \A t \in polls' : t.sym \in DOMAIN fetchers' /\ fetchers'[t.sym].tag = t.tag
    BY <2>3, <1>11, <1>12, <1>13
  <2>5. \A t, u \in polls' : t.tag = u.tag => t = u
    <3> SUFFICES ASSUME NEW t \in polls', NEW u \in polls', t.tag = u.tag
                 PROVE  t = u
      OBVIOUS
    <3>1. t.sym = u.sym
      BY <2>3, <1>4
    <3> QED BY <2>2, <3>1
  <2>6. \A s \in DOMAIN fetchers' : fetchers'[s].tag # T!NoTag => \E t \in polls' : t.sym = s
    BY <1>9a, <1>12, <1>13
  <2> QED BY <2>1, <2>3, <2>4, <2>5, <2>6 DEF PollsInv
<1>17. RefreshInv'
  <2>1. \A t \in polls' : t.sym \in DOMAIN tickers'
    BY <1>7, <1>9
  <2> QED BY <2>1, <1>9a, <1>7 DEF RefreshInv, Polled
<1>18. ToldInv'
  <2>1. DOMAIN stored.state \subseteq known
    BY <1>6
  <2>2. \A s \in DOMAIN toldAt' : s \in DOMAIN stored.state /\ stored.state[s] = toldAt'[s]
    BY <1>8 DEF TickerInv, ToldInv
  <2>3. \A s \in DOMAIN toldAt' : s \in DOMAIN fetchers' /\ fetchers'[s].last = toldAt'[s]
    BY <2>1, <2>2, <1>12, <1>13
  <2> QED BY <2>2, <2>3, <1>8 DEF T!disk, TickerInv, ToldInv
<1> QED BY <1>14, <1>15, <1>16, <1>17, <1>18 DEF TickerInv

LEMMA InitTicker == T!Init => TickerInv
<1> SUFFICES ASSUME T!Init PROVE TickerInv
  OBVIOUS
<1>1. DOMAIN T!Nothing = {}
  BY DEF T!Nothing
<1>2. IsFiniteSet({})
  BY FS_EmptySet
<1>3. TickerFetchersInv
  BY <1>1, <1>2 DEF T!Init, TickerFetchersInv
<1>4. TickerStoredInv
  BY <1>1, <1>2 DEF T!Init, TickerStoredInv
<1>5. PollsInv /\ RefreshInv /\ ToldInv
  BY <1>1, <1>2 DEF T!Init, PollsInv, RefreshInv, ToldInv
<1> QED BY <1>3, <1>4, <1>5 DEF TickerInv

LEMMA TickerNextStep ==
  ASSUME T!TickerConstants, TickerInv, [T!Next]_T!vars
  PROVE  TickerInv'
<1>1. CASE \E t \in polls : T!RefreshTimer(t)
  BY <1>1, RefreshTimerStep
<1>2. ASSUME NEW sym \in Symbols,
             \/ T!refreshCmd(sym)
             \/ \E target \in Targets :
                   \/ T!delTicker(sym, target)
                   \/ \E user \in Users : \/ T!addTicker(sym, target, user)
                                          \/ T!addAlarm(sym, target, user)
                                          \/ T!delAlarm(sym, target, user)
             \/ \E res \in Answers : T!Land(sym, res)
      PROVE  TickerInv'
  BY <1>2, RefreshCmdStep, DropStep, TickerAddStep, AddAlarmStep, DelAlarmStep, LandStep
<1>3. CASE T!fetched
  BY <1>3, FetchedStep
<1>4. CASE T!Tick
  BY <1>4, TickerTickStep
<1>5. CASE T!Restart
  BY <1>5, TickerRestartStep
<1>6. CASE UNCHANGED T!vars
  BY <1>6 DEF TickerInv, TickerFetchersInv, PollsInv, TickerStoredInv, RefreshInv, ToldInv, Polled, Answered,
       T!vars, T!mem, T!net, T!disk, T!told, T!bounds
<1> QED BY <1>1, <1>2, <1>3, <1>4, <1>5, <1>6 DEF T!Next, Answers

LEMMA TickerInvHolds == TickerInv => T!TickersRun
BY DEF TickerInv, TickerFetchersInv, PollsInv, RefreshInv, ToldInv, Polled, Answered, T!TickersRun

(* For any symbols, targets and times, whatever is added, dropped, asked   *)
(* for and answered, saved or not, and across restarts: a symbol that is   *)
(* subscribed to has a timer, a request or an answer to come until it is   *)
(* given up, there are no other timers, and a price is told once in the    *)
(* gap unless it jumps (refreshTicker, scheduleRefresh, broadcastTicker).  *)
THEOREM TickerTickersRun == ASSUME T!TickerConstants PROVE T!Spec => []T!TickersRun
<1>1. T!Init => TickerInv
  BY InitTicker
<1>2. TickerInv /\ [T!Next]_T!vars => TickerInv'
  BY TickerNextStep
<1>3. TickerInv => T!TickersRun
  BY TickerInvHolds
<1> QED BY <1>1, <1>2, <1>3, PTL DEF T!Spec

(***************************************************************************)
(* The command registry (internal/irc/cmd/cmd.go).                         *)
(***************************************************************************)
Handlers == [module : Modules, fn : Nat]
Catchers == [module : Modules, priority : Priorities, cont : BOOLEAN, fn : Nat]
Livings == [module : Modules, word : Words \cup {<<>>}, fn : Nat, since : Nat]

HandlersOf(L) == {C!Handler(r) : r \in L}

(* The list of a word names those of L, in the order of registration.      *)
Listed(regs, L) ==
    /\ regs \in Seq(Handlers)
    /\ Range(regs) = HandlersOf(L)
    /\ \A i, j \in 1..Len(regs) : i < j =>
          \A r, s \in L : C!Handler(r) = regs[i] /\ C!Handler(s) = regs[j] => r.since < s.since

Precedes(d, e) ==
    \/ d.priority > e.priority
    \/ d.priority = e.priority /\ d.fn < e.fn

(* The catch-alls are those of L, by priority.                             *)
Caught(defs, L) ==
    /\ defs \in Seq(Catchers)
    /\ HandlersOf(Range(defs)) = HandlersOf(L)
    /\ \A i, j \in 1..Len(defs) : i < j => Precedes(defs[i], defs[j])

LEMMA SameKept == ASSUME NEW s, NEW S0 PROVE C!Retained(s, S0) = Retained(s, S0)
  BY DEF C!Retained, C!RetainedOf, Retained, RetainedOf

LEMMA NoneListed == Listed(<<>>, {})
<1>1. <<>> \in Seq(Handlers) /\ Range(<<>>) = {} /\ Len(<<>>) = 0
  BY EmptySeq DEF Range
<1> QED BY <1>1 DEF Listed, HandlersOf

(* A list loses those that are not in some set.                            *)
LEMMA ListedKept ==
  ASSUME NEW regs, NEW L, Listed(regs, L), NEW left, NEW L2, L2 \subseteq L,
         HandlersOf(L2) = HandlersOf(L) \cap left
  PROVE  Listed(Retained(regs, left), L2)
<1> DEFINE rest == Retained(regs, left)
<1>1. /\ rest \in Seq(Handlers) /\ Range(rest) = Range(regs) \cap left
      /\ InOrderOf(rest, regs, Len(regs))
  BY KeptFacts DEF Listed
<1> HIDE DEF rest
<1>2. Range(rest) = HandlersOf(L2)
  BY <1>1 DEF Listed
<1>3. ASSUME NEW i \in 1..Len(rest), NEW j \in 1..Len(rest), i < j,
             NEW r \in L2, NEW s \in L2, C!Handler(r) = rest[i], C!Handler(s) = rest[j]
      PROVE  r.since < s.since
  <2>1. PICK k \in 1..Len(regs), l \in 1..Len(regs) :
           k < l /\ regs[k] = rest[i] /\ regs[l] = rest[j]
    BY <1>1, <1>3, Zenon DEF InOrderOf
  <2>2. r \in L /\ s \in L
    OBVIOUS
  <2> QED BY <1>3, <2>1, <2>2, Zenon DEF Listed
<1> QED BY <1>1, <1>2, <1>3, Zenon DEF Listed, rest

(* A new one comes last.                                                   *)
LEMMA ListedAppended ==
  ASSUME NEW regs, NEW L, Listed(regs, L), NEW n,
         C!Handler(n) \in Handlers, C!Handler(n) \notin HandlersOf(L),
         \A r \in L : r.since < n.since
  PROVE  Listed(Append(regs, C!Handler(n)), L \cup {n})
<1> DEFINE h == C!Handler(n)
           more == Append(regs, h)
<1>1. more \in Seq(Handlers) /\ Range(more) = Range(regs) \cup {h}
  BY RangeAppend DEF Listed
<1>2. /\ Len(more) = Len(regs) + 1 /\ Len(regs) \in Nat
      /\ \A i \in 1..Len(regs) : more[i] = regs[i]
      /\ more[Len(regs) + 1] = h
  BY AppendProperties, LenProperties DEF Listed
<1>3. h = C!Handler(n)
  OBVIOUS
<1> HIDE DEF more, h
<1>4. HandlersOf(L \cup {n}) = HandlersOf(L) \cup {h}
  BY <1>3 DEF HandlersOf
<1>5. \A i \in 1..Len(regs) : regs[i] \in HandlersOf(L)
  BY DEF Listed, Range
<1>6. ASSUME NEW i \in 1..Len(more), NEW j \in 1..Len(more), i < j,
             NEW r \in L \cup {n}, NEW s \in L \cup {n},
             C!Handler(r) = more[i], C!Handler(s) = more[j]
      PROVE  r.since < s.since
  <2>1. i \in 1..Len(regs) /\ more[i] = regs[i]
    BY <1>2, <1>6
  <2>2. r \in L
    BY <2>1, <1>3, <1>5, <1>6
  <2>3. CASE j \in 1..Len(regs)
    <3>1. more[j] = regs[j]
      BY <2>3, <1>2
    <3>2. s \in L
      BY <2>3, <3>1, <1>5, <1>6
    <3> QED BY <2>1, <2>2, <2>3, <3>1, <3>2, <1>6, Zenon DEF Listed
  <2>4. CASE j = Len(regs) + 1
    <3>1. s \notin L
      BY <2>4, <1>2, <1>3, <1>6 DEF HandlersOf
    <3> QED BY <2>2, <3>1
  <2> QED BY <2>3, <2>4, <1>2
<1>7. Range(more) = HandlersOf(L \cup {n})
  BY <1>1, <1>4 DEF Listed
<1> QED BY <1>1, <1>6, <1>7, Zenon DEF Listed, more, h

(* A second registration of a module takes the place of its first.         *)
LEMMA ListedReplaced ==
  ASSUME NEW regs, NEW L, Listed(regs, L), NEW o \in L, NEW n, n.since = o.since,
         C!Handler(n) \in Handlers, C!Handler(n) \notin HandlersOf(L),
         \A r \in L : C!Handler(r) = C!Handler(o) => r = o,
         NEW regs2,
         regs2 = [i \in DOMAIN regs |-> IF regs[i] = C!Handler(o) THEN C!Handler(n) ELSE regs[i]]
  PROVE  Listed(regs2, (L \ {o}) \cup {n})
<1> DEFINE h == C!Handler(n)
           mine == {i \in 1..Len(regs) : regs[i] = C!Handler(o)}
           L2 == (L \ {o}) \cup {n}
<1>1. regs \in Seq(Handlers) /\ Len(regs) \in Nat /\ DOMAIN regs = 1..Len(regs)
      /\ \A i \in 1..Len(regs) : regs[i] \in Handlers
  BY LenProperties, ElementOfSeq DEF Listed
<1>2. regs2 \in Seq(Handlers) /\ Len(regs2) = Len(regs) /\ DOMAIN regs2 = 1..Len(regs)
  <2>1. \A i \in 1..Len(regs) : (IF regs[i] = C!Handler(o) THEN h ELSE regs[i]) \in Handlers
    BY <1>1
  <2>2. regs2 \in [1..Len(regs) -> Handlers]
    BY <1>1, <2>1
  <2> QED BY <1>1, <2>2, LenProperties, IsASeq
<1>3. \A i \in 1..Len(regs) : regs2[i] = IF i \in mine THEN h ELSE regs[i]
  BY <1>1
<1>4. h = C!Handler(n)
  OBVIOUS
<1> HIDE DEF h
<1>5. PICK m \in 1..Len(regs) : regs[m] = C!Handler(o)
  <2>1. C!Handler(o) \in Range(regs)
    BY DEF Listed, HandlersOf
  <2> QED BY <2>1, <1>1 DEF Range
<1>6. HandlersOf(L2) = (HandlersOf(L) \ {C!Handler(o)}) \cup {h}
  BY <1>4 DEF HandlersOf
<1>7. \A i \in 1..Len(regs) : regs[i] \in HandlersOf(L)
  BY <1>1 DEF Listed, Range
<1>8. Range(regs2) = HandlersOf(L2)
  <2>1. ASSUME NEW i \in 1..Len(regs) PROVE regs2[i] \in HandlersOf(L2)
    BY <1>3, <1>6, <1>7
  <2>2. h \in Range(regs2)
    BY <1>2, <1>3, <1>5 DEF Range
  <2>3. ASSUME NEW k \in HandlersOf(L), k # C!Handler(o) PROVE k \in Range(regs2)
    <3>1. PICK i \in 1..Len(regs) : regs[i] = k
      BY <1>1 DEF Listed, Range
    <3>2. regs2[i] = k
      BY <3>1, <2>3, <1>3
    <3> QED BY <3>2, <1>2 DEF Range
  <2>4. Range(regs2) = {regs2[i] : i \in 1..Len(regs)}
    BY <1>2 DEF Range
  <2>5. HandlersOf(L2) \subseteq Range(regs2)
    <3> HIDE DEF L2
    <3> QED BY <2>2, <2>3, <1>6
  <2> HIDE DEF L2
  <2> QED BY <2>1, <2>4, <2>5
(* What a member of the new list was before.                               *)
<1> DEFINE was(r) == IF r = n THEN o ELSE r
<1>9. ASSUME NEW i \in 1..Len(regs), NEW r \in L2, C!Handler(r) = regs2[i]
      PROVE  was(r) \in L /\ C!Handler(was(r)) = regs[i] /\ was(r).since = r.since
  <2>1. CASE r = n
    <3>1. i \in mine
      BY <2>1, <1>3, <1>4, <1>7, <1>9
    <3> QED BY <2>1, <3>1
  <2>2. CASE r # n
    <3>1. r \in L /\ r # o
      BY <2>2
    <3>2. C!Handler(r) # h
      BY <3>1, <1>4 DEF HandlersOf
    <3> QED BY <2>2, <3>1, <3>2, <1>3, <1>9
  <2> QED BY <2>1, <2>2
<1> HIDE DEF was
<1>10. ASSUME NEW i \in 1..Len(regs2), NEW j \in 1..Len(regs2), i < j,
              NEW r \in L2, NEW s \in L2, C!Handler(r) = regs2[i], C!Handler(s) = regs2[j]
       PROVE  r.since < s.since
  <2> HIDE DEF L2
  <2>1. i \in 1..Len(regs) /\ j \in 1..Len(regs)
    BY <1>2
  <2>2. was(r) \in L /\ C!Handler(was(r)) = regs[i] /\ was(r).since = r.since
    BY <1>9, <1>10, <2>1
  <2>3. was(s) \in L /\ C!Handler(was(s)) = regs[j] /\ was(s).since = s.since
    BY <1>9, <1>10, <2>1
  <2>4. was(r).since < was(s).since
    BY <1>10, <2>1, <2>2, <2>3, Zenon DEF Listed
  <2> QED BY <2>2, <2>3, <2>4
<1> HIDE DEF L2
<1>11. Listed(regs2, L2)
  <2>1. \A i, j \in 1..Len(regs2) : i < j =>
           \A r, s \in L2 : C!Handler(r) = regs2[i] /\ C!Handler(s) = regs2[j] => r.since < s.since
    BY <1>10
  <2> QED BY <1>2, <1>8, <2>1 DEF Listed
<1> QED BY <1>11 DEF L2

LEMMA CaughtKept ==
  ASSUME NEW defs, NEW L, Caught(defs, L), NEW left, NEW L2,
         HandlersOf(L2) = HandlersOf(Range(defs) \cap left)
  PROVE  Caught(Retained(defs, left), L2)
<1> DEFINE rest == Retained(defs, left)
<1>1. /\ rest \in Seq(Catchers) /\ Range(rest) = Range(defs) \cap left
      /\ InOrderOf(rest, defs, Len(defs))
  BY KeptFacts DEF Caught
<1> HIDE DEF rest
<1>2. ASSUME NEW i \in 1..Len(rest), NEW j \in 1..Len(rest), i < j
      PROVE  Precedes(rest[i], rest[j])
  <2>1. PICK k \in 1..Len(defs), l \in 1..Len(defs) :
           k < l /\ defs[k] = rest[i] /\ defs[l] = rest[j]
    BY <1>1, <1>2, Zenon DEF InOrderOf
  <2> QED BY <2>1, Zenon DEF Caught
<1> QED BY <1>1, <1>2, Zenon DEF Caught, rest

(* A new one comes behind those of its priority.                           *)
LEMMA CaughtInserted ==
  ASSUME NEW defs, NEW L, Caught(defs, L), Priorities \subseteq Int, NEW d \in Catchers, NEW n,
         C!Handler(n) = C!Handler(d), \A e \in Range(defs) : e.fn < d.fn,
         NEW above, above = {e \in Range(defs) : e.priority >= d.priority}
  PROVE  Caught(Retained(defs, above) \o <<d>> \o Retained(defs, Range(defs) \ above), L \cup {n})
<1> DEFINE first == Retained(defs, above)
           rest == Retained(defs, Range(defs) \ above)
           upto == Append(first, d)
           more == upto \o rest
<1>1. /\ first \in Seq(Catchers) /\ Range(first) = Range(defs) \cap above
      /\ InOrderOf(first, defs, Len(defs))
  BY KeptFacts DEF Caught
<1>2. /\ rest \in Seq(Catchers) /\ Range(rest) = Range(defs) \cap (Range(defs) \ above)
      /\ InOrderOf(rest, defs, Len(defs))
  BY KeptFacts DEF Caught
<1> HIDE DEF first, rest
<1>3. Len(first) \in Nat /\ Len(rest) \in Nat
  BY <1>1, <1>2, LenProperties
<1>4. /\ upto \in Seq(Catchers) /\ Len(upto) = Len(first) + 1
      /\ \A i \in 1..Len(first) : upto[i] = first[i]
      /\ upto[Len(first) + 1] = d
  BY <1>1, AppendProperties
<1>5. upto = first \o <<d>>
  BY <1>1, AppendIsConcat
<1> HIDE DEF upto
<1>6. /\ more \in Seq(Catchers) /\ Len(more) = Len(upto) + Len(rest)
      /\ \A i \in 1..(Len(upto) + Len(rest)) :
            more[i] = IF i <= Len(upto) THEN upto[i] ELSE rest[i - Len(upto)]
  BY <1>2, <1>4, ConcatProperties
<1> HIDE DEF more
<1>7. /\ \A e \in Range(defs) : e \in Catchers /\ e.priority \in Int /\ e.fn \in Nat
      /\ d.priority \in Int /\ d.fn \in Nat
  <2>1. \A e \in Catchers : e.priority \in Int /\ e.fn \in Nat
    BY DEF Catchers
  <2>2. \A e \in Range(defs) : e \in Catchers
    BY ElementOfSeq DEF Caught, Range
  <2> QED BY <2>1, <2>2
(* The three places a catch-all of the new list can be in.                 *)
<1>8. ASSUME NEW i \in 1..Len(more)
      PROVE  \/ i \in 1..Len(first) /\ more[i] = first[i]
             \/ i = Len(first) + 1 /\ more[i] = d
             \/ i - Len(upto) \in 1..Len(rest) /\ i > Len(first) + 1 /\ more[i] = rest[i - Len(upto)]
  BY <1>3, <1>4, <1>6
<1>9. \A i \in 1..Len(first) : first[i] \in above /\ first[i] \in Range(defs)
  <2>1. \A i \in 1..Len(first) : first[i] \in Range(first)
    BY <1>1 DEF Range
  <2> QED BY <2>1, <1>1, Zenon
<1>10. \A i \in 1..Len(rest) : rest[i] \notin above /\ rest[i] \in Range(defs)
  BY <1>2 DEF Range
<1>11. \A i, j \in 1..Len(first) : i < j => Precedes(first[i], first[j])
  <2> SUFFICES ASSUME NEW i \in 1..Len(first), NEW j \in 1..Len(first), i < j
               PROVE  Precedes(first[i], first[j])
    OBVIOUS
  <2>1. PICK k \in 1..Len(defs), l \in 1..Len(defs) :
           k < l /\ defs[k] = first[i] /\ defs[l] = first[j]
    BY <1>1, Zenon DEF InOrderOf
  <2> QED BY <2>1, Zenon DEF Caught
<1>12. \A i, j \in 1..Len(rest) : i < j => Precedes(rest[i], rest[j])
  <2> SUFFICES ASSUME NEW i \in 1..Len(rest), NEW j \in 1..Len(rest), i < j
               PROVE  Precedes(rest[i], rest[j])
    OBVIOUS
  <2>1. PICK k \in 1..Len(defs), l \in 1..Len(defs) :
           k < l /\ defs[k] = rest[i] /\ defs[l] = rest[j]
    BY <1>2, Zenon DEF InOrderOf
  <2> QED BY <2>1, Zenon DEF Caught
<1>13. \A e \in above : Precedes(e, d)
  BY <1>7 DEF Precedes
<1>14. \A e \in Range(defs) \ above : Precedes(d, e) /\ \A g0 \in above : Precedes(g0, e)
  BY <1>7 DEF Precedes
<1>15. ASSUME NEW i \in 1..Len(more), NEW j \in 1..Len(more), i < j
       PROVE  Precedes(more[i], more[j])
  <2>1. CASE i \in 1..Len(first) /\ more[i] = first[i]
    <3>1. CASE j \in 1..Len(first) /\ more[j] = first[j]
      BY <2>1, <3>1, <1>11, <1>15
    <3>2. CASE j = Len(first) + 1 /\ more[j] = d
      BY <2>1, <3>2, <1>9, <1>13
    <3>3. CASE j - Len(upto) \in 1..Len(rest) /\ more[j] = rest[j - Len(upto)]
      BY <2>1, <3>3, <1>9, <1>10, <1>14
    <3> QED BY <3>1, <3>2, <3>3, <1>8
  <2>2. CASE i = Len(first) + 1 /\ more[i] = d
    <3>1. j - Len(upto) \in 1..Len(rest) /\ more[j] = rest[j - Len(upto)]
      BY <2>2, <1>3, <1>8, <1>15
    <3> QED BY <2>2, <3>1, <1>10, <1>14
  <2>3. CASE i - Len(upto) \in 1..Len(rest) /\ i > Len(first) + 1 /\ more[i] = rest[i - Len(upto)]
    <3>1. j - Len(upto) \in 1..Len(rest) /\ more[j] = rest[j - Len(upto)]
      BY <2>3, <1>3, <1>8, <1>15
    <3>2. i - Len(upto) < j - Len(upto)
      BY <1>3, <1>4, <1>15
    <3> QED BY <2>3, <3>1, <3>2, <1>12
  <2> QED BY <2>1, <2>2, <2>3, <1>8
<1>16. Range(more) = Range(defs) \cup {d}
  <2>1. DOMAIN more = 1..Len(more) /\ Len(more) \in Nat
    BY <1>6, LenProperties
  <2>2. Range(more) \subseteq Range(defs) \cup {d}
    BY <2>1, <1>8, <1>9, <1>10 DEF Range
  <2>3. d \in Range(more)
    <3>1. Len(first) + 1 \in 1..Len(more) /\ more[Len(first) + 1] = d
      BY <1>3, <1>4, <1>6
    <3> QED BY <3>1, <2>1 DEF Range
  <2>4. ASSUME NEW e \in Range(defs), e \in above PROVE e \in Range(more)
    <3>1. PICK i \in 1..Len(first) : first[i] = e
      BY <2>4, <1>1 DEF Range
    <3>2. i \in 1..Len(more) /\ more[i] = e
      BY <3>1, <1>3, <1>4, <1>6
    <3> QED BY <3>2, <2>1 DEF Range
  <2>5. ASSUME NEW e \in Range(defs), e \notin above PROVE e \in Range(more)
    <3>1. PICK i \in 1..Len(rest) : rest[i] = e
      BY <2>5, <1>2 DEF Range
    <3>2. i + Len(upto) \in 1..Len(more) /\ more[i + Len(upto)] = e
      BY <3>1, <1>3, <1>4, <1>6
    <3> QED BY <3>2, <2>1 DEF Range
  <2> QED BY <2>2, <2>3, <2>4, <2>5
<1>17. HandlersOf(Range(more)) = HandlersOf(L \cup {n})
  <2>1. HandlersOf(Range(more)) = HandlersOf(Range(defs)) \cup {C!Handler(d)}
    BY <1>16 DEF HandlersOf
  <2>2. HandlersOf(L \cup {n}) = HandlersOf(L) \cup {C!Handler(n)}
    BY DEF HandlersOf
  <2> QED BY <2>1, <2>2 DEF Caught
<1>18. Caught(more, L \cup {n})
  BY <1>6, <1>15, <1>17, Zenon DEF Caught
<1> QED BY <1>5, <1>18 DEF more, first, rest

(* Nobody is registered twice, and numbers are not used again.             *)
LivingInv ==
    /\ steps \in Nat
    /\ living \subseteq Livings
    /\ \A r \in living : r.fn < steps /\ r.since < steps
    /\ \A r, s \in living : r.fn = s.fn => r = s
    /\ \A r, s \in living : r.word = s.word /\ r.module = s.module /\ r.word # <<>> => r = s

TableInv ==
    /\ DOMAIN commands \subseteq Words
    /\ \A w \in DOMAIN commands : commands[w] # <<>>
    /\ \A w \in Words : Listed(C!Registrations(w), C!Of(w))
    /\ Caught(defaults, C!Of(<<>>))

CommandsInv == LivingInv /\ TableInv

LEMMA LivingFewer ==
  ASSUME LivingInv, living' \subseteq living, steps' = steps + 1
  PROVE  LivingInv'
<1>1. /\ steps' \in Nat /\ living' \subseteq Livings
      /\ \A r \in living' : r \in living /\ r.fn \in Nat /\ r.since \in Nat
  BY DEF LivingInv, Livings
<1>2. \A r \in living' : r.fn < steps' /\ r.since < steps'
  BY <1>1 DEF LivingInv
<1>3. \A r, s \in living' : r.fn = s.fn => r = s
  BY <1>1 DEF LivingInv
<1>4. \A r, s \in living' : r.word = s.word /\ r.module = s.module /\ r.word # <<>> => r = s
  BY <1>1 DEF LivingInv
<1> QED BY <1>1, <1>2, <1>3, <1>4 DEF LivingInv

LEMMA LivingMore ==
  ASSUME LivingInv, NEW fewer, fewer \subseteq living, NEW n \in Livings, living' = fewer \cup {n},
         steps' = steps + 1, n.fn = steps, n.since <= steps,
         n.word # <<>> => \A r \in fewer : r.word # n.word \/ r.module # n.module
  PROVE  LivingInv'
<1>1. /\ steps' \in Nat /\ living' \subseteq Livings
      /\ \A r \in fewer : r \in living /\ r.fn \in Nat /\ r.since \in Nat /\ r.fn # n.fn
      /\ n.fn \in Nat /\ n.since \in Nat
  BY DEF LivingInv, Livings
<1>2. \A r \in living' : r.fn < steps' /\ r.since < steps'
  BY <1>1 DEF LivingInv
<1>3. \A r, s \in living' : r.fn = s.fn => r = s
  BY <1>1 DEF LivingInv
<1>4. \A r, s \in living' : r.word = s.word /\ r.module = s.module /\ r.word # <<>> => r = s
  BY <1>1 DEF LivingInv
<1> QED BY <1>1, <1>2, <1>3, <1>4 DEF LivingInv

(* One list of the table is replaced.                                      *)
LEMMA TableChanged ==
  ASSUME TableInv, NEW word \in Words, NEW regs, commands' = C!With(commands, word, regs),
         Listed(regs, C!Of(word)'), defaults' = defaults,
         \A w \in Words \cup {<<>>} : w # word => C!Of(w)' = C!Of(w), <<>> \notin Words
  PROVE  TableInv'
<1>1. DOMAIN commands' = (DOMAIN commands \cup {word}) \ (IF regs = <<>> THEN {word} ELSE {})
  BY DEF C!With
<1>2. \A w \in DOMAIN commands' : commands'[w] = IF w = word THEN regs ELSE commands[w]
  BY DEF C!With
<1>3. DOMAIN commands' \subseteq Words /\ \A w \in DOMAIN commands' : commands'[w] # <<>>
  BY <1>1, <1>2 DEF TableInv
<1>4. C!Registrations(word)' = regs
  BY <1>1, <1>2 DEF C!Registrations
<1>5. ASSUME NEW w \in Words, w # word
      PROVE  C!Registrations(w)' = C!Registrations(w)
  BY <1>1, <1>2, <1>5 DEF C!Registrations
<1>6. ASSUME NEW w \in Words PROVE Listed(C!Registrations(w)', C!Of(w)')
  <2>1. CASE w = word
    BY <2>1, <1>4
  <2>2. CASE w # word
    BY <2>2, <1>5 DEF TableInv
  <2> QED BY <2>1, <2>2
<1>7. Caught(defaults', C!Of(<<>>)')
  BY DEF TableInv
<1> QED BY <1>3, <1>6, <1>7 DEF TableInv, Listed, Caught, HandlersOf, Precedes, C!Handler

LEMMA RegisterStep ==
  ASSUME CommandsInv, C!RegistryConstants, NEW m \in Modules, NEW w \in Words, C!Register(m, w)
  PROVE  CommandsInv'
<1> DEFINE regs == C!Registrations(w)
           mine == {i \in DOMAIN regs : regs[i].module = m}
           h == [module |-> m, fn |-> steps]
           others0 == {r \in living : r.word # w \/ r.module # m}
<1>1. /\ <<>> \notin Words /\ steps \in Nat /\ steps' = steps + 1 /\ defaults' = defaults
      /\ Listed(regs, C!Of(w))
  BY DEF CommandsInv, LivingInv, TableInv, C!RegistryConstants, C!Register, C!Step
<1>2. /\ DOMAIN regs = 1..Len(regs) /\ \A i \in 1..Len(regs) : regs[i] \in HandlersOf(C!Of(w))
      /\ \A r \in C!Of(w) : \E i \in 1..Len(regs) : regs[i] = C!Handler(r)
  <2>1. /\ DOMAIN regs = 1..Len(regs) /\ Range(regs) = HandlersOf(C!Of(w))
    BY <1>1, LenProperties DEF Listed
  <2> QED BY <2>1 DEF Range, HandlersOf
<1>3. \A r \in living : r.fn # steps /\ r.since < steps /\ r.since \in Nat /\ r \in Livings
  BY DEF CommandsInv, LivingInv, Livings
<1>4. h \in Handlers /\ h \notin HandlersOf(C!Of(w))
  BY <1>1, <1>3 DEF Handlers, HandlersOf, C!Of, C!Handler
<1>5. CASE mine = {}
  <2> DEFINE n == [module |-> m, word |-> w, fn |-> steps, since |-> steps]
  <2>1. commands' = C!With(commands, w, Append(regs, h)) /\ living' = others0 \cup {n}
    BY <1>5 DEF C!Register
  <2>2. others0 = living
    <3>1. \A r \in C!Of(w) : r.module # m
      <4> SUFFICES ASSUME NEW r \in C!Of(w), r.module = m PROVE FALSE
        OBVIOUS
      <4>1. PICK i \in 1..Len(regs) : regs[i] = C!Handler(r)
        BY <1>2
      <4>2. i \in mine
        BY <4>1, <1>2 DEF C!Handler
      <4> QED BY <4>2, <1>5
    <3> QED BY <3>1 DEF C!Of
  <2>3. n \in Livings /\ n.word = w /\ n.module = m /\ n.fn = steps /\ n.since = steps /\ C!Handler(n) = h
    BY <1>1 DEF Livings, C!Handler
  <2> HIDE DEF n, h, mine, regs
  <2>4. C!Of(w)' = C!Of(w) \cup {n}
    BY <2>1, <2>2, <2>3 DEF C!Of
  <2>5. \A v \in Words \cup {<<>>} : v # w => C!Of(v)' = C!Of(v)
    BY <2>1, <2>2, <2>3 DEF C!Of
  <2>6. Listed(Append(regs, h), C!Of(w) \cup {n})
    <3>1. \A r \in C!Of(w) : r.since < n.since
      BY <1>3, <2>3 DEF C!Of
    <3> QED BY <3>1, <1>1, <1>4, <2>3, ListedAppended
  <2>7. LivingInv'
    <3>1. \A r \in others0 : r.word # n.word \/ r.module # n.module
      BY <2>3
    <3>2. others0 \subseteq living /\ n.since <= steps
      BY <2>3, <1>1
    <3> HIDE DEF others0
    <3> QED BY <3>1, <3>2, <2>1, <2>3, <1>1, LivingMore DEF CommandsInv
  <2>8. TableInv'
    BY <2>1, <2>4, <2>5, <2>6, <1>1, TableChanged DEF CommandsInv
  <2> QED BY <2>7, <2>8 DEF CommandsInv
<1>6. CASE mine # {}
  <2>1. PICK o \in C!Of(w) : o.module = m
    <3>1. PICK i \in 1..Len(regs) : regs[i].module = m
      BY <1>2, <1>6
    <3>2. PICK r \in C!Of(w) : regs[i] = C!Handler(r)
      BY <1>2 DEF HandlersOf
    <3> QED BY <3>1, <3>2 DEF C!Handler
  <2> DEFINE first == CHOOSE r \in living : r.word = w /\ r.module = m
             n == [module |-> m, word |-> w, fn |-> steps, since |-> first.since]
  <2>2. o \in living /\ o.word = w
    BY DEF C!Of
  <2>3. \A r \in living : r.word = w /\ r.module = m => r = o
    BY <2>1, <2>2, <1>1 DEF CommandsInv, LivingInv
  <2>4. first = o
    <3>1. first \in living /\ first.word = w /\ first.module = m
      BY <2>1, <2>2
    <3> QED BY <3>1, <2>3
  <2>5. /\ commands' = C!With(commands, w, [i \in DOMAIN regs |-> IF i \in mine THEN h ELSE regs[i]])
        /\ living' = others0 \cup {n}
    BY <1>6 DEF C!Register
  <2> HIDE DEF first
  <2>6. /\ n \in Livings /\ n.word = w /\ n.module = m /\ n.fn = steps /\ n.since = o.since
        /\ C!Handler(n) = h /\ n.since <= steps
    BY <1>1, <1>3, <2>2, <2>4 DEF Livings, C!Handler
  <2>7. \A i \in 1..Len(regs) : i \in mine <=> regs[i] = C!Handler(o)
    <3> SUFFICES ASSUME NEW i \in 1..Len(regs) PROVE regs[i].module = m <=> regs[i] = C!Handler(o)
      BY <1>2
    <3>1. PICK r \in C!Of(w) : regs[i] = C!Handler(r)
      BY <1>2 DEF HandlersOf
    <3>2. r \in living /\ r.word = w /\ regs[i].module = r.module
      BY <3>1 DEF C!Of, C!Handler
    <3> HIDE DEF regs
    <3>3. C!Handler(o).module = m
      BY <2>1 DEF C!Handler
    <3> QED BY <3>1, <3>2, <3>3, <2>3
  <2> HIDE DEF n, h, mine, regs
  <2>9. C!Of(w)' = (C!Of(w) \ {o}) \cup {n}
    <3>1. others0 = living \ {o}
      BY <2>1, <2>2, <2>3
    <3> QED BY <3>1, <2>5, <2>6 DEF C!Of
  <2>10. \A v \in Words \cup {<<>>} : v # w => C!Of(v)' = C!Of(v)
    BY <2>5, <2>6 DEF C!Of
  <2>11. \A r \in C!Of(w) : C!Handler(r) = C!Handler(o) => r = o
    <3>1. \A r \in living : r.fn = o.fn => r = o
      BY <2>2 DEF CommandsInv, LivingInv
    <3>2. \A r \in C!Of(w) : r \in living
      BY DEF C!Of
    <3>3. \A r : C!Handler(r).fn = r.fn
      BY DEF C!Handler
    <3> QED BY <3>1, <3>2, <3>3
  <2> DEFINE regs2 == [i \in DOMAIN regs |-> IF i \in mine THEN h ELSE regs[i]]
  <2>12. Listed(regs2, (C!Of(w) \ {o}) \cup {n})
    <3>1. C!Handler(n) \in Handlers /\ C!Handler(n) \notin HandlersOf(C!Of(w))
      BY <2>6, <1>4
    <3>2. regs2 = [i \in DOMAIN regs |-> IF regs[i] = C!Handler(o) THEN C!Handler(n) ELSE regs[i]]
      BY <2>6, <2>7, <1>2
    <3> HIDE DEF regs2
    <3> QED BY <3>1, <3>2, <1>1, <2>6, <2>11, ListedReplaced
  <2>13. LivingInv'
    <3>1. others0 \subseteq living /\ \A r \in others0 : r.word # n.word \/ r.module # n.module
      BY <2>6
    <3> HIDE DEF others0
    <3> QED BY <3>1, <2>5, <2>6, <1>1, LivingMore DEF CommandsInv
  <2>14. TableInv'
    BY <2>5, <2>9, <2>10, <2>12, <1>1, TableChanged DEF CommandsInv
  <2> QED BY <2>13, <2>14 DEF CommandsInv
<1> QED BY <1>5, <1>6

LEMMA RegisterDefaultStep ==
  ASSUME CommandsInv, C!RegistryConstants, NEW m \in Modules, NEW p \in Priorities, NEW c \in BOOLEAN,
         C!RegisterDefault(m, p, c)
  PROVE  CommandsInv'
<1> DEFINE d == [module |-> m, priority |-> p, cont |-> c, fn |-> steps]
           n == [module |-> m, word |-> <<>>, fn |-> steps, since |-> steps]
<1>1. /\ <<>> \notin Words /\ Priorities \subseteq Int /\ steps \in Nat /\ steps' = steps + 1
      /\ commands' = commands /\ living' = living \cup {n}
      /\ defaults' = C!Retained(defaults, C!Above(p)) \o <<d>> \o C!Retained(defaults, C!Catchalls \ C!Above(p))
  BY DEF CommandsInv, LivingInv, C!RegistryConstants, C!RegisterDefault, C!Step
<1>2. /\ n \in Livings /\ n.word = <<>> /\ n.fn = steps /\ n.since = steps
      /\ d \in Catchers /\ d.fn = steps /\ d.priority = p /\ C!Handler(n) = C!Handler(d)
  BY <1>1 DEF Livings, Catchers, C!Handler
<1> HIDE DEF n, d
<1>3. LivingInv'
  <2>1. n.since <= steps /\ living \subseteq living
    BY <1>1, <1>2
  <2> QED BY <2>1, <1>1, <1>2, LivingMore DEF CommandsInv
<1>4. C!Of(<<>>)' = C!Of(<<>>) \cup {n} /\ \A w \in Words : C!Of(w)' = C!Of(w)
  BY <1>1, <1>2 DEF C!Of
<1>5. \A e \in Range(defaults) : e.fn < d.fn
  <2> SUFFICES ASSUME NEW e \in Range(defaults) PROVE e.fn < steps
    BY <1>2
  <2>1. C!Handler(e) \in HandlersOf(C!Of(<<>>))
    BY DEF CommandsInv, TableInv, Caught, HandlersOf
  <2>2. PICK r \in C!Of(<<>>) : C!Handler(e) = C!Handler(r)
    BY <2>1 DEF HandlersOf
  <2>3. r \in living /\ e.fn = r.fn
    BY <2>2 DEF C!Of, C!Handler
  <2> QED BY <2>3 DEF CommandsInv, LivingInv
<1>6. C!Above(p) = {e \in Range(defaults) : e.priority >= d.priority} /\ C!Catchalls = Range(defaults)
  BY <1>2 DEF C!Above, C!Catchalls, Range, C!Range
<1>7. Caught(defaults', C!Of(<<>>)')
  <2>1. Caught(defaults, C!Of(<<>>))
    BY DEF CommandsInv, TableInv
  <2>2. Caught(Retained(defaults, C!Above(p)) \o <<d>> \o Retained(defaults, Range(defaults) \ C!Above(p)),
               C!Of(<<>>) \cup {n})
    BY <2>1, <1>1, <1>2, <1>5, <1>6, CaughtInserted
  <2> QED BY <2>2, <1>1, <1>4, <1>6, SameKept
<1>8. TableInv'
  <2>1. \A w \in Words : C!Registrations(w)' = C!Registrations(w)
    BY <1>1 DEF C!Registrations
  <2>2. \A w \in Words : Listed(C!Registrations(w)', C!Of(w)')
    BY <2>1, <1>4 DEF CommandsInv, TableInv
  <2>3. DOMAIN commands' \subseteq Words /\ \A w \in DOMAIN commands' : commands'[w] # <<>>
    BY <1>1 DEF CommandsInv, TableInv
  <2> QED BY <2>2, <2>3, <1>7 DEF TableInv, Listed, Caught, HandlersOf, Precedes, C!Handler
<1> QED BY <1>3, <1>8 DEF CommandsInv

(* Whom a set of handlers leaves, of those of one word.                    *)
LEMMA LeftOf ==
  ASSUME NEW L, NEW gone, NEW left,
         \A h \in HandlersOf(L) : h \in left <=> h.module \notin gone
  PROVE  HandlersOf({r \in L : r.module \notin gone}) = HandlersOf(L) \cap left
<1>1. \A r : C!Handler(r).module = r.module
  BY DEF C!Handler
<1>2. ASSUME NEW h \in HandlersOf(L) \cap left PROVE h \in HandlersOf({r \in L : r.module \notin gone})
  <2>1. PICK r \in L : h = C!Handler(r)
    BY DEF HandlersOf
  <2>2. r.module \notin gone
    BY <2>1, <1>1
  <2> QED BY <2>1, <2>2 DEF HandlersOf
<1>3. ASSUME NEW r \in L, r.module \notin gone PROVE C!Handler(r) \in HandlersOf(L) \cap left
  <2>1. C!Handler(r) \in HandlersOf(L)
    BY DEF HandlersOf
  <2> QED BY <2>1, <1>1, <1>3
<1> QED BY <1>2, <1>3 DEF HandlersOf

LEMMA HandleKnownStep ==
  ASSUME CommandsInv, C!RegistryConstants, NEW w \in Typed, C!HandleKnown(w)
  PROVE  CommandsInv'
<1>1. /\ w \in DOMAIN commands /\ w \in Words /\ <<>> \notin Words
      /\ steps' = steps + 1 /\ defaults' = defaults
  BY DEF CommandsInv, TableInv, C!RegistryConstants, C!HandleKnown, C!Step
<1>2. PICK dead \in SUBSET DOMAIN commands[w] :
        LET gone == {commands[w][i].module : i \in dead}
            left == {r \in C!Range(commands[w]) : r.module \notin gone} IN
        /\ commands' = C!With(commands, w, C!Retained(commands[w], left))
        /\ living' = {r \in living : r.word # w \/ r.module \notin gone}
  BY DEF C!HandleKnown
<1> DEFINE gone == {commands[w][i].module : i \in dead}
           left == {r \in Range(commands[w]) : r.module \notin gone}
           L2 == {r \in C!Of(w) : r.module \notin gone}
<1>3. /\ commands' = C!With(commands, w, Retained(commands[w], left))
      /\ living' = {r \in living : r.word # w \/ r.module \notin gone}
  BY <1>2, SameKept DEF Range, C!Range
<1> HIDE DEF gone
<1>4. C!Of(w)' = L2 /\ \A v \in Words \cup {<<>>} : v # w => C!Of(v)' = C!Of(v)
  BY <1>3 DEF C!Of
<1>5. Listed(commands[w], C!Of(w))
  BY <1>1 DEF CommandsInv, TableInv, C!Registrations
<1>6. HandlersOf(L2) = HandlersOf(C!Of(w)) \cap left
  <2>1. HandlersOf(C!Of(w)) = Range(commands[w])
    BY <1>5 DEF Listed
  <2>2. \A h \in HandlersOf(C!Of(w)) : h \in left <=> h.module \notin gone
    BY <2>1
  <2> HIDE DEF left
  <2> QED BY <2>2, LeftOf
<1>7. L2 \subseteq C!Of(w)
  OBVIOUS
<1> HIDE DEF left, L2
<1>8. Listed(Retained(commands[w], left), L2)
  BY <1>5, <1>6, <1>7, ListedKept
<1>9. TableInv'
  BY <1>1, <1>3, <1>4, <1>8, TableChanged DEF CommandsInv
<1>10. living' \subseteq living
  BY <1>3
<1> QED BY <1>1, <1>9, <1>10, LivingFewer DEF CommandsInv

LEMMA HandleUnknownStep ==
  ASSUME CommandsInv, C!RegistryConstants, NEW w \in Typed, C!HandleUnknown(w)
  PROVE  CommandsInv'
<1>1. <<>> \notin Words /\ steps' = steps + 1 /\ commands' = commands
  BY DEF C!RegistryConstants, C!HandleUnknown, C!Step
<1>2. \E gone :
        /\ defaults' = C!Retained(defaults, {d \in C!Catchalls : d.fn \notin gone})
        /\ living' = {r \in living : r.word # <<>> \/ r.fn \notin gone}
  BY DEF C!HandleUnknown
<1>3. PICK gone :
        /\ defaults' = C!Retained(defaults, {d \in C!Catchalls : d.fn \notin gone})
        /\ living' = {r \in living : r.word # <<>> \/ r.fn \notin gone}
  BY <1>2
<1> DEFINE left == {d \in Range(defaults) : d.fn \notin gone}
           L2 == {r \in C!Of(<<>>) : r.fn \notin gone}
<1>4. defaults' = Retained(defaults, left)
  BY <1>3, SameKept DEF C!Catchalls, Range, C!Range
<1>5. C!Of(<<>>)' = L2 /\ \A v \in Words : C!Of(v)' = C!Of(v)
  BY <1>1, <1>3 DEF C!Of
<1>6. Caught(defaults, C!Of(<<>>))
  BY DEF CommandsInv, TableInv
<1>7. HandlersOf(L2) = HandlersOf(Range(defaults) \cap left)
  <2>1. HandlersOf(C!Of(<<>>)) = HandlersOf(Range(defaults))
    BY <1>6 DEF Caught
  <2>2. \A r : C!Handler(r).fn = r.fn
    BY DEF C!Handler
  <2>3. ASSUME NEW r \in L2 PROVE C!Handler(r) \in HandlersOf(Range(defaults) \cap left)
    <3>1. PICK d \in Range(defaults) : C!Handler(r) = C!Handler(d)
      BY <2>1 DEF HandlersOf
    <3>2. d.fn = r.fn
      BY <2>2, <3>1
    <3> QED BY <3>1, <3>2 DEF HandlersOf
  <2>4. ASSUME NEW d \in Range(defaults) \cap left PROVE C!Handler(d) \in HandlersOf(L2)
    <3>1. PICK r \in C!Of(<<>>) : C!Handler(r) = C!Handler(d)
      BY <2>1 DEF HandlersOf
    <3>2. d.fn = r.fn
      BY <2>2, <3>1
    <3> QED BY <3>1, <3>2 DEF HandlersOf
  <2> HIDE DEF L2, left
  <2> QED BY <2>3, <2>4 DEF HandlersOf
<1> HIDE DEF left, L2
<1>8. Caught(defaults', C!Of(<<>>)')
  BY <1>4, <1>5, <1>6, <1>7, CaughtKept
<1>9. TableInv'
  <2>1. \A v \in Words : C!Registrations(v)' = C!Registrations(v)
    BY <1>1 DEF C!Registrations
  <2>2. \A v \in Words : Listed(C!Registrations(v)', C!Of(v)')
    BY <2>1, <1>5 DEF CommandsInv, TableInv
  <2>3. DOMAIN commands' \subseteq Words /\ \A v \in DOMAIN commands' : commands'[v] # <<>>
    BY <1>1 DEF CommandsInv, TableInv
  <2> QED BY <2>2, <2>3, <1>8 DEF TableInv, Listed, Caught, HandlersOf, Precedes, C!Handler
<1>10. living' \subseteq living
  BY <1>3
<1> QED BY <1>1, <1>9, <1>10, LivingFewer DEF CommandsInv

LEMMA UnregisterStep ==
  ASSUME CommandsInv, C!RegistryConstants, NEW m \in Modules, C!UnregisterModule(m)
  PROVE  CommandsInv'
<1> DEFINE left == {r \in UNION {Range(commands[w]) : w \in DOMAIN commands} : r.module # m}
           stays(w) == {r \in C!Of(w) : r.module \notin {m}}
<1>1. /\ <<>> \notin Words /\ steps' = steps + 1
      /\ living' = {r \in living : r.module # m}
      /\ commands' = [w \in {v \in DOMAIN commands : \E r \in Range(commands[v]) : r \in left} |->
                         Retained(commands[w], left)]
      /\ defaults' = Retained(defaults, {d \in Range(defaults) : d.module # m})
  BY SameKept DEF C!RegistryConstants, C!UnregisterModule, C!Step, C!Keeping, C!Catchalls, Range, C!Range
<1>2. \A w \in Words \cup {<<>>} : C!Of(w)' = stays(w)
  BY <1>1 DEF C!Of
<1>3. ASSUME NEW w \in DOMAIN commands
      PROVE  /\ Listed(Retained(commands[w], left), stays(w))
             /\ Range(Retained(commands[w], left)) = Range(commands[w]) \cap left
             /\ Retained(commands[w], left) \in Seq(Handlers)
             /\ HandlersOf(stays(w)) = Range(commands[w]) \cap left
  <2>1. Listed(commands[w], C!Of(w))
    BY DEF CommandsInv, TableInv, C!Registrations
  <2>2. HandlersOf(stays(w)) = HandlersOf(C!Of(w)) \cap left
    <3>1. \A h \in HandlersOf(C!Of(w)) : h \in left <=> h.module \notin {m}
      <4>1. HandlersOf(C!Of(w)) = Range(commands[w])
        BY <2>1 DEF Listed
      <4> QED BY <4>1
    <3> HIDE DEF left
    <3> QED BY <3>1, LeftOf
  <2>3. stays(w) \subseteq C!Of(w)
    OBVIOUS
  <2> HIDE DEF left, stays
  <2>4. Listed(Retained(commands[w], left), stays(w))
    BY <2>1, <2>2, <2>3, ListedKept
  <2>5. commands[w] \in Seq(Handlers) /\ Range(commands[w]) = HandlersOf(C!Of(w))
    BY <2>1 DEF Listed
  <2>6. Range(Retained(commands[w], left)) = Range(commands[w]) \cap left /\ Retained(commands[w], left) \in Seq(Handlers)
    BY <2>5, KeptFacts
  <2> QED BY <2>2, <2>4, <2>5, <2>6
<1> HIDE DEF left
<1>4. /\ DOMAIN commands' = {v \in DOMAIN commands : \E r \in Range(commands[v]) : r \in left}
      /\ \A w \in DOMAIN commands' : commands'[w] = Retained(commands[w], left)
  BY <1>1
<1>5. DOMAIN commands' \subseteq Words /\ \A w \in DOMAIN commands' : commands'[w] # <<>>
  <2>1. DOMAIN commands' \subseteq Words
    BY <1>4 DEF CommandsInv, TableInv
  <2>2. ASSUME NEW w \in DOMAIN commands', commands'[w] = <<>> PROVE FALSE
    <3>1. w \in DOMAIN commands /\ Range(commands[w]) \cap left # {} /\ Retained(commands[w], left) = <<>>
      BY <2>2, <1>4
    <3>2. Range(<<>>) = {}
      BY DEF Range
    <3> QED BY <3>1, <3>2, <1>3
  <2> QED BY <2>1, <2>2
<1>6. ASSUME NEW w \in Words PROVE Listed(C!Registrations(w)', C!Of(w)')
  <2>1. CASE w \in DOMAIN commands'
    <3>1. C!Registrations(w)' = Retained(commands[w], left) /\ w \in DOMAIN commands
      BY <2>1, <1>4 DEF C!Registrations
    <3> HIDE DEF stays
    <3> QED BY <3>1, <1>2, <1>3
  <2>2. CASE w \notin DOMAIN commands'
    <3>1. C!Registrations(w)' = <<>>
      BY <2>2 DEF C!Registrations
    <3>2. stays(w) = {}
      <4>1. CASE w \in DOMAIN commands
        <5>1. HandlersOf(stays(w)) = {}
          BY <4>1, <2>2, <1>3, <1>4
        <5> HIDE DEF stays
        <5> QED BY <5>1 DEF HandlersOf
      <4>2. CASE w \notin DOMAIN commands
        <5>1. Listed(<<>>, C!Of(w))
          BY <4>2 DEF CommandsInv, TableInv, C!Registrations
        <5>2. HandlersOf(C!Of(w)) = {}
          BY <5>1 DEF Listed, Range
        <5>3. C!Of(w) = {}
          BY <5>2 DEF HandlersOf
        <5> QED BY <5>3
      <4> QED BY <4>1, <4>2
    <3> HIDE DEF stays
    <3> QED BY <3>1, <3>2, <1>2, NoneListed
  <2> QED BY <2>1, <2>2
<1>7. Caught(defaults', C!Of(<<>>)')
  <2> DEFINE those == {d \in Range(defaults) : d.module # m}
  <2>1. Caught(defaults, C!Of(<<>>))
    BY DEF CommandsInv, TableInv
  <2>2. HandlersOf(Range(defaults) \cap those) = HandlersOf({d \in Range(defaults) : d.module \notin {m}})
    <3>1. Range(defaults) \cap those = {d \in Range(defaults) : d.module \notin {m}}
      OBVIOUS
    <3> QED BY <3>1
  <2>3. HandlersOf(stays(<<>>)) = HandlersOf(Range(defaults) \cap those)
    <3> DEFINE modest == {h \in HandlersOf(Range(defaults)) : h.module # m}
    <3>1. HandlersOf(C!Of(<<>>)) = HandlersOf(Range(defaults))
      BY <2>1 DEF Caught
    <3>2. HandlersOf(stays(<<>>)) = HandlersOf(C!Of(<<>>)) \cap modest
      <4>1. \A h \in HandlersOf(C!Of(<<>>)) : h \in modest <=> h.module \notin {m}
        BY <3>1
      <4> HIDE DEF modest
      <4> QED BY <4>1, LeftOf
    <3>3. HandlersOf({d \in Range(defaults) : d.module \notin {m}}) = HandlersOf(Range(defaults)) \cap modest
      <4>1. \A h \in HandlersOf(Range(defaults)) : h \in modest <=> h.module \notin {m}
        OBVIOUS
      <4> HIDE DEF modest
      <4> QED BY <4>1, LeftOf
    <3> QED BY <3>1, <3>2, <3>3, <2>2
  <2>4. defaults' = Retained(defaults, those)
    BY <1>1
  <2> HIDE DEF those, stays
  <2>5. Caught(defaults', stays(<<>>))
    BY <2>1, <2>3, <2>4, CaughtKept
  <2> QED BY <2>5, <1>2
<1>8. TableInv'
  BY <1>5, <1>6, <1>7 DEF TableInv, Listed, Caught, HandlersOf, Precedes, C!Handler
<1>9. living' \subseteq living
  BY <1>1
<1> QED BY <1>1, <1>8, <1>9, LivingFewer DEF CommandsInv

LEMMA CommandsInit == ASSUME C!Init PROVE CommandsInv
<1>1. living = {} /\ steps = 0 /\ defaults = <<>> /\ DOMAIN commands = {}
  BY DEF C!Init, C!Nothing
<1>2. \A w : C!Of(w) = {} /\ C!Registrations(w) = <<>>
  BY <1>1 DEF C!Of, C!Registrations
<1>3. Caught(<<>>, {})
  <2>1. <<>> \in Seq(Catchers) /\ Range(<<>>) = {} /\ Len(<<>>) = 0
    BY EmptySeq DEF Range
  <2> QED BY <2>1 DEF Caught, HandlersOf
<1>4. LivingInv
  BY <1>1 DEF LivingInv
<1>5. TableInv
  BY <1>1, <1>2, <1>3, NoneListed DEF TableInv
<1> QED BY <1>4, <1>5 DEF CommandsInv

LEMMA CommandsStep ==
  ASSUME CommandsInv, C!RegistryConstants, [C!Next]_C!vars
  PROVE  CommandsInv'
<1>1. CASE UNCHANGED C!vars
  <2>1. /\ steps' = steps /\ living' = living /\ commands' = commands /\ defaults' = defaults
    BY <1>1 DEF C!vars
  <2> QED BY <2>1 DEF CommandsInv, LivingInv, TableInv, Listed, Caught, HandlersOf, Precedes,
                      C!Handler, C!Of, C!Registrations
<1>2. CASE C!Next
  BY <1>2, RegisterStep, RegisterDefaultStep, UnregisterStep, HandleKnownStep, HandleUnknownStep
     DEF C!Next
<1> QED BY <1>1, <1>2

LEMMA CommandsExact == ASSUME CommandsInv, <<>> \notin Words PROVE C!TableExact
<1>1. DOMAIN commands = {r.word : r \in living} \ {<<>>}
  <2>1. ASSUME NEW w \in DOMAIN commands PROVE \E r \in living : r.word = w
    <3>1. Listed(commands[w], C!Of(w)) /\ commands[w] # <<>>
      BY DEF CommandsInv, TableInv, C!Registrations
    <3>2. commands[w] \in Seq(Handlers) /\ Range(commands[w]) = HandlersOf(C!Of(w))
      BY <3>1 DEF Listed
    <3>3. 1 \in DOMAIN commands[w]
      BY <3>1, <3>2, EmptySeq, LenProperties
    <3>4. HandlersOf(C!Of(w)) # {}
      BY <3>2, <3>3 DEF Range
    <3> QED BY <3>4 DEF HandlersOf, C!Of
  <2>2. ASSUME NEW r \in living, r.word # <<>> PROVE r.word \in DOMAIN commands
    <3>1. r.word \in Words
      BY <2>2 DEF CommandsInv, LivingInv, Livings
    <3>2. CASE r.word \notin DOMAIN commands
      <4>1. Listed(<<>>, C!Of(r.word))
        BY <3>1, <3>2 DEF CommandsInv, TableInv, C!Registrations
      <4>2. HandlersOf(C!Of(r.word)) = {}
        BY <4>1 DEF Listed, Range
      <4> QED BY <4>2 DEF HandlersOf, C!Of
    <3> QED BY <3>2
  <2>3. DOMAIN commands \subseteq Words
    BY DEF CommandsInv, TableInv
  <2> QED BY <2>1, <2>2, <2>3
<1>2. ASSUME NEW w \in DOMAIN commands
      PROVE  /\ C!Range(commands[w]) = {C!Handler(r) : r \in C!Of(w)}
             /\ \A i, j \in DOMAIN commands[w] : i < j => C!Earlier(w, commands[w][i], commands[w][j])
  <2>1. Listed(commands[w], C!Of(w))
    BY DEF CommandsInv, TableInv, C!Registrations
  <2>2. C!Range(commands[w]) = HandlersOf(C!Of(w))
    BY <2>1 DEF Listed, Range, C!Range
  <2>3. DOMAIN commands[w] = 1..Len(commands[w])
    BY <2>1, LenProperties DEF Listed
  <2>4. \A i, j \in 1..Len(commands[w]) : i < j => C!Earlier(w, commands[w][i], commands[w][j])
    BY <2>1 DEF Listed, C!Earlier
  <2> QED BY <2>2, <2>3, <2>4 DEF HandlersOf
<1>3. /\ {C!Handler(d) : d \in C!Catchalls} = {C!Handler(r) : r \in C!Of(<<>>)}
      /\ \A i, j \in DOMAIN defaults :
            i < j => \/ defaults[i].priority > defaults[j].priority
                     \/ defaults[i].priority = defaults[j].priority /\ defaults[i].fn < defaults[j].fn
  <2>1. Caught(defaults, C!Of(<<>>))
    BY DEF CommandsInv, TableInv
  <2>2. DOMAIN defaults = 1..Len(defaults) /\ C!Catchalls = Range(defaults)
    BY <2>1, LenProperties DEF Caught, Range, C!Range, C!Catchalls
  <2> QED BY <2>1, <2>2 DEF Caught, HandlersOf, Precedes
<1> QED BY <1>1, <1>2, <1>3 DEF C!TableExact

(* However modules come, register again, go and panic in the middle of a   *)
(* dispatch: who is called for a word is who registered it and is still    *)
(* there, in order, and the catch-alls stay sorted (Register,              *)
(* RegisterDefault, removeCommand, UnregisterModule, runDefaults).         *)
THEOREM RegistryTableExact == ASSUME C!RegistryConstants PROVE C!Spec => []C!TableExact
<1>1. C!Init => CommandsInv
  BY CommandsInit
<1>2. CommandsInv /\ [C!Next]_C!vars => CommandsInv'
  BY CommandsStep
<1>3. CommandsInv => C!TableExact
  BY CommandsExact DEF C!RegistryConstants
<1> QED BY <1>1, <1>2, <1>3, PTL DEF C!Spec

(***************************************************************************)
(* The run: the module that Init picked runs, the others stand still       *)
(***************************************************************************)
LEMMA HostsModules ==
  MCSpec => G!Spec /\ A!Spec /\ S!Spec /\ P!Spec /\ M!Spec /\ W!Spec /\ T!Spec /\ C!Spec
<1>1. MCInit => G!Init /\ A!Init /\ S!Init /\ P!Init /\ M!Init /\ W!Init /\ T!Init /\ C!Init
  BY DEF MCInit
<1>2. [MCNext]_<<vars, others, running>> => [G!Next]_G!vars
  BY DEF MCNext, others, pager, G!vars
<1>3. [MCNext]_<<vars, others, running>> => [A!Next]_A!vars
  BY DEF MCNext, others, admin, A!vars, A!net, A!accounts
<1>4. [MCNext]_<<vars, others, running>> => [S!Next]_S!vars
  BY DEF MCNext, others, conf, S!vars
<1>5. [MCNext]_<<vars, others, running>> => [P!Next]_P!vars
  BY DEF MCNext, others, pizza, P!vars
<1>6. [MCNext]_<<vars, others, running>> => [M!Next]_M!vars
  BY DEF MCNext, others, remind, M!vars, M!mem, M!history
<1>7. [MCNext]_<<vars, others, running>> => [W!Next]_W!vars
  BY DEF MCNext, others, guard, W!vars, W!history
<1>8. [MCNext]_<<vars, others, running>> => [T!Next]_T!vars
  BY DEF MCNext, others, ticker, T!vars, T!mem, T!net, T!disk, T!told, T!bounds
<1>9. [MCNext]_<<vars, others, running>> => [C!Next]_C!vars
  BY DEF MCNext, others, registry, C!vars
<1> QED BY <1>1, <1>2, <1>3, <1>4, <1>5, <1>6, <1>7, <1>8, <1>9, PTL
       DEF MCSpec, G!Spec, A!Spec, S!Spec, P!Spec, M!Spec, W!Spec, T!Spec, C!Spec

(* Replies are paged in full in the run (pager.go).                        *)
THEOREM RunPagedInFull == ASSUME G!PagerConstants PROVE MCSpec => []PagedInFull
<1>1. G!PagedInFull => PagedInFull
  BY DEF PagedInFull
<1> QED BY <1>1, HostsModules, PagerPagedInFull, PTL

(* The telnet port's sessions and accounts hold in the run (admin, auth).  *)
THEOREM RunAdminHolds == ASSUME A!AdminConstants PROVE MCSpec => []AdminHolds
<1>1. A!AdminHolds => AdminHolds
  BY DEF AdminHolds
<1> QED BY <1>1, HostsModules, AdminPortHolds, PTL

(* Settings stay set in the run (conf.create, conf.Set).                   *)
THEOREM RunSettingsKept == ASSUME S!ConfConstants PROVE MCSpec => []SettingsKept
<1>1. S!SettingsKept => SettingsKept
  BY DEF SettingsKept
<1> QED BY <1>1, HostsModules, ConfSettingsKept, PTL

(* Alarms ring once in the run (pizza.go).                                 *)
THEOREM RunAlarmsKept == ASSUME P!PizzaConstants PROVE MCSpec => []AlarmsKept
<1>1. P!AlarmsKept => AlarmsKept
  BY DEF AlarmsKept
<1> QED BY <1>1, HostsModules, PizzaAlarmsKept, PTL

(* Reminders and notes are kept in the run (remind.go).                    *)
THEOREM RunRemindersKept == ASSUME M!RemindConstants PROVE MCSpec => []RemindersKept
<1>1. M!RemindersKept => RemindersKept
  BY DEF RemindersKept
<1> QED BY <1>1, HostsModules, RemindRemindersKept, PTL

(* Trust holds in the run (guard.go, enforce.go).                          *)
THEOREM RunTrustHolds == ASSUME W!GuardConstants PROVE MCSpec => []TrustHolds
<1>1. W!TrustHolds => TrustHolds
  BY DEF TrustHolds
<1> QED BY <1>1, HostsModules, GuardTrustHolds, PTL

(* Symbols are refreshed in the run (ticker.go).                           *)
THEOREM RunTickersRun == ASSUME T!TickerConstants PROVE MCSpec => []TickersRun
<1>1. T!TickersRun => TickersRun
  BY DEF TickersRun
<1> QED BY <1>1, HostsModules, TickerTickersRun, PTL

(* The command table is exact in the run (cmd.go).                         *)
THEOREM RunCommandsKnown == ASSUME C!RegistryConstants PROVE MCSpec => []CommandsKnown
<1>1. C!TableExact => CommandsKnown
  BY DEF CommandsKnown
<1> QED BY <1>1, HostsModules, RegistryTableExact, PTL
=============================================================================
