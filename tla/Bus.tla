-------------------------------- MODULE Bus --------------------------------
(***************************************************************************)
(* The event bus, internal/bus/bus.go.                                     *)
(*                                                                         *)
(* Everything runs on the dispatcher goroutine.  Submit calls the hooks of *)
(* an event one after the other, synchronously; a handler may submit       *)
(* another event, register and remove hooks, or panic.  The Go call stack  *)
(* is the variable stack: one frame per Submit that has not returned.  A   *)
(* hook's closure, its payload and the call timing are left out.           *)
(***************************************************************************)
EXTENDS Naturals, Sequences, FiniteSets, Functions

CONSTANTS
    Modules,     \* the module names
    Events,      \* the event names
    Nobody,      \* no handler is running in the frame
    MaxSubmits   \* bound: how many events one behaviour dispatches

ASSUME BusAssumption ==
    /\ Nobody \notin Modules
    /\ MaxSubmits \in Nat

VARIABLES
    declared,    \* the keys of b.events
    hooks,       \* hooks[e]: the modules hooked to e, in registration order
    chain,       \* b.chain: the (module, event) pairs on the call chain
    stack,       \* the Submit calls that have not returned, innermost last
    submits      \* how many events were submitted

vars == <<declared, hooks, chain, stack, submits>>

Frames ==
    [event   : Events,
     todo    : Seq(Modules),               \* what the range loop has left
     hooked  : SUBSET Modules,             \* hooked when Submit was called
     called  : SUBSET Modules,             \* called by this Submit so far
     running : Modules \cup {Nobody}]      \* the handler that runs

Init ==
    /\ declared = {}
    /\ hooks = [e \in Events |-> <<>>]
    /\ chain = {}
    /\ stack = <<>>
    /\ submits = 0

Depth == Len(stack)
Top == stack[Depth]
Idle == stack = <<>>

(* Code outside the bus runs: main code between events, or a handler. *)
CallerRuns == ~Idle => Top.running # Nobody

-----------------------------------------------------------------------------
RegisterEvent(e) ==
    /\ CallerRuns
    /\ declared' = declared \cup {e}
    /\ UNCHANGED <<hooks, chain, stack, submits>>

(* A second registration of the pair replaces the closure in place. *)
WithHook(m, s) == IF m \in Range(s) THEN s ELSE Append(s, m)

(* On an undeclared event RegisterHook returns an error. *)
RegisterHook(m, e) ==
    /\ CallerRuns
    /\ e \in declared
    /\ hooks' = [hooks EXCEPT ![e] = WithHook(m, @)]
    /\ UNCHANGED <<declared, chain, stack, submits>>

(* slices.DeleteFunc; a list holds a module once at most (OncePerSubmit). *)
Without(m, s) ==
    IF m \in Range(s)
    THEN LET k == CHOOSE i \in DOMAIN s : s[i] = m
         IN  [i \in 1..(Len(s) - 1) |-> IF i < k THEN s[i] ELSE s[i + 1]]
    ELSE s

Unhooked(m) == [e \in Events |-> Without(m, hooks[e])]

UnregisterModule(m) ==
    /\ CallerRuns
    /\ hooks' = Unhooked(m)
    /\ UNCHANGED <<declared, chain, stack, submits>>

(* Submit takes a copy of the hook list; the loop then runs over the copy. *)
Submit(e) ==
    /\ CallerRuns
    /\ submits < MaxSubmits
    /\ submits' = submits + 1
    /\ stack' = Append(stack, [event |-> e, todo |-> hooks[e], hooked |-> Range(hooks[e]),
                               called |-> {}, running |-> Nobody])
    /\ UNCHANGED <<declared, hooks, chain>>

-----------------------------------------------------------------------------
InLoop == ~Idle /\ Top.running = Nobody
HasNext == InLoop /\ Top.todo # <<>>

Id == <<Head(Top.todo), Top.event>>

WithTop(f) == [stack EXCEPT ![Depth] = f]

OnChain == Id \in chain

(* Mutant: a refused hook ends the dispatch. *)
RestBroken == <<>>

Rest == Tail(Top.todo)

(* if b.chain[id] { continue } *)
Refuse ==
    /\ HasNext /\ OnChain
    /\ stack' = WithTop([Top EXCEPT !.todo = Rest])
    /\ UNCHANGED <<declared, hooks, chain, submits>>

(* call: the hook goes on the chain and its handler starts. *)
Call ==
    /\ HasNext /\ ~OnChain
    /\ chain' = chain \cup {Id}
    /\ stack' = WithTop([Top EXCEPT !.todo = Tail(Top.todo), !.running = Head(Top.todo),
                                    !.called = Top.called \cup {Head(Top.todo)}])
    /\ UNCHANGED <<declared, hooks, submits>>

HandlerRuns == ~Idle /\ Top.running # Nobody

(* Mutant: the delete is not deferred, and a nested frame keeps its id. *)
ChainAfterKept == IF Depth > 1 THEN chain ELSE chain \ {<<Top.running, Top.event>>}

(* The deferred delete(b.chain, id). *)
ChainAfter == chain \ {<<Top.running, Top.event>>}

(* None or Replied: the loop goes on with the next hook. *)
Return ==
    /\ HandlerRuns
    /\ chain' = ChainAfter
    /\ stack' = WithTop([Top EXCEPT !.running = Nobody])
    /\ UNCHANGED <<declared, hooks, submits>>

(* Stop: the loop breaks and Submit returns. *)
ReturnStop ==
    /\ HandlerRuns
    /\ chain' = ChainAfter
    /\ stack' = SubSeq(stack, 1, Depth - 1)
    /\ UNCHANGED <<declared, hooks, submits>>

(* Recovered: every hook of the module goes, the loop goes on. *)
Panic ==
    /\ HandlerRuns
    /\ chain' = ChainAfter
    /\ hooks' = Unhooked(Top.running)
    /\ stack' = WithTop([Top EXCEPT !.running = Nobody])
    /\ UNCHANGED <<declared, submits>>

(* The loop is through: Submit returns to its caller. *)
Done ==
    /\ InLoop /\ Top.todo = <<>>
    /\ stack' = SubSeq(stack, 1, Depth - 1)
    /\ UNCHANGED <<declared, hooks, chain, submits>>

Next ==
    \/ \E e \in Events : RegisterEvent(e) \/ Submit(e)
    \/ \E m \in Modules, e \in Events : RegisterHook(m, e)
    \/ \E m \in Modules : UnregisterModule(m)
    \/ Refuse \/ Call \/ Return \/ ReturnStop \/ Panic \/ Done

Spec == Init /\ [][Next]_vars

-----------------------------------------------------------------------------
TypeOK ==
    /\ declared \subseteq Events
    /\ hooks \in [Events -> Seq(Modules)]
    /\ chain \subseteq Modules \X Events
    /\ stack \in Seq(Frames)
    /\ submits \in 0..MaxSubmits

(* The call chain is exactly the handlers that are running, and no handler *)
(* runs twice at once: every (module, event) on the chain belongs to one   *)
(* frame, whichever of return, Stop and panic ended the others (call's     *)
(* deferred delete).                                                       *)
ChainExact ==
    /\ \A i \in 1..Depth : stack[i].running # Nobody => <<stack[i].running, stack[i].event>> \in chain
    /\ \A id \in chain : \E i \in 1..Depth : stack[i].running = id[1] /\ stack[i].event = id[2]
    /\ \A i, j \in 1..Depth :
         /\ stack[i].running # Nobody
         /\ stack[i].running = stack[j].running
         /\ stack[i].event = stack[j].event
         => i = j

(* However hooks come and go while it runs, a Submit passes over a module  *)
(* that was hooked when it was called for one reason only: that very       *)
(* handler is running further out and re-entry was refused.                *)
NobodySkipped ==
    \A i \in 1..Depth : \A m \in stack[i].hooked \ (stack[i].called \cup Range(stack[i].todo)) :
        \E j \in 1..(i - 1) : stack[j].running = m /\ stack[j].event = stack[i].event

(* One hook per (module, event) pair, and so no Submit calls a module a    *)
(* second time, re-registration during the dispatch included.              *)
OncePerSubmit ==
    /\ \A e \in Events : IsInjective(hooks[e])
    /\ \A k \in 1..Depth :
         /\ IsInjective(stack[k].todo)
         /\ Range(stack[k].todo) \cap stack[k].called = {}

(* Both: a dispatch calls each handler it started with once, whatever the  *)
(* handlers do to the hooks and to each other meanwhile.                   *)
EachOnce == NobodySkipped /\ OncePerSubmit

(* A dispatch is exact while it runs, inside and out: who is on the call   *)
(* chain, and who was and is yet to be called (Submit, call).              *)
DispatchExact == ChainExact /\ EachOnce

=============================================================================
