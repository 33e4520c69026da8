------------------------------ MODULE Registry ------------------------------
(* internal/irc/cmd: who is called for a !word.  Every module that          *)
(* registered the word, in the order of registration; for a word nobody     *)
(* registered the catch-alls, by priority, and the commands it may have     *)
(* been meant for.  Who panics is dropped.  A word is a sequence of         *)
(* letters, a letter a number, so that the alphabet has its order.          *)
EXTENDS Lists, Integers, FiniteSets, SequencesExt, FiniteSetsExt

CONSTANTS
    Modules,
    Words,          \* what modules register
    Typed,          \* what people type
    Letters,
    Priorities,
    MaxSteps        \* bound: registrations and dispatches

RegistryConstants ==
    /\ IsFiniteSet(Modules) /\ IsFiniteSet(Words) /\ IsFiniteSet(Typed)
    /\ Letters \subseteq Int /\ Words \cup Typed \subseteq Seq(Letters)
    /\ <<>> \notin Words /\ Priorities \subseteq Int /\ MaxSteps \in Nat

VARIABLES
    commands,       \* word -> its registrations, in order
    defaults,       \* the catch-alls, by priority, highest first
    steps,
    living,         \* history: the registrations that were not dropped
    last            \* history: the word dispatched last, and what was suggested

vars == <<commands, defaults, steps, living, last>>

Nothing == [w \in {} |-> <<>>]
None == [word |-> <<>>, words |-> {}, reply |-> <<>>]
Registrations(word) == IF word \in DOMAIN commands THEN commands[word] ELSE <<>>

Step == steps < MaxSteps /\ steps' = steps + 1

(***************************************************************************)
(* The table                                                               *)
(***************************************************************************)
\* Mutant: a word whose last registration went stays in the table.
WithEmpty(table, word, regs) == [w \in DOMAIN table \cup {word} |-> IF w = word THEN regs ELSE table[w]]

With(table, word, regs) ==
    [w \in (DOMAIN table \cup {word}) \ (IF regs = <<>> THEN {word} ELSE {}) |->
        IF w = word THEN regs ELSE table[w]]

\* A module has one registration for a word: the second replaces the first
\* in its place.
Register(module, word) ==
    LET regs == Registrations(word)
        mine == {i \in DOMAIN regs : regs[i].module = module}
        new == [module |-> module, fn |-> steps] IN
    /\ Step
    /\ commands' = With(commands, word,
                        IF mine = {} THEN Append(regs, new)
                        ELSE [i \in DOMAIN regs |-> IF i \in mine THEN new ELSE regs[i]])
    /\ living' = {r \in living : r.word # word \/ r.module # module}
                   \cup {[module |-> module, word |-> word, fn |-> steps,
                          since |-> IF mine = {} THEN steps
                                    ELSE (CHOOSE r \in living : r.word = word /\ r.module = module).since]}
    /\ last' = None /\ UNCHANGED defaults

Catchalls == Range(defaults)
Above(priority) == {d \in Catchalls : d.priority >= priority}

\* The stable sort puts a new one behind those of its priority.
RegisterDefault(module, priority, cont) ==
    LET new == [module |-> module, priority |-> priority, cont |-> cont, fn |-> steps] IN
    /\ Step
    /\ defaults' = Retained(defaults, Above(priority)) \o <<new>> \o Retained(defaults, Catchalls \ Above(priority))
    /\ living' = living \cup {[module |-> module, word |-> <<>>, fn |-> steps, since |-> steps]}
    /\ last' = None /\ UNCHANGED commands

Keeping(S) == [w \in {v \in DOMAIN commands : \E r \in Range(commands[v]) : r \in S} |->
                  Retained(commands[w], S)]

UnregisterModule(module) ==
    /\ Step
    /\ \E r \in living : r.module = module
    /\ commands' = Keeping({r \in UNION {Range(commands[w]) : w \in DOMAIN commands} : r.module # module})
    /\ defaults' = Retained(defaults, {d \in Catchalls : d.module # module})
    /\ living' = {r \in living : r.module # module}
    /\ last' = None

(***************************************************************************)
(* Did you mean                                                            *)
(***************************************************************************)
\* The rows of the distance table: row i, column j is the distance of the
\* first i letters of a from the first j of b.
NextRow(prev, a, b, i) ==
    LET cur[j \in 0..Len(b)] ==
            IF j = 0 THEN i
            ELSE Min({prev[j - 1] + (IF a[i] = b[j] THEN 0 ELSE 1), prev[j] + 1, cur[j - 1] + 1})
    IN cur
levenshtein(a, b) ==
    LET row[i \in 0..Len(a)] ==
            IF i = 0 THEN [j \in 0..Len(b) |-> j] ELSE NextRow(row[i - 1], a, b, i)
    IN row[Len(a)][Len(b)]

\* Mutant: a short word may be as far off as a long one.
maxDistAny(word) == 2

maxDist(word) == IF Len(word) <= 3 THEN 1 ELSE 2

Alphabetical(v, w) ==
    \/ IsStrictPrefix(v, w)
    \/ \E i \in DOMAIN v \cap DOMAIN w :
          v[i] < w[i] /\ \A j \in 1..(i - 1) : v[j] = w[j]

suggest(word) ==
    SetToSortSeq({w \in DOMAIN commands : levenshtein(w, word) <= maxDist(word)},
        LAMBDA v, w : \/ levenshtein(v, word) < levenshtein(w, word)
                      \/ levenshtein(v, word) = levenshtein(w, word) /\ Alphabetical(v, w))

(***************************************************************************)
(* Handle.  What the handlers make of it is their business: each handles   *)
(* the word, passes it on or panics.                                       *)
(***************************************************************************)
Outcomes == {"handled", "passed", "panicked"}

HandleKnown(word) ==
    /\ word \in DOMAIN commands /\ Step
    /\ \E dead \in SUBSET DOMAIN commands[word] :
          LET gone == {commands[word][i].module : i \in dead}
              left == {r \in Range(commands[word]) : r.module \notin gone} IN
          /\ commands' = With(commands, word, Retained(commands[word], left))
          /\ living' = {r \in living : r.word # word \/ r.module \notin gone}
    /\ last' = None /\ UNCHANGED defaults

Group(cont) == {i \in DOMAIN defaults : defaults[i].cont = cont}

\* Those that do not continue, down to the first that handled the word; the
\* others only when none did.
Called(out) ==
    LET first == {i \in Group(FALSE) : \A j \in Group(FALSE) : j < i => out[j] # "handled"} IN
    IF \E i \in first : out[i] = "handled" THEN first ELSE first \cup Group(TRUE)

HandleUnknown(word) ==
    /\ word \notin DOMAIN commands /\ Step
    /\ \E out \in [DOMAIN defaults -> Outcomes] :
          LET called == Called(out)
              gone == {defaults[i].fn : i \in {j \in called : out[j] = "panicked"}} IN
          /\ \A i \in DOMAIN defaults \ called : out[i] = "passed"
          /\ defaults' = Retained(defaults, {d \in Catchalls : d.fn \notin gone})
          /\ living' = {r \in living : r.word # <<>> \/ r.fn \notin gone}
          /\ last' = IF \E i \in called \cap Group(FALSE) : out[i] = "handled" THEN None
                     ELSE [word |-> word, words |-> DOMAIN commands, reply |-> suggest(word)]
    /\ UNCHANGED commands

------------------------------------------------------------------------------
Init ==
    /\ commands = Nothing /\ defaults = <<>>
    /\ steps = 0 /\ living = {} /\ last = None

Next ==
    \/ \E m \in Modules :
          \/ \E w \in Words : Register(m, w)
          \/ \E p \in Priorities, c \in BOOLEAN : RegisterDefault(m, p, c)
          \/ UnregisterModule(m)
    \/ \E w \in Typed : HandleKnown(w) \/ HandleUnknown(w)

Spec == Init /\ [][Next]_vars

------------------------------------------------------------------------------
TypeOK ==
    /\ DOMAIN commands \subseteq Words
    /\ \A i \in DOMAIN defaults : defaults[i].module \in Modules /\ defaults[i].priority \in Priorities
    /\ steps \in 0..MaxSteps /\ last.reply \in Seq(Words)

Handler(r) == [module |-> r.module, fn |-> r.fn]
Of(word) == {r \in living : r.word = word}

\* The first registration of the one came before that of the other.
Earlier(word, h, k) ==
    \A r, s \in Of(word) : Handler(r) = h /\ Handler(s) = k => r.since < s.since

(* The table holds exactly who registered and neither left nor panicked, in *)
(* the order of registration, and no word nobody listens to any more: that  *)
(* one would be swallowed, with neither a catch-all nor a suggestion.       *)
TableExact ==
    /\ DOMAIN commands = {r.word : r \in living} \ {<<>>}
    /\ \A w \in DOMAIN commands :
          /\ Range(commands[w]) = {Handler(r) : r \in Of(w)}
          /\ \A i, j \in DOMAIN commands[w] : i < j => Earlier(w, commands[w][i], commands[w][j])
    /\ {Handler(d) : d \in Catchalls} = {Handler(r) : r \in Of(<<>>)}
    /\ \A i, j \in DOMAIN defaults :
          i < j => \/ defaults[i].priority > defaults[j].priority
                   \/ defaults[i].priority = defaults[j].priority /\ defaults[i].fn < defaults[j].fn

\* The words one letter put in, taken out or exchanged makes of w.
Edits(w) ==
    {InsertAt(w, i, l) : i \in 1..(Len(w) + 1), l \in Letters}
      \cup {RemoveAt(w, i) : i \in DOMAIN w}
      \cup {ReplaceAt(w, i, l) : i \in DOMAIN w, l \in Letters}
Slips(w, n) == IF n = 1 THEN Edits(w) ELSE Edits(w) \cup UNION {Edits(v) : v \in Edits(w)}

(* What is suggested for a word nobody knows is what one slip away from it  *)
(* is registered, of the longer words what two slips away is, the nearest   *)
(* first.                                                                   *)
SuggestionsRight ==
    last # None =>
        /\ Range(last.reply) = last.words \cap Slips(last.word, IF Len(last.word) > 3 THEN 2 ELSE 1)
        /\ \A i, j \in DOMAIN last.reply :
              i < j /\ last.reply[j] \in Edits(last.word) => last.reply[i] \in Edits(last.word)
=============================================================================
