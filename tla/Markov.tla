------------------------------- MODULE Markov -------------------------------
(***************************************************************************)
(* modules/markov: chains learned from the channel, a reverse copy of them *)
(* and one dictionary per nick; rows marked for the saver; the one-time    *)
(* migration and derivation at Load; talking, and talking when idle.       *)
(*                                                                         *)
(* A trie is a function from its paths to their counts.  The row of a word *)
(* holds the paths that begin with it.  A line is the token sequence that  *)
(* lineTokens makes of it.  Whatever the dice can say is possible: an      *)
(* order may be dropped at any length, and any child may be picked.        *)
(***************************************************************************)
EXTENDS Integers, SequencesExt, FiniteSetsExt

CONSTANTS
    Talkers,
    Lines,          \* token sequences, START first and END last
    Legacy,         \* the lines of the dictionary blob from before the rows
    Start, End, Dot, Help,  \* sentinels; the ends of a sentence, learned and made up
    order,          \* markov_order
    maxBack, maxLoop,       \* 15, 40
    timeout,        \* markov_idle_talk_timeout
    MaxClock, MaxEvents     \* bounds of the model

Tokens == UNION {ToSet(l) : l \in Lines \cup ToSet(Legacy)}

\* Nick dictionaries are called nick_..., the reverse one reverse_...
MarkovConstants ==
    /\ {order, timeout} \subseteq Nat \ {0} /\ {maxBack, maxLoop} \subseteq Nat
    /\ Talkers \cap {"main", "reverse"} = {}
    /\ Lines \subseteq Seq(Tokens) /\ Legacy \in Seq(Seq(Tokens) \ {<<>>})
    /\ \A l \in Lines : Len(l) > 2 /\ l[1] = Start /\ l[Len(l)] = End

Never == -1
NoTrie == <<>>        \* a trie or a blob that is not there
NoWord == "no word"
Rest == [at |-> "rest", dict |-> "main", before |-> 0, words |-> <<>>, looper |-> 0]

VARIABLES
    dicts,      \* "main", "reverse" and the talkers -> trie
    rows,       \* the same, as stored
    dirty,      \* rows marked for the saver: <<dictionary, word>>
    blob,       \* the legacy dictionary as stored, or NoTrie
    backup,     \* its copy
    loaded,
    walk,       \* the sentence being made, or Rest; before is how many words the
                \* backward walk put in front of the seed
    clock, lastAct, idleAt, \* the idle channel: its last line, its timer
    idleTalk,   \* markov_idle_talk
    events

memory == <<dicts, dirty, loaded>>
store == <<rows, blob, backup>>
idle == <<lastAct, idleAt>>
vars == <<memory, store, walk, clock, idle, idleTalk, events>>

Event == events < MaxEvents /\ events' = events + 1

(***************************************************************************)
(* Tries                                                                   *)
(***************************************************************************)
Tally(trie, path) == IF path \in DOMAIN trie THEN trie[path] ELSE 0
Heads(window) == {SubSeq(window, 1, k) : k \in 1..Len(window)}

\* Mutant: the last window of a line is left out.
WindowsShort(tokens) ==
    IF Len(tokens) <= order THEN <<tokens>>
    ELSE [i \in 1..Len(tokens) - order - 1 |-> SubSeq(tokens, i, i + order)]

\* windows: each of order + 1 tokens, or the line when it is shorter.
Windows(tokens) ==
    IF Len(tokens) <= order THEN <<tokens>>
    ELSE [i \in 1..Len(tokens) - order |-> SubSeq(tokens, i, i + order)]

\* addWords for each window.
Learned(trie, tokens) ==
    LET ws == Windows(tokens)
        new == UNION {Heads(ws[i]) : i \in DOMAIN ws} IN
    [p \in DOMAIN trie \cup new |->
        Tally(trie, p) + Cardinality({i \in DOMAIN ws : IsPrefix(p, ws[i])})]

Touched(tokens) == LET ws == Windows(tokens) IN {ws[i][1] : i \in DOMAIN ws}

Children(trie, path) == {p \in DOMAIN trie : Len(p) = Len(path) + 1 /\ IsPrefix(path, p)}

\* The windows that ended here: what the children do not account for.
Excess(trie, path) == trie[path] - MapThenSumSet(LAMBDA p : trie[p], Children(trie, path))

\* deriveReverse: every window that ended somewhere, inserted backwards.
Ends(trie) == {p \in DOMAIN trie : Excess(trie, p) > 0}
Share(trie, path, p) == IF IsPrefix(path, Reverse(p)) THEN Excess(trie, p) ELSE 0
Turned(trie, ends, path) == MapThenSumSet(LAMBDA p : Share(trie, path, p), ends)
Derived(trie) ==
    LET ends == Ends(trie)
    IN  [path \in UNION {Heads(Reverse(p)) : p \in ends} |-> Turned(trie, ends, path)]

Blob == LET learned[i \in 0..Len(Legacy)] ==
                IF i = 0 THEN NoTrie ELSE Learned(learned[i - 1], Legacy[i])
        IN  learned[Len(Legacy)]

Names == {"main", "reverse"} \cup Talkers
NoRows == [n \in Names |-> NoTrie]

(***************************************************************************)
(* Learning                                                                *)
(***************************************************************************)
\* scheduleIdleTalk, after the channel's line.
scheduleIdleTalk == idleAt' = IF idleTalk THEN lastAct' + timeout ELSE Never

\* addLine, addReversed, addLine of the talker's own.
Learn(talker, tokens) ==
    LET said(n) == IF n = "reverse" THEN Reverse(tokens) ELSE tokens
        heard == {"main", "reverse", talker} IN
    /\ dicts' = [n \in Names |-> IF n \in heard THEN Learned(dicts[n], said(n)) ELSE dicts[n]]
    /\ dirty' = dirty \cup UNION {{n} \X Touched(said(n)) : n \in heard}

onPrivmsg(talker, tokens) ==
    /\ loaded /\ walk = Rest /\ Event
    /\ lastAct' = clock /\ scheduleIdleTalk
    /\ Learn(talker, tokens)
    /\ UNCHANGED <<loaded, store, walk, clock, idleTalk>>

\* A registered command counts as a line, and is not learned.
onCommand ==
    /\ loaded /\ walk = Rest /\ Event
    /\ lastAct' = clock /\ scheduleIdleTalk
    /\ UNCHANGED <<memory, store, walk, clock, idleTalk>>

(***************************************************************************)
(* The store                                                               *)
(***************************************************************************)
\* The rows of one namespace are written in one transaction (Saver).
Flushed == [n \in Names |->
    LET row(p) == <<n, p[1]>> \in dirty
        kept == {p \in DOMAIN rows[n] : ~row(p)}
        new == {p \in DOMAIN dicts[n] : row(p)} IN
    [p \in kept \cup new |-> IF p \in new THEN dicts[n][p] ELSE rows[n][p]]]

Flush ==
    /\ dirty # {} /\ dirty' = {}
    /\ rows' = Flushed
    /\ UNCHANGED <<dicts, loaded, blob, backup, walk, clock, idle, idleTalk, events>>

\* migrateLegacyBlob, as far as its three writes get: the rows, the copy, the
\* delete.  Words of the blob win over rows of an earlier attempt.
Migrated == LET words == {p[1] : p \in DOMAIN blob} IN
            [p \in DOMAIN blob \cup {p \in DOMAIN rows["main"] : p[1] \notin words} |->
                IF p[1] \in words THEN blob[p] ELSE rows["main"][p]]
Migrate(writes) ==
    /\ backup' = IF writes >= 2 /\ blob # NoTrie THEN blob ELSE backup
    /\ blob' = IF writes >= 3 THEN NoTrie ELSE blob

Underived == rows["reverse"] = NoTrie /\ Migrated # NoTrie

\* loadDictionaries.
Load ==
    /\ ~loaded /\ loaded' = TRUE
    /\ Migrate(3)
    /\ rows' = [rows EXCEPT !["main"] = Migrated,
                            !["reverse"] = IF Underived THEN Derived(Migrated) ELSE @]
    /\ dicts' = rows'
    /\ UNCHANGED <<dirty, walk, clock, idle, idleTalk, events>>

\* A write fails, or the process ends there: the module is not loaded.
LoadFails ==
    /\ ~loaded /\ Event
    /\ \E writes \in 0..3 :
          /\ writes = 3 => Underived
          /\ Migrate(writes)
          /\ rows' = IF writes >= 1 THEN [rows EXCEPT !["main"] = Migrated] ELSE rows
    /\ UNCHANGED <<memory, walk, clock, idle, idleTalk>>

\* The process ends, after the saver's last flush or without.
Restart(flushed) ==
    /\ loaded /\ Event
    /\ rows' = IF flushed THEN Flushed ELSE rows
    /\ loaded' = FALSE /\ dicts' = NoRows /\ dirty' = {} /\ walk' = Rest
    /\ lastAct' = 0 /\ idleAt' = Never
    /\ UNCHANGED <<blob, backup, clock, idleTalk>>

(***************************************************************************)
(* Talking                                                                 *)
(***************************************************************************)
Contexts(words) == {SubSeq(words, Len(words) - k + 1, Len(words)) :
                       k \in 1..(IF Len(words) < order THEN Len(words) ELSE order)}

\* Any order that has a chain: the dice may drop those above it.
findMaxOrderChain(trie, words) == Contexts(words) \cap DOMAIN trie

weightedPick(trie, chain) == {Last(p) : p \in Children(trie, chain)}

pickNext(trie, words) ==
    {NoWord} \cup UNION {weightedPick(trie, chain) : chain \in findMaxOrderChain(trie, words)}

TopWords(trie) == {p[1] : p \in DOMAIN trie} \ {Start, End}
randomChainWord(trie) == IF TopWords(trie) = {} THEN {NoWord} ELSE TopWords(trie)

randomWord(trie, words) ==
    randomChainWord(trie) \cup
    (IF words # <<>> /\ <<Last(words)>> \in DOMAIN trie THEN pickNext(trie, words) \ {NoWord} ELSE {})

\* randomMessageFrom, its first context.
Forward(dict, words) ==
    [Rest EXCEPT !.at = "forward", !.dict = dict,
                 !.words = IF words = <<>> /\ <<Start>> \in DOMAIN dicts[dict] THEN <<Start>> ELSE words]

\* talkMessage: from the middle out when the one word is known backwards.
talkMessage(seed) ==
    IF Len(seed) = 1 /\ seed \in DOMAIN dicts["reverse"]
    THEN [Rest EXCEPT !.at = "back", !.words = seed] ELSE Forward("main", seed)

Vocabulary == UNION {ToSet(l) : l \in Lines} \ {Start, End}

cbTalk ==
    /\ loaded /\ walk = Rest /\ Event
    /\ \E seed \in {<<>>} \cup {<<w>> : w \in Vocabulary} : walk' = talkMessage(seed)
    /\ UNCHANGED <<memory, store, clock, idle, idleTalk>>

cbTalkLike(talker) ==
    /\ loaded /\ walk = Rest /\ Event
    /\ dicts[talker] # NoTrie
    /\ \E seed \in {<<>>} \cup {<<w>> : w \in Vocabulary} : walk' = Forward(talker, seed)
    /\ UNCHANGED <<memory, store, clock, idle, idleTalk>>

\* middleOut: backwards to the start of a sentence, never past a dead end.
StepBack ==
    /\ walk.at = "back"
    /\ \E w \in pickNext(dicts["reverse"], Reverse(walk.words)) :
          LET more == w \notin {NoWord, End} /\ walk.before < maxBack IN
          walk' = [walk EXCEPT !.words = IF more THEN <<w>> \o @ ELSE @,
                               !.before = IF more THEN @ + 1 ELSE @,
                               !.at = IF more /\ w # Start THEN @ ELSE "forward"]
    /\ UNCHANGED <<memory, store, clock, idle, idleTalk, events>>

\* randomMessageFrom: a sentence end, or a word; help when there is none or
\* there are too many.
StepForward ==
    /\ walk.at = "forward"
    /\ \E w \in randomWord(dicts[walk.dict], walk.words) :
          LET word == IF w \in {NoWord, Start} THEN Help ELSE w
              words == walk.words \o <<word>> \o
                       (IF walk.looper = maxLoop THEN <<Help>> ELSE <<>>) IN
          walk' = IF w = End THEN [walk EXCEPT !.at = "said"]
                  ELSE [walk EXCEPT !.words = words, !.looper = @ + 1,
                            !.at = IF Last(words) \in {Dot, Help} THEN "said" ELSE @]
    /\ UNCHANGED <<memory, store, clock, idle, idleTalk, events>>

Say ==
    /\ walk.at = "said" /\ walk' = Rest
    /\ UNCHANGED <<memory, store, clock, idle, idleTalk, events>>

(***************************************************************************)
(* The idle talker                                                         *)
(***************************************************************************)
IdleTimer ==
    /\ loaded /\ walk = Rest
    /\ idleAt # Never /\ idleAt <= clock
    /\ walk' = talkMessage(<<>>)
    /\ lastAct' = clock /\ scheduleIdleTalk
    /\ UNCHANGED <<memory, store, clock, idleTalk, events>>

ConfIdle ==
    /\ walk = Rest /\ Event
    /\ idleTalk' = ~idleTalk
    /\ UNCHANGED <<memory, store, walk, clock, idle>>

Tick ==
    /\ walk = Rest
    /\ clock < MaxClock /\ clock' = clock + 1
    /\ UNCHANGED <<memory, store, walk, idle, idleTalk, events>>

Init ==
    /\ dicts = NoRows /\ rows = NoRows /\ dirty = {} /\ loaded = FALSE
    /\ blob \in {NoTrie, Blob} /\ backup = NoTrie
    /\ walk = Rest /\ clock = 0 /\ lastAct = 0 /\ idleAt = Never
    /\ idleTalk \in BOOLEAN /\ events = 0

Next ==
    \/ \E talker \in Talkers :
          \/ \E tokens \in Lines : onPrivmsg(talker, tokens)
          \/ cbTalkLike(talker)
    \/ onCommand \/ cbTalk \/ StepBack \/ StepForward \/ Say
    \/ Flush \/ Load \/ LoadFails
    \/ \E flushed \in BOOLEAN : Restart(flushed)
    \/ IdleTimer \/ ConfIdle \/ Tick

Spec == Init /\ [][Next]_vars

(***************************************************************************)
(* Property                                                                *)
(***************************************************************************)
Within(small, large) == \A p \in DOMAIN small : small[p] <= Tally(large, p)
Adjacent(trie) == UNION {{<<p[i], p[i + 1]>> : i \in 1..Len(p) - 1} : p \in DOMAIN trie}

\* Whatever was learned, flushed, lost in a crash, migrated and derived: the
\* reverse dictionary is what learning every line backwards would have stored,
\* in memory and in the store; a talker's dictionary is part of the main one;
\* the legacy dictionary is somewhere.  So the words put in front of a seed
\* follow one another as they were learned, and every sentence ends.
Mirrored ==
    /\ loaded => /\ dicts["reverse"] = Derived(dicts["main"])
                 /\ \A n \in Talkers : Within(dicts[n], dicts["main"])
                 /\ rows["reverse"] = Derived(rows["main"])
                 /\ blob = NoTrie
    /\ blob # NoTrie => rows["main"] \in {NoTrie, blob}
    /\ backup # NoTrie => Within(backup, rows["main"])
    /\ \A i \in 1..walk.before :
          <<walk.words[i], walk.words[i + 1]>> \in Adjacent(dicts["main"])
    /\ Len(walk.words) <= 1 + maxBack + maxLoop + 2
=============================================================================
