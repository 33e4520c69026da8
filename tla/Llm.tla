--------------------------------- MODULE Llm ---------------------------------
(* modules/llm: questions to language models, whose answers come when they   *)
(* come; the turns of a channel go along with its next question, whichever   *)
(* model it is for.  A url serves one question at a time, whatever channel   *)
(* asks.  A message is who speaks and the question it belongs to.  (A query  *)
(* that is empty or that build refuses is answered at once.)                 *)
EXTENDS Integers, Sequences

CONSTANTS
    Channels,
    Urls,           \* of a backend and a model
    Bounded,        \* those that may answer context_length_exceeded
    maxHistory,     \* 16
    MaxQuestions, MaxRestarts   \* bounds of the model

LlmConstants == /\ Bounded \subseteq Urls /\ MaxQuestions \in Nat
                /\ maxHistory \in Nat \ {0} /\ maxHistory % 2 = 0

VARIABLES
    history,        \* channel -> its messages
    asked,          \* url -> the question under way: [channel, question]
    landed,         \* answers in the work queue: [channel, question, res]
    questions, restarts,
    \* history, for the properties only
    turns,          \* channel -> the questions answered, in order
    settled,        \* question -> how often it was settled: by an answer, by
                    \* an error, at once
    lost            \* those a restart took

vars == <<history, asked, landed, questions, restarts, turns, settled, lost>>

Without(f, x) == [y \in DOMAIN f \ {x} |-> f[y]]
With(f, x, v) == [y \in DOMAIN f \cup {x} |-> IF y = x THEN v ELSE f[y]]
Settle(q) == settled' = [settled EXCEPT ![q] = @ + 1]

ask(channel, url) ==
    /\ questions < MaxQuestions /\ questions' = questions + 1
    /\ IF url \in DOMAIN asked
       THEN Settle(questions') /\ UNCHANGED asked
       ELSE /\ asked' = With(asked, url, [channel |-> channel, question |-> questions'])
            /\ UNCHANGED settled
    /\ UNCHANGED <<history, landed, restarts, turns, lost>>

\* The fetcher: the url is free before the answer is handled.
Land(url, res) ==
    /\ url \in DOMAIN asked
    /\ res = "too long" => url \in Bounded
    /\ landed' = Append(landed, [channel |-> asked[url].channel,
                                 question |-> asked[url].question, res |-> res])
    /\ asked' = Without(asked, url)
    /\ UNCHANGED <<history, questions, restarts, turns, settled, lost>>

addHistory(hist, msg) ==
    LET h == Append(hist, msg) IN
    IF Len(h) > maxHistory THEN SubSeq(h, Len(h) - maxHistory + 1, Len(h)) ELSE h

\* Mutant: one message goes, not two.
ReducedByOne(hist) == IF hist = <<>> THEN <<>> ELSE Tail(hist)

\* handleError, when the context was too large.
Reduced(hist) == IF Len(hist) > 2 THEN SubSeq(hist, 3, Len(hist)) ELSE <<>>

result ==
    /\ landed # <<>> /\ landed' = Tail(landed)
    /\ LET channel == Head(landed).channel
           q == Head(landed).question
           user == [role |-> "user", question |-> q]
           assistant == [role |-> "assistant", question |-> q] IN
       /\ Settle(q)
       /\ \/ /\ Head(landed).res = "answer"
             /\ history' = [history EXCEPT ![channel] = addHistory(addHistory(@, user), assistant)]
             /\ turns' = [turns EXCEPT ![channel] = Append(@, q)]
          \/ /\ Head(landed).res = "too long"
             /\ history' = [history EXCEPT ![channel] = Reduced(@)]
             /\ UNCHANGED turns
          \/ Head(landed).res = "error" /\ UNCHANGED <<history, turns>>
    /\ UNCHANGED <<asked, questions, restarts, lost>>

\* Conversations are not stored.
Restart ==
    /\ restarts < MaxRestarts /\ restarts' = restarts + 1
    /\ history' = [c \in Channels |-> <<>>]
    /\ lost' = lost \cup {asked[u].question : u \in DOMAIN asked}
                    \cup {landed[i].question : i \in DOMAIN landed}
    /\ asked' = [u \in {} |-> 0] /\ landed' = <<>>
    /\ UNCHANGED <<questions, turns, settled>>

Init ==
    /\ history = [c \in Channels |-> <<>>] /\ turns = [c \in Channels |-> <<>>]
    /\ asked = [u \in {} |-> 0] /\ landed = <<>>
    /\ questions = 0 /\ restarts = 0
    /\ settled = [q \in 1..MaxQuestions |-> 0] /\ lost = {}

Next ==
    \/ \E c \in Channels, u \in Urls : ask(c, u)
    \/ \E u \in Urls, res \in {"answer", "too long", "error"} : Land(u, res)
    \/ result
    \/ Restart

Spec == Init /\ [][Next]_vars

\* A channel's messages are its last turns, each a question and its own answer.
LastTurns(channel) ==
    LET h == history[channel]
        n == Len(h) \div 2
        past == Len(turns[channel]) - n IN
    /\ Len(h) = 2 * n /\ past >= 0
    /\ \A i \in 1..n :
          /\ h[2 * i - 1] = [role |-> "user", question |-> turns[channel][past + i]]
          /\ h[2 * i] = [role |-> "assistant", question |-> turns[channel][past + i]]
Waiting == {asked[u].question : u \in DOMAIN asked} \cup {landed[i].question : i \in DOMAIN landed}

(* Whatever order answers and errors come in, and whose: what goes along     *)
(* with a question is the channel's last turns, each a question and its own  *)
(* answer, in the order of the answers; and a question is settled once,      *)
(* unless it is still waiting or a restart took it.                          *)
TurnsPaired ==
    /\ \A c \in Channels : LastTurns(c) /\ Len(history[c]) <= maxHistory
    /\ \A q \in 1..questions :
          settled[q] = IF q \in Waiting \cup lost THEN 0 ELSE 1
=============================================================================
