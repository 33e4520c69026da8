------------------------------- MODULE Pager -------------------------------
(***************************************************************************)
(* The reply pager of internal/irc/pager: a reply's lines beyond the       *)
(* budget are stashed per channel, nick and command, paged out by !more,   *)
(* and dropped when they expire.                                           *)
(*                                                                         *)
(* A reply is its number and its length; a line is its position in it.     *)
(* The budget is read afresh at every call, so each call picks one.  All   *)
(* expiries take equally long and the scheduler fires in due order, so the *)
(* oldest armed timer is the next to fire.  Answers that show no line and  *)
(* change no stash are not steps.                                          *)
(***************************************************************************)
EXTENDS Integers, Sequences, FiniteSets

CONSTANTS
    Readers,                \* (channel, nick) pairs
    Commands,
    Budgets,                \* what anti_flood_max_lines may be set to
    MaxLength, MaxReplies   \* bounds of the model

PagerConstants == Budgets \subseteq Nat /\ MaxLength \in Nat

StashKeys == Readers \X Commands

VARIABLES
    stashes,    \* key -> [reply, len, displayed, timer]
    expiries,   \* armed timers, [tag, key]
    replies,    \* replies made so far
    \* history, for the properties only
    sent,       \* reply -> its length and the lines of it that were sent
    ended       \* replies whose rest was given up: replaced or expired

vars == <<stashes, expiries, replies, sent, ended>>

Min2(x, y) == IF x < y THEN x ELSE y
Lines(from, to) == [i \in 1..(to - from + 1) |-> from + i - 1]
Without(f, S) == [y \in DOMAIN f \ S |-> f[y]]

\* Mutant: the replaced stash's timer keeps running, as it did in the Perl.
CancelledNone(key) == {}

Cancelled(key) == {e \in expiries : e.tag = stashes[key].timer}

\* drop: the timers left.
drop(key) == IF key \in DOMAIN stashes THEN expiries \ Cancelled(key) ELSE expiries

\* EventMsg: n lines, as many shown as max allows, the rest instead of an
\* older stash of the key.
EventMsg(key, n, max) ==
    LET r == replies + 1 IN
    /\ replies < MaxReplies /\ replies' = r
    /\ sent' = Append(sent, [len |-> n, lines |-> Lines(1, Min2(n, max))])
    /\ ended' = ended \cup {stashes[k].reply : k \in DOMAIN stashes \cap {key}}
    /\ IF n > max
       THEN /\ stashes' = [k \in DOMAIN stashes \cup {key} |->
                  IF k = key THEN [reply |-> r, len |-> n, displayed |-> max, timer |-> r]
                             ELSE stashes[k]]
            /\ expiries' = drop(key) \cup {[tag |-> r, key |-> key]}
       ELSE /\ stashes' = Without(stashes, {key})
            /\ expiries' = drop(key)

pendingCommands(reader) == {k \in DOMAIN stashes : k[1] = reader}

\* More for the stash of a key, which is named or the only one.
More(key, named, max) ==
    /\ key \in DOMAIN stashes
    /\ named \/ pendingCommands(key[1]) = {key}
    /\ LET st == stashes[key]
           end == st.displayed + max IN
       /\ sent' = [sent EXCEPT ![st.reply].lines = @ \o Lines(st.displayed + 1, Min2(end, st.len))]
       /\ IF end < st.len
          THEN stashes' = [stashes EXCEPT ![key].displayed = end] /\ UNCHANGED expiries
          ELSE stashes' = Without(stashes, {key}) /\ expiries' = drop(key)
    /\ UNCHANGED <<replies, ended>>

\* A timer's callback: whatever the key has now is deleted.
Expire(e) ==
    /\ e \in expiries /\ \A x \in expiries : e.tag <= x.tag
    /\ expiries' = expiries \ {e}
    /\ stashes' = Without(stashes, {e.key})
    /\ ended' = IF e.key \in DOMAIN stashes /\ stashes[e.key].timer = e.tag
                THEN ended \cup {stashes[e.key].reply} ELSE ended
    /\ UNCHANGED <<replies, sent>>

Init ==
    /\ stashes = [k \in {} |-> 0] /\ expiries = {}
    /\ replies = 0 /\ sent = <<>> /\ ended = {}

Next ==
    \/ \E key \in StashKeys, max \in Budgets :
           \/ \E n \in 0..MaxLength : EventMsg(key, n, max)
           \/ \E named \in BOOLEAN : More(key, named, max)
    \/ \E e \in expiries : Expire(e)

Spec == Init /\ [][Next]_vars

(***************************************************************************)
(* Property                                                                *)
(***************************************************************************)
\* However budgets change and replies replace each other, a reader gets a
\* reply's lines in order and none twice, and the unread rest can be paged
\* until it is read, replaced, or its own time is up: an older reply's timer
\* never takes it.
PagedInFull ==
    /\ \A r \in 1..replies : LET got == sent[r].lines IN
          /\ got = Lines(1, Len(got))
          /\ \/ Len(got) = sent[r].len \/ r \in ended
             \/ \E k \in DOMAIN stashes : /\ stashes[k].reply = r
                                         /\ stashes[k].displayed = Len(got)
    /\ expiries = {[tag |-> stashes[k].timer, key |-> k] : k \in DOMAIN stashes}
=============================================================================
