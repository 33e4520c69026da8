-------------------------------- MODULE Feed --------------------------------
(***************************************************************************)
(* The feed poller of modules/rss over internal/fetch: subscriptions, the  *)
(* chain of timer, request and answer that polls each url, the history of  *)
(* items with their short ids, broadcasts, and what survives a restart.    *)
(*                                                                         *)
(* All module code runs on the dispatcher, so a command, a timer and a     *)
(* delivered answer are one step each.  The fetch goroutine gives up its   *)
(* single-flight mark before the dispatcher sees the answer: Answer is a   *)
(* step of its own.  A document is the set of its items that pass the      *)
(* feed's grep; a guid's number stands for the item's date.                *)
(***************************************************************************)
EXTENDS Integers, FiniteSets

CONSTANTS
    Urls, Targets, Items,       \* feeds, channels of the one network, url -> its guids
    idWrap,                     \* 32768: short ids stay three characters
    historyKeep,                \* 10
    maxBroadcast, newSubItems,  \* 25 and 5 lines
    maxErrors, maxTries,        \* 100 unreadable documents; 3 quick retries
    MaxRestarts, MaxCommands, MaxFailures  \* bounds of the model

Guids == UNION {Items[u] : u \in Urls}

ASSUME FeedAssumption ==
    /\ IsFiniteSet(Urls) /\ IsFiniteSet(Guids) /\ Guids \subseteq Nat
    /\ idWrap \in Nat /\ idWrap > 1 + Cardinality({p \in Urls \X Guids : p[2] \in Items[p[1]]})
    /\ {historyKeep, maxBroadcast, newSubItems, maxErrors, maxTries} \subseteq Nat
    /\ {MaxRestarts, MaxCommands, MaxFailures} \subseteq Nat

VARIABLES
    feeds,      \* url -> feed record
    maxId,      \* idAlloc.max
    store,      \* [feeds, maxId]: the last value Put
    held,       \* urls whose f.timer is armed
    orphans,    \* url -> armed timers no feed remembers
    inFlight,   \* urls the fetcher is busy with
    answers,    \* url -> answers on their way to the dispatcher
    restarts, commands, failures,
    \* history, for the properties only
    overlapped, \* urls polled by a command while a chain was running
    told,       \* url -> <<target, guid>> pairs sent while the item is kept
    resent,     \* an item went to a channel twice
    behind      \* the last save failed

mem == <<feeds, maxId>>
chain == <<held, orphans, inFlight, answers>>
history == <<overlapped, told, resent, behind>>
bounds == <<restarts, commands, failures>>
vars == <<mem, store, chain, bounds, history>>

\* type feed.  hist: guid -> short id; stale: items the documents of the last
\* historyMinAge did not list; subs: channel -> guids marked received.
NewFeed(t) == [hist |-> [g \in {} |-> 0], stale |-> {},
               subs |-> [x \in {t} |-> {}],
               ErrorCount |-> 0, NoReschedule |-> FALSE, tries |-> 0]

With(f, x, v) == [y \in DOMAIN f \cup {x} |-> IF y = x THEN v ELSE f[y]]
Without(f, S) == [y \in DOMAIN f \ S |-> f[y]]

\* What runs for a url: armed timers, the request, answers under way.
Tokens(u) == (IF u \in held THEN 1 ELSE 0) + orphans[u]
             + (IF u \in inFlight THEN 1 ELSE 0) + answers[u]

(***************************************************************************)
(* Persistence                                                             *)
(***************************************************************************)
\* save: the error of Put is not looked at.  (The model lets a Put fail only
\* while a restart, which alone can tell, is still to come.)
Save(fs, n) ==
    \/ /\ store' = [feeds |-> fs, maxId |-> n] /\ behind' = FALSE
       /\ UNCHANGED failures
    \/ /\ failures < MaxFailures /\ restarts < MaxRestarts /\ failures' = failures + 1
       /\ behind' = TRUE /\ UNCHANGED store

\* Mutant: the received marks live in memory only.
StoredUnread(fs) == [u \in DOMAIN fs |->
    [fs[u] EXCEPT !.tries = 0, !.subs = [t \in DOMAIN @ |-> {}]]]

\* What Load finds: the retry counter is not part of the stored record.
Stored(fs) == [u \in DOMAIN fs |-> [fs[u] EXCEPT !.tries = 0]]

(***************************************************************************)
(* refreshFeed and Fetch                                                   *)
(***************************************************************************)
\* Sched.After assigned to f.timer: an armed predecessor is forgotten.
Rearm(u, h, o) ==
    /\ held' = h \cup {u}
    /\ orphans' = IF u \in h THEN [o EXCEPT ![u] = @ + 1] ELSE o

\* refreshFeed(u) in feeds fs, with h and o the timers left armed.
RefreshFeed(u, fs, h, o) ==
    IF u \in DOMAIN fs => fs[u].NoReschedule
    THEN held' = h /\ orphans' = o /\ UNCHANGED inFlight
    ELSE IF u \in inFlight
         THEN Rearm(u, h, o) /\ UNCHANGED inFlight
         ELSE held' = h /\ orphans' = o /\ inFlight' = inFlight \cup {u}

\* A command polls u while the timers o, the request or an answer live on.
Overlap(u) ==
    overlapped' = IF orphans[u] + answers[u] > 0 \/ u \in inFlight
                  THEN overlapped \cup {u} ELSE overlapped

\* A poll timer fires: the one f.timer names or a forgotten one.
FireHeld(u) ==
    /\ u \in held
    /\ RefreshFeed(u, feeds, held \ {u}, orphans)
    /\ UNCHANGED <<mem, store, answers, bounds, history>>

FireOrphan(u) ==
    /\ orphans[u] > 0
    /\ RefreshFeed(u, feeds, held, [orphans EXCEPT ![u] = @ - 1])
    /\ UNCHANGED <<mem, store, answers, bounds, history>>

\* The fetch goroutine: request done, mark dropped, answer handed over.
Answer(u) ==
    /\ u \in inFlight
    /\ inFlight' = inFlight \ {u}
    /\ answers' = [answers EXCEPT ![u] = @ + 1]
    /\ UNCHANGED <<mem, store, held, orphans, bounds, history>>

(***************************************************************************)
(* fetched                                                                 *)
(***************************************************************************)
Take(u) ==
    /\ answers[u] > 0
    /\ answers' = [answers EXCEPT ![u] = @ - 1]
    /\ UNCHANGED <<inFlight, restarts, commands>>

\* The feed was deleted while fetching.
FetchedGone(u) ==
    /\ Take(u) /\ u \notin DOMAIN feeds
    /\ UNCHANGED <<mem, store, held, orphans, failures, history>>

\* An error or a status of 400 and up: retry in a minute, then in an hour.
FetchedFailed(u) ==
    /\ Take(u) /\ u \in DOMAIN feeds
    /\ feeds' = [feeds EXCEPT ![u].tries = IF @ + 1 > maxTries THEN 0 ELSE @ + 1]
    /\ Rearm(u, held, orphans)
    /\ UNCHANGED <<maxId, store, failures, history>>

\* A document that does not parse; past maxErrors the feed is abandoned.
FetchedUnreadable(u) ==
    /\ Take(u) /\ u \in DOMAIN feeds
    /\ LET n == feeds[u].ErrorCount + 1
           f == [feeds[u] EXCEPT !.tries = 0] IN
       IF n > maxErrors
       THEN /\ feeds' = [feeds EXCEPT ![u] =
                    [f EXCEPT !.ErrorCount = maxErrors + 1, !.NoReschedule = TRUE]]
            /\ UNCHANGED <<held, orphans>>
       ELSE /\ feeds' = [feeds EXCEPT ![u] = [f EXCEPT !.ErrorCount = n]]
            /\ Rearm(u, held, orphans)
    /\ UNCHANGED <<maxId, store, failures, history>>

\* idAlloc.next, k times: the first k free ids on the counter's walk, which
\* after idWrap - 1 goes on at 1.
IdsInUse == UNION {{feeds[u].hist[g] : g \in DOMAIN feeds[u].hist} : u \in DOMAIN feeds}

\* Mutant: the allocator does not look at live items.
FreeIdsAny == {maxId} \cup 1 .. idWrap - 1

Distance(i) == IF i >= maxId THEN i - maxId ELSE i + (idWrap - 1) - maxId
FreeIds == {i \in {maxId} \cup 1 .. idWrap - 1 : i \notin IdsInUse}
NextIds(k) == CHOOSE S \in SUBSET FreeIds :
    Cardinality(S) = k /\ \A a \in S, b \in FreeIds \ S : Distance(a) < Distance(b)
CounterAfter(S) ==
    IF S = {} THEN maxId
    ELSE LET last == CHOOSE a \in S : \A b \in S : Distance(b) <= Distance(a)
         IN IF last + 1 >= idWrap THEN 1 ELSE last + 1

\* mergeItems: what an item of the document does to the history.  The new
\* items take the next ids in whatever order the document lists them.
MergeItems(u, doc, ids) ==
    LET new == doc \ DOMAIN feeds[u].hist IN
    [feeds[u] EXCEPT
        !.hist = [g \in DOMAIN @ \cup new |-> IF g \in new THEN ids[g] ELSE @[g]],
        !.stale = @ \ doc, !.tries = 0, !.ErrorCount = 0]

\* broadcast: the newest unseen items, a new subscriber's first lot capped.
Fresh(f, t) == DOMAIN f.hist \ f.subs[t]
Newest(S, k) == {g \in S : Cardinality({h \in S : h > g}) < k}
Sent(f, t) == Newest(Fresh(f, t),
                     IF f.subs[t] = {} THEN newSubItems ELSE maxBroadcast)
Broadcast(f) ==
    [f EXCEPT !.subs = [t \in DOMAIN @ |-> (@[t] \cup Fresh(f, t)) \cap DOMAIN f.hist]]

\* removeOldItems.
RemoveOldItems(f) ==
    IF Cardinality(DOMAIN f.hist) <= historyKeep THEN f
    ELSE [f EXCEPT !.hist = Without(@, f.stale), !.stale = {},
                   !.subs = [t \in DOMAIN @ |-> @[t] \ f.stale]]

\* A readable document, new items or not: merge, broadcast, prune, next
\* poll, save.
FetchedItems(u) ==
    /\ Take(u) /\ u \in DOMAIN feeds
    /\ \E doc \in SUBSET Items[u] :
       LET new == doc \ DOMAIN feeds[u].hist
           got == NextIds(Cardinality(new)) IN
       \E ids \in {f \in [new -> got] : \A a, b \in new : f[a] = f[b] => a = b} :
       LET merged == MergeItems(u, doc, ids)
           pairs == IF new = {} THEN {}
                    ELSE {p \in (DOMAIN merged.subs) \X Guids : p[2] \in Sent(merged, p[1])}
           f == IF new = {} THEN merged ELSE RemoveOldItems(Broadcast(merged)) IN
       /\ feeds' = [feeds EXCEPT ![u] = f]
       /\ maxId' = CounterAfter(got)
       /\ resent' = (resent \/ pairs \cap told[u] # {})
       /\ told' = [told EXCEPT ![u] = {p \in @ \cup pairs : p[2] \in DOMAIN f.hist}]
       /\ Rearm(u, held, orphans)
       /\ Save(feeds', maxId')
    /\ UNCHANGED overlapped

(***************************************************************************)
(* Commands                                                                *)
(***************************************************************************)
Command == commands < MaxCommands /\ commands' = commands + 1

\* addFeed: a new url is polled at once.
AddFeed(u, t) ==
    /\ Command
    /\ u \in DOMAIN feeds => t \notin DOMAIN feeds[u].subs
    /\ IF u \in DOMAIN feeds
       THEN /\ feeds' = [feeds EXCEPT ![u].subs = With(@, t, {})]
            /\ UNCHANGED <<held, orphans, inFlight, overlapped>>
       ELSE /\ feeds' = With(feeds, u, NewFeed(t))
            /\ RefreshFeed(u, feeds', held, orphans)
            /\ Overlap(u)
    /\ Save(feeds', maxId)
    /\ UNCHANGED <<maxId, answers, restarts, told, resent>>

\* Mutant: the feed goes, its timer stays.
DroppedKept(u) == held

\* dropFeed unschedules the feed's timer.
Dropped(u) == held \ {u}

\* delFeed: the last subscription takes the feed and its timer along.
DelFeed(u, t) ==
    /\ Command
    /\ u \in DOMAIN feeds /\ t \in DOMAIN feeds[u].subs
    /\ IF DOMAIN feeds[u].subs = {t}
       THEN feeds' = Without(feeds, {u}) /\ held' = Dropped(u)
       ELSE feeds' = [feeds EXCEPT ![u].subs = Without(@, {t})] /\ UNCHANGED held
    /\ told' = [told EXCEPT ![u] = {p \in @ : p[1] # t}]
    /\ Save(feeds', maxId)
    /\ UNCHANGED <<maxId, orphans, inFlight, answers, restarts, overlapped, resent>>

\* refreshCmd: drop the timer, poll now.
RefreshCmd(u) ==
    /\ Command
    /\ u \in DOMAIN feeds
    /\ RefreshFeed(u, feeds, held \ {u}, orphans)
    /\ Overlap(u)
    /\ UNCHANGED <<mem, store, answers, restarts, failures, told, resent, behind>>

(***************************************************************************)
(* Time and restarts                                                       *)
(***************************************************************************)
\* A day without a poll makes every item old, also the stored ones.
Aged(fs) == [u \in DOMAIN fs |-> [fs[u] EXCEPT !.stale = DOMAIN fs[u].hist]]
DayPasses ==
    /\ feeds' = Aged(feeds) /\ feeds' # feeds
    /\ store' = [feeds |-> Aged(store.feeds), maxId |-> store.maxId]
    /\ UNCHANGED <<maxId, chain, bounds, history>>

\* The process goes down with Unload's save (clean) or without, and Load
\* starts one timer per stored feed.
Restart(clean) ==
    /\ restarts < MaxRestarts
    /\ restarts' = restarts + 1
    /\ IF clean THEN Save(feeds, maxId) ELSE UNCHANGED <<store, behind, failures>>
    /\ feeds' = Stored(store'.feeds) /\ maxId' = store'.maxId
    /\ held' = DOMAIN feeds'
    /\ orphans' = [u \in Urls |-> 0]
    /\ inFlight' = {}
    /\ answers' = [u \in Urls |-> 0]
    /\ overlapped' = {}
    /\ told' = IF behind' THEN [u \in Urls |-> {}] ELSE told
    /\ UNCHANGED <<commands, resent>>

\* Load from an empty store.
Init ==
    /\ feeds = [u \in {} |-> 0] /\ maxId = 0
    /\ store = [feeds |-> feeds, maxId |-> 0]
    /\ held = {} /\ inFlight = {}
    /\ orphans = [u \in Urls |-> 0] /\ answers = [u \in Urls |-> 0]
    /\ restarts = 0 /\ commands = 0 /\ failures = 0
    /\ overlapped = {} /\ told = [u \in Urls |-> {}]
    /\ resent = FALSE /\ behind = FALSE

Fetched(u) == FetchedGone(u) \/ FetchedFailed(u) \/ FetchedUnreadable(u) \/ FetchedItems(u)
Next ==
    \/ \E u \in Urls :
          \/ FireHeld(u) \/ FireOrphan(u) \/ Answer(u) \/ Fetched(u) \/ RefreshCmd(u)
          \/ \E t \in Targets : AddFeed(u, t) \/ DelFeed(u, t)
    \/ DayPasses
    \/ \E clean \in BOOLEAN : Restart(clean)

Spec == Init /\ [][Next]_vars

(***************************************************************************)
(* Properties                                                              *)
(***************************************************************************)
\* Whatever commands, late answers and restarts come together, a feed that
\* was not given up keeps its poll chain: a timer, a request or an answer is
\* under way for it.  And as long as no command polled it in the middle of a
\* running chain, there is exactly one.
OneChain == \A u \in DOMAIN feeds :
    /\ ~feeds[u].NoReschedule => Tokens(u) >= 1
    /\ u \notin overlapped => Tokens(u) <= 1

\* No two items kept by any feed answer to the same short id, also after the
\* counter wrapped and after a restart from an older store.
IdsDistinct == \A u, v \in DOMAIN feeds :
    \A g \in DOMAIN feeds[u].hist, h \in DOMAIN feeds[v].hist :
        feeds[u].hist[g] = feeds[v].hist[h] => u = v /\ g = h

\* An item a channel was told is not told again while the feed remembers it,
\* across restarts too (unless the save before the restart had failed).
NoRepeat == ~resent

\* The items of all feeds: told apart by their ids, and told once.
ItemsKept == IdsDistinct /\ NoRepeat
=============================================================================
