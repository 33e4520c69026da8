----------------------------- MODULE ChatProofs -----------------------------
(***************************************************************************)
(* The chat modules of MCModules, each proved on its own and for any       *)
(* constants; last, what that says of the run.                             *)
(***************************************************************************)
EXTENDS MCModules, Lemmas, FiniteSetTheorems, FunctionTheorems, SequenceTheorems,
        WellFoundedInduction, TLAPS

(***************************************************************************)
(* Feeds: OneChain is not inductive.  A deleted feed may leave a request,  *)
(* an answer or forgotten timers behind, and the url may be added again.   *)
(* IInv therefore counts the tokens of every url, subscribed or not, and   *)
(* says that an armed timer a feed remembers belongs to a feed.            *)
(***************************************************************************)
Fields == {"hist", "stale", "subs", "ErrorCount", "NoReschedule", "tries"}
Framed(fs) == DOMAIN fs \subseteq Urls /\ \A url \in DOMAIN fs : DOMAIN fs[url] = Fields

ChainType ==
    /\ Framed(feeds) /\ Framed(store.feeds)
    /\ held \subseteq DOMAIN feeds /\ inFlight \subseteq Urls
    /\ orphans \in [Urls -> Nat] /\ answers \in [Urls -> Nat]

AtMostOne == \A url \in Urls : url \notin overlapped => Tokens(url) <= 1
AtLeastOne == \A url \in DOMAIN feeds : ~feeds[url].NoReschedule => Tokens(url) >= 1
IInv == ChainType /\ AtMostOne /\ AtLeastOne

(* Save leaves in the store what it was given or what was there. *)
LEMMA SaveFrames ==
    ASSUME ChainType, NEW fs, NEW n, Framed(fs), Save(fs, n)
    PROVE  Framed(store'.feeds)
BY DEF Save, ChainType

(* A timer of url fires: of held or of orphans one token less, then one more *)
(* unless the feed is gone or given up.                                    *)
LEMMA FirePreserves ==
    ASSUME IInv, NEW url \in Urls, FireHeld(url) \/ FireOrphan(url)
    PROVE  IInv'
<1> USE DEF IInv
<1>1. UNCHANGED <<feeds, store, answers, overlapped>>
  BY DEF FireHeld, FireOrphan, mem, history
<1>2. CASE url \in DOMAIN feeds => feeds[url].NoReschedule
  <2>1. UNCHANGED inFlight
    BY <1>2 DEF FireHeld, FireOrphan, RefreshFeed
  <2>2. CASE FireHeld(url)
    <3>1. held' = held \ {url} /\ orphans' = orphans
      BY <1>2, <2>2 DEF FireHeld, RefreshFeed
    <3>2. ChainType'
      BY <1>1, <2>1, <3>1 DEF ChainType, Framed
    <3>3. AtMostOne'
      BY <1>1, <2>1, <3>1 DEF AtMostOne, Tokens, ChainType
    <3>4. AtLeastOne'
      BY <1>1, <1>2, <2>1, <3>1 DEF AtLeastOne, Tokens, ChainType
    <3> QED BY <3>2, <3>3, <3>4
  <2>3. CASE FireOrphan(url)
    <3>1. held' = held /\ orphans' = [orphans EXCEPT ![url] = @ - 1] /\ orphans[url] > 0
      BY <1>2, <2>3 DEF FireOrphan, RefreshFeed
    <3>2. ChainType'
      BY <1>1, <2>1, <3>1 DEF ChainType, Framed
    <3>3. AtMostOne'
      BY <1>1, <2>1, <3>1 DEF AtMostOne, Tokens, ChainType
    <3>4. AtLeastOne'
      BY <1>1, <1>2, <2>1, <3>1 DEF AtLeastOne, Tokens, ChainType, Framed
    <3> QED BY <3>2, <3>3, <3>4
  <2> QED BY <2>2, <2>3
<1>3. CASE url \in DOMAIN feeds /\ ~feeds[url].NoReschedule
  <2>1. CASE FireHeld(url)
    <3>1. /\ url \in held /\ orphans' = orphans
          /\ IF url \in inFlight THEN held' = held /\ inFlight' = inFlight
             ELSE held' = held \ {url} /\ inFlight' = inFlight \cup {url}
      BY <1>3, <2>1 DEF FireHeld, RefreshFeed, Rearm, ChainType
    <3>2. ChainType'
      BY <1>1, <3>1 DEF ChainType, Framed
    <3>3. \A w \in Urls : Tokens(w)' = Tokens(w)
      BY <1>1, <3>1 DEF Tokens, ChainType
    <3> QED BY <1>1, <3>2, <3>3 DEF AtMostOne, AtLeastOne, ChainType, Framed
  <2>2. CASE FireOrphan(url)
    <3>1. orphans[url] > 0
      BY <2>2 DEF FireOrphan
    <3>2. CASE url \in inFlight
      <4>1. /\ held' = held \cup {url} /\ inFlight' = inFlight
            /\ orphans' = [orphans EXCEPT ![url] = IF url \in held THEN @ ELSE @ - 1]
        BY <1>3, <2>2, <3>2 DEF FireOrphan, RefreshFeed, Rearm, ChainType
      <4>2. ChainType'
        BY <1>1, <1>3, <3>1, <4>1 DEF ChainType, Framed
      <4>3. \A w \in Urls : Tokens(w)' = Tokens(w)
        BY <1>1, <3>1, <4>1 DEF Tokens, ChainType
      <4> QED BY <1>1, <4>2, <4>3 DEF AtMostOne, AtLeastOne, ChainType, Framed
    <3>3. CASE url \notin inFlight
      <4>1. /\ held' = held /\ inFlight' = inFlight \cup {url}
            /\ orphans' = [orphans EXCEPT ![url] = @ - 1]
        BY <1>3, <2>2, <3>3 DEF FireOrphan, RefreshFeed
      <4>2. ChainType'
        BY <1>1, <3>1, <4>1 DEF ChainType, Framed
      <4>3. \A w \in Urls : Tokens(w)' = Tokens(w)
        BY <1>1, <3>1, <3>3, <4>1 DEF Tokens, ChainType
      <4> QED BY <1>1, <4>2, <4>3 DEF AtMostOne, AtLeastOne, ChainType, Framed
    <3> QED BY <3>2, <3>3
  <2> QED BY <2>1, <2>2
<1> QED BY <1>2, <1>3

(* The request of url ends: its token is now an answer. *)
LEMMA AnswerPreserves ==
    ASSUME IInv, NEW url \in Urls, Answer(url)
    PROVE  IInv'
<1> USE DEF IInv
<1>1. UNCHANGED <<feeds, store, held, orphans, overlapped>>
  BY DEF Answer, mem, history
<1>2. ChainType'
  BY <1>1 DEF Answer, ChainType, Framed
<1>3. \A w \in Urls : Tokens(w)' = Tokens(w)
  BY <1>1 DEF Answer, Tokens, ChainType
<1> QED BY <1>1, <1>2, <1>3 DEF AtMostOne, AtLeastOne, ChainType, Framed

(* An answer of url that arms the next timer: every outcome for a feed that  *)
(* is there and not given up.                                              *)
LEMMA RearmPreserves ==
    ASSUME IInv, NEW url \in DOMAIN feeds, Take(url), Rearm(url, held, orphans),
           NEW f, DOMAIN f = Fields, feeds' = [feeds EXCEPT ![url] = f],
           Framed(store'.feeds), UNCHANGED overlapped
    PROVE  IInv'
<1> USE DEF IInv
<1>1. /\ url \in Urls /\ answers[url] > 0 /\ inFlight' = inFlight
      /\ answers' = [answers EXCEPT ![url] = @ - 1]
  BY DEF Take, ChainType, Framed
<1>2. /\ held' = held \cup {url}
      /\ orphans' = IF url \in held THEN [orphans EXCEPT ![url] = @ + 1] ELSE orphans
  BY DEF Rearm
<1>3. DOMAIN feeds' = DOMAIN feeds /\ \A w \in DOMAIN feeds : w # url => feeds'[w] = feeds[w]
  OBVIOUS
<1>4. Framed(feeds')
  BY <1>3 DEF Framed, ChainType
<1>5. ChainType'
  BY <1>1, <1>2, <1>3, <1>4 DEF ChainType
<1>6. \A w \in Urls : Tokens(w)' = Tokens(w)
  BY <1>1, <1>2 DEF Tokens, ChainType
<1>7. AtMostOne'
  BY <1>6 DEF AtMostOne
<1>8. Tokens(url)' >= 1
  BY <1>1, <1>2, <1>5 DEF Tokens, ChainType
<1>9. AtLeastOne'
  BY <1>3, <1>6, <1>8 DEF AtLeastOne, ChainType, Framed
<1> QED BY <1>5, <1>7, <1>9

(* The three transformations of a readable document keep the record's      *)
(* shape.                                                                  *)
LEMMA ShapeKept ==
    ASSUME NEW url, DOMAIN feeds[url] = Fields, NEW doc, NEW ids
    PROVE  /\ DOMAIN MergeItems(url, doc, ids) = Fields
           /\ DOMAIN RemoveOldItems(Broadcast(MergeItems(url, doc, ids))) = Fields
<1>1. DOMAIN MergeItems(url, doc, ids) = Fields
  BY DEF MergeItems
<1>2. ASSUME NEW f, DOMAIN f = Fields PROVE DOMAIN Broadcast(f) = Fields
  BY <1>2 DEF Broadcast
<1>3. ASSUME NEW f, DOMAIN f = Fields PROVE DOMAIN RemoveOldItems(f) = Fields
  BY <1>3 DEF RemoveOldItems
<1> QED BY <1>1, <1>2, <1>3

(* An answer nobody waits for, or that ends the feed, is a token less. *)
LEMMA LastAnswerPreserves ==
    ASSUME IInv, NEW url \in Urls, Take(url), UNCHANGED <<store, held, orphans, overlapped>>,
           \/ url \notin DOMAIN feeds /\ UNCHANGED feeds
           \/ /\ url \in DOMAIN feeds
              /\ \E f : /\ DOMAIN f = Fields /\ f.NoReschedule
                        /\ feeds' = [feeds EXCEPT ![url] = f]
    PROVE  IInv'
<1> USE DEF IInv
<1>1. /\ answers[url] > 0 /\ inFlight' = inFlight
      /\ answers' = [answers EXCEPT ![url] = @ - 1]
  BY DEF Take
<1>2. /\ DOMAIN feeds' = DOMAIN feeds
      /\ \A w \in DOMAIN feeds : w # url => feeds'[w] = feeds[w]
      /\ url \in DOMAIN feeds => DOMAIN feeds'[url] = Fields /\ feeds'[url].NoReschedule
  OBVIOUS
<1>3. Framed(feeds')
  BY <1>2 DEF Framed, ChainType
<1>4. ChainType'
  BY <1>1, <1>2, <1>3 DEF ChainType
<1>5. /\ \A w \in Urls : w # url => Tokens(w)' = Tokens(w)
      /\ Tokens(url)' = Tokens(url) - 1 /\ Tokens(url) \in Nat
  BY <1>1 DEF Tokens, ChainType
<1>6. AtMostOne'
  BY <1>5 DEF AtMostOne
<1>7. AtLeastOne'
  BY <1>2, <1>5 DEF AtLeastOne, ChainType, Framed
<1> QED BY <1>4, <1>6, <1>7

LEMMA FetchedPreserves ==
    ASSUME IInv, NEW url \in Urls, Fetched(url)
    PROVE  IInv'
<1>1. CASE FetchedGone(url)
  BY <1>1, LastAnswerPreserves DEF FetchedGone, mem, history
<1>2. CASE FetchedFailed(url)
  <2> DEFINE f == [feeds[url] EXCEPT !.tries = IF @ + 1 > maxTries THEN 0 ELSE @ + 1]
  <2>1. url \in DOMAIN feeds /\ DOMAIN feeds[url] = Fields /\ Framed(store.feeds)
    BY <1>2 DEF FetchedFailed, IInv, ChainType, Framed
  <2>2. DOMAIN f = Fields
    BY <2>1
  <2>3. feeds' = [feeds EXCEPT ![url] = f]
    BY <1>2 DEF FetchedFailed
  <2>4. Framed(store'.feeds) /\ UNCHANGED overlapped /\ Take(url) /\ Rearm(url, held, orphans)
    BY <1>2, <2>1 DEF FetchedFailed, history, Framed
  <2> HIDE DEF f
  <2> QED BY <2>1, <2>2, <2>3, <2>4, RearmPreserves
<1>3. CASE FetchedUnreadable(url)
  <2> DEFINE n == feeds[url].ErrorCount + 1
             kept == [[feeds[url] EXCEPT !.tries = 0] EXCEPT !.ErrorCount = n]
             over == [[feeds[url] EXCEPT !.tries = 0] EXCEPT
                        !.ErrorCount = maxErrors + 1, !.NoReschedule = TRUE]
  <2>1. url \in DOMAIN feeds /\ DOMAIN feeds[url] = Fields /\ Framed(store.feeds)
    BY <1>3 DEF FetchedUnreadable, IInv, ChainType, Framed
  <2>2. DOMAIN kept = Fields /\ DOMAIN over = Fields /\ over.NoReschedule
    BY <2>1 DEF Fields
  <2>3. /\ Take(url) /\ UNCHANGED store /\ UNCHANGED overlapped
        /\ IF n > maxErrors
           THEN feeds' = [feeds EXCEPT ![url] = over] /\ UNCHANGED <<held, orphans>>
           ELSE feeds' = [feeds EXCEPT ![url] = kept] /\ Rearm(url, held, orphans)
    BY <1>3 DEF FetchedUnreadable, history
  <2> HIDE DEF n, kept, over
  <2>4. CASE n > maxErrors
    BY <2>1, <2>2, <2>3, <2>4, LastAnswerPreserves
  <2>5. CASE ~(n > maxErrors)
    BY <2>1, <2>2, <2>3, <2>5, RearmPreserves DEF Framed
  <2> QED BY <2>4, <2>5
<1>4. CASE FetchedItems(url)
  <2>1. url \in DOMAIN feeds /\ DOMAIN feeds[url] = Fields /\ Framed(feeds)
    BY <1>4 DEF FetchedItems, IInv, ChainType, Framed
  <2>2. PICK f : /\ DOMAIN f = Fields /\ feeds' = [feeds EXCEPT ![url] = f]
                 /\ Rearm(url, held, orphans) /\ Save(feeds', maxId')
    <3>1. PICK doc, ids, f :
            /\ f \in {MergeItems(url, doc, ids), RemoveOldItems(Broadcast(MergeItems(url, doc, ids)))}
            /\ feeds' = [feeds EXCEPT ![url] = f]
            /\ Rearm(url, held, orphans) /\ Save(feeds', maxId')
      BY <1>4, Zenon DEF FetchedItems
    <3> QED BY <2>1, <3>1, ShapeKept
  <2>3. Framed(feeds')
    BY <2>1, <2>2 DEF Framed
  <2>4. Framed(store'.feeds)
    BY <2>2, <2>3, SaveFrames DEF IInv
  <2>5. Take(url) /\ UNCHANGED overlapped
    BY <1>4 DEF FetchedItems
  <2> QED BY <2>1, <2>2, <2>4, <2>5, RearmPreserves
<1> QED BY <1>1, <1>2, <1>3, <1>4 DEF Fetched

(* A command that polls url, from timers h: either nothing ran, or the url   *)
(* is marked overlapped.                                                   *)
LEMMA PollPreserves ==
    ASSUME IInv, NEW url \in Urls, Framed(feeds'), Framed(store'.feeds), url \in DOMAIN feeds',
           held \ {url} \subseteq DOMAIN feeds',
           \A w \in DOMAIN feeds' : w # url => w \in DOMAIN feeds /\ feeds'[w] = feeds[w],
           url \in DOMAIN feeds => feeds'[url] = feeds[url],
           RefreshFeed(url, feeds', held \ {url}, orphans), Overlap(url), UNCHANGED answers
    PROVE  IInv'
<1> USE DEF IInv
<1>1. \A w \in Urls : w # url =>
          /\ w \in held' <=> w \in held
          /\ w \in inFlight' <=> w \in inFlight
          /\ orphans'[w] = orphans[w]
          /\ w \in overlapped' <=> w \in overlapped
  BY DEF RefreshFeed, Rearm, Overlap, ChainType
<1>2. ChainType'
  BY DEF RefreshFeed, Rearm, ChainType, Framed
<1>3. \A w \in Urls : w # url => Tokens(w)' = Tokens(w)
  BY <1>1 DEF Tokens
<1>4. url \in overlapped' \/ Tokens(url)' <= 1
  BY <1>2 DEF RefreshFeed, Rearm, Overlap, Tokens, ChainType
<1>5. feeds'[url].NoReschedule \/ Tokens(url)' >= 1
  BY <1>2 DEF RefreshFeed, Rearm, Tokens, ChainType
<1>6. AtMostOne'
  BY <1>1, <1>3, <1>4 DEF AtMostOne
<1>7. AtLeastOne'
  BY <1>2, <1>3, <1>5 DEF AtLeastOne, ChainType, Framed
<1> QED BY <1>2, <1>6, <1>7

LEMMA RefreshPreserves ==
    ASSUME IInv, NEW url \in Urls, RefreshCmd(url)
    PROVE  IInv'
<1> USE DEF IInv
<1>1. UNCHANGED <<feeds, store, answers>> /\ url \in DOMAIN feeds
  BY DEF RefreshCmd, mem
<1>2. RefreshFeed(url, feeds', held \ {url}, orphans) /\ Overlap(url)
  BY <1>1 DEF RefreshCmd
<1>3. Framed(feeds') /\ Framed(store'.feeds) /\ held \subseteq DOMAIN feeds'
  BY <1>1 DEF ChainType, Framed
<1> QED BY <1>1, <1>2, <1>3, PollPreserves

LEMMA SubscribePreserves ==
    ASSUME IInv, NEW url \in Urls, NEW t \in Targets, AddFeed(url, t) \/ DelFeed(url, t)
    PROVE  IInv'
<1> USE DEF IInv
<1>2. CASE AddFeed(url, t) /\ url \notin DOMAIN feeds
  <2>1. feeds' = With(feeds, url, NewFeed(t)) /\ RefreshFeed(url, feeds', held, orphans)
        /\ Overlap(url) /\ Save(feeds', maxId) /\ UNCHANGED answers
    BY <1>2 DEF AddFeed
  <2>2. DOMAIN NewFeed(t) = Fields
    BY DEF NewFeed, Fields
  <2>3. /\ DOMAIN feeds' = DOMAIN feeds \cup {url} /\ feeds'[url] = NewFeed(t)
        /\ \A w \in DOMAIN feeds : feeds'[w] = feeds[w]
    BY <1>2, <2>1 DEF With
  <2>4. Framed(feeds')
    BY <2>2, <2>3 DEF Framed, ChainType
  <2>5. Framed(store'.feeds)
    BY <2>1, <2>4, SaveFrames
  <2>6. held \ {url} = held
    BY <1>2 DEF ChainType
  <2>7. held \subseteq DOMAIN feeds'
    BY <2>3 DEF ChainType
  <2> QED BY <1>2, <2>1, <2>3, <2>4, <2>5, <2>6, <2>7, PollPreserves
<1>3. CASE AddFeed(url, t) /\ url \in DOMAIN feeds
  <2> DEFINE f == [feeds[url] EXCEPT !.subs = With(@, t, {})]
  <2>1. /\ feeds' = [feeds EXCEPT ![url] = f] /\ Save(feeds', maxId)
        /\ UNCHANGED <<held, orphans, inFlight, answers, overlapped>>
    BY <1>3 DEF AddFeed
  <2>2. DOMAIN f = Fields /\ f.NoReschedule = feeds[url].NoReschedule
    BY <1>3 DEF ChainType, Framed, Fields
  <2> HIDE DEF f
  <2>3. /\ DOMAIN feeds' = DOMAIN feeds
        /\ \A w \in DOMAIN feeds : DOMAIN feeds'[w] = Fields
                                   /\ feeds'[w].NoReschedule = feeds[w].NoReschedule
    BY <2>1, <2>2 DEF ChainType, Framed
  <2>4. Framed(feeds')
    BY <2>3 DEF Framed, ChainType
  <2>5. Framed(store'.feeds)
    BY <2>1, <2>4, SaveFrames
  <2>6. \A w \in Urls : Tokens(w)' = Tokens(w)
    BY <2>1 DEF Tokens
  <2> QED BY <2>1, <2>3, <2>4, <2>5, <2>6 DEF ChainType, AtMostOne, AtLeastOne, Framed
<1>4. CASE DelFeed(url, t)
  <2>1. /\ url \in DOMAIN feeds /\ Save(feeds', maxId)
        /\ UNCHANGED <<orphans, inFlight, answers, overlapped>>
    BY <1>4 DEF DelFeed
  <2>2. CASE DOMAIN feeds[url].subs = {t}
    <3>1. feeds' = Without(feeds, {url}) /\ held' = held \ {url}
      BY <1>4, <2>2 DEF DelFeed, Dropped
    <3>2. DOMAIN feeds' = DOMAIN feeds \ {url} /\ \A w \in DOMAIN feeds' : feeds'[w] = feeds[w]
      BY <3>1 DEF Without
    <3>3. Framed(feeds')
      BY <3>2 DEF Framed, ChainType
    <3>4. Framed(store'.feeds)
      BY <2>1, <3>3, SaveFrames
    <3>5. ChainType'
      BY <2>1, <3>1, <3>2, <3>3, <3>4 DEF ChainType
    <3>6. \A w \in Urls : (w # url => Tokens(w)' = Tokens(w)) /\ Tokens(w)' <= Tokens(w)
      BY <2>1, <3>1 DEF Tokens, ChainType
    <3>7. AtMostOne'
      BY <2>1, <3>5, <3>6 DEF AtMostOne, Tokens, ChainType
    <3>8. AtLeastOne'
      BY <3>2, <3>6 DEF AtLeastOne, ChainType, Framed
    <3> QED BY <3>5, <3>7, <3>8
  <2>3. CASE DOMAIN feeds[url].subs # {t}
    <3> DEFINE f == [feeds[url] EXCEPT !.subs = Without(@, {t})]
    <3>1. feeds' = [feeds EXCEPT ![url] = f] /\ UNCHANGED held
      BY <1>4, <2>3 DEF DelFeed
    <3>2. DOMAIN f = Fields /\ f.NoReschedule = feeds[url].NoReschedule
      BY <2>1 DEF ChainType, Framed, Fields
    <3> HIDE DEF f
    <3>3. /\ DOMAIN feeds' = DOMAIN feeds
          /\ \A w \in DOMAIN feeds : DOMAIN feeds'[w] = Fields
                                     /\ feeds'[w].NoReschedule = feeds[w].NoReschedule
      BY <3>1, <3>2 DEF ChainType, Framed
    <3>4. Framed(feeds')
      BY <3>3 DEF Framed, ChainType
    <3>5. Framed(store'.feeds)
      BY <2>1, <3>4, SaveFrames
    <3>6. \A w \in Urls : Tokens(w)' = Tokens(w)
      BY <2>1, <3>1 DEF Tokens
    <3> QED BY <2>1, <3>1, <3>3, <3>4, <3>5, <3>6
            DEF ChainType, AtMostOne, AtLeastOne, Framed
  <2> QED BY <2>2, <2>3
<1> QED BY <1>2, <1>3, <1>4

LEMMA DayPreserves ==
    ASSUME IInv, DayPasses
    PROVE  IInv'
<1> USE DEF IInv
<1>1. /\ UNCHANGED <<held, orphans, inFlight, answers, overlapped>>
      /\ feeds' = Aged(feeds)
  BY DEF DayPasses, chain, history
<1>2. ASSUME NEW fs, Framed(fs)
      PROVE  /\ DOMAIN Aged(fs) = DOMAIN fs /\ Framed(Aged(fs))
             /\ \A w \in DOMAIN fs : Aged(fs)[w].NoReschedule = fs[w].NoReschedule
  BY <1>2 DEF Aged, Framed, Fields
<1>3. /\ Framed(feeds') /\ DOMAIN feeds' = DOMAIN feeds
      /\ \A w \in DOMAIN feeds : feeds'[w].NoReschedule = feeds[w].NoReschedule
  BY <1>1, <1>2 DEF ChainType
<1>4. Framed(store'.feeds)
  BY <1>2 DEF DayPasses, ChainType
<1>5. \A w \in Urls : Tokens(w)' = Tokens(w)
  BY <1>1 DEF Tokens
<1> QED BY <1>1, <1>3, <1>4, <1>5 DEF ChainType, AtMostOne, AtLeastOne, Framed

(* Load starts from the store: one timer per feed, nothing else. *)
LEMMA RestartPreserves ==
    ASSUME IInv, NEW clean \in BOOLEAN, Restart(clean)
    PROVE  IInv'
<1> USE DEF IInv
<1>1. Framed(store'.feeds)
  BY SaveFrames DEF Restart, ChainType
<1>2. /\ feeds' = Stored(store'.feeds) /\ held' = DOMAIN feeds' /\ inFlight' = {}
      /\ orphans' = [url \in Urls |-> 0] /\ answers' = [url \in Urls |-> 0]
  BY DEF Restart
<1>3. DOMAIN feeds' = DOMAIN store'.feeds /\ Framed(feeds')
  BY <1>1, <1>2 DEF Stored, Framed
<1>4. ChainType'
  BY <1>1, <1>2, <1>3 DEF ChainType
<1>5. \A url \in Urls : Tokens(url)' = IF url \in DOMAIN feeds' THEN 1 ELSE 0
  BY <1>2 DEF Tokens
<1> QED BY <1>3, <1>4, <1>5 DEF AtMostOne, AtLeastOne, Framed

(* Whatever happens to the feeds, IInv stays.                              *)
LEMMA FeedInvariant == Spec => []IInv
<1>1. Init => IInv
  BY DEF Init, IInv, ChainType, AtMostOne, AtLeastOne, Tokens, Framed
<1>2. IInv /\ [Next]_vars => IInv'
  <2> SUFFICES ASSUME IInv, [Next]_vars PROVE IInv'
    OBVIOUS
  <2>1. CASE UNCHANGED vars
    BY <2>1 DEF vars, mem, chain, history, IInv, ChainType, AtMostOne, AtLeastOne, Tokens, Framed
  <2>2. CASE Next
    BY <2>2, FirePreserves, AnswerPreserves, FetchedPreserves, RefreshPreserves, SubscribePreserves,
       DayPreserves, RestartPreserves DEF Next
  <2> QED BY <2>1, <2>2
<1> QED BY <1>1, <1>2, PTL DEF Spec

(* For every set of urls, channels and items and every bound: a feed that  *)
(* is not given up always has a timer, a request or an answer under way,   *)
(* and exactly one unless a command polled it in the middle of a running   *)
(* chain (refreshFeed, fetched, addFeed, delFeed, refreshCmd, Load).       *)
THEOREM FeedOneChain == Spec => []OneChain
<1>1. IInv => OneChain
  BY DEF IInv, OneChain, AtMostOne, AtLeastOne, ChainType, Framed
<1> QED BY <1>1, FeedInvariant, PTL

(***************************************************************************)
(* Feeds: ItemsKept.  That two live items never share an id needs that     *)
(* the walk finds as many free ids as a document has new items, which the  *)
(* size of the id space gives; that nothing is told twice needs that what  *)
(* was told is marked in memory and, unless the last save failed, in the   *)
(* store a restart reads.                                                  *)
(***************************************************************************)
Counter == 0 .. (idWrap - 1)

(* Of some feeds: items are their own, and ids are told apart.             *)
IdsApart(fs) ==
    /\ \A url \in DOMAIN fs : DOMAIN fs[url].hist \subseteq Items[url]
    /\ \A url, w \in DOMAIN fs :
          \A g \in DOMAIN fs[url].hist, h \in DOMAIN fs[w].hist :
              fs[url].hist[g] = fs[w].hist[h] => url = w /\ g = h

(* What was told is marked in the feeds, and so in what a restart finds.   *)
Marked(fs, sent) ==
    \A url \in Urls : \A p \in sent[url] :
        url \in DOMAIN fs /\ p[1] \in DOMAIN fs[url].subs /\ p[2] \in fs[url].subs[p[1]]

ItemsInv ==
    /\ maxId \in Counter /\ store.maxId \in Counter
    /\ IdsApart(feeds) /\ IdsApart(store.feeds)
    /\ DOMAIN told = Urls
    /\ Marked(feeds, told) /\ (~behind => Marked(store.feeds, told))
    /\ ~resent

(* Sets of numbers have a least element.                                   *)
LEMMA LeastNumber ==
  ASSUME NEW U \in SUBSET Nat, U # {}
  PROVE  \E m \in U : \A n \in U : m <= n
<1> DEFINE O == OpToRel(<, Nat)
<1>1. PICK m \in U : \A n \in U : <<n, m>> \notin O
  <2> HIDE DEF O
  <2>1. IsWellFoundedOn(O, Nat)
    BY NatLessThanWellFounded, Zenon DEF O
  <2> QED BY <2>1, WFMin
<1>2. \A n \in U : ~(n < m)
  BY <1>1 DEF OpToRel
<1> HIDE DEF O
<1>3. \A n \in U : m <= n
  BY <1>2
<1> QED BY <1>3

(* Free ids are so many steps ahead of the counter, no two as many.        *)
LEMMA DistanceFacts ==
  ASSUME FeedAssumption, maxId \in Counter
  PROVE  /\ FreeIds \subseteq Counter
         /\ \A i \in FreeIds : Distance(i) \in Counter
         /\ \A i, j \in FreeIds : Distance(i) = Distance(j) => i = j
<1>1. idWrap \in Nat /\ idWrap >= 1 /\ maxId \in Nat /\ maxId <= idWrap - 1
  <2>1. idWrap \in Nat
    BY DEF FeedAssumption
  <2> QED BY <2>1 DEF Counter
<1>2. \A i \in FreeIds : i \in Nat /\ i <= idWrap - 1 /\ (i = maxId \/ i >= 1)
  BY <1>1 DEF FreeIds
<1>3. \A i \in FreeIds : /\ i >= maxId => Distance(i) = i - maxId
                         /\ i < maxId => Distance(i) = i + (idWrap - 1) - maxId
  BY <1>1, <1>2 DEF Distance
<1>4. FreeIds \subseteq Counter
  BY <1>1, <1>2 DEF Counter
<1>5. \A i \in FreeIds : Distance(i) \in Counter
  BY <1>1, <1>2, <1>3 DEF Counter
<1>6. ASSUME NEW i \in FreeIds, NEW j \in FreeIds, Distance(i) = Distance(j) PROVE i = j
  BY <1>1, <1>2, <1>3, <1>6
<1> QED BY <1>4, <1>5, <1>6

(* As many free ids as are wanted, the next ones of the walk.              *)
LEMMA NextIdsExist ==
  ASSUME FeedAssumption, maxId \in Counter, NEW k \in Nat, k <= Cardinality(FreeIds)
  PROVE  NextIds(k) \subseteq FreeIds /\ IsFiniteSet(NextIds(k)) /\ Cardinality(NextIds(k)) = k
<1>1. IsFiniteSet(FreeIds) /\ Cardinality(FreeIds) \in Nat
  <2>1. idWrap - 1 \in Int
    BY DEF FeedAssumption
  <2>2. PICK top : top = idWrap - 1
    OBVIOUS
  <2>3. IsFiniteSet(0 .. top)
    <3>1. top \in Int /\ 0 \in Int
      BY <2>1, <2>2
    <3> QED BY <3>1, FS_Interval
  <2>4. IsFiniteSet(Counter)
    BY <2>2, <2>3 DEF Counter
  <2> QED BY <2>4, DistanceFacts, FS_Subset, FS_CardinalityType
<1> DEFINE Near(d) == {i \in FreeIds : Distance(i) < d}
<1>2. \A d : Near(d) \subseteq FreeIds /\ IsFiniteSet(Near(d)) /\ Cardinality(Near(d)) \in Nat
  BY <1>1, FS_Subset, FS_CardinalityType
<1>3. \A i \in FreeIds : Distance(i) \in Nat
  BY DistanceFacts DEF Counter
<1>4. \E U \in SUBSET FreeIds :
        Cardinality(U) = k /\ \A i \in U, j \in FreeIds \ U : Distance(i) < Distance(j)
  <2>1. CASE k = Cardinality(FreeIds)
    BY <2>1
  <2>2. CASE k # Cardinality(FreeIds)
    <3> DEFINE Over == {d \in Nat : Cardinality(Near(d)) > k}
    <3>1. Over # {}
      <4>1. \A i \in FreeIds : Distance(i) < idWrap
        BY DistanceFacts DEF Counter, FeedAssumption
      <4>2. Near(idWrap) = FreeIds
        BY <4>1
      <4>3. idWrap \in Nat
        BY DEF FeedAssumption
      <4>4. Cardinality(FreeIds) > k
        BY <1>1, <2>2
      <4> QED BY <4>2, <4>3, <4>4
    <3>2. PICK d \in Over : \A e \in Over : d <= e
      BY <3>1, LeastNumber
    <3>3. d \in Nat /\ Cardinality(Near(d)) > k
      OBVIOUS
    <3>4. d # 0
      <4>1. Near(0) = {}
        BY <1>3
      <4>2. Cardinality(Near(0)) = 0
        BY <4>1, FS_EmptySet
      <4> HIDE DEF Near
      <4> SUFFICES ASSUME d = 0 PROVE FALSE
        OBVIOUS
      <4>3. Cardinality(Near(d)) = 0
        BY <4>2
      <4> QED BY <3>3, <4>3
    <3>5. PICK e \in Nat : d = e + 1
      <4>1. d - 1 \in Nat /\ d = (d - 1) + 1
        BY <3>3, <3>4
      <4> QED BY <4>1
    <3>6. ~(Cardinality(Near(e)) > k)
      <4>1. e \notin Over
        BY <3>2, <3>5
      <4> QED BY <4>1
    <3>7. PICK U : U = Near(e)
      OBVIOUS
    <3>8. Cardinality(Near(d)) <= Cardinality(U) + 1
      <4>1. CASE \E i \in FreeIds : Distance(i) = e
        <5>1. PICK i \in FreeIds : Distance(i) = e
          BY <4>1
        <5>2. Near(d) = U \cup {i}
          <6>1. \A j \in FreeIds : Distance(j) = e => j = i
            BY <5>1, DistanceFacts
          <6>2. \A j \in FreeIds : Distance(j) < d <=> Distance(j) < e \/ Distance(j) = e
            BY <1>3, <3>5
          <6> QED BY <3>7, <5>1, <6>1, <6>2
        <5>3. IsFiniteSet(U) /\ Cardinality(U) \in Nat
          BY <1>2, <3>7
        <5>4. Cardinality(U \cup {i}) = IF i \in U THEN Cardinality(U) ELSE Cardinality(U) + 1
          BY <5>3, FS_AddElement
        <5> HIDE DEF Near
        <5>5. Cardinality(U \cup {i}) <= Cardinality(U) + 1
          BY <5>3, <5>4
        <5> QED BY <5>2, <5>5
      <4>2. CASE \A i \in FreeIds : Distance(i) # e
        <5>1. \A j \in FreeIds : Distance(j) < d <=> Distance(j) < e
          BY <1>3, <3>5, <4>2
        <5>2. Near(d) = U
          BY <3>7, <5>1
        <5> QED BY <1>2, <3>7, <5>2
      <4> QED BY <4>1, <4>2
    <3>9. Cardinality(U) = k
      <4>1. Cardinality(U) \in Nat /\ ~(Cardinality(U) > k)
        BY <1>2, <3>6, <3>7
      <4>2. Cardinality(Near(d)) \in Nat
        BY <1>2
      <4> HIDE DEF Near
      <4> QED BY <3>3, <3>8, <4>1, <4>2
    <3>10. \A i \in U, j \in FreeIds \ U : Distance(i) < Distance(j)
      BY <1>3, <3>5, <3>7
    <3>11. U \in SUBSET FreeIds
      BY <3>7
    <3> QED BY <3>9, <3>10, <3>11
  <2> QED BY <2>1, <2>2
<1> HIDE DEF Near
<1>5. NextIds(k) \in SUBSET FreeIds /\ Cardinality(NextIds(k)) = k
  BY <1>4, Zenon DEF NextIds
<1> QED BY <1>1, <1>5, FS_Subset

(* After the last id taken the walk goes on.                               *)
LEMMA CounterStays ==
  ASSUME FeedAssumption, maxId \in Counter, NEW U \in SUBSET FreeIds
  PROVE  CounterAfter(U) \in Counter
<1>1. idWrap \in Nat /\ idWrap > 1
  <2>1. idWrap \in Nat /\ idWrap > 1 + Cardinality({p \in Urls \X Guids : p[2] \in Items[p[1]]})
        /\ IsFiniteSet(Urls) /\ IsFiniteSet(Guids)
    BY DEF FeedAssumption
  <2>2. Cardinality({p \in Urls \X Guids : p[2] \in Items[p[1]]}) \in Nat
    BY <2>1, FS_Product, FS_Subset, FS_CardinalityType
  <2> QED BY <2>1, <2>2
<1>2. CASE U = {}
  BY <1>2 DEF CounterAfter
<1>3. CASE U # {}
  <2> DEFINE last == CHOOSE i \in U : \A j \in U : Distance(j) <= Distance(i)
             Left == {idWrap - Distance(i) : i \in U}
  <2>1. \A i \in U : Distance(i) \in Counter /\ idWrap - Distance(i) \in Nat
    BY <1>1, DistanceFacts DEF Counter
  <2>2. Left \in SUBSET Nat /\ Left # {}
    BY <1>3, <2>1
  <2>3. PICK m \in Left : \A n \in Left : m <= n
    BY <2>2, LeastNumber
  <2>4. PICK i \in U : m = idWrap - Distance(i)
    OBVIOUS
  <2>5. \A j \in U : idWrap - Distance(i) <= idWrap - Distance(j)
    BY <2>3, <2>4
  <2>6. \A j \in U : Distance(j) <= Distance(i)
    BY <1>1, <2>1, <2>5 DEF Counter
  <2> HIDE DEF Left
  <2>7. last \in U
    BY <2>6, Zenon
  <2>8. CounterAfter(U) = IF last + 1 >= idWrap THEN 1 ELSE last + 1
    BY <1>3, Zenon DEF CounterAfter
  <2> HIDE DEF last
  <2>9. last \in Counter
    BY <2>7, DistanceFacts
  <2> QED BY <1>1, <2>8, <2>9 DEF Counter
<1> QED BY <1>2, <1>3

(* The kept items, each with its feed, and those a document adds to one of *)
(* them are pairs of a feed and a guid of its own, and there are more ids  *)
(* than such pairs.                                                        *)
LEMMA EnoughFree ==
  ASSUME FeedAssumption, maxId \in Counter, Framed(feeds), IdsApart(feeds),
         NEW url \in DOMAIN feeds, NEW doc \in SUBSET Items[url],
         NEW new, new = doc \ DOMAIN feeds[url].hist
  PROVE  IsFiniteSet(new) /\ Cardinality(new) \in Nat /\ Cardinality(new) <= Cardinality(FreeIds)
<1> DEFINE Pairs == {p \in Urls \X Guids : p[2] \in Items[p[1]]}
           Kept == {p \in Pairs : p[1] \in DOMAIN feeds /\ p[2] \in DOMAIN feeds[p[1]].hist}
           Added == {p \in Pairs : p[1] = url /\ p[2] \in new}
           Ids == 1 .. (idWrap - 1)
<1>1. IsFiniteSet(Pairs) /\ Cardinality(Pairs) \in Nat /\ idWrap > 1 + Cardinality(Pairs) /\ idWrap \in Nat
  <2>1. IsFiniteSet(Urls) /\ IsFiniteSet(Guids) /\ idWrap \in Nat /\ idWrap > 1 + Cardinality(Pairs)
    BY DEF FeedAssumption
  <2> QED BY <2>1, FS_Product, FS_Subset, FS_CardinalityType
<1>2. DOMAIN feeds \subseteq Urls /\ \A w \in Urls : Items[w] \subseteq Guids
  BY DEF Framed, Guids
<1>3. /\ IsFiniteSet(Kept) /\ Cardinality(Kept) \in Nat
      /\ IsFiniteSet(Added) /\ Cardinality(Added) \in Nat
      /\ Cardinality(Kept) + Cardinality(Added) <= Cardinality(Pairs)
  <2>1. Kept \in SUBSET Pairs /\ Added \in SUBSET Pairs /\ Kept \cap Added = {}
    OBVIOUS
  <2>2. Kept \cup Added \in SUBSET Pairs
    BY <2>1
  <2> HIDE DEF Pairs, Kept, Added
  <2>3. /\ IsFiniteSet(Kept) /\ Cardinality(Kept) \in Nat
        /\ IsFiniteSet(Added) /\ Cardinality(Added) \in Nat
    BY <1>1, <2>1, FS_Subset, FS_CardinalityType
  <2>4. Cardinality(Kept \cup Added) = Cardinality(Kept) + Cardinality(Added) - Cardinality(Kept \cap Added)
    BY <2>3, FS_Union
  <2>5. Cardinality(Kept \cap Added) = 0
    BY <2>1, FS_EmptySet
  <2>6. Cardinality(Kept \cup Added) <= Cardinality(Pairs)
    BY <1>1, <2>2, FS_Subset
  <2> QED BY <2>3, <2>4, <2>5, <2>6
<1>4. IsFiniteSet(new) /\ Cardinality(new) = Cardinality(Added)
  <2>1. PICK f : f = [g \in new |-> <<url, g>>]
    OBVIOUS
  <2>2. \A g \in new : <<url, g>> \in Added
    BY <1>2
  <2>3. \A p \in Added : p[2] \in new /\ p = <<url, p[2]>>
    OBVIOUS
  <2> HIDE DEF Added
  <2>4. f \in [new -> Added] /\ \A g \in new : f[g] = <<url, g>>
    BY <2>1, <2>2
  <2>5. f \in Injection(new, Added)
    BY <2>4, Fun_IsInj
  <2>6. \A p \in Added : \E g \in new : f[g] = p
    BY <2>3, <2>4
  <2>7. f \in Surjection(new, Added)
    BY <2>4, <2>6, Fun_IsSurj
  <2> QED BY <1>3, <2>5, <2>7, FS_Injection
<1>5. IsFiniteSet(IdsInUse) /\ Cardinality(IdsInUse) \in Nat /\ Cardinality(IdsInUse) <= Cardinality(Kept)
  <2>1. PICK f : f = [p \in Kept |-> feeds[p[1]].hist[p[2]]]
    OBVIOUS
  <2>2. \A p \in Kept : feeds[p[1]].hist[p[2]] \in IdsInUse
    BY DEF IdsInUse
  <2>3. \A i \in IdsInUse : \E p \in Kept : feeds[p[1]].hist[p[2]] = i
    <3> SUFFICES ASSUME NEW i \in IdsInUse PROVE \E p \in Kept : feeds[p[1]].hist[p[2]] = i
      OBVIOUS
    <3>0. PICK w \in DOMAIN feeds : \E g \in DOMAIN feeds[w].hist : i = feeds[w].hist[g]
      BY DEF IdsInUse
    <3>1. PICK g \in DOMAIN feeds[w].hist : i = feeds[w].hist[g]
      BY <3>0
    <3>2. g \in Items[w] /\ w \in Urls /\ g \in Guids
      BY <1>2 DEF IdsApart
    <3>3. PICK p : p = <<w, g>>
      OBVIOUS
    <3>4. p \in Kept /\ p[1] = w /\ p[2] = g
      BY <3>2, <3>3
    <3> QED BY <3>1, <3>4
  <2> HIDE DEF Kept
  <2>4. f \in [Kept -> IdsInUse] /\ \A p \in Kept : f[p] = feeds[p[1]].hist[p[2]]
    BY <2>1, <2>2
  <2>5. f \in Surjection(Kept, IdsInUse)
    BY <2>3, <2>4, Fun_IsSurj
  <2> QED BY <1>3, <2>5, FS_Surjection, FS_CardinalityType
<1>6. IsFiniteSet(Ids) /\ Cardinality(Ids) = idWrap - 1
  <2>1. PICK top : top = idWrap - 1
    OBVIOUS
  <2>2. 1 \in Int /\ top \in Int /\ ~(1 > top) /\ top - 1 + 1 = idWrap - 1
    BY <1>1, <2>1
  <2>3. IsFiniteSet(1 .. top) /\ Cardinality(1 .. top) = IF 1 > top THEN 0 ELSE top - 1 + 1
    BY <2>2, FS_Interval
  <2> QED BY <2>1, <2>2, <2>3
<1>7. Cardinality(Ids \ IdsInUse) >= Cardinality(Added)
  <2> HIDE DEF Ids, Kept, Added, Pairs
  <2>1. Cardinality(Ids \ IdsInUse) = Cardinality(Ids) - Cardinality(Ids \cap IdsInUse)
    BY <1>6, FS_Difference
  <2>2. /\ Cardinality(Ids \cap IdsInUse) <= Cardinality(IdsInUse)
        /\ Cardinality(Ids \cap IdsInUse) \in Nat
    <3>1. Ids \cap IdsInUse \in SUBSET IdsInUse
      OBVIOUS
    <3> QED BY <3>1, <1>5, FS_Subset, FS_CardinalityType
  <2> QED BY <1>1, <1>3, <1>5, <1>6, <2>1, <2>2
<1>8. IsFiniteSet(FreeIds) /\ Cardinality(FreeIds) >= Cardinality(Ids \ IdsInUse)
  <2>1. FreeIds = (({maxId} \cup Ids) \ IdsInUse)
    BY DEF FreeIds
  <2> HIDE DEF Ids
  <2>2. IsFiniteSet(Ids \cup {maxId})
    BY <1>6, FS_AddElement
  <2>3. FreeIds \in SUBSET (Ids \cup {maxId}) /\ (Ids \ IdsInUse) \in SUBSET FreeIds
    BY <2>1
  <2>4. IsFiniteSet(FreeIds)
    BY <2>2, <2>3, FS_Subset
  <2>5. Cardinality(Ids \ IdsInUse) <= Cardinality(FreeIds)
    BY <2>3, <2>4, FS_Subset
  <2>6. Cardinality(FreeIds) \in Nat /\ Cardinality(Ids \ IdsInUse) \in Nat
    BY <2>3, <2>4, FS_Subset, FS_CardinalityType
  <2> QED BY <2>4, <2>5, <2>6
<1> HIDE DEF Pairs, Kept, Added, Ids
<1>9. Cardinality(FreeIds) \in Nat /\ Cardinality(Ids \ IdsInUse) \in Nat
  <2>1. IsFiniteSet(Ids \ IdsInUse)
    BY <1>6, FS_Difference
  <2> QED BY <1>8, <2>1, FS_CardinalityType
<1> QED BY <1>3, <1>4, <1>7, <1>8, <1>9

(* Feeds that differ in neither history nor marks.                         *)
SameItems(gs, fs) ==
    /\ DOMAIN gs = DOMAIN fs
    /\ \A url \in DOMAIN fs : gs[url].hist = fs[url].hist /\ gs[url].subs = fs[url].subs

LEMMA SameKept ==
  ASSUME NEW gs, NEW fs, SameItems(gs, fs)
  PROVE  /\ IdsApart(fs) => IdsApart(gs)
         /\ \A sent : Marked(fs, sent) => Marked(gs, sent)
<1>1. IdsApart(fs) => IdsApart(gs)
  BY DEF SameItems, IdsApart
<1>2. \A sent : Marked(fs, sent) => Marked(gs, sent)
  BY DEF SameItems, Marked
<1> QED BY <1>1, <1>2

(* What is saved is what is held, or the saving is known to have failed.   *)
LEMMA SavePreserves ==
  ASSUME ItemsInv, NEW fs, NEW n \in Counter, IdsApart(fs), Save(fs, n)
  PROVE  /\ store'.maxId \in Counter /\ IdsApart(store'.feeds)
         /\ ~behind' => store'.feeds = fs
BY DEF Save, ItemsInv

LEMMA SavedPreserves ==
  ASSUME ItemsInv, maxId' \in Counter, IdsApart(feeds'), DOMAIN told' = Urls,
         Marked(feeds', told'), ~resent', Save(feeds', maxId')
  PROVE  ItemsInv'
<1>1. /\ store'.maxId \in Counter /\ IdsApart(store'.feeds)
      /\ ~behind' => store'.feeds = feeds'
  BY SavePreserves
<1> QED BY <1>1 DEF ItemsInv

(* Neither store nor history moved.                                        *)
LEMMA StillPreserves ==
  ASSUME ItemsInv, SameItems(feeds', feeds), UNCHANGED <<maxId, store, told, behind, resent>>
  PROVE  ItemsInv'
<1>1. IdsApart(feeds') /\ Marked(feeds', told)
  BY SameKept DEF ItemsInv
<1> QED BY <1>1 DEF ItemsInv

LEMMA AddPreserves ==
  ASSUME IInv, ItemsInv, NEW url \in Urls, NEW t \in Targets, AddFeed(url, t)
  PROVE  ItemsInv'
<1>1. /\ url \in DOMAIN feeds => t \notin DOMAIN feeds[url].subs
      /\ Save(feeds', maxId') /\ UNCHANGED <<maxId, told, resent>>
  BY DEF AddFeed
<1>2. CASE url \in DOMAIN feeds
  <2>1. feeds' = [feeds EXCEPT ![url].subs = With(@, t, {})]
    BY <1>2 DEF AddFeed
  <2>2. DOMAIN feeds[url] = Fields
    BY <1>2 DEF IInv, ChainType, Framed
  <2>3. /\ DOMAIN feeds' = DOMAIN feeds
        /\ \A w \in DOMAIN feeds : feeds'[w].hist = feeds[w].hist
        /\ \A w \in DOMAIN feeds : w # url => feeds'[w].subs = feeds[w].subs
        /\ feeds'[url].subs = With(feeds[url].subs, t, {})
    BY <1>2, <2>1, <2>2 DEF Fields
  <2>4. IdsApart(feeds')
    BY <2>3 DEF ItemsInv, IdsApart
  <2>5. /\ DOMAIN feeds[url].subs \subseteq DOMAIN feeds'[url].subs
        /\ \A x \in DOMAIN feeds[url].subs : feeds'[url].subs[x] = feeds[url].subs[x]
    BY <1>1, <1>2, <2>3 DEF With
  <2>6. Marked(feeds', told')
    BY <1>1, <2>3, <2>5 DEF ItemsInv, Marked
  <2> QED BY <1>1, <2>4, <2>6, SavedPreserves DEF ItemsInv
<1>3. CASE url \notin DOMAIN feeds
  <2>1. feeds' = With(feeds, url, NewFeed(t))
    BY <1>3 DEF AddFeed
  <2>2. /\ DOMAIN feeds' = DOMAIN feeds \cup {url} /\ feeds'[url] = NewFeed(t)
        /\ \A w \in DOMAIN feeds : feeds'[w] = feeds[w]
    BY <1>3, <2>1 DEF With
  <2>3. DOMAIN NewFeed(t).hist = {}
    BY DEF NewFeed
  <2>4. IdsApart(feeds')
    BY <2>2, <2>3 DEF ItemsInv, IdsApart
  <2>5. Marked(feeds', told')
    BY <1>1, <2>2 DEF ItemsInv, Marked
  <2> QED BY <1>1, <2>4, <2>5, SavedPreserves DEF ItemsInv
<1> QED BY <1>2, <1>3

LEMMA DelPreserves ==
  ASSUME IInv, ItemsInv, NEW url \in Urls, NEW t \in Targets, DelFeed(url, t)
  PROVE  ItemsInv'
<1>1. /\ url \in DOMAIN feeds /\ t \in DOMAIN feeds[url].subs
      /\ told' = [told EXCEPT ![url] = {p \in @ : p[1] # t}]
      /\ Save(feeds', maxId') /\ UNCHANGED <<maxId, resent>>
  BY DEF DelFeed
<1>2. /\ DOMAIN told' = Urls /\ told'[url] = {p \in told[url] : p[1] # t}
      /\ \A w \in Urls : w # url => told'[w] = told[w]
  BY <1>1 DEF ItemsInv
<1>3. CASE DOMAIN feeds[url].subs = {t}
  <2>1. feeds' = Without(feeds, {url})
    BY <1>3 DEF DelFeed
  <2>2. DOMAIN feeds' = DOMAIN feeds \ {url} /\ \A w \in DOMAIN feeds' : feeds'[w] = feeds[w]
    BY <2>1 DEF Without
  <2>3. told'[url] = {}
    BY <1>2, <1>3 DEF ItemsInv, Marked
  <2>4. IdsApart(feeds') /\ Marked(feeds', told')
    BY <1>2, <2>2, <2>3 DEF ItemsInv, IdsApart, Marked
  <2> QED BY <1>1, <1>2, <2>4, SavedPreserves DEF ItemsInv
<1>4. CASE DOMAIN feeds[url].subs # {t}
  <2>1. feeds' = [feeds EXCEPT ![url].subs = Without(@, {t})]
    BY <1>4 DEF DelFeed
  <2>2. DOMAIN feeds[url] = Fields
    BY <1>1 DEF IInv, ChainType, Framed
  <2>3. /\ DOMAIN feeds' = DOMAIN feeds
        /\ \A w \in DOMAIN feeds : feeds'[w].hist = feeds[w].hist
        /\ \A w \in DOMAIN feeds : w # url => feeds'[w].subs = feeds[w].subs
        /\ feeds'[url].subs = Without(feeds[url].subs, {t})
    BY <1>1, <2>1, <2>2 DEF Fields
  <2>4. IdsApart(feeds')
    BY <2>3 DEF ItemsInv, IdsApart
  <2>5. \A x \in DOMAIN feeds[url].subs :
           x # t => x \in DOMAIN feeds'[url].subs /\ feeds'[url].subs[x] = feeds[url].subs[x]
    BY <2>3 DEF Without
  <2>6. Marked(feeds', told')
    BY <1>1, <1>2, <2>3, <2>5, ZenonT(30) DEF ItemsInv, Marked
  <2> QED BY <1>1, <1>2, <2>4, <2>6, SavedPreserves DEF ItemsInv
<1> QED BY <1>3, <1>4

(* What a document makes of a feed.                                        *)
New(url, doc) == doc \ DOMAIN feeds[url].hist
After(url, doc, ids) ==
    IF New(url, doc) = {} THEN MergeItems(url, doc, ids)
    ELSE RemoveOldItems(Broadcast(MergeItems(url, doc, ids)))
Pairs(url, doc, ids) ==
    IF New(url, doc) = {} THEN {}
    ELSE {p \in (DOMAIN MergeItems(url, doc, ids).subs) \X Guids :
              p[2] \in Sent(MergeItems(url, doc, ids), p[1])}

LEMMA MergedFacts ==
  ASSUME NEW url, DOMAIN feeds[url] = Fields, NEW doc, NEW ids, NEW m, m = MergeItems(url, doc, ids)
  PROVE  /\ DOMAIN m = Fields /\ m.subs = feeds[url].subs
         /\ DOMAIN m.hist = DOMAIN feeds[url].hist \cup New(url, doc)
         /\ \A g \in New(url, doc) : m.hist[g] = ids[g]
         /\ \A g \in DOMAIN feeds[url].hist : m.hist[g] = feeds[url].hist[g]
BY DEF MergeItems, Fields, New

LEMMA BroadcastFacts ==
  ASSUME NEW m, DOMAIN m = Fields, NEW f, f = RemoveOldItems(Broadcast(m))
  PROVE  /\ DOMAIN f.hist \subseteq DOMAIN m.hist /\ DOMAIN f.subs = DOMAIN m.subs
         /\ \A g \in DOMAIN f.hist : f.hist[g] = m.hist[g]
         /\ \A t \in DOMAIN m.subs : \A g \in m.subs[t] \cup Fresh(m, t) :
               g \in DOMAIN f.hist => g \in f.subs[t]
<1>1. PICK e : e = Broadcast(m)
  OBVIOUS
<1>2. /\ DOMAIN e = Fields /\ e.hist = m.hist /\ DOMAIN e.subs = DOMAIN m.subs
      /\ \A t \in DOMAIN m.subs : e.subs[t] = (m.subs[t] \cup Fresh(m, t)) \cap DOMAIN m.hist
  BY <1>1 DEF Broadcast, Fields
<1>3. \/ f = e
      \/ f = [e EXCEPT !.hist = Without(@, e.stale), !.stale = {},
                       !.subs = [t \in DOMAIN @ |-> @[t] \ e.stale]]
  BY <1>1 DEF RemoveOldItems
<1>4. CASE f = e
  BY <1>2, <1>4
<1>5. CASE f = [e EXCEPT !.hist = Without(@, e.stale), !.stale = {},
                        !.subs = [t \in DOMAIN @ |-> @[t] \ e.stale]]
  <2>1. f.hist = Without(e.hist, e.stale) /\ f.subs = [t \in DOMAIN e.subs |-> e.subs[t] \ e.stale]
    BY <1>2, <1>5 DEF Fields
  <2>2. DOMAIN f.hist = DOMAIN e.hist \ e.stale /\ \A g \in DOMAIN f.hist : f.hist[g] = e.hist[g]
    BY <2>1 DEF Without
  <2>3. DOMAIN f.subs = DOMAIN e.subs /\ \A t \in DOMAIN e.subs : f.subs[t] = e.subs[t] \ e.stale
    BY <2>1
  <2> QED BY <1>2, <2>2, <2>3
<1> QED BY <1>3, <1>4, <1>5

LEMMA AfterFacts ==
  ASSUME NEW url, DOMAIN feeds[url] = Fields, NEW doc, NEW ids, NEW f, f = After(url, doc, ids)
  PROVE  /\ DOMAIN f.hist \subseteq DOMAIN feeds[url].hist \cup New(url, doc)
         /\ \A g \in DOMAIN f.hist : g \in New(url, doc) => f.hist[g] = ids[g]
         /\ \A g \in DOMAIN f.hist : g \in DOMAIN feeds[url].hist => f.hist[g] = feeds[url].hist[g]
         /\ DOMAIN f.subs = DOMAIN feeds[url].subs
         /\ \A t \in DOMAIN feeds[url].subs : \A g \in feeds[url].subs[t] :
               g \in DOMAIN f.hist => g \in f.subs[t]
         /\ \A p \in Pairs(url, doc, ids) :
               /\ p[1] \in DOMAIN feeds[url].subs /\ p[2] \notin feeds[url].subs[p[1]]
               /\ p[2] \in DOMAIN f.hist => p[2] \in f.subs[p[1]]
<1>1. PICK m : m = MergeItems(url, doc, ids)
  OBVIOUS
<1>2. /\ DOMAIN m = Fields /\ m.subs = feeds[url].subs
      /\ DOMAIN m.hist = DOMAIN feeds[url].hist \cup New(url, doc)
      /\ \A g \in New(url, doc) : m.hist[g] = ids[g]
      /\ \A g \in DOMAIN feeds[url].hist : m.hist[g] = feeds[url].hist[g]
  BY <1>1, MergedFacts
<1>3. CASE New(url, doc) = {}
  <2>1. f = m /\ Pairs(url, doc, ids) = {}
    BY <1>1, <1>3 DEF After, Pairs
  <2> QED BY <1>2, <2>1
<1>4. CASE New(url, doc) # {}
  <2>1. f = RemoveOldItems(Broadcast(m))
    BY <1>1, <1>4 DEF After
  <2>2. /\ DOMAIN f.hist \subseteq DOMAIN m.hist /\ DOMAIN f.subs = DOMAIN m.subs
        /\ \A g \in DOMAIN f.hist : f.hist[g] = m.hist[g]
        /\ \A t \in DOMAIN m.subs : \A g \in m.subs[t] \cup Fresh(m, t) :
              g \in DOMAIN f.hist => g \in f.subs[t]
    BY <1>2, <2>1, BroadcastFacts
  <2>3. \A p \in Pairs(url, doc, ids) : p[1] \in DOMAIN m.subs /\ p[2] \in Fresh(m, p[1])
    BY <1>1, <1>4 DEF Pairs, Sent, Newest
  <2>4. \A p \in Pairs(url, doc, ids) : p[2] \notin m.subs[p[1]]
    BY <2>3 DEF Fresh
  <2> QED BY <1>2, <2>2, <2>3, <2>4
<1> QED BY <1>3, <1>4

LEMMA DocumentPreserves ==
  ASSUME FeedAssumption, IInv, ItemsInv, NEW url \in Urls, FetchedItems(url)
  PROVE  ItemsInv'
<1>1. url \in DOMAIN feeds /\ DOMAIN feeds[url] = Fields /\ Framed(feeds)
  BY DEF FetchedItems, IInv, ChainType, Framed
<1>2. PICK doc \in SUBSET Items[url] : \E ids :
         LET got == NextIds(Cardinality(New(url, doc))) IN
         /\ ids \in [New(url, doc) -> got]
         /\ \A g, h \in New(url, doc) : ids[g] = ids[h] => g = h
         /\ feeds' = [feeds EXCEPT ![url] = After(url, doc, ids)]
         /\ maxId' = CounterAfter(got)
         /\ resent' = (resent \/ Pairs(url, doc, ids) \cap told[url] # {})
         /\ told' = [told EXCEPT ![url] = {p \in @ \cup Pairs(url, doc, ids) :
                                              p[2] \in DOMAIN After(url, doc, ids).hist}]
         /\ Save(feeds', maxId')
  <2>1. PICK doc \in SUBSET Items[url] :
           \E ids \in {f \in [New(url, doc) -> NextIds(Cardinality(New(url, doc)))] :
                         \A g, h \in New(url, doc) : f[g] = f[h] => g = h} :
              /\ feeds' = [feeds EXCEPT ![url] = After(url, doc, ids)]
              /\ maxId' = CounterAfter(NextIds(Cardinality(New(url, doc))))
              /\ resent' = (resent \/ Pairs(url, doc, ids) \cap told[url] # {})
              /\ told' = [told EXCEPT ![url] = {p \in @ \cup Pairs(url, doc, ids) :
                                                   p[2] \in DOMAIN After(url, doc, ids).hist}]
              /\ Rearm(url, held, orphans)
              /\ Save(feeds', maxId')
    BY Zenon DEF FetchedItems, New, After, Pairs
  <2> QED BY <2>1
<1>3. PICK got : got = NextIds(Cardinality(New(url, doc)))
  OBVIOUS
<1>4. PICK ids :
         /\ ids \in [New(url, doc) -> got]
         /\ \A g, h \in New(url, doc) : ids[g] = ids[h] => g = h
         /\ feeds' = [feeds EXCEPT ![url] = After(url, doc, ids)]
         /\ maxId' = CounterAfter(got)
         /\ resent' = (resent \/ Pairs(url, doc, ids) \cap told[url] # {})
         /\ told' = [told EXCEPT ![url] = {p \in @ \cup Pairs(url, doc, ids) :
                                              p[2] \in DOMAIN After(url, doc, ids).hist}]
         /\ Save(feeds', maxId')
  BY <1>2, <1>3
<1>5. PICK f : f = After(url, doc, ids)
  OBVIOUS
<1>6. PICK pairs : pairs = Pairs(url, doc, ids)
  OBVIOUS
<1>7. PICK new : new = New(url, doc)
  OBVIOUS
<1>8. got \subseteq FreeIds
  <2>1. maxId \in Counter /\ IdsApart(feeds) /\ new = doc \ DOMAIN feeds[url].hist
    BY <1>7 DEF ItemsInv, New
  <2>2. IsFiniteSet(new) /\ Cardinality(new) \in Nat /\ Cardinality(new) <= Cardinality(FreeIds)
    BY <1>1, <2>1, EnoughFree
  <2> QED BY <1>3, <1>7, <2>1, <2>2, NextIdsExist
<1>9. maxId' \in Counter
  BY <1>4, <1>8, CounterStays DEF ItemsInv
<1>10. /\ DOMAIN f.hist \subseteq DOMAIN feeds[url].hist \cup new
       /\ \A g \in DOMAIN f.hist : g \in new => f.hist[g] = ids[g]
       /\ \A g \in DOMAIN f.hist : g \in DOMAIN feeds[url].hist => f.hist[g] = feeds[url].hist[g]
       /\ DOMAIN f.subs = DOMAIN feeds[url].subs
       /\ \A t \in DOMAIN feeds[url].subs : \A g \in feeds[url].subs[t] :
             g \in DOMAIN f.hist => g \in f.subs[t]
       /\ \A p \in pairs :
             /\ p[1] \in DOMAIN feeds[url].subs /\ p[2] \notin feeds[url].subs[p[1]]
             /\ p[2] \in DOMAIN f.hist => p[2] \in f.subs[p[1]]
  BY <1>1, <1>5, <1>6, <1>7, AfterFacts
<1>11. /\ DOMAIN feeds' = DOMAIN feeds /\ feeds'[url] = f
       /\ \A w \in DOMAIN feeds : w # url => feeds'[w] = feeds[w]
  BY <1>1, <1>4, <1>5
<1>12. IdsApart(feeds')
  <2>1. \A w \in DOMAIN feeds' : DOMAIN feeds'[w].hist \subseteq Items[w]
    <3>1. new \subseteq Items[url]
      BY <1>7 DEF New
    <3> QED BY <1>10, <1>11, <3>1 DEF ItemsInv, IdsApart
  <2> DEFINE Old(w, g) == w \in DOMAIN feeds /\ g \in DOMAIN feeds[w].hist
                          /\ feeds'[w].hist[g] = feeds[w].hist[g]
  <2>2. ASSUME NEW w \in DOMAIN feeds', NEW g \in DOMAIN feeds'[w].hist
        PROVE  \/ Old(w, g)
               \/ w = url /\ g \in new /\ feeds'[w].hist[g] = ids[g]
    BY <1>10, <1>11
  <2>3. \A w, g : Old(w, g) => feeds'[w].hist[g] \in IdsInUse
    BY DEF IdsInUse
  <2>4. \A g \in new : ids[g] \notin IdsInUse
    BY <1>4, <1>7, <1>8 DEF FreeIds
  <2>5. \A w, x, g, h : Old(w, g) /\ Old(x, h) /\ feeds'[w].hist[g] = feeds'[x].hist[h] => w = x /\ g = h
    <3>1. \A w, x \in DOMAIN feeds : \A g \in DOMAIN feeds[w].hist, h \in DOMAIN feeds[x].hist :
             feeds[w].hist[g] = feeds[x].hist[h] => w = x /\ g = h
      BY DEF ItemsInv, IdsApart
    <3>2. ASSUME NEW w, NEW x, NEW g, NEW h, Old(w, g), Old(x, h), feeds'[w].hist[g] = feeds'[x].hist[h]
          PROVE  w = x /\ g = h
      <4>1. feeds[w].hist[g] = feeds[x].hist[h]
        BY <3>2
      <4> QED BY <3>1, <3>2, <4>1
    <3> QED BY <3>2
  <2>6. \A g, h \in new : ids[g] = ids[h] => g = h
    BY <1>4, <1>7
  <2> HIDE DEF Old
  <2>7. ASSUME NEW w \in DOMAIN feeds', NEW x \in DOMAIN feeds',
               NEW g \in DOMAIN feeds'[w].hist, NEW h \in DOMAIN feeds'[x].hist,
               feeds'[w].hist[g] = feeds'[x].hist[h]
        PROVE  w = x /\ g = h
    BY <2>2, <2>3, <2>4, <2>5, <2>6, <2>7
  <2> QED BY <2>1, <2>7 DEF IdsApart
<1>13. DOMAIN told' = Urls /\ told'[url] = {p \in told[url] \cup pairs : p[2] \in DOMAIN f.hist}
       /\ \A w \in Urls : w # url => told'[w] = told[w]
  BY <1>4, <1>5, <1>6 DEF ItemsInv
<1>14. ~resent'
  <2>1. \A p \in told[url] : p[2] \in feeds[url].subs[p[1]]
    BY DEF ItemsInv, Marked
  <2>2. pairs \cap told[url] = {}
    BY <1>10, <2>1
  <2> QED BY <1>4, <1>6, <2>2 DEF ItemsInv
<1>15. Marked(feeds', told')
  <2>1. ASSUME NEW p \in told'[url]
        PROVE  p[1] \in DOMAIN f.subs /\ p[2] \in f.subs[p[1]]
    <3>1. p[2] \in DOMAIN f.hist /\ (p \in told[url] \/ p \in pairs)
      BY <1>13
    <3>2. CASE p \in told[url]
      <4>1. p[1] \in DOMAIN feeds[url].subs /\ p[2] \in feeds[url].subs[p[1]]
        BY <3>2 DEF ItemsInv, Marked
      <4> QED BY <3>1, <4>1, <1>10
    <3>3. CASE p \in pairs
      BY <3>1, <3>3, <1>10
    <3> QED BY <3>1, <3>2, <3>3
  <2> QED BY <1>1, <1>11, <1>13, <2>1 DEF ItemsInv, Marked
<1> QED BY <1>4, <1>9, <1>12, <1>13, <1>14, <1>15, SavedPreserves

LEMMA ReloadPreserves ==
  ASSUME IInv, ItemsInv, NEW clean \in BOOLEAN, Restart(clean)
  PROVE  ItemsInv'
<1>1. /\ feeds' = Stored(store'.feeds) /\ maxId' = store'.maxId
      /\ told' = IF behind' THEN [url \in Urls |-> {}] ELSE told
      /\ resent' = resent
  BY DEF Restart
<1>2. Framed(store'.feeds)
  BY SaveFrames DEF Restart, IInv, ChainType
<1>3. SameItems(feeds', store'.feeds)
  BY <1>1, <1>2 DEF SameItems, Stored, Framed, Fields
<1>4. /\ store'.maxId \in Counter /\ IdsApart(store'.feeds)
      /\ ~behind' => Marked(store'.feeds, told)
  <2>1. CASE Save(feeds, maxId)
    BY <2>1, SavePreserves DEF ItemsInv
  <2>2. CASE UNCHANGED <<store, behind>>
    BY <2>2 DEF ItemsInv
  <2> QED BY <2>1, <2>2 DEF Restart
<1>5. DOMAIN told' = Urls /\ Marked(store'.feeds, told')
  <2>1. CASE behind'
    BY <1>1, <2>1 DEF Marked
  <2>2. CASE ~behind'
    BY <1>1, <1>4, <2>2 DEF ItemsInv
  <2> QED BY <2>1, <2>2
<1>6. IdsApart(feeds') /\ Marked(feeds', told')
  BY <1>3, <1>4, <1>5, SameKept
<1> QED BY <1>1, <1>4, <1>5, <1>6 DEF ItemsInv

LEMMA ItemsNext ==
  ASSUME FeedAssumption, IInv, ItemsInv, [Next]_vars
  PROVE  ItemsInv'
<1>1. CASE UNCHANGED vars
  <2>1. SameItems(feeds', feeds) /\ UNCHANGED <<maxId, store, told, behind, resent>>
    BY <1>1 DEF vars, mem, history, SameItems
  <2> QED BY <2>1, StillPreserves
<1>2. ASSUME NEW url \in Urls,
             FireHeld(url) \/ FireOrphan(url) \/ Answer(url) \/ FetchedGone(url) \/ RefreshCmd(url)
      PROVE  ItemsInv'
  <2>1. SameItems(feeds', feeds) /\ UNCHANGED <<maxId, store, told, behind, resent>>
    BY <1>2 DEF FireHeld, FireOrphan, Answer, FetchedGone, RefreshCmd, mem, history, SameItems
  <2> QED BY <2>1, StillPreserves
<1>3. ASSUME NEW url \in Urls, FetchedFailed(url) \/ FetchedUnreadable(url)
      PROVE  ItemsInv'
  <2>1. url \in DOMAIN feeds /\ DOMAIN feeds[url] = Fields
    BY <1>3 DEF FetchedFailed, FetchedUnreadable, IInv, ChainType, Framed
  <2>2. UNCHANGED <<maxId, store, told, behind, resent>>
    BY <1>3 DEF FetchedFailed, FetchedUnreadable, history
  <2>3. PICK f : f.hist = feeds[url].hist /\ f.subs = feeds[url].subs /\ feeds' = [feeds EXCEPT ![url] = f]
    <3>1. CASE FetchedFailed(url)
      BY <2>1, <3>1 DEF FetchedFailed, Fields
    <3>2. CASE FetchedUnreadable(url)
      BY <2>1, <3>2 DEF FetchedUnreadable, Fields
    <3> QED BY <1>3, <3>1, <3>2
  <2>4. SameItems(feeds', feeds)
    BY <2>1, <2>3 DEF SameItems
  <2> QED BY <2>2, <2>4, StillPreserves
<1>4. CASE DayPasses
  <2>1. ASSUME NEW fs, Framed(fs) PROVE SameItems(Aged(fs), fs)
    BY <2>1 DEF SameItems, Aged, Framed, Fields
  <2>2. /\ feeds' = Aged(feeds) /\ store'.feeds = Aged(store.feeds) /\ store'.maxId = store.maxId
        /\ UNCHANGED <<maxId, told, behind, resent>>
    BY <1>4 DEF DayPasses, history
  <2>3. Framed(feeds) /\ Framed(store.feeds)
    BY DEF IInv, ChainType
  <2>4. SameItems(feeds', feeds) /\ SameItems(store'.feeds, store.feeds)
    BY <2>1, <2>2, <2>3
  <2>5. /\ IdsApart(feeds') /\ Marked(feeds', told)
        /\ IdsApart(store'.feeds) /\ (~behind => Marked(store'.feeds, told))
    BY <2>4, SameKept DEF ItemsInv
  <2> QED BY <2>2, <2>5 DEF ItemsInv
<1> QED BY <1>1, <1>2, <1>3, <1>4, DocumentPreserves, AddPreserves, DelPreserves, ReloadPreserves
        DEF Next, Fetched

(* For every set of urls, channels and items and every bound, whatever      *)
(* documents, commands, failed saves and restarts come: no two items kept  *)
(* by any feeds share a short id, and no item a feed remembers is told to  *)
(* a channel twice (idAlloc.next, mergeItems, broadcast, removeOldItems).  *)
THEOREM FeedItemsKept == Spec => []ItemsKept
<1>1. Init => ItemsInv
  <2>1. 0 \in Counter
    <3>1. idWrap \in Nat /\ idWrap > 1 + Cardinality({p \in Urls \X Guids : p[2] \in Items[p[1]]})
          /\ IsFiniteSet(Urls) /\ IsFiniteSet(Guids)
      BY FeedAssumption
    <3>2. Cardinality({p \in Urls \X Guids : p[2] \in Items[p[1]]}) \in Nat
      BY <3>1, FS_Product, FS_Subset, FS_CardinalityType
    <3> QED BY <3>1, <3>2 DEF Counter
  <2> QED BY <2>1 DEF Init, ItemsInv, IdsApart, Marked
<1>2. IInv /\ ItemsInv /\ [Next]_vars => ItemsInv'
  BY ItemsNext, FeedAssumption
<1>3. ItemsInv => ItemsKept
  BY DEF ItemsInv, ItemsKept, IdsDistinct, NoRepeat, IdsApart
<1> QED BY <1>1, <1>2, <1>3, FeedInvariant, PTL DEF Spec

(***************************************************************************)
(* Language models: whatever order the answers come in, a channel keeps its *)
(* last turns, each a question and its own answer.                         *)
(***************************************************************************)
Message == [role : {"user", "assistant"}, question : Nat]
Question == [channel : Channels, question : Nat]
Landing == [channel : Channels, question : Nat, res : {"answer", "too long", "error"}]

LlmTypeInv ==
    /\ talks \in [Channels -> Seq(Message)] /\ said \in [Channels -> Seq(Nat)]
    /\ questions \in Nat /\ questions <= MaxQuestions
    /\ settled \in [1..MaxQuestions -> Nat]
    /\ \A url \in DOMAIN pending : pending[url] \in Question
    /\ arrived \in Seq(Landing)
TalkInv == \A chan \in Channels : L!LastTurns(chan) /\ Len(talks[chan]) <= maxHistory

Asked(q) == \E url \in DOMAIN pending : pending[url].question = q
Landed(q) == \E i \in DOMAIN arrived : arrived[i].question = q
(* A question is in one place at most. *)
OncePending ==
    /\ \A t, url \in DOMAIN pending : pending[t].question = pending[url].question => t = url
    /\ \A i, j \in DOMAIN arrived : arrived[i].question = arrived[j].question => i = j
    /\ \A q : Asked(q) => ~Landed(q) /\ q \notin lost
    /\ \A i \in DOMAIN arrived : arrived[i].question \notin lost
    /\ \A q : Asked(q) \/ Landed(q) \/ q \in lost => q \in 1..questions
SettleInv ==
    /\ \A q \in 1..questions :
          /\ Asked(q) \/ Landed(q) \/ q \in lost => settled[q] = 0
          /\ ~(Asked(q) \/ Landed(q) \/ q \in lost) => settled[q] = 1
    /\ \A q \in 1..MaxQuestions : q > questions => settled[q] = 0
LlmInv == LlmTypeInv /\ TalkInv /\ OncePending /\ SettleInv

(* A message is added behind, and when they are too many the first one goes. *)
Pushed(g, h, msg) ==
    /\ g \in Seq(Message)
    /\ Len(h) < maxHistory => /\ Len(g) = Len(h) + 1 /\ g[Len(h) + 1] = msg
                              /\ \A i \in 1..Len(h) : g[i] = h[i]
    /\ Len(h) = maxHistory => /\ Len(g) = Len(h) /\ g[Len(h)] = msg
                              /\ \A i \in 1..(Len(h) - 1) : g[i] = h[i + 1]

LEMMA MessageAdded ==
  ASSUME L!LlmConstants, NEW h \in Seq(Message), NEW msg \in Message, Len(h) <= maxHistory
  PROVE  Pushed(L!addHistory(h, msg), h, msg)
<1>0. PICK g : g = L!addHistory(h, msg)
  OBVIOUS
<1>1. maxHistory \in Nat /\ maxHistory > 0 /\ Len(h) \in Nat
  BY DEF L!LlmConstants
<1>2. PICK e : e = Append(h, msg)
  OBVIOUS
<1>3. /\ e \in Seq(Message) /\ Len(e) = Len(h) + 1 /\ e[Len(h) + 1] = msg
      /\ \A i \in 1..Len(h) : e[i] = h[i]
  BY <1>2
<1>4. ASSUME Len(h) < maxHistory PROVE Pushed(g, h, msg)
  <2>1. g = e
    BY <1>0, <1>1, <1>2, <1>3, <1>4 DEF L!addHistory
  <2> QED BY <1>1, <1>3, <1>4, <2>1 DEF Pushed
<1>5. ASSUME Len(h) = maxHistory PROVE Pushed(g, h, msg)
  <2>1. Len(e) > maxHistory /\ Len(e) - maxHistory + 1 = 2
    BY <1>1, <1>3, <1>5
  <2>2. g = SubSeq(e, 2, Len(e))
    BY <1>0, <1>2, <2>1 DEF L!addHistory
  <2>3. 2 \in 1..(Len(e) + 1) /\ Len(e) \in Nat
    BY <1>1, <1>3, <1>5
  <2>4. /\ g \in Seq(Message) /\ Len(g) = Len(e) - 1
        /\ \A i \in 1..(Len(e) - 1) : g[i] = e[i + 1]
    BY <1>1, <1>3, <1>5, <2>2, <2>3, SubSeqProperties
  <2>5. g[Len(h)] = e[Len(h) + 1]
    BY <1>1, <1>3, <1>5, <2>4
  <2>6. \A i \in 1..(Len(h) - 1) : g[i] = e[i + 1] /\ e[i + 1] = h[i + 1]
    BY <1>1, <1>3, <2>4
  <2> QED BY <1>1, <1>3, <1>5, <2>4, <2>5, <2>6 DEF Pushed
<1> QED BY <1>0, <1>1, <1>4, <1>5

TurnPushed(g, h, n, user, assistant) ==
    \E m \in Nat :
         /\ m = n \/ m = n + 1
         /\ m >= 1
         /\ g \in Seq(Message) /\ Len(g) = 2 * m /\ Len(g) <= maxHistory
         /\ g[2 * m - 1] = user /\ g[2 * m] = assistant
         /\ \A i \in 1..(m - 1) : /\ g[2 * i - 1] = h[2 * (i + n - m + 1) - 1]
                                  /\ g[2 * i] = h[2 * (i + n - m + 1)]

(* A turn is added behind, and when they are too many the first one goes.   *)
LEMMA TurnAdded ==
  ASSUME L!LlmConstants, NEW h \in Seq(Message), NEW user \in Message, NEW assistant \in Message,
         Len(h) <= maxHistory, NEW n \in Nat, Len(h) = 2 * n,
         NEW g1, Pushed(g1, h, user), NEW g, Pushed(g, g1, assistant)
  PROVE  TurnPushed(g, h, n, user, assistant)
<1>1. maxHistory \in Nat /\ maxHistory > 0 /\ Len(h) \in Nat
  BY DEF L!LlmConstants
<1>3. SUFFICES \E m \in Nat :
         /\ m = n \/ m = n + 1
         /\ m >= 1
         /\ g \in Seq(Message) /\ Len(g) = 2 * m /\ Len(g) <= maxHistory
         /\ g[2 * m - 1] = user /\ g[2 * m] = assistant
         /\ \A i \in 1..(m - 1) : /\ g[2 * i - 1] = h[2 * (i + n - m + 1) - 1]
                                  /\ g[2 * i] = h[2 * (i + n - m + 1)]
  BY DEF TurnPushed
<1>4. CASE Len(h) = maxHistory
  <2>2. /\ g1 \in Seq(Message) /\ Len(g1) = Len(h) /\ g1[Len(h)] = user
        /\ \A i \in 1..(Len(h) - 1) : g1[i] = h[i + 1]
    BY <1>4 DEF Pushed
  <2>4. /\ g \in Seq(Message) /\ Len(g) = Len(h) /\ g[Len(h)] = assistant
        /\ \A i \in 1..(Len(h) - 1) : g[i] = g1[i + 1]
    <3>1. Len(g1) <= maxHistory /\ Len(g1) = maxHistory
      BY <1>1, <1>4, <2>2
    <3>2. /\ g \in Seq(Message) /\ Len(g) = Len(g1) /\ g[Len(g1)] = assistant
          /\ \A i \in 1..(Len(g1) - 1) : g[i] = g1[i + 1]
      BY <3>1 DEF Pushed
    <3> QED BY <2>2, <3>2
  <2>5. Len(h) >= 2 /\ n >= 1
    BY <1>1, <1>4
  <2>6. g[Len(h) - 1] = user
    BY <1>1, <2>2, <2>4, <2>5
  <2>7. \A i \in 1..(Len(h) - 2) : g[i] = h[i + 2]
    BY <1>1, <2>2, <2>4
  <2>8. \A i \in 1..(n - 1) : g[2 * i - 1] = h[2 * i + 1] /\ g[2 * i] = h[2 * i + 2]
    BY <2>7
  <2>9. \A i \in 1..(n - 1) : 2 * (i + n - n + 1) - 1 = 2 * i + 1 /\ 2 * (i + n - n + 1) = 2 * i + 2
    OBVIOUS
  <2>10. \A i \in 1..(n - 1) : /\ g[2 * i - 1] = h[2 * (i + n - n + 1) - 1]
                               /\ g[2 * i] = h[2 * (i + n - n + 1)]
    BY <2>8, <2>9
  <2> QED BY <1>4, <2>4, <2>5, <2>6, <2>10
<1>5. CASE Len(h) # maxHistory
  <2>1. Len(h) + 2 <= maxHistory
    BY <1>1, <1>5 DEF L!LlmConstants
  <2>2. /\ g1 \in Seq(Message) /\ Len(g1) = Len(h) + 1 /\ g1[Len(h) + 1] = user
        /\ \A i \in 1..Len(h) : g1[i] = h[i]
    <3>1. Len(h) < maxHistory
      BY <1>1, <2>1
    <3> QED BY <3>1 DEF Pushed
  <2>3. /\ g \in Seq(Message) /\ Len(g) = Len(g1) + 1 /\ g[Len(g1) + 1] = assistant
        /\ \A i \in 1..Len(g1) : g[i] = g1[i]
    <3>1. Len(g1) <= maxHistory /\ Len(g1) < maxHistory
      BY <1>1, <2>1, <2>2
    <3> QED BY <3>1 DEF Pushed
  <2>4. \A i \in 1..n : g[2 * i - 1] = h[2 * i - 1] /\ g[2 * i] = h[2 * i]
    BY <2>2, <2>3
  <2>5. \A i \in 1..n : 2 * (i + n - (n + 1) + 1) - 1 = 2 * i - 1 /\ 2 * (i + n - (n + 1) + 1) = 2 * i
    OBVIOUS
  <2>6. \A i \in 1..n : /\ g[2 * i - 1] = h[2 * (i + n - (n + 1) + 1) - 1]
                        /\ g[2 * i] = h[2 * (i + n - (n + 1) + 1)]
    BY <2>4, <2>5
  <2>7. /\ Len(g) = 2 * (n + 1) /\ g[2 * (n + 1) - 1] = user /\ g[2 * (n + 1)] = assistant
        /\ (n + 1) - 1 = n /\ n + 1 >= 1 /\ Len(g) <= maxHistory
    BY <1>1, <2>1, <2>2, <2>3
  <2>8. n + 1 \in Nat /\ (n + 1 = n \/ n + 1 = n + 1) /\ n + 1 >= 1 /\ g \in Seq(Message)
    BY <2>3
  <2>9. \A i \in 1..((n + 1) - 1) : /\ g[2 * i - 1] = h[2 * (i + n - (n + 1) + 1) - 1]
                                  /\ g[2 * i] = h[2 * (i + n - (n + 1) + 1)]
    BY <2>6, <2>7
  <2> WITNESS n + 1 \in Nat
  <2> QED BY <2>7, <2>8, <2>9
<1> QED BY <1>4, <1>5

(* LastTurns of any messages h and turns t. *)
Matching(h, t, n) ==
    /\ Len(h) = 2 * n /\ n <= Len(t)
    /\ \A i \in 1..n : /\ h[2 * i - 1] = [role |-> "user", question |-> t[Len(t) - n + i]]
                       /\ h[2 * i] = [role |-> "assistant", question |-> t[Len(t) - n + i]]
Matched(h, t) == \E n \in Nat : Matching(h, t, n)

LEMMA MatchedTurns ==
  ASSUME NEW h \in Seq(Message), NEW t \in Seq(Nat)
  PROVE  Matched(h, t) <=>
           /\ Len(h) = 2 * (Len(h) \div 2) /\ Len(t) - (Len(h) \div 2) >= 0
           /\ \A i \in 1..(Len(h) \div 2) :
                 /\ h[2 * i - 1] = [role |-> "user", question |-> t[(Len(t) - (Len(h) \div 2)) + i]]
                 /\ h[2 * i] = [role |-> "assistant", question |-> t[(Len(t) - (Len(h) \div 2)) + i]]
<1>1. PICK n : n = Len(h) \div 2
  OBVIOUS
<1>2. n \in Nat /\ Len(h) \in Nat /\ Len(t) \in Nat
  BY <1>1
<1>3. \A m \in Nat : Len(h) = 2 * m => m = n
  BY <1>1, <1>2
<1>4. Matched(h, t) <=> Matching(h, t, n)
  BY <1>2, <1>3 DEF Matched, Matching
<1>5. n <= Len(t) <=> Len(t) - n >= 0
  BY <1>2
<1> QED BY <1>1, <1>4, <1>5 DEF Matching

LEMMA TalkMatched ==
  ASSUME talks \in [Channels -> Seq(Message)], said \in [Channels -> Seq(Nat)], NEW chan \in Channels
  PROVE  L!LastTurns(chan) <=> Matched(talks[chan], said[chan])
<1>1. talks[chan] \in Seq(Message) /\ said[chan] \in Seq(Nat)
  OBVIOUS
<1> QED BY <1>1, MatchedTurns DEF L!LastTurns

TurnOf(user, assistant, q) == /\ user = [role |-> "user", question |-> q]
                              /\ assistant = [role |-> "assistant", question |-> q]

LEMMA TurnMatched ==
  ASSUME L!LlmConstants, NEW h \in Seq(Message), NEW t \in Seq(Nat), Len(h) <= maxHistory,
         Matched(h, t), NEW q \in Nat,
         NEW user, NEW assistant, TurnOf(user, assistant, q),
         NEW g1, Pushed(g1, h, user), NEW g, Pushed(g, g1, assistant)
  PROVE  Matched(g, Append(t, q)) /\ g \in Seq(Message) /\ Len(g) <= maxHistory
<1>1. PICK n \in Nat : Matching(h, t, n)
  BY DEF Matched
<1>2. user \in Message /\ assistant \in Message /\ Len(h) = 2 * n
  BY <1>1 DEF Message, Matching, TurnOf
<1>3. PICK m \in Nat :
         /\ m = n \/ m = n + 1
         /\ m >= 1
         /\ g \in Seq(Message) /\ Len(g) = 2 * m /\ Len(g) <= maxHistory
         /\ g[2 * m - 1] = user /\ g[2 * m] = assistant
         /\ \A i \in 1..(m - 1) : /\ g[2 * i - 1] = h[2 * (i + n - m + 1) - 1]
                                  /\ g[2 * i] = h[2 * (i + n - m + 1)]
  <2>1. TurnPushed(g, h, n, user, assistant)
    BY <1>2, TurnAdded
  <2> QED BY <2>1 DEF TurnPushed
<1>4. PICK w : w = Append(t, q)
  OBVIOUS
<1>5. /\ w \in Seq(Nat) /\ Len(w) = Len(t) + 1 /\ w[Len(t) + 1] = q
      /\ \A i \in 1..Len(t) : w[i] = t[i]
  BY <1>4
<1>6. Len(t) \in Nat /\ n <= Len(t)
  BY <1>1 DEF Matching
<1>7. ASSUME NEW i \in 1..m
      PROVE  /\ g[2 * i - 1] = [role |-> "user", question |-> w[Len(w) - m + i]]
             /\ g[2 * i] = [role |-> "assistant", question |-> w[Len(w) - m + i]]
  <2>1. CASE i = m
    <3>1. Len(w) - m + i = Len(t) + 1
      BY <2>1, <1>5, <1>6
    <3>2. w[Len(w) - m + i] = q
      BY <3>1, <1>5
    <3>3. g[2 * i - 1] = user /\ g[2 * i] = assistant
      BY <2>1, <1>3
    <3> QED BY <3>2, <3>3 DEF TurnOf
  <2>2. CASE i # m
    <3>1. PICK k : k = i + n - m + 1
      OBVIOUS
    <3>2. i \in 1..(m - 1) /\ k \in 1..n
      BY <2>2, <3>1, <1>3
    <3>3. g[2 * i - 1] = h[2 * k - 1] /\ g[2 * i] = h[2 * k]
      BY <3>1, <3>2, <1>3
    <3>4. /\ h[2 * k - 1] = [role |-> "user", question |-> t[Len(t) - n + k]]
          /\ h[2 * k] = [role |-> "assistant", question |-> t[Len(t) - n + k]]
      BY <3>2, <1>1 DEF Matching
    <3>5. Len(t) - n + k = Len(w) - m + i /\ Len(t) - n + k \in 1..Len(t)
      BY <3>1, <3>2, <1>3, <1>5, <1>6
    <3>6. w[Len(w) - m + i] = t[Len(t) - n + k]
      BY <3>5, <1>5
    <3> QED BY <3>3, <3>4, <3>6
  <2> QED BY <2>1, <2>2
<1>8. m <= Len(w)
  BY <1>3, <1>5, <1>6
<1>9. Matching(g, w, m)
  BY <1>3, <1>7, <1>8 DEF Matching
<1>10. Matched(g, w)
  BY <1>9 DEF Matched
<1> QED BY <1>3, <1>4, <1>10

LEMMA ReducedMatched ==
  ASSUME L!LlmConstants, NEW h \in Seq(Message), NEW t \in Seq(Nat), Len(h) <= maxHistory,
         Matched(h, t), NEW g, g = L!Reduced(h)
  PROVE  Matched(g, t) /\ g \in Seq(Message) /\ Len(g) <= maxHistory
<1>1. PICK n \in Nat : Matching(h, t, n)
  BY DEF Matched
<1>2. Len(h) = 2 * n /\ n <= Len(t) /\ Len(t) \in Nat /\ maxHistory \in Nat
  BY <1>1 DEF Matching, L!LlmConstants
<1>3. CASE Len(h) <= 2
  <2>1. g = <<>>
    BY <1>2, <1>3 DEF L!Reduced
  <2>2. g \in Seq(Message) /\ Len(g) = 2 * 0 /\ 0 <= Len(t) /\ 0 \in Nat
    BY <2>1, <1>2
  <2>3. Matching(g, t, 0)
    BY <2>2 DEF Matching
  <2> QED BY <2>2, <2>3, <1>2 DEF Matched
<1>4. CASE Len(h) > 2
  <2>1. g = SubSeq(h, 3, Len(h))
    BY <1>4 DEF L!Reduced
  <2>2. /\ g \in Seq(Message) /\ Len(g) = Len(h) - 2
        /\ \A i \in 1..(Len(h) - 2) : g[i] = h[i + 2]
    <3>1. /\ SubSeq(h, 3, Len(h)) \in Seq(Message)
          /\ Len(SubSeq(h, 3, Len(h))) = Len(h) - 2
          /\ \A i \in 1..(Len(h) - 3 + 1) : SubSeq(h, 3, Len(h))[i] = h[3 + i - 1]
      BY <1>2, <1>4, SubSeqProperties
    <3>2. Len(h) - 3 + 1 = Len(h) - 2 /\ \A i \in 1..(Len(h) - 2) : 3 + i - 1 = i + 2
      BY <1>2
    <3> QED BY <2>1, <3>1, <3>2
  <2>3. n - 1 \in Nat /\ Len(g) = 2 * (n - 1) /\ n - 1 <= Len(t)
    <3>1. Len(g) = Len(h) - 2
      BY <2>2
    <3> QED BY <1>2, <1>4, <3>1
  <2>4. ASSUME NEW i \in 1..(n - 1)
        PROVE  /\ g[2 * i - 1] = [role |-> "user", question |-> t[Len(t) - (n - 1) + i]]
               /\ g[2 * i] = [role |-> "assistant", question |-> t[Len(t) - (n - 1) + i]]
    <3>1. i + 1 \in 1..n /\ Len(t) - n + (i + 1) = Len(t) - (n - 1) + i
      BY <1>2
    <3>2. /\ h[2 * (i + 1) - 1] = [role |-> "user", question |-> t[Len(t) - n + (i + 1)]]
          /\ h[2 * (i + 1)] = [role |-> "assistant", question |-> t[Len(t) - n + (i + 1)]]
      BY <3>1, <1>1 DEF Matching
    <3>3. g[2 * i - 1] = h[2 * (i + 1) - 1] /\ g[2 * i] = h[2 * (i + 1)]
      BY <1>2, <2>2
    <3> QED BY <3>1, <3>2, <3>3
  <2>5. Matching(g, t, n - 1)
    BY <2>3, <2>4 DEF Matching
  <2> QED BY <2>2, <2>3, <2>5, <1>2 DEF Matched
<1> QED BY <1>2, <1>3, <1>4

LlmOpen(q) == Asked(q) \/ Landed(q) \/ q \in lost

LEMMA TalksStand ==
  ASSUME LlmInv, UNCHANGED <<talks, said>>
  PROVE  TalkInv'
BY DEF LlmInv, TalkInv, L!LastTurns

LEMMA AskStep ==
  ASSUME L!LlmConstants, LlmInv, NEW chan \in Channels, NEW url \in Models, L!ask(chan, url)
  PROVE  LlmInv'
<1>1. /\ questions < MaxQuestions /\ questions' = questions + 1
      /\ UNCHANGED <<talks, arrived, resets, said, lost>>
  BY DEF L!ask
<1>2. PICK q : q = questions + 1
  OBVIOUS
<1>3. TalkInv'
  BY <1>1, TalksStand
<1>4. /\ questions \in Nat /\ MaxQuestions \in Nat /\ q \in 1..MaxQuestions
      /\ settled \in [1..MaxQuestions -> Nat] /\ settled[q] = 0
      /\ ~Asked(q) /\ ~Landed(q) /\ q \notin lost
  <2>1. questions \in Nat /\ MaxQuestions \in Nat /\ settled \in [1..MaxQuestions -> Nat]
    BY DEF LlmInv, LlmTypeInv, L!LlmConstants
  <2>2. q \in 1..MaxQuestions /\ q > questions /\ q \notin 1..questions
    BY <1>1, <1>2, <2>1
  <2>3. settled[q] = 0
    BY <2>2 DEF LlmInv, SettleInv
  <2>4. ~Asked(q) /\ ~Landed(q) /\ q \notin lost
    BY <2>2 DEF LlmInv, OncePending
  <2> QED BY <2>1, <2>2, <2>3, <2>4
<1>5. CASE url \in DOMAIN pending
  <2>1. settled' = [settled EXCEPT ![q] = @ + 1] /\ UNCHANGED pending
    BY <1>1, <1>2, <1>5 DEF L!ask, L!Settle
  <2>2. settled' \in [1..MaxQuestions -> Nat] /\ settled'[q] = 1
        /\ \A r \in 1..MaxQuestions : r # q => settled'[r] = settled[r]
    BY <1>4, <2>1
  <2>3. LlmTypeInv'
    BY <1>1, <1>4, <2>1, <2>2 DEF LlmInv, LlmTypeInv
  <2>4. OncePending'
    BY <1>1, <1>4, <2>1 DEF LlmInv, OncePending, Asked, Landed
  <2>5. SettleInv'
    BY <1>1, <1>2, <1>4, <2>1, <2>2 DEF LlmInv, SettleInv, Asked, Landed
  <2> QED BY <1>3, <2>3, <2>4, <2>5 DEF LlmInv
<1>6. CASE url \notin DOMAIN pending
  <2>0. PICK p : p = [channel |-> chan, question |-> q]
    OBVIOUS
  <2>1. pending' = L!With(pending, url, p) /\ UNCHANGED settled
    BY <1>1, <1>2, <1>6, <2>0 DEF L!ask
  <2>2. /\ DOMAIN pending' = DOMAIN pending \cup {url} /\ pending'[url] = p
        /\ \A t \in DOMAIN pending : pending'[t] = pending[t]
    BY <1>6, <2>1 DEF L!With
  <2>3. p \in Question /\ p.question = q
    BY <1>4, <2>0 DEF Question
  <2>4. LlmTypeInv'
    BY <1>1, <1>4, <2>1, <2>2, <2>3 DEF LlmInv, LlmTypeInv
  <2>5. /\ \A r : Landed(r)' <=> Landed(r)
        /\ \A r : Asked(r)' <=> Asked(r) \/ r = q
    BY <1>1, <2>2, <2>3 DEF Landed, Asked
  <2>6. \A t \in DOMAIN pending : pending[t].question # q
    BY <1>4 DEF Asked
  <2>7. /\ \A t, w \in DOMAIN pending' : pending'[t].question = pending'[w].question => t = w
        /\ \A r : Asked(r)' => ~Landed(r)' /\ r \notin lost'
    BY <1>1, <1>4, <2>2, <2>3, <2>5, <2>6 DEF LlmInv, OncePending
  <2>8. OncePending'
    BY <1>1, <1>2, <1>4, <2>5, <2>7 DEF LlmInv, OncePending
  <2>9. SettleInv'
    BY <1>1, <1>2, <1>4, <2>1, <2>5 DEF LlmInv, SettleInv
  <2> QED BY <1>3, <2>4, <2>8, <2>9 DEF LlmInv
<1> QED BY <1>5, <1>6

Added(r, q, n) ==
    /\ r \in Seq(Landing)
    /\ DOMAIN r = DOMAIN q \cup {Len(q) + 1} /\ Len(q) + 1 \notin DOMAIN q
    /\ r[Len(q) + 1] = n
    /\ \A i \in DOMAIN q : r[i] = q[i]

LEMMA AnswerAdded ==
  ASSUME NEW q \in Seq(Landing), NEW n \in Landing
  PROVE  Added(Append(q, n), q, n)
BY DEF Added

LEMMA LandStep ==
  ASSUME LlmInv, NEW url, NEW res \in {"answer", "too long", "error"}, L!Land(url, res)
  PROVE  LlmInv'
<1>0. PICK n : n = [channel |-> pending[url].channel, question |-> pending[url].question, res |-> res]
  OBVIOUS
<1>1. /\ url \in DOMAIN pending /\ arrived' = Append(arrived, n) /\ pending' = L!Without(pending, url)
      /\ UNCHANGED <<talks, questions, resets, said, settled, lost>>
  BY <1>0 DEF L!Land
<1>2. TalkInv'
  BY <1>1, TalksStand
<1>3. n \in Landing /\ n.question = pending[url].question
  <2>1. pending[url] \in Question
    BY <1>1 DEF LlmInv, LlmTypeInv
  <2>2. pending[url].channel \in Channels /\ pending[url].question \in Nat
    BY <2>1 DEF Question
  <2> QED BY <1>0, <2>2 DEF Landing
<1>4. /\ DOMAIN pending' = DOMAIN pending \ {url} /\ \A t \in DOMAIN pending' : pending'[t] = pending[t]
  BY <1>1 DEF L!Without
<1>5. /\ arrived \in Seq(Landing) /\ arrived' \in Seq(Landing)
      /\ DOMAIN arrived' = DOMAIN arrived \cup {Len(arrived) + 1} /\ Len(arrived) + 1 \notin DOMAIN arrived
      /\ arrived'[Len(arrived) + 1] = n
      /\ \A i \in DOMAIN arrived : arrived'[i] = arrived[i]
  <2>1. arrived \in Seq(Landing) /\ arrived' = Append(arrived, n)
    BY <1>1 DEF LlmInv, LlmTypeInv
  <2>2. Added(Append(arrived, n), arrived, n)
    BY <2>1, <1>3, AnswerAdded
  <2>3. Added(arrived', arrived, n)
    BY <2>1, <2>2
  <2> QED BY <2>1, <2>3 DEF Added
<1>6. LlmTypeInv'
  BY <1>1, <1>4, <1>5 DEF LlmInv, LlmTypeInv
<1>7. /\ \A q : Landed(q)' <=> Landed(q) \/ q = n.question
      /\ \A q : Asked(q)' => Asked(q) /\ q # n.question
      /\ \A q : Asked(q) => Asked(q)' \/ q = n.question
      /\ Asked(n.question)
  <2>1. \A q : Landed(q)' <=> Landed(q) \/ q = n.question
    BY <1>5 DEF Landed
  <2>2. \A q : Asked(q)' => Asked(q) /\ q # n.question
    BY <1>1, <1>3, <1>4 DEF Asked, LlmInv, OncePending
  <2>3. \A q : Asked(q) => Asked(q)' \/ q = n.question
    BY <1>3, <1>4 DEF Asked
  <2>4. Asked(n.question)
    BY <1>1, <1>3 DEF Asked
  <2> QED BY <2>1, <2>2, <2>3, <2>4
<1>8. ~Landed(n.question) /\ n.question \notin lost
  BY <1>7 DEF LlmInv, OncePending
<1>9. \A i \in DOMAIN arrived : arrived[i].question # n.question
  BY <1>8 DEF Landed
<1>10. /\ \A t, w \in DOMAIN pending' : pending'[t].question = pending'[w].question => t = w
       /\ \A i, j \in DOMAIN arrived' : arrived'[i].question = arrived'[j].question => i = j
       /\ \A i \in DOMAIN arrived' : arrived'[i].question \notin lost'
  <2>1. \A t, w \in DOMAIN pending' : pending'[t].question = pending'[w].question => t = w
    BY <1>4 DEF LlmInv, OncePending
  <2>2. \A i, j \in DOMAIN arrived : arrived[i].question = arrived[j].question => i = j
    BY DEF LlmInv, OncePending
  <2>3. \A i \in DOMAIN arrived : arrived'[i].question # n.question
    BY <1>5, <1>9
  <2>4. \A i \in DOMAIN arrived' : i \in DOMAIN arrived \/ arrived'[i] = n
    BY <1>5
  <2>5. \A i, j \in DOMAIN arrived' : arrived'[i].question = arrived'[j].question => i = j
    BY <1>5, <2>2, <2>3
  <2>6. \A i \in DOMAIN arrived : arrived[i].question \notin lost
    BY DEF LlmInv, OncePending
  <2>7. \A i \in DOMAIN arrived' : arrived'[i].question \notin lost'
    BY <1>1, <1>5, <1>8, <2>4, <2>6
  <2> QED BY <2>1, <2>5, <2>7
<1>11. \A q : Asked(q)' => ~Landed(q)' /\ q \notin lost'
  BY <1>1, <1>7 DEF LlmInv, OncePending
<1>12. OncePending'
  BY <1>1, <1>7, <1>10, <1>11 DEF LlmInv, OncePending
<1>13. SettleInv'
  BY <1>1, <1>7 DEF LlmInv, SettleInv
<1> QED BY <1>2, <1>6, <1>12, <1>13 DEF LlmInv

LEMMA TurnStep ==
  ASSUME L!LlmConstants, LlmInv, NEW chan \in Channels, NEW q \in Nat, NEW user, NEW assistant,
         TurnOf(user, assistant, q),
         talks' = [talks EXCEPT ![chan] = L!addHistory(L!addHistory(@, user), assistant)],
         said' = [said EXCEPT ![chan] = Append(@, q)]
  PROVE  /\ talks' \in [Channels -> Seq(Message)] /\ said' \in [Channels -> Seq(Nat)]
         /\ TalkInv'
<1>1. talks[chan] \in Seq(Message) /\ said[chan] \in Seq(Nat) /\ Len(talks[chan]) <= maxHistory
  BY DEF LlmInv, LlmTypeInv, TalkInv
<1>2. \A d \in Channels : Matched(talks[d], said[d])
  BY TalkMatched DEF LlmInv, LlmTypeInv, TalkInv
<1>3. PICK h : h = talks[chan]
  OBVIOUS
<1>4. PICK g1 : g1 = L!addHistory(h, user)
  OBVIOUS
<1>5. PICK g : g = L!addHistory(g1, assistant)
  OBVIOUS
<1>6. user \in Message /\ assistant \in Message
  BY DEF TurnOf, Message
<1>7. Pushed(g1, h, user)
  BY <1>1, <1>3, <1>4, <1>6, MessageAdded
<1>8. g1 \in Seq(Message) /\ Len(g1) <= maxHistory
  <2>1. maxHistory \in Nat /\ Len(h) \in Nat /\ Len(h) <= maxHistory
    BY <1>1, <1>3 DEF L!LlmConstants
  <2> QED BY <1>7, <2>1 DEF Pushed
<1>9. Pushed(g, g1, assistant)
  BY <1>5, <1>6, <1>8, MessageAdded
<1>10. Matched(g, Append(said[chan], q)) /\ g \in Seq(Message) /\ Len(g) <= maxHistory
  BY <1>1, <1>2, <1>3, <1>7, <1>9, TurnMatched
<1>11. /\ talks' = [talks EXCEPT ![chan] = g]
       /\ Append(said[chan], q) \in Seq(Nat)
  BY <1>1, <1>3, <1>4, <1>5
<1>12. talks' \in [Channels -> Seq(Message)] /\ said' \in [Channels -> Seq(Nat)]
  BY <1>10, <1>11 DEF LlmInv, LlmTypeInv
<1>13. ASSUME NEW d \in Channels PROVE L!LastTurns(d)' /\ Len(talks'[d]) <= maxHistory
  <2>1. Matched(talks'[d], said'[d]) /\ Len(talks'[d]) <= maxHistory
    <3>1. CASE d = chan
      <4>1. talks'[d] = g /\ said'[d] = Append(said[chan], q)
        BY <3>1, <1>11 DEF LlmInv, LlmTypeInv
      <4> QED BY <4>1, <1>10
    <3>2. CASE d # chan
      <4>1. talks'[d] = talks[d] /\ said'[d] = said[d]
        BY <3>2, <1>11 DEF LlmInv, LlmTypeInv
      <4> QED BY <4>1, <1>2 DEF LlmInv, TalkInv
    <3> QED BY <3>1, <3>2
  <2>2. talks'[d] \in Seq(Message) /\ said'[d] \in Seq(Nat)
    BY <1>12
  <2> QED BY <2>1, <2>2, MatchedTurns DEF L!LastTurns
<1> QED BY <1>12, <1>13 DEF TalkInv

LEMMA ReduceStep ==
  ASSUME L!LlmConstants, LlmInv, NEW chan \in Channels,
         talks' = [talks EXCEPT ![chan] = L!Reduced(@)], UNCHANGED said
  PROVE  /\ talks' \in [Channels -> Seq(Message)] /\ said' \in [Channels -> Seq(Nat)]
         /\ TalkInv'
<1>1. talks[chan] \in Seq(Message) /\ said[chan] \in Seq(Nat) /\ Len(talks[chan]) <= maxHistory
  BY DEF LlmInv, LlmTypeInv, TalkInv
<1>2. \A d \in Channels : Matched(talks[d], said[d])
  BY TalkMatched DEF LlmInv, LlmTypeInv, TalkInv
<1>3. PICK g : g = L!Reduced(talks[chan])
  OBVIOUS
<1>4. Matched(g, said[chan]) /\ g \in Seq(Message) /\ Len(g) <= maxHistory
  BY <1>1, <1>2, <1>3, ReducedMatched
<1>5. talks' = [talks EXCEPT ![chan] = g]
  BY <1>3
<1>6. talks' \in [Channels -> Seq(Message)] /\ said' \in [Channels -> Seq(Nat)]
  BY <1>4, <1>5 DEF LlmInv, LlmTypeInv
<1>7. ASSUME NEW d \in Channels PROVE L!LastTurns(d)' /\ Len(talks'[d]) <= maxHistory
  <2>1. Matched(talks'[d], said'[d]) /\ Len(talks'[d]) <= maxHistory
    BY <1>2, <1>4, <1>5 DEF LlmInv, LlmTypeInv, TalkInv
  <2>2. talks'[d] \in Seq(Message) /\ said'[d] \in Seq(Nat)
    BY <1>6
  <2> QED BY <2>1, <2>2, MatchedTurns DEF L!LastTurns
<1> QED BY <1>6, <1>7 DEF TalkInv

LEMMA ResultStep ==
  ASSUME L!LlmConstants, LlmInv, L!result
  PROVE  LlmInv'
<1>0. PICK q : q = Head(arrived).question
  OBVIOUS
<1>1. PICK chan : chan = Head(arrived).channel
  OBVIOUS
<1>2. /\ arrived # <<>> /\ arrived' = Tail(arrived) /\ settled' = [settled EXCEPT ![q] = @ + 1]
      /\ UNCHANGED <<pending, questions, resets, lost>>
  BY <1>0 DEF L!result, L!Settle
<1>3. arrived \in Seq(Landing) /\ Len(arrived) \in Nat /\ Len(arrived) > 0
  BY <1>2 DEF LlmInv, LlmTypeInv
<1>4. Head(arrived) = arrived[1] /\ arrived[1] \in Landing /\ 1 \in DOMAIN arrived
  BY <1>3
<1>5. chan \in Channels /\ q \in Nat /\ arrived[1].question = q /\ Landed(q)
  BY <1>0, <1>1, <1>4 DEF Landing, Landed
<1>6. /\ q \in 1..questions /\ q \in 1..MaxQuestions /\ ~Asked(q) /\ q \notin lost
      /\ settled[q] = 0 /\ settled \in [1..MaxQuestions -> Nat]
  <2>1. q \in 1..questions
    BY <1>5 DEF LlmInv, OncePending
  <2>2. /\ questions \in Nat /\ MaxQuestions \in Nat /\ questions <= MaxQuestions
        /\ settled \in [1..MaxQuestions -> Nat]
    BY DEF LlmInv, LlmTypeInv, L!LlmConstants
  <2>3. q \in 1..MaxQuestions
    BY <2>1, <2>2
  <2>4. ~Asked(q)
    BY <1>5 DEF LlmInv, OncePending
  <2>5. q \notin lost
    BY <1>4, <1>5 DEF LlmInv, OncePending
  <2>6. settled[q] = 0
    BY <1>5, <2>1 DEF LlmInv, SettleInv
  <2> QED BY <2>1, <2>2, <2>3, <2>4, <2>5, <2>6
<1>7. /\ settled' \in [1..MaxQuestions -> Nat] /\ settled'[q] = 1
      /\ \A r \in 1..MaxQuestions : r # q => settled'[r] = settled[r]
  BY <1>2, <1>6
<1>8. /\ arrived' \in Seq(Landing)
      /\ \A i \in DOMAIN arrived' : i + 1 \in DOMAIN arrived /\ arrived'[i] = arrived[i + 1]
                                   /\ i + 1 # 1 /\ i \in Nat
      /\ \A i \in DOMAIN arrived : i # 1 => i - 1 \in DOMAIN arrived' /\ arrived'[i - 1] = arrived[i]
  BY <1>2, <1>3
<1>9. /\ \A r : Landed(r)' => Landed(r)
      /\ \A r : Landed(r) => Landed(r)' \/ r = q
  <2>1. ASSUME NEW r, NEW i \in DOMAIN arrived', arrived'[i].question = r PROVE Landed(r)
    <3>1. i + 1 \in DOMAIN arrived /\ arrived[i + 1].question = r
      BY <1>8, <2>1
    <3> QED BY <3>1 DEF Landed
  <2>2. ASSUME NEW r, r # q, NEW i \in DOMAIN arrived, arrived[i].question = r PROVE Landed(r)'
    <3>1. i # 1
      BY <1>5, <2>2
    <3>2. i - 1 \in DOMAIN arrived' /\ arrived'[i - 1].question = r
      BY <1>8, <2>2, <3>1
    <3> QED BY <3>2 DEF Landed
  <2>3. \A r : Landed(r)' => Landed(r)
    BY <2>1 DEF Landed
  <2>4. \A r : Landed(r) => Landed(r)' \/ r = q
    BY <2>2 DEF Landed
  <2> QED BY <2>3, <2>4
<1>10. ~Landed(q)'
  <2> SUFFICES ASSUME NEW i \in DOMAIN arrived', arrived'[i].question = q PROVE FALSE
    BY DEF Landed
  <2>1. i + 1 \in DOMAIN arrived /\ arrived[i + 1].question = arrived[1].question /\ i + 1 # 1
    BY <1>5, <1>8
  <2> QED BY <1>4, <2>1 DEF LlmInv, OncePending
<1>11. \A r : Asked(r)' <=> Asked(r)
  BY <1>2 DEF Asked
<1>12. OncePending'
  <2>1. \A i, j \in DOMAIN arrived' : arrived'[i].question = arrived'[j].question => i = j
    <3> SUFFICES ASSUME NEW i \in DOMAIN arrived', NEW j \in DOMAIN arrived',
                        arrived'[i].question = arrived'[j].question
                 PROVE  i = j
      OBVIOUS
    <3>1. i + 1 = j + 1 /\ i \in Nat /\ j \in Nat
      BY <1>8 DEF LlmInv, OncePending
    <3> QED BY <3>1
  <2>2. \A i \in DOMAIN arrived' : arrived'[i].question \notin lost'
    BY <1>2, <1>8 DEF LlmInv, OncePending
  <2> QED BY <1>2, <1>9, <1>11, <2>1, <2>2 DEF LlmInv, OncePending
<1>13. SettleInv'
  BY <1>2, <1>6, <1>7, <1>9, <1>10, <1>11 DEF LlmInv, SettleInv, LlmTypeInv
<1>14. /\ talks' \in [Channels -> Seq(Message)] /\ said' \in [Channels -> Seq(Nat)]
       /\ TalkInv'
  <2>0. PICK user : user = [role |-> "user", question |-> q]
    OBVIOUS
  <2>1. PICK assistant : assistant = [role |-> "assistant", question |-> q]
    OBVIOUS
  <2>2. CASE /\ talks' = [talks EXCEPT ![chan] = L!addHistory(L!addHistory(@, user), assistant)]
             /\ said' = [said EXCEPT ![chan] = Append(@, q)]
    <3>1. TurnOf(user, assistant, q)
      BY <2>0, <2>1 DEF TurnOf
    <3> QED BY <1>5, <2>2, <3>1, TurnStep
  <2>3. CASE talks' = [talks EXCEPT ![chan] = L!Reduced(@)] /\ UNCHANGED said
    BY <1>5, <2>3, ReduceStep
  <2>4. CASE UNCHANGED <<talks, said>>
    BY <2>4, TalksStand DEF LlmInv, LlmTypeInv
  <2> QED BY <1>0, <1>1, <2>0, <2>1, <2>2, <2>3, <2>4 DEF L!result
<1>15. LlmTypeInv'
  BY <1>2, <1>7, <1>8, <1>14 DEF LlmInv, LlmTypeInv
<1> QED BY <1>12, <1>13, <1>14, <1>15 DEF LlmInv

LEMMA LlmRestartStep ==
  ASSUME L!LlmConstants, LlmInv, L!Restart
  PROVE  LlmInv'
<1>1. /\ talks' = [chan \in Channels |-> <<>>]
      /\ DOMAIN pending' = {} /\ arrived' = <<>>
      /\ UNCHANGED <<questions, said, settled>>
  BY DEF L!Restart
<1>2. \A q : q \in lost' <=> LlmOpen(q)
  BY DEF L!Restart, LlmOpen, Asked, Landed
<1>3. \A q : ~Asked(q)' /\ ~Landed(q)'
  BY <1>1 DEF Asked, Landed
<1>4. OncePending'
  BY <1>1, <1>2, <1>3 DEF LlmInv, OncePending, LlmOpen
<1>5. SettleInv'
  BY <1>1, <1>2, <1>3 DEF LlmInv, SettleInv, LlmOpen
<1>6. <<>> \in Seq(Message) /\ <<>> \in Seq(Landing) /\ Len(<<>>) = 2 * 0 /\ Len(<<>>) <= maxHistory
  BY DEF L!LlmConstants
<1>7. LlmTypeInv'
  BY <1>1, <1>6 DEF LlmInv, LlmTypeInv
<1>8. ASSUME NEW chan \in Channels PROVE L!LastTurns(chan)' /\ Len(talks'[chan]) <= maxHistory
  <2>1. talks'[chan] = <<>> /\ said'[chan] \in Seq(Nat)
    BY <1>1 DEF LlmInv, LlmTypeInv
  <2>2. Matching(<<>>, said'[chan], 0)
    BY <1>6, <2>1 DEF Matching
  <2>3. Matched(<<>>, said'[chan])
    BY <2>2 DEF Matched
  <2> QED BY <1>6, <2>1, <2>3, MatchedTurns DEF L!LastTurns
<1> QED BY <1>4, <1>5, <1>7, <1>8 DEF LlmInv, TalkInv

LEMMA InitLlm ==
  ASSUME L!LlmConstants, L!Init
  PROVE  LlmInv
<1>1. \A q : ~Asked(q) /\ ~Landed(q) /\ q \notin lost
  BY DEF L!Init, Asked, Landed
<1>2. OncePending /\ SettleInv
  BY <1>1 DEF L!Init, OncePending, SettleInv
<1>3. <<>> \in Seq(Message) /\ <<>> \in Seq(Nat) /\ <<>> \in Seq(Landing)
      /\ Len(<<>>) = 2 * 0 /\ Len(<<>>) <= maxHistory
  BY DEF L!LlmConstants
<1>4. LlmTypeInv
  BY <1>3 DEF L!Init, LlmTypeInv, L!LlmConstants
<1>5. ASSUME NEW chan \in Channels PROVE L!LastTurns(chan) /\ Len(talks[chan]) <= maxHistory
  <2>1. talks[chan] = <<>> /\ said[chan] = <<>>
    BY DEF L!Init
  <2>2. Matching(<<>>, <<>>, 0)
    BY <1>3 DEF Matching
  <2>3. Matched(<<>>, <<>>)
    BY <2>2 DEF Matched
  <2> QED BY <1>3, <2>1, <2>3, MatchedTurns DEF L!LastTurns
<1> QED BY <1>2, <1>4, <1>5 DEF LlmInv, TalkInv

LEMMA LlmNextStep ==
  ASSUME L!LlmConstants, LlmInv, [L!Next]_L!vars
  PROVE  LlmInv'
<1>1. CASE \E chan \in Channels, url \in Models : L!ask(chan, url)
  BY <1>1, AskStep
<1>2. CASE \E url \in Models, res \in {"answer", "too long", "error"} : L!Land(url, res)
  BY <1>2, LandStep
<1>3. CASE L!result
  BY <1>3, ResultStep
<1>4. CASE L!Restart
  BY <1>4, LlmRestartStep
<1>5. CASE UNCHANGED L!vars
  BY <1>5 DEF L!vars, LlmInv, LlmTypeInv, TalkInv, L!LastTurns, OncePending, SettleInv, Asked, Landed
<1> QED BY <1>1, <1>2, <1>3, <1>4, <1>5 DEF L!Next

LEMMA LlmInvHolds == LlmInv => L!TurnsPaired
<1> SUFFICES ASSUME LlmInv PROVE L!TurnsPaired
  OBVIOUS
<1>1. \A q : q \in L!Waiting \cup lost <=> LlmOpen(q)
  BY DEF L!Waiting, LlmOpen, Asked, Landed
<1>2. \A q \in 1..questions : settled[q] = IF q \in L!Waiting \cup lost THEN 0 ELSE 1
  BY <1>1 DEF LlmInv, SettleInv, LlmOpen
<1> QED BY <1>2 DEF LlmInv, TalkInv, L!TurnsPaired

(* For any channels, models and limits, whatever is asked and comes back,  *)
(* in any order: what goes along with a question is the channel's last     *)
(* turns, each a question and its own answer; and a question is settled    *)
(* once, unless it still waits or a restart took it (addHistory,           *)
(* handleError, the callback of runLater).                                 *)
THEOREM LlmTurnsPaired == ASSUME L!LlmConstants PROVE L!Spec => []L!TurnsPaired
<1>1. L!Init => LlmInv
  BY InitLlm
<1>2. LlmInv /\ [L!Next]_L!vars => LlmInv'
  BY LlmNextStep
<1>3. LlmInv => L!TurnsPaired
  BY LlmInvHolds
<1> QED BY <1>1, <1>2, <1>3, PTL DEF L!Spec

(***************************************************************************)
(* Weather: lookups are answered once, alerts told once.  Every lookup asked *)
(* is in one place: the one in hand, a request, an answer in the queue, lost *)
(* to a url being fetched, or answered.  An alert told is marked, its mark *)
(* was lost in a crash, or it is over and not published again; a mark is kept *)
(* as long as its alert is in force.                                       *)
(***************************************************************************)
JobFields == {"id", "kind", "nick", "place", "on", "needs"}
JobOK(job) == /\ DOMAIN job = JobFields
              /\ job.kind = "poll" => job.needs = <<W!Need(W!warn)>>

LookupAsked(ask, id) == \E url \in DOMAIN ask : ask[url].id = id
LookupLanded(land, id) == \E i \in DOMAIN land : land[i].job.id = id

(* Of the lookups 0..n - 1 each is in one place, at most one of them, h,   *)
(* in hand.                                                                *)
LookupOnce(ask, land, given, ref, n, h) ==
    /\ \A t, url \in DOMAIN ask : ask[t].id = ask[url].id /\ ask[t].id # W!NoJob => t = url
    /\ \A i, j \in DOMAIN land :
          land[i].job.id = land[j].job.id /\ land[i].job.id # W!NoJob => i = j
    /\ \A id : LookupAsked(ask, id) /\ id # W!NoJob => ~LookupLanded(land, id) /\ id \notin ref /\ given[id] = 0
    /\ \A id : LookupLanded(land, id) /\ id # W!NoJob => id \notin ref /\ given[id] = 0
    /\ \A id \in ref : given[id] = 0
    /\ \A id : LookupAsked(ask, id) \/ LookupLanded(land, id) => id = W!NoJob \/ id \in 0 .. n - 1
    /\ ref \subseteq 0 .. n - 1
    /\ \A id \in 0 .. n - 1 :
          id = h \/ LookupAsked(ask, id) \/ LookupLanded(land, id) \/ id \in ref \/ given[id] = 1
    /\ h # W!NoJob => h \in 0 .. n - 1 /\ given[h] = 0 /\ ~LookupAsked(ask, h) /\ ~LookupLanded(land, h) /\ h \notin ref
    /\ given \in [0 .. MaxEvents - 1 -> Nat]
    /\ \A id \in 0 .. MaxEvents - 1 : id >= n => given[id] = 0

LEMMA DoneOnce ==
  ASSUME NEW ask, NEW land, NEW given, NEW ref, NEW n \in Nat, NEW h,
         n <= MaxEvents, MaxEvents \in Nat, LookupOnce(ask, land, given, ref, n, h),
         NEW told1, told1 = IF h = W!NoJob THEN given ELSE [given EXCEPT ![h] = @ + 1]
  PROVE  LookupOnce(ask, land, told1, ref, n, W!NoJob)
<1>1. CASE h = W!NoJob
  BY <1>1 DEF LookupOnce
<1>2. CASE h # W!NoJob
  <2>1. /\ h \in 0 .. n - 1 /\ given[h] = 0 /\ ~LookupAsked(ask, h) /\ ~LookupLanded(land, h) /\ h \notin ref
        /\ given \in [0 .. MaxEvents - 1 -> Nat] /\ h \in 0 .. MaxEvents - 1
    BY <1>2 DEF LookupOnce
  <2>2. /\ told1 \in [0 .. MaxEvents - 1 -> Nat] /\ told1[h] = 1
        /\ \A id : id # h => told1[id] = given[id]
    BY <1>2, <2>1
  <2> QED BY <1>2, <2>1, <2>2 DEF LookupOnce
<1> QED BY <1>1, <1>2

LEMMA RefusedOnce ==
  ASSUME NEW ask, NEW land, NEW given, NEW ref, NEW n \in Nat, NEW h,
         LookupOnce(ask, land, given, ref, n, h),
         NEW ref1, ref1 = ref \cup ({h} \ {W!NoJob})
  PROVE  LookupOnce(ask, land, given, ref1, n, W!NoJob)
<1>1. \A id : id \in ref1 <=> id \in ref \/ (id = h /\ h # W!NoJob)
  OBVIOUS
<1> QED BY <1>1 DEF LookupOnce

LEMMA AskedOnce ==
  ASSUME NEW ask, NEW land, NEW given, NEW ref, NEW n \in Nat, NEW h,
         LookupOnce(ask, land, given, ref, n, h), NEW url, url \notin DOMAIN ask,
         NEW job, job.id = h, NEW ask1, ask1 = W!With(ask, url, job)
  PROVE  LookupOnce(ask1, land, given, ref, n, W!NoJob)
<1>1. /\ DOMAIN ask1 = DOMAIN ask \cup {url} /\ ask1[url].id = h
      /\ \A t \in DOMAIN ask : ask1[t].id = ask[t].id
  BY DEF W!With
<1>2. \A id : LookupAsked(ask1, id) <=> LookupAsked(ask, id) \/ id = h
  BY <1>1 DEF LookupAsked
<1>3. h # W!NoJob => \A t \in DOMAIN ask : ask[t].id # h
  BY DEF LookupOnce, LookupAsked
<1>4. \A t, w \in DOMAIN ask1 : ask1[t].id = ask1[w].id /\ ask1[t].id # W!NoJob => t = w
  BY <1>1, <1>3 DEF LookupOnce
<1> QED BY <1>2, <1>4 DEF LookupOnce

(* What the lookup in hand comes to.                                       *)
LEMMA AnswerOnce ==
  ASSUME NEW land, NEW n \in Nat, NEW h, n <= MaxEvents, MaxEvents \in Nat,
         LookupOnce(asked, land, replies, refused, n, h), NEW job, job.id = h,
         W!Answer(job), UNCHANGED asked
  PROVE  LookupOnce(asked', land, replies', refused', n, W!NoJob)
<1>1. replies' = IF h = W!NoJob THEN replies ELSE [replies EXCEPT ![h] = @ + 1]
  BY DEF W!Answer
<1>2. refused' = refused /\ asked' = asked
  BY DEF W!Answer
<1>3. LookupOnce(asked, land, replies', refused, n, W!NoJob)
  BY <1>1, DoneOnce
<1> QED BY <1>2, <1>3

LEMMA AskOnce ==
  ASSUME NEW land, NEW n \in Nat, NEW h,
         LookupOnce(asked, land, replies, refused, n, h), NEW job, job.id = h, NEW url, W!Ask(url, job)
  PROVE  LookupOnce(asked', land, replies', refused', n, W!NoJob)
<1>1. CASE url \in DOMAIN asked
  <2>1. refused' = refused \cup ({h} \ {W!NoJob}) /\ asked' = asked /\ replies' = replies
    BY <1>1 DEF W!Ask
  <2>2. LookupOnce(asked, land, replies, refused', n, W!NoJob)
    BY <2>1, RefusedOnce
  <2> QED BY <2>1, <2>2
<1>2. CASE url \notin DOMAIN asked
  <2>1. asked' = W!With(asked, url, job) /\ refused' = refused /\ replies' = replies
    BY <1>2 DEF W!Ask
  <2>2. LookupOnce(asked', land, replies, refused, n, W!NoJob)
    BY <1>2, <2>1, AskedOnce
  <2> QED BY <2>1, <2>2
<1> QED BY <1>1, <1>2

LEMMA ProceedOnce ==
  ASSUME NEW land, NEW n \in Nat, NEW h, n <= MaxEvents, MaxEvents \in Nat,
         LookupOnce(asked, land, replies, refused, n, h),
         NEW job, DOMAIN job = JobFields, job.id = h, W!Proceed(job)
  PROVE  LookupOnce(asked', land, replies', refused', n, W!NoJob)
<1>1. CASE W!Done(job)
  <2>1. W!Answer(job) /\ UNCHANGED asked
    BY <1>1 DEF W!Done
  <2> QED BY <2>1, AnswerOnce
<1>2. ASSUME NEW url, NEW rest, W!Ask(url, [job EXCEPT !.needs = rest])
      PROVE  LookupOnce(asked', land, replies', refused', n, W!NoJob)
  <2>1. PICK other : other = [job EXCEPT !.needs = rest]
    OBVIOUS
  <2>2. other.id = h
    BY <2>1 DEF JobFields
  <2>3. W!Ask(url, other)
    BY <1>2, <2>1
  <2> QED BY <2>2, <2>3, AskOnce
<1>3. W!Done(job) \/ \E url, rest : W!Ask(url, [job EXCEPT !.needs = rest])
  BY Zenon DEF W!Proceed
<1> QED BY <1>1, <1>2, <1>3

LEMMA ApologiseOnce ==
  ASSUME NEW land, NEW n \in Nat, NEW h, n <= MaxEvents, MaxEvents \in Nat,
         LookupOnce(asked, land, replies, refused, n, h),
         NEW job, DOMAIN job = JobFields, job.id = h, W!Apologise(job)
  PROVE  LookupOnce(asked', land, replies', refused', n, W!NoJob)
<1>1. CASE W!Answer(job) /\ UNCHANGED asked
  BY <1>1, AnswerOnce
<1>2. ASSUME NEW needs, W!Proceed([job EXCEPT !.needs = needs])
      PROVE  LookupOnce(asked', land, replies', refused', n, W!NoJob)
  <2>1. PICK other : other = [job EXCEPT !.needs = needs]
    OBVIOUS
  <2>2. other.id = h /\ DOMAIN other = JobFields
    BY <2>1 DEF JobFields
  <2>3. W!Proceed(other)
    BY <1>2, <2>1
  <2> QED BY <2>2, <2>3, ProceedOnce
<1>3. (W!Answer(job) /\ UNCHANGED asked) \/ \E needs : W!Proceed([job EXCEPT !.needs = needs])
  BY Zenon DEF W!Apologise
<1> QED BY <1>1, <1>2, <1>3

(***************************************************************************)
(* The inductive invariant                                                 *)
(***************************************************************************)
LookupJobs(ask, land) ==
    /\ \A url \in DOMAIN ask : JobOK(ask[url])
    /\ \A i \in DOMAIN land : JobOK(land[i].job)

LookupCounts == /\ asks \in Nat /\ events \in Nat /\ asks <= events /\ events <= MaxEvents
                /\ \E X : landed \in Seq(X)

(* An alert marked is one published, and in force no longer than its mark. *)
InForce(s) == \A w \in DOMAIN s : /\ s[w] \in Int /\ w \in DOMAIN alerts
                                  /\ alerts[w] <= s[w] + Life

AlertMarks ==
    /\ clock \in Nat
    /\ ~unsaved => seenStored = seen
    /\ InForce(seen) /\ InForce(seenStored)
    /\ \A w \in DOMAIN alerts : alerts[w] \in Int /\ alerts[w] <= clock + Life
    /\ \A w \in warned : /\ w \in DOMAIN alerts
                         /\ w \in DOMAIN seen \/ w \in unmarked \/ alerts[w] < clock
    /\ retold \subseteq unmarked

LookupsOnce == LookupOnce(asked, landed, replies, refused, asks, W!NoJob)

WeatherInv == LookupCounts /\ LookupJobs(asked, landed) /\ LookupsOnce /\ AlertMarks

LEMMA WeatherSizes == /\ MaxEvents \in Nat /\ Life \in Nat /\ Forget \in Nat /\ Life <= Forget
                      /\ warnTTL \in Nat
BY WeatherAssumption DEF W!WeatherConstants

(***************************************************************************)
(* A lookup that is no poll                                                *)
(***************************************************************************)
LEMMA ProceedOther ==
  ASSUME NEW land, NEW job, DOMAIN job = JobFields, job.kind # "poll", W!Proceed(job),
         LookupJobs(asked, land)
  PROVE  LookupJobs(asked', land) /\ UNCHANGED W!marks
<1>1. CASE W!Done(job)
  BY <1>1 DEF W!Done
<1>2. ASSUME NEW url, NEW rest, W!Ask(url, [job EXCEPT !.needs = rest])
      PROVE  LookupJobs(asked', land) /\ UNCHANGED W!marks
  <2>1. PICK other : other = [job EXCEPT !.needs = rest]
    OBVIOUS
  <2>2. JobOK(other)
    BY <2>1 DEF JobFields, JobOK
  <2>3. W!Ask(url, other)
    BY <1>2, <2>1
  <2>4. UNCHANGED W!marks /\ (asked' = W!With(asked, url, other) \/ asked' = asked)
    BY <2>3 DEF W!Ask
  <2> QED BY <2>2, <2>4 DEF LookupJobs, W!With
<1>3. W!Done(job) \/ \E url, rest : W!Ask(url, [job EXCEPT !.needs = rest])
  BY Zenon DEF W!Proceed
<1> QED BY <1>1, <1>2, <1>3

LEMMA ApologiseOther ==
  ASSUME NEW land, NEW job, DOMAIN job = JobFields, job.kind # "poll", W!Apologise(job),
         LookupJobs(asked, land)
  PROVE  LookupJobs(asked', land) /\ UNCHANGED W!marks
<1>1. CASE UNCHANGED <<asked, W!own, W!marks>>
  BY <1>1
<1>2. ASSUME NEW needs, W!Proceed([job EXCEPT !.needs = needs])
      PROVE  LookupJobs(asked', land) /\ UNCHANGED W!marks
  <2>1. PICK other : other = [job EXCEPT !.needs = needs]
    OBVIOUS
  <2>2. other.kind # "poll" /\ DOMAIN other = JobFields
    BY <2>1 DEF JobFields
  <2>3. W!Proceed(other)
    BY <1>2, <2>1
  <2> QED BY <2>2, <2>3, ProceedOther
<1>3. (UNCHANGED <<asked, W!own, W!marks>>) \/ \E needs : W!Proceed([job EXCEPT !.needs = needs])
  BY Zenon DEF W!Apologise
<1> QED BY <1>1, <1>2, <1>3

(***************************************************************************)
(* The poll                                                                *)
(***************************************************************************)
LEMMA PollJob == JobOK(W!checkWarnings) /\ W!checkWarnings.id = W!NoJob /\ W!checkWarnings.kind = "poll"
BY DEF JobOK, JobFields, W!checkWarnings, W!Job

LEMMA PollAsks ==
  ASSUME warnAt' = W!Never, W!Proceed(W!checkWarnings), NEW land, LookupJobs(asked, land)
  PROVE  LookupJobs(asked', land) /\ UNCHANGED W!marks
<1>1. PICK job : job = W!checkWarnings
  OBVIOUS
<1>2. JobOK(job) /\ job.id = W!NoJob /\ job.needs = <<W!Need(W!warn)>> /\ W!Proceed(job)
  BY <1>1, PollJob DEF JobOK
<1>3. /\ DOMAIN job.needs = {1} /\ job.needs[1].url = W!warn
      /\ SubSeq(job.needs, 1, Len(job.needs)) = job.needs
  <2>1. PICK need : need = W!Need(W!warn)
    OBVIOUS
  <2>2. need.url = W!warn
    BY <2>1 DEF W!Need
  <2>3. job.needs = <<need>>
    BY <1>2, <2>1
  <2>4. job.needs \in Seq({need}) /\ Len(job.needs) = 1 /\ job.needs[1] = need
    BY <2>3
  <2>5. SubSeq(job.needs, 1, Len(job.needs)) = job.needs
    BY <2>4, SubSeqFull
  <2> QED BY <2>2, <2>4, <2>5
<1>4. W!AtHand(W!warn)' = FALSE
  BY DEF W!AtHand, W!warn, W!Current
<1>5. {i \in DOMAIN job.needs : ~W!AtHand(job.needs[i].url)'} = {1}
  BY <1>3, <1>4
<1>6. (CHOOSE i \in {1} : \A j \in {1} : i <= j) = 1
  OBVIOUS
<1>7. W!Ask(job.needs[1].url, [job EXCEPT !.needs = job.needs])
  <2>1. PICK missing : missing = {i \in DOMAIN job.needs : ~W!AtHand(job.needs[i].url)'}
    OBVIOUS
  <2>2. PICK first : first = CHOOSE i \in missing : \A j \in missing : i <= j
    OBVIOUS
  <2>3. missing # {} /\ first = 1
    BY <1>5, <1>6, <2>1, <2>2
  <2>4. missing # {} => LET rest == SubSeq(job.needs, first, Len(job.needs)) IN
                        W!Ask(rest[1].url, [job EXCEPT !.needs = rest])
    BY Zenon, <1>2, <2>1, <2>2 DEF W!Proceed
  <2> QED BY <1>3, <2>3, <2>4
<1>8. JobOK([job EXCEPT !.needs = job.needs])
  BY <1>2 DEF JobOK, JobFields
<1>9. PICK other : JobOK(other) /\ W!Ask(W!warn, other)
  BY <1>3, <1>7, <1>8
<1>10. UNCHANGED W!marks /\ (asked' = W!With(asked, W!warn, other) \/ asked' = asked)
  BY <1>9 DEF W!Ask
<1> QED BY <1>9, <1>10 DEF LookupJobs, W!With

LEMMA PollTells ==
  ASSUME NEW job, DOMAIN job = JobFields, job.kind = "poll", job.needs = <<>>, W!Proceed(job)
  PROVE  W!Done(job)
<1>1. {i \in DOMAIN job.needs : ~W!AtHand(job.needs[i].url)'} = {}
  OBVIOUS
<1> QED BY <1>1 DEF W!Proceed

(***************************************************************************)
(* Where the lookups are after each step                                   *)
(***************************************************************************)
LEMMA HandOnce ==
  ASSUME NEW X, NEW land \in Seq(X), land # <<>>, NEW n \in Nat, NEW ask, NEW given, NEW ref,
         LookupOnce(ask, land, given, ref, n, W!NoJob)
  PROVE  LookupOnce(ask, Tail(land), given, ref, n, land[1].job.id)
<1> DEFINE rest == Tail(land)
           h == land[1].job.id
<1>1. /\ Len(land) \in Nat \ {0} /\ DOMAIN land = 1 .. Len(land)
      /\ DOMAIN rest = 1 .. Len(land) - 1
      /\ \A i \in 1 .. Len(land) - 1 : rest[i] = land[i + 1]
  OBVIOUS
<1> HIDE DEF rest
<1>2. \A id : LookupLanded(rest, id) <=> \E i \in 2 .. Len(land) : land[i].job.id = id
  <2>1. \A i \in 2 .. Len(land) : i - 1 \in 1 .. Len(land) - 1 /\ rest[i - 1] = land[i]
    BY <1>1
  <2>2. \A i \in 1 .. Len(land) - 1 : i + 1 \in 2 .. Len(land)
    BY <1>1
  <2> QED BY <1>1, <2>1, <2>2 DEF LookupLanded
<1>3. LookupLanded(land, h)
  BY <1>1 DEF LookupLanded
<1>4. \A i, j \in DOMAIN land :
          land[i].job.id = land[j].job.id /\ land[i].job.id # W!NoJob => i = j
  BY DEF LookupOnce
<1>5. \A id : LookupLanded(land, id) <=> LookupLanded(rest, id) \/ id = h
  <2>1. 1 \in DOMAIN land /\ land[1].job.id = h
    BY <1>1
  <2>2. \A i \in DOMAIN land : i = 1 \/ i \in 2 .. Len(land)
    BY <1>1
  <2>3. \A i \in 2 .. Len(land) : i \in DOMAIN land
    BY <1>1
  <2> HIDE DEF h
  <2> QED BY <1>2, <2>1, <2>2, <2>3 DEF LookupLanded
<1>6. h # W!NoJob => ~LookupLanded(rest, h)
  BY <1>1, <1>2, <1>4
<1>7. \A i, j \in DOMAIN rest :
          rest[i].job.id = rest[j].job.id /\ rest[i].job.id # W!NoJob => i = j
  <2>1. \A i \in DOMAIN rest : i \in Int /\ i + 1 \in DOMAIN land /\ rest[i] = land[i + 1]
    BY <1>1
  <2> QED BY <1>4, <2>1
<1>8. h # W!NoJob => h \in 0 .. n - 1 /\ given[h] = 0 /\ ~LookupAsked(ask, h) /\ h \notin ref
  BY <1>3 DEF LookupOnce
<1> HIDE DEF h
<1>9. LookupOnce(ask, rest, given, ref, n, h)
  <2>1. \A id : LookupLanded(rest, id) => LookupLanded(land, id)
    BY <1>5
  <2>2. \A id \in 0 .. n - 1 :
          id = h \/ LookupAsked(ask, id) \/ LookupLanded(rest, id) \/ id \in ref \/ given[id] = 1
    <3>1. \A id \in 0 .. n - 1 :
            id = W!NoJob \/ LookupAsked(ask, id) \/ LookupLanded(land, id) \/ id \in ref \/ given[id] = 1
      BY DEF LookupOnce
    <3> QED BY <1>5, <3>1 DEF W!NoJob
  <2> QED BY <1>6, <1>7, <1>8, <2>1, <2>2 DEF LookupOnce
<1> QED BY <1>9 DEF rest, h

LEMMA LandOnce ==
  ASSUME NEW X, NEW land \in Seq(X), NEW n \in Nat, NEW ask, NEW given, NEW ref,
         LookupOnce(ask, land, given, ref, n, W!NoJob), NEW url \in DOMAIN ask,
         NEW answer, answer.job = ask[url],
         NEW ask1, ask1 = W!Without(ask, {url}), NEW land1, land1 = Append(land, answer)
  PROVE  LookupOnce(ask1, land1, given, ref, n, W!NoJob)
<1>1. /\ Len(land) \in Nat /\ DOMAIN land = 1 .. Len(land) /\ DOMAIN land1 = 1 .. Len(land) + 1
      /\ land1[Len(land) + 1] = answer /\ \A i \in 1 .. Len(land) : land1[i] = land[i]
  OBVIOUS
<1>2. /\ \A t \in DOMAIN ask1 : t \in DOMAIN ask /\ t # url /\ ask1[t] = ask[t]
      /\ \A t \in DOMAIN ask : t = url \/ t \in DOMAIN ask1
  BY DEF W!Without
<1> DEFINE h == ask[url].id
<1>3. \A id : LookupLanded(land1, id) <=> LookupLanded(land, id) \/ id = h
  <2>1. \A i \in DOMAIN land1 : i \in DOMAIN land \/ i = Len(land) + 1
    BY <1>1
  <2>2. \A i \in DOMAIN land : i \in DOMAIN land1 /\ land1[i] = land[i]
    BY <1>1
  <2>3. Len(land) + 1 \in DOMAIN land1 /\ land1[Len(land) + 1].job.id = h
    BY <1>1
  <2> QED BY <2>1, <2>2, <2>3 DEF LookupLanded
<1>4. \A id : LookupAsked(ask, id) <=> LookupAsked(ask1, id) \/ id = h
  BY <1>2 DEF LookupAsked
<1>5. h # W!NoJob => /\ ~LookupAsked(ask1, h) /\ ~LookupLanded(land, h) /\ h \notin ref /\ given[h] = 0
                     /\ h \in 0 .. n - 1
  BY <1>2 DEF LookupAsked, LookupOnce
<1>6. \A t, w \in DOMAIN ask1 : ask1[t].id = ask1[w].id /\ ask1[t].id # W!NoJob => t = w
  <2>1. \A t, w \in DOMAIN ask : ask[t].id = ask[w].id /\ ask[t].id # W!NoJob => t = w
    BY DEF LookupOnce
  <2>2. SUFFICES ASSUME NEW t \in DOMAIN ask1, NEW w \in DOMAIN ask1,
                        ask1[t].id = ask1[w].id, ask1[t].id # W!NoJob
                 PROVE  t = w
    OBVIOUS
  <2>3. t \in DOMAIN ask /\ w \in DOMAIN ask /\ ask1[t] = ask[t] /\ ask1[w] = ask[w]
    BY <1>2
  <2> QED BY <2>1, <2>2, <2>3
<1>7. \A i, j \in DOMAIN land1 :
          land1[i].job.id = land1[j].job.id /\ land1[i].job.id # W!NoJob => i = j
  <2>1. \A i \in DOMAIN land : h # W!NoJob => land[i].job.id # h
    BY <1>5 DEF LookupLanded
  <2>2. \A i, j \in DOMAIN land :
          land[i].job.id = land[j].job.id /\ land[i].job.id # W!NoJob => i = j
    BY DEF LookupOnce
  <2>3. \A i \in DOMAIN land1 : \/ i \in DOMAIN land /\ land1[i] = land[i]
                                \/ i = Len(land) + 1 /\ land1[i].job.id = h
    BY <1>1
  <2> QED BY <2>1, <2>2, <2>3
<1> HIDE DEF h
<1> QED BY <1>3, <1>4, <1>5, <1>6, <1>7 DEF LookupOnce

LEMMA NewOnce ==
  ASSUME NEW n \in Nat, MaxEvents \in Nat, n < MaxEvents, NEW ask, NEW land, NEW given, NEW ref,
         LookupOnce(ask, land, given, ref, n, W!NoJob)
  PROVE  LookupOnce(ask, land, given, ref, n + 1, n)
<1>1. n # W!NoJob /\ n \in 0 .. n /\ n \notin 0 .. n - 1 /\ given[n] = 0
  BY DEF LookupOnce, W!NoJob
<1>2. /\ \A id \in 0 .. n + 1 - 1 : id = n \/ id \in 0 .. n - 1
      /\ \A id \in 0 .. n - 1 : id \in 0 .. n + 1 - 1
      /\ n \in 0 .. n + 1 - 1 /\ n \notin 0 .. n - 1 /\ n # W!NoJob
  BY DEF W!NoJob
<1>3. /\ \A id : LookupAsked(ask, id) \/ LookupLanded(land, id) => id = W!NoJob \/ id \in 0 .. n - 1
      /\ ref \subseteq 0 .. n - 1
      /\ \A id \in 0 .. n - 1 :
            id = W!NoJob \/ LookupAsked(ask, id) \/ LookupLanded(land, id) \/ id \in ref \/ given[id] = 1
  BY DEF LookupOnce
<1>4. \A id \in 0 .. n + 1 - 1 :
          id = n \/ LookupAsked(ask, id) \/ LookupLanded(land, id) \/ id \in ref \/ given[id] = 1
  BY <1>2, <1>3 DEF W!NoJob
<1>5. given[n] = 0 /\ ~LookupAsked(ask, n) /\ ~LookupLanded(land, n) /\ n \notin ref
  BY <1>1, <1>2, <1>3
<1>6. \A id \in 0 .. MaxEvents - 1 : id >= n + 1 => given[id] = 0
  BY DEF LookupOnce
<1>7. ref \subseteq 0 .. n + 1 - 1
  BY <1>2, <1>3
<1>8. \A id : LookupAsked(ask, id) \/ LookupLanded(land, id) => id = W!NoJob \/ id \in 0 .. n + 1 - 1
  BY <1>2, <1>3
<1> QED BY <1>2, <1>4, <1>5, <1>6, <1>7, <1>8 DEF LookupOnce

LEMMA LostOnce ==
  ASSUME NEW n \in Nat, NEW ask, NEW land, NEW given, NEW ref, LookupOnce(ask, land, given, ref, n, W!NoJob),
         NEW ask1, \A id : LookupAsked(ask1, id) => id = W!NoJob,
         \A t, url \in DOMAIN ask1 : t = url,
         NEW ref1, ref1 = ref \cup {id \in 0 .. n - 1 : given[id] = 0}
  PROVE  LookupOnce(ask1, <<>>, given, ref1, n, W!NoJob)
<1>1. \A id : ~LookupLanded(<<>>, id)
  BY DEF LookupLanded
<1>2. \A id : id \in ref1 <=> id \in ref \/ (id \in 0 .. n - 1 /\ given[id] = 0)
  OBVIOUS
<1>3. \A id \in 0 .. n - 1 :
          id = W!NoJob \/ LookupAsked(ask1, id) \/ LookupLanded(<<>>, id) \/ id \in ref1 \/ given[id] = 1
  <2>1. \A id \in 0 .. n - 1 : id \notin ref1 => given[id] # 0 /\ id \notin ref
    BY <1>2
  <2> QED BY <2>1 DEF LookupOnce, W!NoJob
<1>4. W!NoJob \notin 0 .. n - 1
  BY DEF W!NoJob
<1>5. /\ ref1 \subseteq 0 .. n - 1 /\ \A id \in ref1 : given[id] = 0
      /\ given \in [0 .. MaxEvents - 1 -> Nat]
      /\ \A id \in 0 .. MaxEvents - 1 : id >= n => given[id] = 0
  BY <1>2 DEF LookupOnce
<1> QED BY <1>1, <1>3, <1>4, <1>5 DEF LookupOnce

(***************************************************************************)
(* The marks after each step                                               *)
(***************************************************************************)
LEMMA StayMarks ==
  ASSUME AlertMarks, UNCHANGED <<clock, alerts, W!marks>>
  PROVE  AlertMarks'
BY DEF AlertMarks, InForce, W!marks

LEMMA BroadcastMarks ==
  ASSUME AlertMarks, warnings' = W!parseWarnings, W!Broadcast(warnings'), UNCHANGED <<clock, alerts>>
  PROVE  AlertMarks'
<1> DEFINE new == W!parseWarnings \ DOMAIN seen
           all == [w \in DOMAIN seen \cup new |-> IF w \in new THEN clock ELSE seen[w]]
           old == {w \in DOMAIN all : clock - all[w] > Forget}
<1>1. /\ clock' = clock /\ alerts' = alerts /\ seenStored' = seenStored /\ unmarked' = unmarked
      /\ unsaved' = TRUE /\ seen' = W!Without(all, old)
      /\ warned' = warned \cup new /\ retold' = retold \cup (new \cap warned)
  BY DEF W!Broadcast, W!MarkSeen
<1>2. \A w \in new : /\ w \in DOMAIN alerts /\ w \notin DOMAIN seen
                     /\ alerts[w] \in Int /\ alerts[w] >= clock /\ alerts[w] <= clock + Life
  BY DEF W!parseWarnings, AlertMarks
<1>3. /\ DOMAIN all = DOMAIN seen \cup new
      /\ \A w \in new : all[w] = clock
      /\ \A w \in DOMAIN seen : w \notin new => all[w] = seen[w]
  OBVIOUS
<1>4. \A w \in DOMAIN all : all[w] \in Int /\ w \in DOMAIN alerts /\ alerts[w] <= all[w] + Life
  BY <1>2, <1>3 DEF AlertMarks, InForce
<1>5. \A w \in DOMAIN seen' : w \in DOMAIN all /\ seen'[w] = all[w]
  BY <1>1 DEF W!Without
<1>6. \A w \in DOMAIN all : w \in DOMAIN seen' \/ alerts[w] < clock
  <2>1. ASSUME NEW w \in DOMAIN all, w \notin DOMAIN seen'
        PROVE  alerts[w] < clock
    <3>1. clock - all[w] > Forget
      BY <1>1, <2>1 DEF W!Without
    <3>2. alerts[w] \in Int /\ all[w] \in Int /\ alerts[w] <= all[w] + Life /\ clock \in Nat
      BY <1>4 DEF AlertMarks
    <3> QED BY <3>1, <3>2, WeatherSizes
  <2> QED BY <2>1
<1>7. InForce(seen)' /\ InForce(seenStored)'
  <2>1. InForce(seenStored)'
    BY <1>1 DEF AlertMarks, InForce
  <2>2. \A w \in DOMAIN seen' : seen'[w] \in Int /\ w \in DOMAIN alerts /\ alerts[w] <= seen'[w] + Life
    BY <1>4, <1>5
  <2> QED BY <1>1, <2>1, <2>2 DEF InForce
<1> HIDE DEF new, all, old
<1>8. \A w \in warned' : /\ w \in DOMAIN alerts
                         /\ w \in DOMAIN seen' \/ w \in unmarked \/ alerts[w] < clock
  <2>1. \A w \in warned : /\ w \in DOMAIN alerts
                          /\ w \in DOMAIN seen \/ w \in unmarked \/ alerts[w] < clock
    BY DEF AlertMarks
  <2> QED BY <1>1, <1>2, <1>3, <1>6, <2>1
<1>9. retold' \subseteq unmarked
  <2>1. \A w \in new \cap warned : w \in unmarked
    <3>1. SUFFICES ASSUME NEW w \in new, w \in warned PROVE w \in unmarked
      OBVIOUS
    <3>2. clock \in Nat /\ (w \in DOMAIN seen \/ w \in unmarked \/ alerts[w] < clock)
      BY <3>1 DEF AlertMarks
    <3> QED BY <1>2, <3>1, <3>2
  <2> QED BY <1>1, <2>1 DEF AlertMarks
<1>10. /\ clock \in Nat
       /\ \A w \in DOMAIN alerts : alerts[w] \in Int /\ alerts[w] <= clock + Life
  BY DEF AlertMarks
<1> QED BY <1>1, <1>7, <1>8, <1>9, <1>10 DEF AlertMarks

LEMMA TickMarks ==
  ASSUME AlertMarks, clock' = clock + 1, UNCHANGED <<alerts, W!marks>>
  PROVE  AlertMarks'
<1>1. /\ alerts' = alerts /\ seen' = seen /\ seenStored' = seenStored /\ unsaved' = unsaved
      /\ warned' = warned /\ retold' = retold /\ unmarked' = unmarked
  BY DEF W!marks
<1>2. clock \in Nat /\ Life \in Nat
  BY WeatherSizes DEF AlertMarks
<1>3. \A w \in DOMAIN alerts : alerts[w] \in Int /\ alerts[w] <= clock + 1 + Life
  BY <1>2 DEF AlertMarks
<1>4. \A w \in warned : /\ w \in DOMAIN alerts
                        /\ w \in DOMAIN seen \/ w \in unmarked \/ alerts[w] < clock + 1
  BY <1>2 DEF AlertMarks
<1> QED BY <1>1, <1>2, <1>3, <1>4 DEF AlertMarks, InForce

LEMMA IssueMarks ==
  ASSUME AlertMarks, NEW w \in Alerts, W!Issue(w)
  PROVE  AlertMarks'
<1>1. /\ clock' = clock /\ seen' = seen /\ seenStored' = seenStored /\ unsaved' = unsaved
      /\ warned' = warned /\ retold' = retold /\ unmarked' = unmarked
      /\ w \notin DOMAIN alerts /\ alerts' = W!With(alerts, w, clock + Life)
  BY DEF W!Issue, W!marks
<1>2. clock \in Nat /\ Life \in Nat
  BY WeatherSizes DEF AlertMarks
<1>3. /\ DOMAIN alerts' = DOMAIN alerts \cup {w} /\ alerts'[w] = clock + Life
      /\ \A x \in DOMAIN alerts : alerts'[x] = alerts[x]
  BY <1>1 DEF W!With
<1>4. \A x \in DOMAIN alerts' : alerts'[x] \in Int /\ alerts'[x] <= clock + Life
  BY <1>2, <1>3 DEF AlertMarks
<1>5. InForce(seen)' /\ InForce(seenStored)'
  BY <1>1, <1>3 DEF AlertMarks, InForce
<1> QED BY <1>1, <1>2, <1>3, <1>4, <1>5 DEF AlertMarks

LEMMA SavedMarks ==
  ASSUME AlertMarks, W!SaverWrites
  PROVE  AlertMarks'
BY DEF AlertMarks, InForce, W!SaverWrites

LEMMA RestartMarks ==
  ASSUME AlertMarks, NEW flushed \in BOOLEAN, W!Restart(flushed)
  PROVE  AlertMarks'
<1>1. /\ clock' = clock /\ alerts' = alerts /\ warned' = warned /\ retold' = retold
      /\ seenStored' = (IF flushed THEN seen ELSE seenStored) /\ seen' = seenStored' /\ unsaved' = FALSE
      /\ unmarked' = (IF unsaved /\ ~flushed THEN unmarked \cup (DOMAIN seen \ DOMAIN seenStored)
                                             ELSE unmarked)
  BY DEF W!Restart
<1>2. InForce(seen)' /\ InForce(seenStored)'
  <2>1. InForce(seen') /\ seenStored' = seen'
    BY <1>1 DEF AlertMarks
  <2> QED BY <1>1, <2>1 DEF InForce
<1>3. \A w \in warned : /\ w \in DOMAIN alerts
                        /\ w \in DOMAIN seen' \/ w \in unmarked' \/ alerts[w] < clock
  BY <1>1 DEF AlertMarks
<1>4. retold \subseteq unmarked'
  BY <1>1 DEF AlertMarks
<1> QED BY <1>1, <1>2, <1>3, <1>4 DEF AlertMarks

(***************************************************************************)
(* The steps                                                               *)
(***************************************************************************)
LEMMA CommandAsks ==
  ASSUME NEW n \in Nicks, NEW lookup \in W!Questions(n)
  PROVE  DOMAIN lookup = JobFields /\ lookup.kind # "poll" /\ lookup.id = asks
<1>1. PICK kind, nick, place, needs : lookup = W!Job(kind, nick, place, needs) /\ kind # "poll"
  <2>1. \/ lookup = W!cbWeeralarm(n) \/ lookup = W!cbWeer(n, W!homeOf(n))
        \/ \E p \in Places : \/ lookup = W!cbWeer(n, p) \/ lookup = W!openMeteoForecast(n, p)
                             \/ lookup = W!cbRegen(n, p) \/ lookup = W!handleHome(n, p)
                             \/ lookup = W!cbWeerdiff(n, W!homeOf(n), p)
    BY Zenon DEF W!Questions
  <2>2. /\ "alarm" # "poll" /\ "weer" # "poll" /\ "full" # "poll" /\ "regen" # "poll"
        /\ "home" # "poll" /\ "diff" # "poll"
    OBVIOUS
  <2> QED BY Zenon, <2>1, <2>2
          DEF W!cbWeeralarm, W!cbWeer, W!openMeteoForecast, W!cbRegen, W!handleHome, W!cbWeerdiff
<1> QED BY <1>1 DEF W!Job, JobFields

LEMMA WeatherCommandStep ==
  ASSUME WeatherInv, W!Command
  PROVE  WeatherInv'
<1>1. PICK n \in Nicks : \E lookup \in W!Questions(n) : W!Proceed(lookup)
  BY DEF W!Command
<1>0. PICK lookup \in W!Questions(n) : W!Proceed(lookup)
  BY <1>1
<1>2. /\ DOMAIN lookup = JobFields /\ lookup.kind # "poll" /\ lookup.id = asks
  BY <1>0, CommandAsks
<1>3. /\ asks' = asks + 1 /\ events < MaxEvents /\ events' = events + 1
      /\ UNCHANGED <<landed, clock, alerts>>
  BY DEF W!Command, W!Event
<1>4. asks \in Nat /\ events \in Nat /\ asks <= events /\ MaxEvents \in Nat
  BY WeatherSizes DEF WeatherInv, LookupCounts
<1>5. LookupCounts'
  BY <1>3, <1>4 DEF WeatherInv, LookupCounts
<1>6. LookupOnce(asked, landed, replies, refused, asks + 1, asks)
  BY <1>3, <1>4, NewOnce DEF WeatherInv, LookupsOnce
<1>7. LookupOnce(asked', landed, replies', refused', asks + 1, W!NoJob)
  BY <1>0, <1>2, <1>3, <1>4, <1>6, ProceedOnce
<1>8. LookupsOnce'
  BY <1>3, <1>7 DEF LookupsOnce
<1>9. LookupJobs(asked', landed) /\ UNCHANGED W!marks
  BY <1>0, <1>2, ProceedOther DEF WeatherInv
<1>10. LookupJobs(asked', landed') /\ AlertMarks'
  BY <1>3, <1>9, StayMarks DEF WeatherInv
<1> QED BY <1>5, <1>8, <1>10 DEF WeatherInv

LEMMA WeatherLandStep ==
  ASSUME WeatherInv, NEW url, NEW ok \in BOOLEAN, W!Land(url, ok)
  PROVE  WeatherInv'
<1>1. PICK answer : answer = [job |-> asked[url], ok |-> ok]
  OBVIOUS
<1>2. /\ url \in DOMAIN asked /\ asked' = W!Without(asked, {url}) /\ landed' = Append(landed, answer)
      /\ UNCHANGED <<clock, alerts, W!marks, replies, refused, asks>>
      /\ events' = events \/ (events < MaxEvents /\ events' = events + 1)
      /\ answer.job = asked[url]
  BY <1>1 DEF W!Land, W!settled, W!Event
<1>3. PICK X : landed \in Seq(X)
  BY DEF WeatherInv, LookupCounts
<1>4. asks \in Nat /\ events \in Nat /\ asks <= events /\ MaxEvents \in Nat /\ events <= MaxEvents
  BY WeatherSizes DEF WeatherInv, LookupCounts
<1>5. landed' \in Seq(X \cup {answer})
  BY <1>2, <1>3
<1>6. LookupCounts'
  BY <1>2, <1>4, <1>5 DEF LookupCounts
<1>7. LookupOnce(asked', landed', replies, refused, asks, W!NoJob)
  BY <1>2, <1>3, <1>4, LandOnce DEF WeatherInv, LookupsOnce
<1>8. LookupsOnce'
  BY <1>2, <1>7 DEF LookupsOnce
<1>9. LookupJobs(asked', landed')
  <2>1. \A t \in DOMAIN asked' : t \in DOMAIN asked /\ asked'[t] = asked[t]
    BY <1>2 DEF W!Without
  <2>2. \A i \in DOMAIN landed' : \/ i \in DOMAIN landed /\ landed'[i] = landed[i]
                                  \/ landed'[i] = answer
    BY <1>2, <1>3
  <2> QED BY <1>2, <2>1, <2>2 DEF WeatherInv, LookupJobs
<1>10. AlertMarks'
  BY <1>2, StayMarks DEF WeatherInv
<1> QED BY <1>6, <1>8, <1>9, <1>10 DEF WeatherInv

(* The rest of the poll's needs once its document is here.                 *)
LEMMA PollHandled ==
  ASSUME NEW job, JobOK(job), job.kind = "poll", AlertMarks, NEW land, LookupJobs(asked, land),
         W!Cached(Head(job.needs).url), W!Proceed([job EXCEPT !.needs = Tail(@)]),
         UNCHANGED <<clock, alerts>>
  PROVE  AlertMarks' /\ LookupJobs(asked', land)
<1>1. PICK need : need = W!Need(W!warn)
  OBVIOUS
<1>2. job.needs = <<need>> /\ need.url = W!warn
  BY <1>1 DEF JobOK, W!Need
<1>3. Head(job.needs) = need /\ Tail(job.needs) = <<>>
  BY <1>2
<1>4. warnings' = W!parseWarnings
  BY <1>2, <1>3 DEF W!Cached
<1>5. PICK other : other = [job EXCEPT !.needs = Tail(@)]
  OBVIOUS
<1>6. other.needs = <<>> /\ DOMAIN other = JobFields /\ other.kind = "poll"
  BY <1>3, <1>5 DEF JobOK, JobFields
<1>7. W!Done(other)
  BY <1>5, <1>6, PollTells
<1>8. (W!Broadcast(warnings') \/ UNCHANGED W!marks) /\ UNCHANGED asked
  BY <1>7 DEF W!Done
<1> QED BY <1>4, <1>8, BroadcastMarks, StayMarks DEF LookupJobs

LEMMA WeatherHandleStep ==
  ASSUME WeatherInv, W!Handle
  PROVE  WeatherInv'
<1>1. PICK X : landed \in Seq(X)
  BY DEF WeatherInv, LookupCounts
<1>2. landed # <<>> /\ landed' = Tail(landed) /\ UNCHANGED <<clock, alerts, asks, events>>
  BY DEF W!Handle
<1>3. /\ 1 \in DOMAIN landed /\ Head(landed) = landed[1] /\ landed' \in Seq(X)
      /\ \A i \in DOMAIN landed' : i + 1 \in DOMAIN landed /\ landed'[i] = landed[i + 1]
  BY <1>1, <1>2
<1>4. PICK job : job = landed[1].job
  OBVIOUS
<1>5. asks \in Nat /\ asks <= MaxEvents /\ MaxEvents \in Nat
  BY WeatherSizes DEF WeatherInv, LookupCounts
<1>6. LookupOnce(asked, landed', replies, refused, asks, job.id)
  BY <1>1, <1>2, <1>4, <1>5, HandOnce DEF WeatherInv, LookupsOnce
<1>7. LookupCounts'
  BY <1>2, <1>3 DEF WeatherInv, LookupCounts
<1>8. JobOK(job) /\ LookupJobs(asked, landed')
  BY <1>3, <1>4 DEF WeatherInv, LookupJobs
<1>9. \/ W!Cached(Head(job.needs).url) /\ W!Proceed([job EXCEPT !.needs = Tail(@)])
      \/ W!Apologise(job)
  BY <1>3, <1>4 DEF W!Handle
<1>10. PICK land : land = landed'
  OBVIOUS
<1>11. LookupOnce(asked', land, replies', refused', asks, W!NoJob) /\ LookupJobs(asked', land) /\ AlertMarks'
  <2>1. CASE W!Cached(Head(job.needs).url) /\ W!Proceed([job EXCEPT !.needs = Tail(@)])
    <3>1. PICK other : other = [job EXCEPT !.needs = Tail(@)]
      OBVIOUS
    <3>2. DOMAIN other = JobFields /\ other.id = job.id /\ other.kind = job.kind /\ W!Proceed(other)
      BY <1>8, <2>1, <3>1 DEF JobOK, JobFields
    <3>3. LookupOnce(asked', land, replies', refused', asks, W!NoJob)
      BY <1>5, <1>6, <1>10, <3>2, ProceedOnce
    <3>4. CASE job.kind = "poll"
      <4>1. AlertMarks' /\ LookupJobs(asked', land)
        BY <1>2, <1>8, <1>10, <2>1, <3>4, PollHandled DEF WeatherInv
      <4> QED BY <3>3, <4>1
    <3>5. CASE job.kind # "poll"
      <4>1. LookupJobs(asked', land) /\ UNCHANGED W!marks
        BY <1>8, <1>10, <3>2, <3>5, ProceedOther
      <4> QED BY <1>2, <3>3, <4>1, StayMarks DEF WeatherInv
    <3> QED BY <3>4, <3>5
  <2>2. CASE W!Apologise(job)
    <3>1. DOMAIN job = JobFields
      BY <1>8 DEF JobOK
    <3>2. LookupOnce(asked', land, replies', refused', asks, W!NoJob)
      BY <1>5, <1>6, <1>10, <2>2, <3>1, ApologiseOnce
    <3>3. CASE job.kind # "poll"
      <4>1. LookupJobs(asked', land) /\ UNCHANGED W!marks
        BY <1>8, <1>10, <2>2, <3>1, <3>3, ApologiseOther
      <4> QED BY <1>2, <3>2, <4>1, StayMarks DEF WeatherInv
    <3>4. CASE job.kind = "poll"
      <4>1. PICK need : need = W!Need(W!warn)
        OBVIOUS
      <4>2. job.needs = <<need>> /\ need.or = {}
        BY <1>8, <3>4, <4>1 DEF JobOK, W!Need
      <4>3. Head(job.needs).or = {}
        BY <4>2
      <4>4. UNCHANGED <<asked, W!own, W!marks>>
        BY <2>2, <4>3 DEF W!Apologise
      <4>5. UNCHANGED W!marks /\ LookupJobs(asked', land)
        BY <1>8, <1>10, <4>4
      <4> QED BY <1>2, <3>2, <4>5, StayMarks DEF WeatherInv
    <3> QED BY <3>3, <3>4
  <2> QED BY <1>9, <2>1, <2>2
<1> QED BY <1>2, <1>7, <1>10, <1>11 DEF WeatherInv, LookupsOnce

LEMMA WeatherPollStep ==
  ASSUME WeatherInv, W!PollTimer
  PROVE  WeatherInv'
<1>1. /\ warnAt' = W!Never /\ W!Proceed(W!checkWarnings)
      /\ UNCHANGED <<clock, landed, alerts, asks, events>>
  BY DEF W!PollTimer
<1>2. LookupJobs(asked', landed) /\ UNCHANGED W!marks
  BY <1>1, PollAsks DEF WeatherInv
<1>3. asks \in Nat /\ asks <= MaxEvents /\ MaxEvents \in Nat
  BY WeatherSizes DEF WeatherInv, LookupCounts
<1>4. DOMAIN W!checkWarnings = JobFields /\ W!checkWarnings.id = W!NoJob
  BY PollJob DEF JobOK
<1>5. PICK job : job = W!checkWarnings
  OBVIOUS
<1>6. LookupOnce(asked', landed, replies', refused', asks, W!NoJob)
  BY <1>1, <1>3, <1>4, <1>5, ProceedOnce DEF WeatherInv, LookupsOnce
<1>7. LookupCounts'
  BY <1>1 DEF WeatherInv, LookupCounts
<1> QED BY <1>1, <1>2, <1>6, <1>7, StayMarks DEF WeatherInv, LookupsOnce

LEMMA WeatherReportStep ==
  ASSUME WeatherInv, W!report
  PROVE  WeatherInv'
<1>1. /\ events < MaxEvents /\ events' = events + 1 /\ W!Proceed(W!morning)
      /\ UNCHANGED <<clock, landed, alerts, asks>>
  BY DEF W!report, W!Event
<1>2. PICK job : job = W!morning
  OBVIOUS
<1>3. DOMAIN job = JobFields /\ job.id = W!NoJob /\ job.kind # "poll" /\ W!Proceed(job)
  BY <1>1, <1>2 DEF W!morning, W!Job, JobFields
<1>4. LookupJobs(asked', landed) /\ UNCHANGED W!marks
  BY <1>3, ProceedOther DEF WeatherInv
<1>5. /\ asks \in Nat /\ events \in Nat /\ asks <= events /\ events <= MaxEvents /\ MaxEvents \in Nat
      /\ asks <= MaxEvents
  BY WeatherSizes DEF WeatherInv, LookupCounts
<1>6. LookupOnce(asked', landed, replies', refused', asks, W!NoJob)
  BY <1>3, <1>5, ProceedOnce DEF WeatherInv, LookupsOnce
<1>7. LookupCounts'
  BY <1>1, <1>5 DEF WeatherInv, LookupCounts
<1> QED BY <1>1, <1>4, <1>6, <1>7, StayMarks DEF WeatherInv, LookupsOnce

LEMMA WeatherRestartStep ==
  ASSUME WeatherInv, NEW flushed \in BOOLEAN, W!Restart(flushed)
  PROVE  WeatherInv'
<1>1. /\ refused' = refused \cup {id \in 0..asks - 1 : replies[id] = 0}
      /\ landed' = <<>> /\ asked' = W!With(W!Nothing, W!warn, W!checkWarnings)
      /\ replies' = replies /\ asks' = asks /\ events < MaxEvents /\ events' = events + 1
  BY DEF W!Restart, W!Event
<1>2. DOMAIN asked' = {W!warn} /\ asked'[W!warn] = W!checkWarnings
  BY <1>1 DEF W!With, W!Nothing
<1>3. LookupJobs(asked', landed')
  BY <1>1, <1>2, PollJob DEF LookupJobs
<1>4. /\ asks \in Nat /\ events \in Nat /\ asks <= events /\ MaxEvents \in Nat
  BY WeatherSizes DEF WeatherInv, LookupCounts
<1>5. \A id : LookupAsked(asked', id) => id = W!NoJob
  BY <1>2, PollJob DEF LookupAsked
<1>6. LookupOnce(asked', <<>>, replies, refused', asks, W!NoJob)
  BY <1>1, <1>2, <1>4, <1>5, LostOnce DEF WeatherInv, LookupsOnce
<1>7. <<>> \in Seq({})
  OBVIOUS
<1>8. LookupCounts'
  BY <1>1, <1>4, <1>7 DEF LookupCounts
<1> QED BY <1>1, <1>3, <1>6, <1>8, RestartMarks DEF WeatherInv, LookupsOnce

(* A step that leaves the lookups alone.                                   *)
LEMMA LookupsAlone ==
  ASSUME WeatherInv, UNCHANGED <<asked, landed, replies, refused, asks>>, AlertMarks',
         events' = events \/ (events < MaxEvents /\ events' = events + 1)
  PROVE  WeatherInv'
<1>1. LookupCounts'
  BY WeatherSizes DEF WeatherInv, LookupCounts
<1> QED BY <1>1 DEF WeatherInv, LookupsOnce, LookupJobs

LEMMA WeatherInitial ==
  ASSUME W!Init
  PROVE  WeatherInv
<1>1. DOMAIN asked = {W!warn} /\ asked[W!warn] = W!checkWarnings
  BY DEF W!Init, W!With, W!Nothing
<1>2. <<>> \in Seq({}) /\ DOMAIN <<>> = {}
  OBVIOUS
<1>3. LookupJobs(asked, landed)
  BY <1>1, <1>2, PollJob DEF W!Init, LookupJobs
<1>4. LookupCounts
  BY <1>2, WeatherSizes DEF W!Init, LookupCounts
<1>5. \A id : LookupAsked(asked, id) => id = W!NoJob
  BY <1>1, PollJob DEF LookupAsked
<1>6. LookupsOnce
  <2>1. \A id : ~LookupLanded(<<>>, id)
    BY <1>2 DEF LookupLanded
  <2>2. /\ landed = <<>> /\ refused = {} /\ asks = 0
        /\ replies = [id \in 0 .. MaxEvents - 1 |-> 0]
    BY DEF W!Init
  <2>3. 0 .. 0 - 1 = {}
    OBVIOUS
  <2> QED BY <1>1, <1>5, <2>1, <2>2, <2>3 DEF LookupsOnce, LookupOnce
<1>7. AlertMarks
  BY DEF W!Init, AlertMarks, InForce, W!Nothing
<1> QED BY <1>3, <1>4, <1>6, <1>7 DEF WeatherInv

LEMMA WeatherStep ==
  ASSUME WeatherInv, [W!Next]_W!vars
  PROVE  WeatherInv'
<1> USE DEF W!lookups, W!caches, W!own, W!marks, W!settled
<1>1. CASE W!Command
  BY <1>1, WeatherCommandStep
<1>2. ASSUME NEW n \in Nicks, W!ClearHome(n) PROVE WeatherInv'
  <2>1. AlertMarks'
    BY <1>2, StayMarks DEF W!ClearHome, WeatherInv
  <2> QED BY <1>2, <2>1, LookupsAlone DEF W!ClearHome, W!Event
<1>3. ASSUME NEW url, NEW ok \in BOOLEAN, W!Land(url, ok) PROVE WeatherInv'
  BY <1>3, WeatherLandStep
<1>4. CASE W!Handle
  BY <1>4, WeatherHandleStep
<1>5. ASSUME NEW w \in Alerts, W!Issue(w) PROVE WeatherInv'
  <2>1. AlertMarks'
    BY <1>5, IssueMarks DEF WeatherInv
  <2> QED BY <1>5, <2>1, LookupsAlone DEF W!Issue, W!Event
<1>6. CASE W!PollTimer
  BY <1>6, WeatherPollStep
<1>7. CASE W!SaverWrites
  <2>1. AlertMarks'
    BY <1>7, SavedMarks DEF WeatherInv
  <2> QED BY <1>7, <2>1, LookupsAlone DEF W!SaverWrites
<1>8. CASE W!ConfOn
  <2>1. AlertMarks'
    BY <1>8, StayMarks DEF W!ConfOn, WeatherInv
  <2> QED BY <1>8, <2>1, LookupsAlone DEF W!ConfOn, W!Event
<1>9. CASE W!report
  BY <1>9, WeatherReportStep
<1>10. CASE W!Tick
  <2>1. AlertMarks'
    BY <1>10, TickMarks DEF W!Tick, WeatherInv
  <2> QED BY <1>10, <2>1, LookupsAlone DEF W!Tick
<1>11. ASSUME NEW flushed \in BOOLEAN, W!Restart(flushed) PROVE WeatherInv'
  BY <1>11, WeatherRestartStep
<1>12. CASE UNCHANGED W!vars
  <2>1. AlertMarks'
    BY <1>12, StayMarks DEF W!vars, WeatherInv
  <2> QED BY <1>12, <2>1, LookupsAlone DEF W!vars
<1> QED
  BY <1>1, <1>2, <1>3, <1>4, <1>5, <1>6, <1>7, <1>8, <1>9, <1>10, <1>11, <1>12 DEF W!Next

(***************************************************************************)
(* What a command's lookup adds up to                                      *)
(***************************************************************************)
LEMMA WeatherCardinality == \A U : W!Cardinality(U) = Cardinality(U)
BY DEF W!Cardinality, Cardinality, W!IsFiniteSet, IsFiniteSet

LEMMA OneOrNone ==
  ASSUME NEW S, \A x, y \in S : x = y
  PROVE  /\ S = {} => Cardinality(S) = 0
         /\ S # {} => Cardinality(S) = 1
<1>1. S # {} => \E x : S = {x}
  OBVIOUS
<1> QED BY <1>1, FS_EmptySet, FS_Singleton

LEMMA WeatherTold ==
  ASSUME WeatherInv
  PROVE  W!ToldOnce
<1>1. ASSUME NEW id \in 0 .. asks - 1
      PROVE  replies[id] + Cardinality(W!Waiting(id)) + Cardinality(W!Handed(id))
                 + Cardinality({id} \cap refused) = 1
  <2>1. LookupsOnce /\ asks \in Nat /\ asks <= MaxEvents /\ MaxEvents \in Nat
    BY WeatherSizes DEF WeatherInv, LookupCounts
  <2>2. id # W!NoJob /\ id \in 0 .. MaxEvents - 1
    BY <1>1, <2>1 DEF W!NoJob
  <2>3. /\ \A x, y \in W!Waiting(id) : x = y
        /\ \A x, y \in W!Handed(id) : x = y
        /\ \A x, y \in {id} \cap refused : x = y
    BY <2>1, <2>2 DEF LookupsOnce, LookupOnce, W!Waiting, W!Handed
  <2>4. /\ W!Waiting(id) # {} <=> LookupAsked(asked, id)
        /\ W!Handed(id) # {} <=> LookupLanded(landed, id)
        /\ {id} \cap refused # {} <=> id \in refused
    BY DEF W!Waiting, W!Handed, LookupAsked, LookupLanded
  <2>5. replies[id] \in Nat
    BY <2>1, <2>2 DEF LookupsOnce, LookupOnce
  <2>6. LookupAsked(asked, id) => ~LookupLanded(landed, id) /\ id \notin refused /\ replies[id] = 0
    BY <2>1, <2>2 DEF LookupsOnce, LookupOnce
  <2>7. LookupLanded(landed, id) => id \notin refused /\ replies[id] = 0
    BY <2>1, <2>2 DEF LookupsOnce, LookupOnce
  <2>8. id \in refused => replies[id] = 0
    BY <2>1 DEF LookupsOnce, LookupOnce
  <2>9. LookupAsked(asked, id) \/ LookupLanded(landed, id) \/ id \in refused \/ replies[id] = 1
    BY <1>1, <2>1, <2>2 DEF LookupsOnce, LookupOnce
  <2>10. PICK A, B, C : A = W!Waiting(id) /\ B = W!Handed(id) /\ C = {id} \cap refused
    OBVIOUS
  <2>11. /\ Cardinality(A) = IF A = {} THEN 0 ELSE 1
         /\ Cardinality(B) = IF B = {} THEN 0 ELSE 1
         /\ Cardinality(C) = IF C = {} THEN 0 ELSE 1
    BY <2>3, <2>10, OneOrNone
  <2>12. replies[id] + Cardinality(A) + Cardinality(B) + Cardinality(C) = 1
    BY <2>4, <2>5, <2>6, <2>7, <2>8, <2>9, <2>10, <2>11
  <2> QED BY <2>10, <2>12
<1>2. retold \subseteq unmarked
  BY DEF WeatherInv, AlertMarks
<1> QED BY <1>1, <1>2, WeatherCardinality DEF W!ToldOnce

(* For any places, limits and times to live (an alert is in force no longer  *)
(* than its mark is kept): whatever lands, in any order, fails or is lost in *)
(* a restart, a command is answered once, or has one request or answer under *)
(* way, or met its url being fetched; and an alert is told to the channels   *)
(* once unless a crash took its mark (resolve, fetch, withWarnings,          *)
(* checkWarnings, Load).                                                    *)
THEOREM WeatherToldOnce == W!Spec => []W!ToldOnce
<1>1. W!Init => WeatherInv
  BY WeatherInitial
<1>2. WeatherInv /\ [W!Next]_W!vars => WeatherInv'
  BY WeatherStep
<1>3. WeatherInv => W!ToldOnce
  BY WeatherTold
<1> QED BY <1>1, <1>2, <1>3, PTL DEF W!Spec

(***************************************************************************)
(* Wheel of fortune: a game goes on where it was, and is won once.  Armed  *)
(* turn timers are ordered by generation, and the last of a table that runs *)
(* is its own; who has slept is who has Missed; nobody in the hall of fame *)
(* by a game that is still in the book, in memory or in the store.         *)
(***************************************************************************)
GameNicks == UNION {R!Range(s) : s \in UNION {Lineups[k] : k \in Keys}}
GameLetters == Consonants \cup Vowels
PlayerType == [Nick : GameNicks, Money : Nat, Joker : BOOLEAN, Missed : Nat, slept : Nat]
GameType == [Guessed : SUBSET GameLetters, Players : Seq(PlayerType), Turn : Nat \ {0},
         State : {"action", "letter"}, Pending : Nat, id : Nat, spinner : GameNicks]

(* A letter is owed by whoever spun for it.                                *)
Owed(g) == IF g.State = "letter" THEN g.Pending > 0 /\ R!Current(g).Nick = g.spinner
           ELSE g.Pending = 0

Fine(g) == g \in GameType /\ g.Turn \in 1 .. Len(g.Players)

(* A move leaves everyone in his seat.                                     *)
Stays(p, q) == q.Nick = p.Nick /\ q.Missed = p.Missed /\ q.slept = p.slept
Moved(g, h) ==
    /\ Fine(h) /\ Owed(h) /\ h.id = g.id /\ Len(h.Players) = Len(g.Players)
    /\ \A i \in 1 .. Len(g.Players) : Stays(g.Players[i], h.Players[i])

LEMMA RvfSizes ==
  /\ rvf_vowel_cost \in Nat /\ topTen \in Nat /\ rvf_max_missed_turns \in Nat \ {0}
  /\ Count \in [GameLetters -> Nat] /\ Amounts \subseteq Nat \ {0}
  /\ \A k \in Keys : \A s \in Lineups[k] : s # <<>> /\ s \in Seq(R!Range(s))
BY RvfAssumption DEF R!RvfConstants, GameLetters

LEMMA RvfCardinality == \A U : R!Cardinality(U) = Cardinality(U)
BY DEF R!Cardinality, Cardinality, R!IsFiniteSet, IsFiniteSet

LEMMA AdvanceMoves ==
  ASSUME NEW g, Fine(g)
  PROVE  Moved(g, R!advance(g))
<1>1. PICK n : n = (g.Turn % Len(g.Players)) + 1
  OBVIOUS
<1>2. n \in 1 .. Len(g.Players)
  <2>1. g.Turn \in Nat \ {0} /\ Len(g.Players) \in Nat \ {0}
    BY DEF Fine, GameType
  <2> QED BY <1>1, <2>1
<1>3. PICK h : h = R!advance(g)
  OBVIOUS
<1>4. h \in GameType /\ h.Players = g.Players /\ h.Turn = n /\ h.State = "action" /\ h.Pending = 0
      /\ h.id = g.id
  <2>1. h = [g EXCEPT !.Turn = n, !.State = "action", !.Pending = 0]
    BY <1>1, <1>3 DEF R!advance
  <2>2. g \in GameType /\ n \in Nat \ {0}
    BY <1>2 DEF Fine
  <2> QED BY <2>1, <2>2 DEF GameType
<1>5. Moved(g, h)
  BY <1>2, <1>4 DEF Moved, Fine, Owed, Stays
<1> QED BY <1>3, <1>5

LEMMA LoseMoves ==
  ASSUME NEW g, Fine(g)
  PROVE  Moved(g, R!loseTurn(g))
<1>1. CASE R!Current(g).Joker
  <2>1. PICK p : p = [g.Players[g.Turn] EXCEPT !.Joker = FALSE]
    OBVIOUS
  <2>2. PICK h : h = R!loseTurn(g)
    OBVIOUS
  <2>3. /\ g.Players[g.Turn] \in PlayerType /\ g.Turn \in 1 .. Len(g.Players)
        /\ g.Players \in Seq(PlayerType)
    BY DEF Fine, GameType
  <2>4. p \in PlayerType /\ Stays(g.Players[g.Turn], p)
    BY <2>1, <2>3 DEF PlayerType, Stays
  <2>5. PICK ps : ps = [g.Players EXCEPT ![g.Turn] = p]
    OBVIOUS
  <2>6. ps \in Seq(PlayerType) /\ Len(ps) = Len(g.Players)
        /\ \A i \in 1 .. Len(g.Players) : ps[i] = IF i = g.Turn THEN p ELSE g.Players[i]
    BY <2>3, <2>4, <2>5
  <2>7. h = [g EXCEPT !.Players = ps, !.State = "action", !.Pending = 0]
    BY <1>1, <2>1, <2>2, <2>5 DEF R!loseTurn
  <2>8. h \in GameType /\ h.Players = ps /\ h.Turn = g.Turn /\ h.State = "action" /\ h.Pending = 0
        /\ h.id = g.id
    BY <2>6, <2>7 DEF Fine, GameType
  <2>9. Moved(g, h)
    BY <2>3, <2>4, <2>6, <2>8 DEF Moved, Fine, Owed, Stays
  <2> QED BY <2>2, <2>9
<1>2. CASE ~R!Current(g).Joker
  BY <1>2, AdvanceMoves DEF R!loseTurn
<1> QED BY <1>1, <1>2

(* One player's purse, joker or naps change.                               *)
LEMMA SeatChange ==
  ASSUME NEW g, g \in GameType, NEW m \in 1 .. Len(g.Players), NEW p \in PlayerType,
         NEW h, h = [g EXCEPT !.Players = [@ EXCEPT ![m] = p]]
  PROVE  /\ h \in GameType /\ Len(h.Players) = Len(g.Players) /\ h.Players[m] = p
         /\ \A i \in 1 .. Len(g.Players) : i # m => h.Players[i] = g.Players[i]
         /\ h.Turn = g.Turn /\ h.id = g.id /\ h.State = g.State /\ h.Pending = g.Pending
         /\ h.spinner = g.spinner /\ h.Guessed = g.Guessed
<1>1. g.Players \in Seq(PlayerType)
  BY DEF GameType
<1>2. PICK ps : ps = [g.Players EXCEPT ![m] = p]
  OBVIOUS
<1>3. ps \in Seq(PlayerType) /\ Len(ps) = Len(g.Players) /\ ps[m] = p
      /\ \A i \in 1 .. Len(g.Players) : i # m => ps[i] = g.Players[i]
  BY <1>1, <1>2
<1>4. h = [g EXCEPT !.Players = ps]
  BY <1>2
<1> QED BY <1>3, <1>4 DEF GameType

LEMMA MovedTwice ==
  ASSUME NEW f, NEW g, NEW h, Len(g.Players) = Len(f.Players), g.id = f.id,
         \A i \in 1 .. Len(f.Players) : Stays(f.Players[i], g.Players[i]), Moved(g, h)
  PROVE  Moved(f, h)
BY DEF Moved, Stays

LEMMA SpinMoves ==
  ASSUME NEW g, Fine(g), Owed(g), g.State = "action", NEW seg \in R!Segments
  PROVE  Moved(g, R!Spun(g, seg))
<1>0. /\ g \in GameType /\ g.Turn \in 1 .. Len(g.Players) /\ g.Players[g.Turn] \in PlayerType
      /\ g.Pending = 0
  BY DEF Fine, GameType, Owed
<1>1. CASE seg.Kind = "money"
  <2>1. seg.Amount \in Nat \ {0} /\ g.Players[g.Turn].Nick \in GameNicks
    BY <1>0, <1>1, RvfSizes DEF R!Segments, PlayerType
  <2>2. PICK h : h = R!Spun(g, seg)
    OBVIOUS
  <2>3. h = [g EXCEPT !.State = "letter", !.Pending = seg.Amount, !.spinner = g.Players[g.Turn].Nick]
    BY <1>1, <2>2 DEF R!Spun, R!Current
  <2>4. /\ h \in GameType /\ h.Players = g.Players /\ h.Turn = g.Turn /\ h.id = g.id
        /\ h.State = "letter" /\ h.Pending = seg.Amount /\ h.spinner = g.Players[g.Turn].Nick
    BY <1>0, <2>1, <2>3 DEF GameType
  <2>5. Moved(g, h)
    BY <1>0, <2>1, <2>4 DEF Moved, Fine, Owed, Stays, R!Current
  <2> QED BY <2>2, <2>5
<1>2. CASE seg.Kind = "bankrupt"
  <2>1. PICK p : p = [g.Players[g.Turn] EXCEPT !.Money = 0]
    OBVIOUS
  <2>2. p \in PlayerType /\ Stays(g.Players[g.Turn], p)
    BY <1>0, <2>1 DEF PlayerType, Stays
  <2>3. PICK h : h = [g EXCEPT !.Players = [@ EXCEPT ![g.Turn] = p]]
    OBVIOUS
  <2>4. /\ h \in GameType /\ Len(h.Players) = Len(g.Players) /\ h.Players[g.Turn] = p
        /\ \A i \in 1 .. Len(g.Players) : i # g.Turn => h.Players[i] = g.Players[i]
        /\ h.Turn = g.Turn /\ h.id = g.id
    BY <1>0, <2>2, <2>3, SeatChange
  <2>5. R!Spun(g, seg) = R!loseTurn(h)
    BY <1>2, <2>1, <2>3 DEF R!Spun
  <2>6. Fine(h) /\ \A i \in 1 .. Len(g.Players) : Stays(g.Players[i], h.Players[i])
    BY <1>0, <2>2, <2>4 DEF Fine, Stays
  <2>7. Moved(h, R!loseTurn(h))
    BY <2>6, LoseMoves
  <2>8. PICK l : l = R!loseTurn(h)
    OBVIOUS
  <2>9. Moved(g, l)
    BY <2>4, <2>6, <2>7, <2>8, MovedTwice
  <2> QED BY <2>5, <2>8, <2>9
<1>3. CASE seg.Kind = "loseTurn"
  BY <1>3, LoseMoves DEF R!Spun
<1>4. CASE seg.Kind = "joker"
  <2>1. PICK p : p = [g.Players[g.Turn] EXCEPT !.Joker = TRUE]
    OBVIOUS
  <2>2. p \in PlayerType /\ Stays(g.Players[g.Turn], p)
    BY <1>0, <2>1 DEF PlayerType, Stays
  <2>3. PICK h : h = [g EXCEPT !.Players = [@ EXCEPT ![g.Turn] = p]]
    OBVIOUS
  <2>4. /\ h \in GameType /\ Len(h.Players) = Len(g.Players) /\ h.Players[g.Turn] = p
        /\ \A i \in 1 .. Len(g.Players) : i # g.Turn => h.Players[i] = g.Players[i]
        /\ h.Turn = g.Turn /\ h.id = g.id /\ h.State = "action" /\ h.Pending = 0
    BY <1>0, <2>2, <2>3, SeatChange
  <2>5. R!Spun(g, seg) = h
    BY <1>4, <2>1, <2>3 DEF R!Spun
  <2>6. Moved(g, h)
    BY <1>0, <2>2, <2>4 DEF Moved, Fine, Owed, Stays
  <2> QED BY <2>5, <2>6
<1> QED BY <1>1, <1>2, <1>3, <1>4 DEF R!Segments

(* A letter is put on the board.                                           *)
LEMMA LetterPut ==
  ASSUME NEW g, Fine(g), NEW l \in GameLetters
  PROVE  /\ Fine([g EXCEPT !.Guessed = @ \cup {l}])
         /\ [g EXCEPT !.Guessed = @ \cup {l}].Players = g.Players
         /\ [g EXCEPT !.Guessed = @ \cup {l}].id = g.id
         /\ [g EXCEPT !.Guessed = @ \cup {l}].Turn = g.Turn
         /\ [g EXCEPT !.Guessed = @ \cup {l}].Pending = g.Pending
         /\ [g EXCEPT !.Guessed = @ \cup {l}].State = g.State
BY DEF Fine, GameType

LEMMA LoseAfter ==
  ASSUME NEW f, NEW g, Fine(g), Len(g.Players) = Len(f.Players), g.id = f.id,
         \A i \in 1 .. Len(f.Players) : Stays(f.Players[i], g.Players[i])
  PROVE  Moved(f, R!loseTurn(g))
<1>1. PICK h : h = R!loseTurn(g)
  OBVIOUS
<1>2. Moved(g, h)
  BY <1>1, LoseMoves
<1> QED BY <1>1, <1>2, MovedTwice

LEMMA IdleMoves ==
  ASSUME NEW g, Fine(g), Owed(g)
  PROVE  Moved(g, g)
BY DEF Moved, Stays

LEMMA CallMoves ==
  ASSUME NEW g, Fine(g), Owed(g), g.State = "letter", NEW l \in GameLetters
  PROVE  Moved(g, R!LetterCalled(g, l))
<1>1. CASE l \notin Consonants
  BY <1>1, IdleMoves DEF R!LetterCalled
<1>2. CASE l \in Consonants
  <2>1. PICK bd : bd = [g EXCEPT !.Guessed = @ \cup {l}]
    OBVIOUS
  <2>2. /\ Fine(bd) /\ bd.Players = g.Players /\ bd.id = g.id /\ bd.Turn = g.Turn
        /\ bd.Pending = g.Pending /\ bd.State = g.State
    BY <2>1, LetterPut
  <2>3. CASE l \in g.Guessed \/ Count[l] = 0
    <3>1. R!LetterCalled(g, l) = R!loseTurn(bd)
      BY <1>2, <2>1, <2>3 DEF R!LetterCalled
    <3>2. \A i \in 1 .. Len(g.Players) : Stays(g.Players[i], bd.Players[i])
      BY <2>2 DEF Stays
    <3> QED BY <2>2, <3>1, <3>2, LoseAfter
  <2>4. CASE ~(l \in g.Guessed \/ Count[l] = 0)
    <3>1. g.Pending \in Nat /\ Count[l] \in Nat /\ bd \in GameType /\ bd.Turn \in 1 .. Len(bd.Players)
          /\ bd.Players[bd.Turn] \in PlayerType
      BY <2>2, RvfSizes DEF Fine, GameType
    <3>2. PICK won : won = g.Pending * Count[l]
      OBVIOUS
    <3>3. won \in Nat
      BY <3>1, <3>2
    <3>4. PICK p : p = [bd.Players[bd.Turn] EXCEPT !.Money = @ + won]
      OBVIOUS
    <3>5. p \in PlayerType /\ Stays(bd.Players[bd.Turn], p)
      BY <3>1, <3>3, <3>4, SMTT(30) DEF PlayerType, Stays
    <3>6. PICK h : h = [bd EXCEPT !.Players = [@ EXCEPT ![bd.Turn] = p]]
      OBVIOUS
    <3>7. /\ h \in GameType /\ Len(h.Players) = Len(bd.Players) /\ h.Players[bd.Turn] = p
          /\ \A i \in 1 .. Len(bd.Players) : i # bd.Turn => h.Players[i] = bd.Players[i]
          /\ h.Turn = bd.Turn /\ h.id = bd.id
      BY <3>1, <3>5, <3>6, SeatChange
    <3>8. R!LetterCalled(g, l) = [h EXCEPT !.State = "action", !.Pending = 0]
      <4>1. R!LetterCalled(g, l) = [bd EXCEPT !.Players[g.Turn].Money = @ + won,
                                           !.State = "action", !.Pending = 0]
        BY <1>2, <2>1, <2>4, <3>2 DEF R!LetterCalled
      <4> QED BY <2>2, <3>4, <3>6, <4>1
    <3>9. PICK m : m = [h EXCEPT !.State = "action", !.Pending = 0]
      OBVIOUS
    <3>10. /\ m \in GameType /\ m.Players = h.Players /\ m.Turn = h.Turn /\ m.id = h.id
           /\ m.State = "action" /\ m.Pending = 0
      BY <3>7, <3>9 DEF GameType
    <3>11. \A i \in 1 .. Len(g.Players) : Stays(g.Players[i], m.Players[i])
      BY <2>2, <3>5, <3>7, <3>10 DEF Stays
    <3>12. Moved(g, m)
      BY <2>2, <3>1, <3>7, <3>10, <3>11 DEF Moved, Fine, Owed
    <3> QED BY <3>8, <3>9, <3>12
  <2> QED BY <2>3, <2>4
<1> QED BY <1>1, <1>2

LEMMA BuyMoves ==
  ASSUME NEW g, Fine(g), Owed(g), g.State = "action", NEW l \in GameLetters
  PROVE  Moved(g, R!VowelBought(g, l))
<1>1. CASE l \notin Vowels \/ l \in g.Guessed \/ R!Current(g).Money < rvf_vowel_cost
  BY <1>1, IdleMoves DEF R!VowelBought
<1>2. CASE ~(l \notin Vowels \/ l \in g.Guessed \/ R!Current(g).Money < rvf_vowel_cost)
  <2>1. PICK bd : bd = [g EXCEPT !.Guessed = @ \cup {l}]
    OBVIOUS
  <2>2. /\ Fine(bd) /\ bd.Players = g.Players /\ bd.id = g.id /\ bd.Turn = g.Turn
        /\ bd.Pending = g.Pending /\ bd.State = g.State
    BY <2>1, LetterPut
  <2>3. /\ bd \in GameType /\ bd.Turn \in 1 .. Len(bd.Players) /\ bd.Players[bd.Turn] \in PlayerType
        /\ bd.Players[bd.Turn].Money \in Nat /\ bd.Players[bd.Turn].Money >= rvf_vowel_cost
        /\ rvf_vowel_cost \in Nat
    <3>1. bd \in GameType /\ bd.Turn \in 1 .. Len(bd.Players) /\ bd.Players[bd.Turn] \in PlayerType
      BY <2>2 DEF Fine, GameType
    <3>2. bd.Players[bd.Turn].Money \in Nat
      BY <3>1 DEF PlayerType
    <3> QED BY <1>2, <2>2, <3>1, <3>2, RvfSizes DEF R!Current
  <2>4. PICK p : p = [bd.Players[bd.Turn] EXCEPT !.Money = @ - rvf_vowel_cost]
    OBVIOUS
  <2>5. p \in PlayerType /\ Stays(bd.Players[bd.Turn], p)
    BY <2>3, <2>4 DEF PlayerType, Stays
  <2>6. PICK h : h = [bd EXCEPT !.Players = [@ EXCEPT ![bd.Turn] = p]]
    OBVIOUS
  <2>7. /\ h \in GameType /\ Len(h.Players) = Len(bd.Players) /\ h.Players[bd.Turn] = p
        /\ \A i \in 1 .. Len(bd.Players) : i # bd.Turn => h.Players[i] = bd.Players[i]
        /\ h.Turn = bd.Turn /\ h.id = bd.id /\ h.State = bd.State /\ h.Pending = bd.Pending
    BY <2>3, <2>5, <2>6, SeatChange
  <2>8. h = [g EXCEPT !.Guessed = @ \cup {l}, !.Players[g.Turn].Money = @ - rvf_vowel_cost]
    BY <2>1, <2>2, <2>4, <2>6
  <2>9. R!VowelBought(g, l) = IF Count[l] = 0 THEN R!loseTurn(h) ELSE h
    BY <1>2, <2>8 DEF R!VowelBought
  <2>10. Fine(h) /\ \A i \in 1 .. Len(g.Players) : Stays(g.Players[i], h.Players[i])
    BY <2>2, <2>3, <2>5, <2>7 DEF Fine, Stays
  <2>11. Moved(g, R!loseTurn(h))
    BY <2>2, <2>7, <2>10, LoseAfter
  <2>12. Moved(g, h)
    BY <2>2, <2>7, <2>10 DEF Moved, Owed
  <2> QED BY <2>9, <2>11, <2>12
<1> QED BY <1>1, <1>2

(* The player at i leaves the table.                                       *)
LEMMA SeatRemoved ==
  ASSUME NEW X, NEW s \in Seq(X), NEW i \in 1 .. Len(s)
  PROVE  /\ R!RemoveAt(s, i) \in Seq(X) /\ Len(R!RemoveAt(s, i)) = Len(s) - 1
         /\ \A j \in 1 .. Len(s) - 1 : R!RemoveAt(s, i)[j] = IF j < i THEN s[j] ELSE s[j + 1]
<1>1. PICK l, r : l = SubSeq(s, 1, i - 1) /\ r = SubSeq(s, i + 1, Len(s))
  OBVIOUS
<1>2. l \in Seq(X) /\ Len(l) = i - 1 /\ \A j \in 1 .. i - 1 : l[j] = s[j]
  BY <1>1, SubSeqProperties
<1>3. /\ r \in Seq(X) /\ Len(r) = Len(s) - i
      /\ \A j \in 1 .. Len(s) - i : r[j] = s[i + j]
  BY <1>1, SubSeqProperties
<1>4. PICK t : t = l \o r
  OBVIOUS
<1>5. /\ t \in Seq(X) /\ Len(t) = Len(s) - 1
      /\ \A j \in 1 .. Len(s) - 1 : t[j] = IF j <= i - 1 THEN l[j] ELSE r[j - (i - 1)]
  <2>1. /\ t \in Seq(X) /\ Len(t) = Len(l) + Len(r)
        /\ \A j \in 1 .. Len(l) + Len(r) : t[j] = IF j <= Len(l) THEN l[j] ELSE r[j - Len(l)]
    BY <1>2, <1>3, <1>4, ConcatProperties
  <2>2. Len(l) = i - 1 /\ Len(l) + Len(r) = Len(s) - 1
    BY <1>2, <1>3
  <2> QED BY <2>1, <2>2
<1>6. \A j \in 1 .. Len(s) - 1 : t[j] = IF j < i THEN s[j] ELSE s[j + 1]
  BY <1>2, <1>3, <1>5
<1> QED BY <1>1, <1>4, <1>5, <1>6 DEF R!RemoveAt

(***************************************************************************)
(* A game at rest: nobody who slept through all his turns is still seated. *)
(***************************************************************************)
Rested(p) == p.Missed = p.slept /\ p.slept < rvf_max_missed_turns
GameInv(g) ==
    /\ Fine(g) /\ Owed(g)
    /\ \A i \in 1 .. Len(g.Players) : Rested(g.Players[i])

SameTable(g, h) == /\ h.id = g.id /\ Len(h.Players) = Len(g.Players)
                   /\ \A i \in 1 .. Len(g.Players) : h.Players[i].Nick = g.Players[i].Nick

LEMMA MoverAwake ==
  ASSUME NEW g, GameInv(g), NEW h, Moved(g, h),
         NEW m, m = [R!moveDone(h, g.Turn) EXCEPT !.Players[g.Turn].slept = 0]
  PROVE  GameInv(m) /\ SameTable(g, m)
<1>1. /\ h \in GameType /\ g.Turn \in 1 .. Len(h.Players) /\ h.Players[g.Turn] \in PlayerType
      /\ Len(h.Players) = Len(g.Players)
  BY DEF GameInv, Fine, Moved, GameType
<1>2. PICK p : p = [h.Players[g.Turn] EXCEPT !.Missed = 0]
  OBVIOUS
<1>3. p \in PlayerType /\ p.Nick = h.Players[g.Turn].Nick /\ p.Missed = 0
  BY <1>1, <1>2 DEF PlayerType
<1>4. PICK f : f = [h EXCEPT !.Players = [@ EXCEPT ![g.Turn] = p]]
  OBVIOUS
<1>5. /\ f \in GameType /\ Len(f.Players) = Len(h.Players) /\ f.Players[g.Turn] = p
      /\ \A i \in 1 .. Len(h.Players) : i # g.Turn => f.Players[i] = h.Players[i]
      /\ f.Turn = h.Turn /\ f.id = h.id /\ f.State = h.State /\ f.Pending = h.Pending
      /\ f.spinner = h.spinner
  BY <1>1, <1>3, <1>4, SeatChange
<1>9. f = R!moveDone(h, g.Turn)
  BY <1>2, <1>4 DEF R!moveDone
<1>10. PICK q : q = [p EXCEPT !.slept = 0]
  OBVIOUS
<1>11. q \in PlayerType /\ q.Nick = h.Players[g.Turn].Nick /\ q.Missed = 0 /\ q.slept = 0
  BY <1>3, <1>10 DEF PlayerType
<1>12. m = [f EXCEPT !.Players = [@ EXCEPT ![g.Turn] = q]]
  BY <1>5, <1>9, <1>10
<1>13. g.Turn \in 1 .. Len(f.Players)
  BY <1>1, <1>5
<1>14. /\ m \in GameType /\ Len(m.Players) = Len(f.Players) /\ m.Players[g.Turn] = q
       /\ \A i \in 1 .. Len(f.Players) : i # g.Turn => m.Players[i] = f.Players[i]
       /\ m.Turn = f.Turn /\ m.id = f.id /\ m.State = f.State /\ m.Pending = f.Pending
       /\ m.spinner = f.spinner
  <2>1. PICK x : x = [f EXCEPT !.Players = [@ EXCEPT ![g.Turn] = q]]
    OBVIOUS
  <2>2. /\ x \in GameType /\ Len(x.Players) = Len(f.Players) /\ x.Players[g.Turn] = q
        /\ \A i \in 1 .. Len(f.Players) : i # g.Turn => x.Players[i] = f.Players[i]
        /\ x.Turn = f.Turn /\ x.id = f.id /\ x.State = f.State /\ x.Pending = f.Pending
        /\ x.spinner = f.spinner
    BY <1>5, <1>11, <1>13, <2>1, SeatChange
  <2> QED BY <1>12, <2>1, <2>2
<1>15. /\ Len(m.Players) = Len(g.Players)
       /\ \A i \in 1 .. Len(g.Players) : i # g.Turn => m.Players[i] = h.Players[i]
       /\ m.Turn = h.Turn /\ m.id = h.id /\ m.State = h.State /\ m.Pending = h.Pending
       /\ m.spinner = h.spinner
  BY <1>1, <1>5, <1>14
<1>6. Fine(m) /\ Owed(m)
  <2>1. m.Turn \in 1 .. Len(m.Players)
    BY <1>1, <1>15 DEF Moved, Fine
  <2>2. m.Players[m.Turn].Nick = h.Players[h.Turn].Nick
    BY <1>1, <1>11, <1>14, <1>15 DEF Moved, Fine
  <2> QED BY <1>14, <1>15, <2>1, <2>2 DEF Moved, Fine, Owed, R!Current
<1>7. \A i \in 1 .. Len(m.Players) : Rested(m.Players[i])
  <2>1. Rested(m.Players[g.Turn])
    <3>1. rvf_max_missed_turns > 0
      BY RvfSizes
    <3> QED BY <1>11, <1>14, <3>1 DEF Rested
  <2>2. ASSUME NEW i \in 1 .. Len(g.Players), i # g.Turn PROVE Rested(m.Players[i])
    <3>1. m.Players[i] = h.Players[i] /\ Stays(g.Players[i], h.Players[i]) /\ Rested(g.Players[i])
      BY <1>15, <2>2 DEF Moved, GameInv
    <3> QED BY <3>1 DEF Rested, Stays
  <2> QED BY <1>15, <2>1, <2>2
<1>8. \A i \in 1 .. Len(g.Players) : m.Players[i].Nick = g.Players[i].Nick
  <2>1. \A i \in 1 .. Len(g.Players) : h.Players[i].Nick = g.Players[i].Nick
    BY DEF Moved, Stays
  <2> QED BY <1>1, <1>11, <1>14, <1>15, <2>1
<1>16. m.id = g.id
  BY <1>15 DEF Moved
<1> QED BY <1>6, <1>7, <1>8, <1>15, <1>16 DEF GameInv, SameTable

(* The player whose turn it is has slept through it, and stays or goes.    *)
Slept(g) == [g EXCEPT !.Players[g.Turn].Missed = @ + 1, !.Players[g.Turn].slept = @ + 1]

LEMMA SleeperSeat ==
  ASSUME NEW g, GameInv(g), NEW h, h = Slept(g)
  PROVE  /\ Fine(h) /\ Len(h.Players) = Len(g.Players) /\ h.Turn = g.Turn /\ h.id = g.id
         /\ h.Players[g.Turn].Missed = g.Players[g.Turn].slept + 1
         /\ h.Players[g.Turn].slept = g.Players[g.Turn].slept + 1
         /\ h.Players[g.Turn].Nick = g.Players[g.Turn].Nick
         /\ \A i \in 1 .. Len(g.Players) : i # g.Turn => h.Players[i] = g.Players[i]
<1>1. g \in GameType /\ g.Turn \in 1 .. Len(g.Players) /\ g.Players[g.Turn] \in PlayerType
  BY DEF GameInv, Fine, GameType
<1>2. PICK o : o = g.Players[g.Turn]
  OBVIOUS
<1>3. PICK p : p = [o EXCEPT !.Missed = @ + 1]
  OBVIOUS
<1>4. o \in PlayerType /\ o.Missed = o.slept /\ o.slept \in Nat
  BY <1>1, <1>2 DEF GameInv, Rested, PlayerType
<1>5. p \in PlayerType /\ p.Nick = o.Nick /\ p.Missed = o.slept + 1 /\ p.slept = o.slept
  BY <1>3, <1>4 DEF PlayerType
<1>6. PICK f : f = [g EXCEPT !.Players = [@ EXCEPT ![g.Turn] = p]]
  OBVIOUS
<1>7. /\ f \in GameType /\ Len(f.Players) = Len(g.Players) /\ f.Players[g.Turn] = p
      /\ \A i \in 1 .. Len(g.Players) : i # g.Turn => f.Players[i] = g.Players[i]
      /\ f.Turn = g.Turn /\ f.id = g.id
  BY <1>1, <1>5, <1>6, SeatChange
<1>8. PICK q : q = [p EXCEPT !.slept = @ + 1]
  OBVIOUS
<1>9. q \in PlayerType /\ q.Nick = o.Nick /\ q.Missed = o.slept + 1 /\ q.slept = o.slept + 1
  BY <1>4, <1>5, <1>8 DEF PlayerType
<1>10. f = [g EXCEPT !.Players[g.Turn].Missed = @ + 1]
  BY <1>2, <1>3, <1>6
<1>11. h = [f EXCEPT !.Players[g.Turn].slept = @ + 1]
  BY <1>10 DEF Slept
<1>12. h = [f EXCEPT !.Players = [@ EXCEPT ![g.Turn] = q]]
  BY <1>7, <1>8, <1>11
<1>13. g.Turn \in 1 .. Len(f.Players)
  BY <1>1, <1>7
<1>14. /\ h \in GameType /\ Len(h.Players) = Len(f.Players) /\ h.Players[g.Turn] = q
       /\ \A i \in 1 .. Len(f.Players) : i # g.Turn => h.Players[i] = f.Players[i]
       /\ h.Turn = f.Turn /\ h.id = f.id
  BY <1>7, <1>9, <1>12, <1>13, SeatChange
<1> QED BY <1>1, <1>2, <1>7, <1>9, <1>14 DEF Fine

LEMMA SleeperStays ==
  ASSUME NEW g, GameInv(g), NEW h, h = Slept(g), ~(R!Current(h).Missed >= rvf_max_missed_turns),
         NEW m, m = R!advance(h)
  PROVE  GameInv(m) /\ SameTable(g, m)
<1>1. /\ Fine(h) /\ Len(h.Players) = Len(g.Players) /\ h.Turn = g.Turn /\ h.id = g.id
      /\ h.Players[g.Turn].Missed = g.Players[g.Turn].slept + 1
      /\ h.Players[g.Turn].slept = g.Players[g.Turn].slept + 1
      /\ h.Players[g.Turn].Nick = g.Players[g.Turn].Nick
      /\ \A i \in 1 .. Len(g.Players) : i # g.Turn => h.Players[i] = g.Players[i]
  BY SleeperSeat
<1>2. Moved(h, m)
  BY <1>1, AdvanceMoves
<1>3. \A i \in 1 .. Len(h.Players) : Rested(h.Players[i])
  <2>1. Rested(h.Players[g.Turn])
    <3>1. g.Players[g.Turn].slept \in Nat
      <4>1. g.Players[g.Turn] \in PlayerType
        BY DEF GameInv, Fine, GameType
      <4> QED BY <4>1 DEF PlayerType
    <3> QED BY <1>1, <3>1, RvfSizes DEF Rested, R!Current
  <2> QED BY <1>1, <2>1 DEF GameInv
<1>4. GameInv(m)
  BY <1>2, <1>3 DEF GameInv, Moved, Stays, Rested
<1>5. SameTable(g, m)
  BY <1>1, <1>2 DEF Moved, Stays, SameTable
<1> QED BY <1>4, <1>5

LEMMA SleeperGoes ==
  ASSUME NEW g, GameInv(g), NEW h, h = Slept(g), Len(h.Players) # 1, NEW m, m = R!DropCurrent(h)
  PROVE  /\ GameInv(m) /\ m.id = g.id
         /\ \A i \in 1 .. Len(g.Players) : i # g.Turn =>
               \E j \in 1 .. Len(m.Players) : m.Players[j].Nick = g.Players[i].Nick
<1>1. /\ Fine(h) /\ Len(h.Players) = Len(g.Players) /\ h.Turn = g.Turn /\ h.id = g.id
      /\ \A i \in 1 .. Len(g.Players) : i # g.Turn => h.Players[i] = g.Players[i]
  BY SleeperSeat
<1>2. PICK n : n = Len(g.Players)
  OBVIOUS
<1>3. /\ n \in Nat \ {0, 1} /\ h.Players \in Seq(PlayerType) /\ Len(h.Players) = n
      /\ h.Turn \in 1 .. n
  BY <1>1, <1>2 DEF Fine, GameType
<1>4. PICK rest : rest = R!RemoveAt(h.Players, h.Turn)
  OBVIOUS
<1>5. /\ rest \in Seq(PlayerType) /\ Len(rest) = n - 1
      /\ \A j \in 1 .. n - 1 : rest[j] = IF j < h.Turn THEN h.Players[j] ELSE h.Players[j + 1]
  BY <1>3, <1>4, SeatRemoved, ZenonT(60)
<1>6. PICK t : t = R!TurnAfter(h, rest)
  OBVIOUS
<1>7. t \in 1 .. n - 1
  BY <1>3, <1>5, <1>6 DEF R!TurnAfter
<1>8. m = [h EXCEPT !.Players = rest, !.Turn = t, !.State = "action", !.Pending = 0]
  BY <1>4, <1>6 DEF R!DropCurrent
<1>9. /\ m \in GameType /\ m.Players = rest /\ m.Turn = t /\ m.State = "action" /\ m.Pending = 0
      /\ m.id = h.id
  <2>1. h \in GameType /\ t \in Nat \ {0} /\ rest \in Seq(PlayerType)
    BY <1>1, <1>3, <1>5, <1>7 DEF Fine
  <2>2. PICK x : x = [h EXCEPT !.Players = rest, !.Turn = t, !.State = "action", !.Pending = 0]
    OBVIOUS
  <2>3. /\ x \in GameType /\ x.Players = rest /\ x.Turn = t /\ x.State = "action" /\ x.Pending = 0
        /\ x.id = h.id
    BY <2>1, <2>2 DEF GameType
  <2> QED BY <1>8, <2>2, <2>3
<1>10. \A j \in 1 .. n - 1 : \E i \in 1 .. n : i # g.Turn /\ rest[j] = g.Players[i]
  <2>1. SUFFICES ASSUME NEW j \in 1 .. n - 1
                 PROVE  \E i \in 1 .. n : i # g.Turn /\ rest[j] = g.Players[i]
    OBVIOUS
  <2>2. CASE j < h.Turn
    BY <1>1, <1>2, <1>3, <1>5, <2>2, SMTT(30)
  <2>3. CASE ~(j < h.Turn)
    <3>1. j + 1 \in 1 .. n /\ j + 1 # g.Turn
      BY <1>1, <1>3, <2>3
    <3>2. rest[j] = h.Players[j + 1]
      BY <1>5, <2>3
    <3> QED BY <1>1, <1>2, <3>1, <3>2
  <2> QED BY <2>2, <2>3
<1>11. \A j \in 1 .. Len(m.Players) : Rested(m.Players[j])
  BY <1>2, <1>5, <1>9, <1>10 DEF GameInv
<1>12. \A i \in 1 .. n : i # g.Turn => \E j \in 1 .. n - 1 : rest[j] = g.Players[i]
  <2>1. SUFFICES ASSUME NEW i \in 1 .. n, i # g.Turn
                 PROVE  \E j \in 1 .. n - 1 : rest[j] = g.Players[i]
    OBVIOUS
  <2>2. CASE i < g.Turn
    <3>1. i \in 1 .. n - 1 /\ rest[i] = h.Players[i]
      BY <1>1, <1>3, <1>5, <2>2
    <3> QED BY <1>1, <1>2, <2>1, <3>1
  <2>3. CASE ~(i < g.Turn)
    <3>1. i - 1 \in 1 .. n - 1 /\ rest[i - 1] = h.Players[i]
      <4>1. i - 1 \in 1 .. n - 1 /\ ~(i - 1 < h.Turn) /\ (i - 1) + 1 = i
        BY <1>1, <1>3, <2>1, <2>3
      <4> QED BY <1>5, <4>1
    <3> QED BY <1>1, <1>2, <2>1, <3>1
  <2> QED BY <2>2, <2>3
<1>13. GameInv(m)
  BY <1>5, <1>7, <1>9, <1>11 DEF GameInv, Fine, Owed
<1>14. \A i \in 1 .. Len(g.Players) : i # g.Turn =>
          \E j \in 1 .. Len(m.Players) : m.Players[j].Nick = g.Players[i].Nick
  <2>1. Len(m.Players) = n - 1 /\ m.Players = rest
    BY <1>5, <1>9
  <2>2. SUFFICES ASSUME NEW i \in 1 .. n, i # g.Turn
                 PROVE  \E j \in 1 .. n - 1 : rest[j].Nick = g.Players[i].Nick
    BY <1>2, <2>1
  <2>3. PICK j \in 1 .. n - 1 : rest[j] = g.Players[i]
    BY <1>12, <2>2
  <2> QED BY <2>3
<1> QED BY <1>1, <1>9, <1>13, <1>14

LEMMA NewGameInv ==
  ASSUME NEW k \in Keys, NEW nicks \in Lineups[k], NEW n \in Nat, NEW g, g = R!NewGame(nicks, n)
  PROVE  GameInv(g) /\ g.id = n
<1>1. nicks \in Seq(R!Range(nicks)) /\ nicks # <<>> /\ R!Range(nicks) \subseteq GameNicks
  BY RvfSizes DEF GameNicks
<1>2. /\ Len(nicks) \in Nat \ {0} /\ DOMAIN nicks = 1 .. Len(nicks)
      /\ \A i \in 1 .. Len(nicks) : nicks[i] \in GameNicks
  BY <1>1
<1>3. PICK ps : ps = [i \in DOMAIN nicks |-> R!NewPlayer(nicks[i])]
  OBVIOUS
<1>4. /\ \A i \in 1 .. Len(nicks) : R!NewPlayer(nicks[i]) \in PlayerType /\ Rested(R!NewPlayer(nicks[i]))
  BY <1>2, RvfSizes DEF R!NewPlayer, PlayerType, Rested
<1>5. /\ ps \in Seq(PlayerType) /\ Len(ps) = Len(nicks)
      /\ \A i \in 1 .. Len(nicks) : Rested(ps[i])
  BY <1>2, <1>3, <1>4
<1>6. /\ g \in GameType /\ g.Players = ps /\ g.Turn = 1 /\ g.State = "action" /\ g.Pending = 0
      /\ g.id = n
  BY <1>2, <1>3, <1>5 DEF R!NewGame, GameType
<1> QED BY <1>2, <1>5, <1>6 DEF GameInv, Fine, Owed

(***************************************************************************)
(* The timers armed: of one key the later has the later generation, none   *)
(* is ahead of the key's, and the games D are waited for by one of theirs. *)
(***************************************************************************)
TimersFine(T, g, S) ==
    /\ T \in Seq(Keys \X Nat) /\ g \in [Keys -> Nat]
    /\ \A i, j \in 1 .. Len(T) : i < j /\ T[i][1] = T[j][1] => T[i][2] < T[j][2]
    /\ \A i \in 1 .. Len(T) : T[i][2] <= g[T[i][1]]
    /\ \A k \in S : k \in Keys /\ \E i \in 1 .. Len(T) : T[i] = <<k, g[k]>>

LEMMA FiredTimers ==
  ASSUME NEW T, NEW g, NEW S, TimersFine(T, g, S), T # <<>>,
         NEW S1, S1 \subseteq S, \A k \in S1 : T[1] # <<k, g[k]>>
  PROVE  TimersFine(Tail(T), g, S1)
<1>1. PICK t : t = Tail(T)
  OBVIOUS
<1>2. /\ Len(T) \in Nat \ {0} /\ t \in Seq(Keys \X Nat) /\ Len(t) = Len(T) - 1
      /\ \A i \in 1 .. Len(T) - 1 : t[i] = T[i + 1] /\ i + 1 \in 1 .. Len(T)
  BY <1>1 DEF TimersFine
<1>3. \A i, j \in 1 .. Len(t) : i < j /\ t[i][1] = t[j][1] => t[i][2] < t[j][2]
  <2>1. SUFFICES ASSUME NEW i \in 1 .. Len(t), NEW j \in 1 .. Len(t), i < j, t[i][1] = t[j][1]
                 PROVE  t[i][2] < t[j][2]
    OBVIOUS
  <2>2. /\ i + 1 \in 1 .. Len(T) /\ j + 1 \in 1 .. Len(T) /\ i + 1 < j + 1
        /\ t[i] = T[i + 1] /\ t[j] = T[j + 1]
    <3>1. i \in 1 .. Len(T) - 1 /\ j \in 1 .. Len(T) - 1
      BY <1>2
    <3>2. i + 1 < j + 1
      BY <2>1, <3>1
    <3> QED BY <1>2, <3>1, <3>2
  <2> QED BY <2>1, <2>2 DEF TimersFine
<1>4. \A i \in 1 .. Len(t) : t[i][2] <= g[t[i][1]]
  BY <1>2 DEF TimersFine
<1>5. \A k \in S1 : k \in Keys /\ \E i \in 1 .. Len(t) : t[i] = <<k, g[k]>>
  <2>1. SUFFICES ASSUME NEW k \in S1 PROVE k \in Keys /\ \E i \in 1 .. Len(t) : t[i] = <<k, g[k]>>
    OBVIOUS
  <2>2. PICK i \in 1 .. Len(T) : T[i] = <<k, g[k]>>
    BY DEF TimersFine
  <2>3. i # 1 /\ i - 1 \in 1 .. Len(T) - 1 /\ (i - 1) + 1 = i
    BY <1>2, <2>2
  <2>4. t[i - 1] = <<k, g[k]>>
    BY <1>2, <2>2, <2>3
  <2> QED BY <1>2, <2>3, <2>4 DEF TimersFine
<1> QED BY <1>1, <1>2, <1>3, <1>4, <1>5 DEF TimersFine

Arms(T, g, k, T1, g1) == g1 = [g EXCEPT ![k] = @ + 1] /\ T1 = Append(T, <<k, g[k] + 1>>)

LEMMA ArmedTimers ==
  ASSUME NEW T, NEW g, NEW S, TimersFine(T, g, S), NEW k \in Keys,
         NEW g1, NEW T1, Arms(T, g, k, T1, g1), NEW S1, S1 \subseteq S \cup {k}
  PROVE  TimersFine(T1, g1, S1)
<1>0. g1 = [g EXCEPT ![k] = @ + 1] /\ T1 = Append(T, <<k, g[k] + 1>>)
  BY DEF Arms
<1>1. /\ Len(T) \in Nat /\ T \in Seq(Keys \X Nat) /\ g \in [Keys -> Nat] /\ g[k] \in Nat
      /\ \A i \in 1 .. Len(T) : T[i] \in Keys \X Nat /\ T[i][1] \in Keys /\ T[i][2] \in Nat
  BY DEF TimersFine
<1>2. PICK t : t = <<k, g[k] + 1>>
  OBVIOUS
<1>3. t \in Keys \X Nat /\ t[1] = k /\ t[2] = g[k] + 1
  BY <1>1, <1>2
<1>4. /\ T1 \in Seq(Keys \X Nat) /\ Len(T1) = Len(T) + 1 /\ T1[Len(T) + 1] = t
      /\ \A i \in 1 .. Len(T) : T1[i] = T[i]
  BY <1>0, <1>1, <1>2, <1>3
<1>5. g1 \in [Keys -> Nat] /\ g1[k] = g[k] + 1 /\ \A j \in Keys : j # k => g1[j] = g[j]
  BY <1>0, <1>1
<1>6. \A i \in 1 .. Len(T1) : i \in 1 .. Len(T) \/ i = Len(T) + 1
  BY <1>1, <1>4
<1>7. \A i \in 1 .. Len(T) : T1[i][2] <= g[T1[i][1]]
  BY <1>4 DEF TimersFine
<1>8. \A i \in 1 .. Len(T1) : T1[i][2] <= g1[T1[i][1]]
  <2>1. ASSUME NEW i \in 1 .. Len(T) PROVE T1[i][2] <= g1[T1[i][1]]
    <3>1. T1[i][1] \in Keys /\ T1[i][2] \in Nat
      BY <1>1, <1>4
    <3>2. PICK j : j = T1[i][1]
      OBVIOUS
    <3>3. T1[i][2] <= g[j] /\ j \in Keys
      BY <1>7, <3>1, <3>2
    <3>4. g[j] \in Nat /\ g[j] <= g1[j]
      <4>1. CASE j = k
        BY <1>1, <1>5, <4>1
      <4>2. CASE j # k
        <5>1. g[j] \in Nat
          BY <1>1, <3>3
        <5>2. g1[j] = g[j]
          BY <1>5, <3>3, <4>2
        <5> QED BY <5>1, <5>2
      <4> QED BY <4>1, <4>2
    <3>5. g1[j] \in Nat
      BY <1>5, <3>3
    <3>6. T1[i][2] <= g1[j]
      BY <3>1, <3>3, <3>4, <3>5
    <3> QED BY <3>2, <3>6
  <2>2. T1[Len(T) + 1][2] = g[k] + 1 /\ g1[T1[Len(T) + 1][1]] = g[k] + 1
    BY <1>3, <1>4, <1>5
  <2> QED BY <1>1, <1>6, <2>1, <2>2
<1>9. \A i, j \in 1 .. Len(T1) : i < j /\ T1[i][1] = T1[j][1] => T1[i][2] < T1[j][2]
  <2>1. SUFFICES ASSUME NEW i \in 1 .. Len(T1), NEW j \in 1 .. Len(T1), i < j,
                        T1[i][1] = T1[j][1]
                 PROVE  T1[i][2] < T1[j][2]
    OBVIOUS
  <2>2. i \in 1 .. Len(T)
    BY <1>1, <1>4, <1>6, <2>1
  <2>3. CASE j \in 1 .. Len(T)
    BY <1>4, <2>1, <2>2, <2>3 DEF TimersFine
  <2>4. CASE j = Len(T) + 1
    <3>1. T1[i][1] = k /\ T1[i][2] \in Nat /\ T1[j][2] = g[k] + 1
      BY <1>1, <1>3, <1>4, <2>1, <2>2, <2>4
    <3>2. T1[i][2] <= g[k]
      BY <1>7, <2>2, <3>1
    <3> QED BY <1>1, <3>1, <3>2
  <2> QED BY <1>6, <2>3, <2>4
<1>10. \A j \in S1 : j \in Keys /\ \E i \in 1 .. Len(T1) : T1[i] = <<j, g1[j]>>
  <2>1. SUFFICES ASSUME NEW j \in S1 PROVE j \in Keys /\ \E i \in 1 .. Len(T1) : T1[i] = <<j, g1[j]>>
    OBVIOUS
  <2>2. CASE j = k
    <3>1. Len(T) + 1 \in 1 .. Len(T1)
      BY <1>1, <1>4
    <3> QED BY <1>2, <1>4, <1>5, <2>2, <3>1
  <2>3. CASE j # k
    <3>1. j \in Keys /\ \E i \in 1 .. Len(T) : T[i] = <<j, g[j]>>
      BY <2>3 DEF TimersFine
    <3>2. PICK i \in 1 .. Len(T) : T[i] = <<j, g[j]>>
      BY <3>1
    <3>3. g1[j] = g[j]
      BY <1>5, <2>3, <3>1
    <3>4. T1[i] = <<j, g1[j]>>
      BY <1>4, <3>2, <3>3
    <3>5. i \in 1 .. Len(T1)
      BY <1>1, <1>4
    <3> QED BY <3>1, <3>4, <3>5
  <2> QED BY <2>2, <2>3
<1> QED BY <1>4, <1>5, <1>8, <1>9, <1>10 DEF TimersFine

LEMMA EndedTimers ==
  ASSUME NEW T, NEW g, NEW S, TimersFine(T, g, S), NEW k \in Keys,
         NEW g1, g1 = [g EXCEPT ![k] = @ + 1], NEW S1, S1 \subseteq S \ {k}
  PROVE  TimersFine(T, g1, S1)
<1>1. /\ Len(T) \in Nat /\ T \in Seq(Keys \X Nat) /\ g \in [Keys -> Nat] /\ g[k] \in Nat
      /\ \A i \in 1 .. Len(T) : T[i][1] \in Keys /\ T[i][2] \in Nat
  BY DEF TimersFine
<1>2. g1 \in [Keys -> Nat] /\ g1[k] = g[k] + 1 /\ \A j \in Keys : j # k => g1[j] = g[j]
  BY <1>1
<1>3. \A i \in 1 .. Len(T) : T[i][2] <= g1[T[i][1]]
  <2>1. \A j \in Keys : g[j] \in Nat /\ g[j] <= g1[j] /\ g1[j] \in Nat
    BY <1>1, <1>2
  <2>2. \A i \in 1 .. Len(T) : T[i][2] <= g[T[i][1]]
    BY DEF TimersFine
  <2> QED BY <1>1, <2>1, <2>2
<1>4. \A j \in S1 : j \in Keys /\ \E i \in 1 .. Len(T) : T[i] = <<j, g1[j]>>
  <2>1. \A j \in S1 : j # k /\ j \in Keys /\ \E i \in 1 .. Len(T) : T[i] = <<j, g[j]>>
    BY DEF TimersFine
  <2> QED BY <1>2, <2>1
<1> QED BY <1>2, <1>3, <1>4 DEF TimersFine

LEMMA ReloadedTimers ==
  ASSUME NEW S, S \subseteq Keys, IsFiniteSet(S), NEW T \in R!SetToSeqs({<<k, 1>> : k \in S}),
         NEW g, g = [k \in Keys |-> IF k \in S THEN 1 ELSE 0]
  PROVE  TimersFine(T, g, S)
<1>1. PICK U : U = {<<k, 1>> : k \in S}
  OBVIOUS
<1>2. IsFiniteSet(U)
  <2>1. PICK f : f = [k \in S |-> <<k, 1>>]
    OBVIOUS
  <2>2. f \in Surjection(S, U)
    BY <1>1, <2>1 DEF Surjection
  <2> QED BY <2>2, FS_Surjection
<1>3. PICK n : n = Cardinality(U)
  OBVIOUS
<1>4. n \in Nat
  BY <1>2, <1>3, FS_CardinalityType
<1>5. T \in [1 .. n -> U] /\ \A i, j \in 1 .. n : i # j => T[i] # T[j]
  BY <1>1, <1>3, RvfCardinality DEF R!SetToSeqs
<1>6. T \in Injection(1 .. n, U)
  BY <1>5 DEF Injection, IsInjective
<1>7. Cardinality(1 .. n) = n
  BY <1>4, FS_Interval
<1>8. T \in Surjection(1 .. n, U)
  BY <1>2, <1>3, <1>6, <1>7, FS_Injection
<1>9. \A k \in S : \E i \in 1 .. n : T[i] = <<k, 1>>
  BY <1>1, <1>8 DEF Surjection
<1>10. U \subseteq Keys \X Nat /\ \A t \in U : t[1] \in S /\ t[2] = 1 /\ t = <<t[1], 1>>
  BY <1>1
<1>11. T \in Seq(Keys \X Nat) /\ Len(T) = n
  <2>1. T \in [1 .. n -> Keys \X Nat]
    BY <1>5, <1>10
  <2> QED BY <1>4, <2>1
<1>12. \A i \in 1 .. n : T[i][1] \in S /\ T[i][2] = 1 /\ T[i] = <<T[i][1], 1>>
  BY <1>5, <1>10
<1>13. g \in [Keys -> Nat] /\ \A k \in S : g[k] = 1
  OBVIOUS
<1>14. \A i, j \in 1 .. n : i < j /\ T[i][1] = T[j][1] => T[i][2] < T[j][2]
  <2>1. SUFFICES ASSUME NEW i \in 1 .. n, NEW j \in 1 .. n, i < j, T[i][1] = T[j][1] PROVE FALSE
    OBVIOUS
  <2>2. T[i] = T[j] /\ i # j
    BY <1>4, <1>12, <2>1
  <2> QED BY <1>5, <2>2
<1>15. \A i \in 1 .. n : T[i][2] <= g[T[i][1]]
  BY <1>12, <1>13
<1> QED BY <1>9, <1>11, <1>13, <1>14, <1>15 DEF TimersFine

(***************************************************************************)
(* The top ten                                                             *)
(***************************************************************************)
Scores == [id : Nat, Score : Nat]

LEMMA Recorded ==
  ASSUME hiscores \in Seq(Scores), NEW s \in Scores
  PROVE  R!recordScore(s) \in Seq(Scores) /\ R!Ids(R!recordScore(s)) \subseteq R!Ids(hiscores) \cup {s.id}
<1>1. CASE s.Score <= 0
  BY <1>1 DEF R!recordScore
<1>2. CASE ~(s.Score <= 0)
  <2>1. PICK pos : pos = 1 + Cardinality({i \in DOMAIN hiscores : hiscores[i].Score >= s.Score})
    OBVIOUS
  <2>2. PICK n : n = Len(hiscores) /\ n \in Nat /\ DOMAIN hiscores = 1 .. n
    OBVIOUS
  <2>3. pos \in 1 .. n + 1
    <3>1. PICK A : A = {i \in DOMAIN hiscores : hiscores[i].Score >= s.Score}
      OBVIOUS
    <3>2. A \subseteq 1 .. n
      BY <2>2, <3>1
    <3>3. IsFiniteSet(1 .. n) /\ Cardinality(1 .. n) = n
      <4>1. n \in Nat
        BY <2>2
      <4> QED BY <4>1, FS_Interval
    <3>4. Cardinality(A) \in Nat /\ Cardinality(A) <= n
      BY <3>2, <3>3, FS_Subset, FS_CardinalityType
    <3> QED BY <2>1, <2>2, <3>1, <3>4
  <2>4. PICK X : X = {hiscores[i] : i \in DOMAIN hiscores} \cup {s}
    OBVIOUS
  <2>5. X \subseteq Scores /\ s \in X /\ \A i \in 1 .. n : hiscores[i] \in X
    BY <2>2, <2>4
  <2>6. PICK l, r : l = SubSeq(hiscores, 1, pos - 1) /\ r = SubSeq(hiscores, pos, n)
    OBVIOUS
  <2>7. l \in Seq(X) /\ r \in Seq(X)
    BY <2>2, <2>3, <2>5, <2>6, SubSeqProperties
  <2>8. PICK all : all = R!InsertAt(hiscores, pos, s)
    OBVIOUS
  <2>9. all = (l \o <<s>>) \o r
    BY <2>2, <2>6, <2>8 DEF R!InsertAt
  <2>10. all \in Seq(X)
    BY <2>5, <2>7, <2>9, ConcatProperties
  <2>11. PICK m : m = IF Len(all) > topTen THEN topTen ELSE Len(all)
    OBVIOUS
  <2>12. m \in Nat /\ m <= Len(all)
    BY <2>10, <2>11, RvfSizes
  <2>13. R!recordScore(s) = SubSeq(all, 1, m)
    BY <1>2, <2>1, <2>8, <2>11, RvfCardinality DEF R!recordScore
  <2>14. PICK hs : hs = SubSeq(all, 1, m)
    OBVIOUS
  <2>15. hs \in Seq(X)
    BY <2>10, <2>12, <2>14, SubSeqProperties
  <2>16. hs \in Seq(Scores) /\ R!Ids(hs) \subseteq R!Ids(hiscores) \cup {s.id}
    <3>1. \A i \in DOMAIN hs : hs[i] \in X
      BY <2>15
    <3>2. \A x \in X : x.id \in R!Ids(hiscores) \cup {s.id}
      BY <2>4 DEF R!Ids
    <3> QED BY <2>5, <2>15, <3>1, <3>2 DEF R!Ids
  <2> QED BY <2>13, <2>14, <2>16
<1> QED BY <1>1, <1>2

(***************************************************************************)
(* Games and scores, in memory or in the store: no game with a score.      *)
(***************************************************************************)
GameBook(gs, hs, n) ==
    /\ \A k \in DOMAIN gs : k \in Keys /\ GameInv(gs[k]) /\ gs[k].id \in Nat /\ gs[k].id <= n
    /\ \A j, k \in DOMAIN gs : gs[j].id = gs[k].id => j = k
    /\ IsFiniteSet(DOMAIN gs)
    /\ hs \in Seq(Scores) /\ \A x \in R!Ids(hs) : x \in Nat /\ x <= n
    /\ \A k \in DOMAIN gs : gs[k].id \notin R!Ids(hs)

LEMMA BookMove ==
  ASSUME NEW gs, NEW hs, NEW n \in Nat, GameBook(gs, hs, n), NEW k \in DOMAIN gs,
         NEW g, GameInv(g), g.id = gs[k].id, NEW gs1, gs1 = [gs EXCEPT ![k] = g]
  PROVE  GameBook(gs1, hs, n)
<1>1. /\ DOMAIN gs1 = DOMAIN gs /\ gs1[k] = g
      /\ \A j \in DOMAIN gs : j # k => gs1[j] = gs[j]
  OBVIOUS
<1>2. \A j \in DOMAIN gs : gs1[j].id = gs[j].id
  BY <1>1
<1>3. \A j \in DOMAIN gs1 : j \in Keys /\ GameInv(gs1[j])
  BY <1>1 DEF GameBook
<1> QED BY <1>1, <1>2, <1>3 DEF GameBook

LEMMA BookMore ==
  ASSUME NEW gs, NEW hs, NEW n \in Nat, GameBook(gs, hs, n)
  PROVE  GameBook(gs, hs, n + 1)
BY DEF GameBook

LEMMA BookNew ==
  ASSUME NEW gs, NEW hs, NEW n \in Nat, GameBook(gs, hs, n), NEW k \in Keys, k \notin DOMAIN gs,
         NEW g, GameInv(g), g.id = n + 1, NEW gs1, gs1 = R!With(gs, k, g)
  PROVE  GameBook(gs1, hs, n + 1)
<1>1. /\ DOMAIN gs1 = DOMAIN gs \cup {k} /\ gs1[k] = g
      /\ \A j \in DOMAIN gs : gs1[j] = gs[j]
  BY DEF R!With
<1>2. IsFiniteSet(DOMAIN gs1)
  BY <1>1, FS_AddElement DEF GameBook
<1>3. \A j \in DOMAIN gs : gs[j].id \in Nat /\ gs[j].id <= n
  BY DEF GameBook
<1>4. \A i, j \in DOMAIN gs1 : gs1[i].id = gs1[j].id => i = j
  <2>1. \A i, j \in DOMAIN gs : gs[i].id = gs[j].id => i = j
    BY DEF GameBook
  <2>2. \A j \in DOMAIN gs : gs1[j].id # n + 1
    BY <1>1, <1>3
  <2> QED BY <1>1, <2>1, <2>2
<1>5. \A x \in R!Ids(hs) : x \in Nat /\ x <= n
  BY DEF GameBook
<1>6. n + 1 \notin R!Ids(hs)
  BY <1>5
<1> QED BY <1>1, <1>2, <1>3, <1>4, <1>5, <1>6 DEF GameBook

LEMMA BookEnd ==
  ASSUME NEW gs, NEW hs, NEW n \in Nat, GameBook(gs, hs, n), NEW k \in DOMAIN gs,
         NEW gs1, gs1 = [y \in DOMAIN gs \ {k} |-> gs[y]],
         NEW hs1 \in Seq(Scores), R!Ids(hs1) \subseteq R!Ids(hs) \cup {gs[k].id}
  PROVE  GameBook(gs1, hs1, n)
<1>1. DOMAIN gs1 = DOMAIN gs \ {k} /\ \A j \in DOMAIN gs1 : gs1[j] = gs[j]
  OBVIOUS
<1>2. IsFiniteSet(DOMAIN gs1)
  BY <1>1, FS_RemoveElement DEF GameBook
<1>3. \A x \in R!Ids(hs1) : x \in Nat /\ x <= n
  BY DEF GameBook
<1>4. \A j \in DOMAIN gs1 : gs1[j].id \notin R!Ids(hs1)
  BY <1>1 DEF GameBook
<1> QED BY <1>1, <1>2, <1>3, <1>4 DEF GameBook

(***************************************************************************)
(* The inductive invariant                                                 *)
(***************************************************************************)
Waited == IF unloaded THEN {} ELSE DOMAIN games
RvfInv ==
    /\ starts \in Nat /\ unloaded \in BOOLEAN
    /\ GameBook(games, hiscores, starts) /\ GameBook(saved.games, saved.hiscores, starts)
    /\ dirty \subseteq {"games", "hiscores"}
    /\ "games" \in dirty \/ saved.games = games
    /\ "hiscores" \in dirty \/ saved.hiscores = hiscores
    /\ TimersFine(timers, gen, Waited)

LEMMA MoveGame ==
  ASSUME RvfInv, ~unloaded, NEW k \in DOMAIN games, NEW h, Moved(games[k], h), R!Move(k, h)
  PROVE  /\ RvfInv' /\ DOMAIN games' = DOMAIN games /\ SameTable(games[k], games'[k])
         /\ \A j \in DOMAIN games : j # k => games'[j] = games[j]
         /\ timers' = Append(timers, <<k, gen[k] + 1>>)
<1>1. PICK m : m = [R!moveDone(h, games[k].Turn) EXCEPT !.Players[games[k].Turn].slept = 0]
  OBVIOUS
<1>2. /\ games' = [games EXCEPT ![k] = m] /\ dirty' = dirty \cup {"games"}
      /\ gen' = [gen EXCEPT ![k] = @ + 1] /\ timers' = Append(timers, <<k, gen[k] + 1>>)
      /\ hiscores' = hiscores /\ saved' = saved /\ unloaded' = unloaded /\ starts' = starts
  BY <1>1 DEF R!Move, R!armTimer
<1>3. GameInv(games[k]) /\ k \in Keys /\ starts \in Nat
  BY DEF RvfInv, GameBook
<1>4. GameInv(m) /\ SameTable(games[k], m)
  BY <1>1, <1>3, MoverAwake
<1>5. GameBook(games', hiscores, starts)
  BY <1>2, <1>3, <1>4, BookMove DEF RvfInv, SameTable
<1>6. /\ DOMAIN games' = DOMAIN games /\ games'[k] = m
      /\ \A j \in DOMAIN games : j # k => games'[j] = games[j]
  BY <1>2
<1>7. TimersFine(timers', gen', DOMAIN games)
  <2>1. TimersFine(timers, gen, DOMAIN games)
    BY DEF RvfInv, Waited
  <2>2. DOMAIN games \subseteq DOMAIN games \cup {k}
    OBVIOUS
  <2>3. Arms(timers, gen, k, timers', gen')
    BY <1>2 DEF Arms
  <2> QED BY <1>3, <2>1, <2>2, <2>3, ArmedTimers
<1>8. RvfInv'
  BY <1>2, <1>5, <1>6, <1>7 DEF RvfInv, Waited
<1> QED BY <1>2, <1>4, <1>6, <1>8

LEMMA EndGame ==
  ASSUME RvfInv, ~unloaded, NEW k \in DOMAIN games, NEW T, TimersFine(T, gen, Waited \ {k}),
         R!endGame(k, T), dirty' \subseteq {"games", "hiscores"}, "games" \in dirty',
         "hiscores" \in dirty' \/ (hiscores' = hiscores /\ "hiscores" \notin dirty),
         hiscores' \in Seq(Scores), R!Ids(hiscores') \subseteq R!Ids(hiscores) \cup {games[k].id},
         UNCHANGED <<saved, unloaded, starts>>
  PROVE  RvfInv'
<1>1. /\ games' = [y \in DOMAIN games \ {k} |-> games[y]] /\ gen' = [gen EXCEPT ![k] = @ + 1]
      /\ timers' = T /\ k \in Keys /\ starts \in Nat
  BY DEF R!endGame, RvfInv, GameBook
<1>2. GameBook(games', hiscores', starts)
  BY <1>1, BookEnd DEF RvfInv
<1>3. TimersFine(timers', gen', DOMAIN games \ {k})
  <2>1. TimersFine(T, gen, DOMAIN games \ {k}) /\ DOMAIN games \ {k} \subseteq (DOMAIN games \ {k}) \ {k}
    BY DEF Waited
  <2> QED BY <1>1, <2>1, EndedTimers
<1>4. DOMAIN games' = DOMAIN games \ {k}
  BY <1>1
<1> QED BY <1>1, <1>2, <1>3, <1>4 DEF RvfInv, Waited

LEMMA LessTimers ==
  ASSUME NEW T, NEW g, NEW S, TimersFine(T, g, S), NEW S1, S1 \subseteq S
  PROVE  TimersFine(T, g, S1)
BY DEF TimersFine

(***************************************************************************)
(* The steps                                                               *)
(***************************************************************************)
(* A step that the timers' order and the players may expect: what FairTurns *)
(* says of it.                                                             *)
Fair ==
    /\ \A i \in DOMAIN timers :
         i > 1 /\ timers[i][1] = timers[1][1] /\ timers[1] \notin R!Range(timers')
         => games' = games
    /\ \A k \in DOMAIN games \cap DOMAIN games' :
         \A i \in DOMAIN games[k].Players :
            LET p == games[k].Players[i] IN
            games'[k].id = games[k].id /\ p.slept + 1 < rvf_max_missed_turns
            => \E j \in DOMAIN games'[k].Players : games'[k].Players[j].Nick = p.Nick

LEMMA StillFair ==
  ASSUME games' = games
  PROVE  Fair
BY DEF Fair

(* The timers that were armed still are, and the games that go on keep     *)
(* their players.                                                          *)
LEMMA MoreFair ==
  ASSUME RvfInv, timers' = timers \/ \E t : timers' = Append(timers, t),
         \A k \in DOMAIN games \cap DOMAIN games' :
            games'[k] = games[k] \/ (GameInv(games'[k]) /\ SameTable(games[k], games'[k]))
  PROVE  Fair
<1>1. timers \in Seq(Keys \X Nat)
  BY DEF RvfInv, TimersFine
<1>2. ASSUME NEW i \in DOMAIN timers PROVE timers[1] \in R!Range(timers')
  <2>1. 1 \in DOMAIN timers
    BY <1>1, <1>2
  <2>2. CASE timers' = timers
    BY <2>1, <2>2 DEF R!Range
  <2>3. CASE \E t : timers' = Append(timers, t)
    <3>1. PICK t : timers' = Append(timers, t)
      BY <2>3
    <3>2. 1 \in DOMAIN timers' /\ timers'[1] = timers[1]
      BY <1>1, <2>1, <3>1
    <3> QED BY <3>2 DEF R!Range
  <2> QED BY <2>2, <2>3
<1>3. ASSUME NEW k \in DOMAIN games \cap DOMAIN games', NEW i \in DOMAIN games[k].Players
      PROVE  \E j \in DOMAIN games'[k].Players : games'[k].Players[j].Nick = games[k].Players[i].Nick
  <2>1. CASE games'[k] = games[k]
    BY <2>1
  <2>2. CASE GameInv(games'[k]) /\ SameTable(games[k], games'[k])
    <3>1. PICK g, h : g = games[k] /\ h = games'[k]
      OBVIOUS
    <3>2. g.Players \in Seq(PlayerType) /\ h.Players \in Seq(PlayerType)
      BY <2>2, <3>1 DEF RvfInv, GameBook, GameInv, Fine, GameType
    <3>3. DOMAIN g.Players = DOMAIN h.Players /\ i \in 1 .. Len(g.Players)
      BY <2>2, <3>1, <3>2 DEF SameTable
    <3> QED BY <2>2, <3>1, <3>3 DEF SameTable
  <2> QED BY <1>3, <2>1, <2>2
<1> QED BY <1>2, <1>3 DEF Fair

LEMMA GameStartStep ==
  ASSUME RvfInv, NEW k \in Keys, R!cbStart(k)
  PROVE  RvfInv' /\ Fair
<1>1. PICK nicks \in Lineups[k] : games' = R!With(games, k, R!NewGame(nicks, starts'))
  BY DEF R!cbStart
<1>2. /\ ~unloaded /\ starts' = starts + 1 /\ k \notin DOMAIN games
      /\ dirty' = dirty \cup {"games"} /\ starts \in Nat
      /\ Arms(timers, gen, k, timers', gen') /\ timers' = Append(timers, <<k, gen[k] + 1>>)
      /\ hiscores' = hiscores /\ saved' = saved /\ unloaded' = unloaded
  BY DEF R!cbStart, R!armTimer, Arms, RvfInv
<1>3. PICK n : n = starts + 1
  OBVIOUS
<1>4. PICK g : g = R!NewGame(nicks, n)
  OBVIOUS
<1>5. GameInv(g) /\ g.id = n
  BY <1>2, <1>3, <1>4, NewGameInv
<1>6. games' = R!With(games, k, g)
  BY <1>1, <1>2, <1>3, <1>4
<1>7. GameBook(games', hiscores, starts + 1) /\ GameBook(saved.games, saved.hiscores, starts + 1)
  BY <1>2, <1>3, <1>5, <1>6, BookNew, BookMore DEF RvfInv
<1>8. DOMAIN games' = DOMAIN games \cup {k} /\ \A j \in DOMAIN games : games'[j] = games[j]
  BY <1>2, <1>6 DEF R!With
<1>9. TimersFine(timers', gen', DOMAIN games')
  <2>1. TimersFine(timers, gen, DOMAIN games)
    BY <1>2 DEF RvfInv, Waited
  <2>2. PICK S : S = DOMAIN games'
    OBVIOUS
  <2>3. S \subseteq DOMAIN games \cup {k}
    BY <1>8, <2>2
  <2>4. TimersFine(timers', gen', S)
    BY <1>2, <2>1, <2>3, ArmedTimers
  <2> QED BY <2>2, <2>4
<1>10. RvfInv'
  BY <1>2, <1>7, <1>9 DEF RvfInv, Waited
<1>11. Fair
  BY <1>2, <1>8, MoreFair
<1> QED BY <1>10, <1>11

LEMMA GameStopStep ==
  ASSUME RvfInv, NEW k \in Keys, R!cbStop(k)
  PROVE  RvfInv' /\ Fair
<1>1. /\ ~unloaded /\ k \in DOMAIN games /\ R!endGame(k, timers) /\ dirty' = dirty \cup {"games"}
      /\ hiscores' = hiscores /\ saved' = saved /\ unloaded' = unloaded /\ starts' = starts
  BY DEF R!cbStop
<1>2. TimersFine(timers, gen, Waited \ {k})
  BY LessTimers DEF RvfInv
<1>3. hiscores' \in Seq(Scores) /\ R!Ids(hiscores') \subseteq R!Ids(hiscores) \cup {games[k].id}
  BY <1>1 DEF RvfInv, GameBook
<1>4. RvfInv'
  BY <1>1, <1>2, <1>3, EndGame DEF RvfInv
<1>5. timers' = timers /\ \A j \in DOMAIN games' : games'[j] = games[j]
  BY <1>1 DEF R!endGame
<1> QED BY <1>4, <1>5, MoreFair

LEMMA GameSolveStep ==
  ASSUME RvfInv, NEW k \in Keys, R!Solve(k)
  PROVE  RvfInv' /\ Fair
<1>1. PICK s : s = [id |-> games[k].id, Score |-> R!Current(games[k]).Money]
  OBVIOUS
<1>2. /\ ~unloaded /\ k \in DOMAIN games /\ R!endGame(k, timers)
      /\ hiscores' = R!recordScore(s)
      /\ dirty' = dirty \cup {"games"} \cup (IF s.Score > 0 THEN {"hiscores"} ELSE {})
      /\ saved' = saved /\ unloaded' = unloaded /\ starts' = starts
  BY <1>1 DEF R!Solve, R!CanMove
<1>3. TimersFine(timers, gen, Waited \ {k})
  BY LessTimers DEF RvfInv
<1>4. s \in Scores /\ s.id = games[k].id
  <2>1. games[k].id \in Nat /\ Fine(games[k])
    BY <1>2 DEF RvfInv, GameBook, GameInv
  <2>2. R!Current(games[k]) \in PlayerType
    BY <2>1 DEF Fine, GameType, R!Current
  <2> QED BY <1>1, <2>1, <2>2 DEF Scores, PlayerType
<1>5. hiscores \in Seq(Scores)
  BY DEF RvfInv, GameBook
<1>6. hiscores' \in Seq(Scores) /\ R!Ids(hiscores') \subseteq R!Ids(hiscores) \cup {games[k].id}
  BY <1>2, <1>4, <1>5, Recorded
<1>7. "hiscores" \in dirty' \/ (hiscores' = hiscores /\ "hiscores" \notin dirty)
  <2>1. CASE s.Score > 0
    BY <1>2, <2>1
  <2>2. CASE ~(s.Score > 0)
    BY <1>2, <1>4, <2>2 DEF R!recordScore, Scores
  <2> QED BY <2>1, <2>2
<1>8. dirty' \subseteq {"games", "hiscores"} /\ "games" \in dirty'
  BY <1>2 DEF RvfInv
<1>9. RvfInv'
  BY <1>2, <1>3, <1>6, <1>7, <1>8, EndGame
<1>10. timers' = timers /\ \A j \in DOMAIN games' : games'[j] = games[j]
  BY <1>2 DEF R!endGame
<1> QED BY <1>9, <1>10, MoreFair

LEMMA GameMoveStep ==
  ASSUME RvfInv, NEW k \in Keys, R!Spin(k) \/ R!CallLetter(k) \/ R!BuyVowel(k) \/ R!Pass(k)
  PROVE  RvfInv' /\ Fair
<1>1. PICK g : g = games[k]
  OBVIOUS
<1>2. ~unloaded /\ k \in DOMAIN games /\ Fine(g) /\ Owed(g)
  BY <1>1 DEF R!Spin, R!CallLetter, R!BuyVowel, R!Pass, R!CanMove, RvfInv, GameBook, GameInv
<1>3. \E h : Moved(g, h) /\ R!Move(k, h)
  <2>1. CASE R!Spin(k)
    <3>1. g.State = "action" /\ \E seg \in R!Segments : R!Move(k, R!Spun(g, seg))
      BY <1>1, <2>1 DEF R!Spin, R!CanMove
    <3> QED BY <1>2, <3>1, SpinMoves
  <2>2. CASE R!CallLetter(k)
    <3>1. g.State = "letter" /\ \E l \in GameLetters : R!Move(k, R!LetterCalled(g, l))
      BY <1>1, <2>2 DEF R!CallLetter, R!CanMove, GameLetters
    <3> QED BY <1>2, <3>1, CallMoves
  <2>3. CASE R!BuyVowel(k)
    <3>1. g.State = "action" /\ \E l \in GameLetters : R!Move(k, R!VowelBought(g, l))
      BY <1>1, <2>3 DEF R!BuyVowel, R!CanMove, GameLetters
    <3> QED BY <1>2, <3>1, BuyMoves
  <2>4. CASE R!Pass(k)
    <3>1. R!Move(k, R!advance(g))
      BY <1>1, <2>4 DEF R!Pass
    <3> QED BY <1>2, <3>1, AdvanceMoves
  <2> QED BY <2>1, <2>2, <2>3, <2>4
<1>4. PICK h : Moved(games[k], h) /\ R!Move(k, h)
  BY <1>1, <1>3
<1>5. /\ RvfInv' /\ DOMAIN games' = DOMAIN games /\ SameTable(games[k], games'[k])
      /\ \A j \in DOMAIN games : j # k => games'[j] = games[j]
      /\ timers' = Append(timers, <<k, gen[k] + 1>>)
  BY <1>2, <1>4, MoveGame
<1>6. GameInv(games'[k])
  BY <1>2, <1>5 DEF RvfInv, GameBook
<1> QED BY <1>5, <1>6, MoreFair

LEMMA TurnTimerStep ==
  ASSUME RvfInv, R!Fire
  PROVE  RvfInv' /\ Fair
<1>1. PICK t : t = timers[1]
  OBVIOUS
<1>2. /\ timers \in Seq(Keys \X Nat) /\ timers # <<>> /\ 1 \in 1 .. Len(timers) /\ Head(timers) = t
      /\ t[1] \in Keys /\ t[2] \in Nat /\ t = <<t[1], t[2]>>
  BY <1>1 DEF R!Fire, RvfInv, TimersFine
<1>3. /\ hiscores' = hiscores /\ saved' = saved /\ unloaded' = unloaded /\ starts' = starts
  BY DEF R!Fire, R!bounds
<1>4. PICK k : k = t[1]
  OBVIOUS
<1>5. TimersFine(timers, gen, Waited) /\ starts \in Nat
  BY DEF RvfInv
<1>6. CASE R!Live(t) /\ k \in DOMAIN games
  <2>1. ~unloaded /\ gen[k] = t[2] /\ R!turnTimeout(k, Tail(timers))
    BY <1>2, <1>4, <1>6 DEF R!Fire, R!Live
  <2>2. PICK T : T = Tail(timers)
    OBVIOUS
  <2>3. TimersFine(T, gen, Waited \ {k})
    <3>1. PICK S1 : S1 = Waited \ {k}
      OBVIOUS
    <3>2. S1 \subseteq Waited /\ \A j \in S1 : timers[1] # <<j, gen[j]>>
      BY <1>1, <1>4, <3>1
    <3> QED BY <1>2, <1>5, <2>2, <3>1, <3>2, FiredTimers
  <2>4. PICK g, h : g = games[k] /\ h = Slept(g)
    OBVIOUS
  <2>5. GameInv(g) /\ k \in Keys /\ g.id \in Nat
    BY <1>6, <2>4 DEF RvfInv, GameBook
  <2>6. PICK drop : drop = (R!Current(h).Missed >= rvf_max_missed_turns)
    OBVIOUS
  <2>7. /\ dirty' = dirty \cup {"games"}
        /\ IF drop /\ Len(h.Players) = 1
           THEN R!endGame(k, T)
           ELSE /\ games' = [games EXCEPT ![k] = IF drop THEN R!DropCurrent(h) ELSE R!advance(h)]
                /\ R!armTimer(k, T)
    BY <2>1, <2>2, <2>4, <2>6 DEF R!turnTimeout, Slept
  <2>8. \A i \in DOMAIN timers : ~(i > 1 /\ timers[i][1] = timers[1][1])
    <3>1. SUFFICES ASSUME NEW i \in 1 .. Len(timers), i > 1, timers[i][1] = timers[1][1] PROVE FALSE
      BY <1>2
    <3>2. timers[1][2] < timers[i][2] /\ timers[i][2] <= gen[timers[i][1]]
      BY <1>2, <1>5, <3>1 DEF TimersFine
    <3>3. timers[i][2] \in Nat /\ timers[1][2] = gen[k] /\ timers[i][1] = k
      BY <1>1, <1>2, <1>4, <2>1, <3>1
    <3> QED BY <1>1, <1>2, <3>2, <3>3
  <2>9. CASE drop /\ Len(h.Players) = 1
    <3>1. R!endGame(k, T)
      BY <2>7, <2>9
    <3>2. R!Ids(hiscores') \subseteq R!Ids(hiscores) \cup {games[k].id} /\ hiscores' \in Seq(Scores)
      BY <1>3 DEF RvfInv, GameBook
    <3>3. /\ dirty' \subseteq {"games", "hiscores"} /\ "games" \in dirty'
          /\ "hiscores" \in dirty' \/ (hiscores' = hiscores /\ "hiscores" \notin dirty)
      BY <1>3, <2>7 DEF RvfInv
    <3>4. RvfInv'
      BY <1>3, <1>6, <2>1, <2>3, <3>1, <3>2, <3>3, EndGame
    <3>5. k \notin DOMAIN games' /\ \A j \in DOMAIN games' : games'[j] = games[j]
      BY <3>1 DEF R!endGame
    <3>6. Fair
      BY <2>8, <3>5 DEF Fair
    <3> QED BY <3>4, <3>6
  <2>10. CASE ~(drop /\ Len(h.Players) = 1)
    <3>1. PICK m : m = IF drop THEN R!DropCurrent(h) ELSE R!advance(h)
      OBVIOUS
    <3>2. games' = [games EXCEPT ![k] = m] /\ Arms(T, gen, k, timers', gen')
      BY <2>7, <2>10, <3>1 DEF R!armTimer, Arms
    <3>3. /\ GameInv(m) /\ m.id = g.id
          /\ \A i \in 1 .. Len(g.Players) : g.Players[i].slept + 1 < rvf_max_missed_turns =>
                \E j \in 1 .. Len(m.Players) : m.Players[j].Nick = g.Players[i].Nick
      <4>1. CASE drop
        <5>1. m = R!DropCurrent(h) /\ Len(h.Players) # 1
          BY <2>10, <3>1, <4>1
        <5>2. /\ GameInv(m) /\ m.id = g.id
              /\ \A i \in 1 .. Len(g.Players) : i # g.Turn =>
                    \E j \in 1 .. Len(m.Players) : m.Players[j].Nick = g.Players[i].Nick
          BY <2>4, <2>5, <5>1, SleeperGoes
        <5>3. ~(g.Players[g.Turn].slept + 1 < rvf_max_missed_turns)
          <6>1. h.Turn = g.Turn /\ h.Players[g.Turn].Missed = g.Players[g.Turn].slept + 1
            BY <2>4, <2>5, SleeperSeat
          <6>2. g.Players[g.Turn] \in PlayerType
            BY <2>5 DEF GameInv, Fine, GameType
          <6>3. g.Players[g.Turn].slept \in Nat /\ rvf_max_missed_turns \in Nat
            BY <6>2, RvfSizes DEF PlayerType
          <6>4. R!Current(h).Missed >= rvf_max_missed_turns
            BY <2>6, <4>1
          <6>5. h.Players[g.Turn].Missed >= rvf_max_missed_turns
            BY <6>1, <6>4 DEF R!Current
          <6> QED BY <6>1, <6>3, <6>5
        <5> QED BY <5>2, <5>3
      <4>2. CASE ~drop
        <5>1. m = R!advance(h) /\ ~(R!Current(h).Missed >= rvf_max_missed_turns)
          BY <2>6, <3>1, <4>2
        <5>2. GameInv(m) /\ SameTable(g, m)
          BY <2>4, <2>5, <5>1, SleeperStays
        <5> QED BY <5>2 DEF SameTable
      <4> QED BY <4>1, <4>2
    <3>4. /\ DOMAIN games' = DOMAIN games /\ games'[k] = m
          /\ \A j \in DOMAIN games : j # k => games'[j] = games[j]
      BY <1>6, <3>2
    <3>5. GameBook(games', hiscores, starts)
      BY <1>5, <1>6, <2>4, <3>2, <3>3, BookMove DEF RvfInv
    <3>6. TimersFine(timers', gen', DOMAIN games)
      <4>1. TimersFine(T, gen, DOMAIN games \ {k})
        BY <2>1, <2>3 DEF Waited
      <4>2. DOMAIN games \subseteq (DOMAIN games \ {k}) \cup {k}
        OBVIOUS
      <4> QED BY <2>5, <3>2, <4>1, <4>2, ArmedTimers
    <3>7. RvfInv'
      BY <1>3, <2>1, <2>7, <3>4, <3>5, <3>6 DEF RvfInv, Waited
    <3>8. Fair
      <4>1. g.Players \in Seq(PlayerType) /\ m.Players \in Seq(PlayerType)
        BY <2>5, <3>3 DEF GameInv, Fine, GameType
      <4>2. DOMAIN g.Players = 1 .. Len(g.Players) /\ DOMAIN m.Players = 1 .. Len(m.Players)
        BY <4>1
      <4>3. ASSUME NEW j \in DOMAIN games \cap DOMAIN games', NEW i \in DOMAIN games[j].Players,
                   games[j].Players[i].slept + 1 < rvf_max_missed_turns
            PROVE  \E l \in DOMAIN games'[j].Players :
                      games'[j].Players[l].Nick = games[j].Players[i].Nick
        <5>1. CASE j = k
          BY <2>4, <3>3, <3>4, <4>2, <4>3, <5>1
        <5>2. CASE j # k
          BY <3>4, <4>3, <5>2
        <5> QED BY <5>1, <5>2
      <4> QED BY <2>8, <4>3 DEF Fair
    <3> QED BY <3>7, <3>8
  <2> QED BY <2>9, <2>10
<1>7. CASE ~(R!Live(t) /\ k \in DOMAIN games)
  <2>1. timers' = Tail(timers) /\ games' = games /\ gen' = gen /\ dirty' = dirty
    BY <1>2, <1>4, <1>7 DEF R!Fire
  <2>2. \A j \in Waited : timers[1] # <<j, gen[j]>>
    BY <1>1, <1>4, <1>7 DEF Waited, R!Live
  <2>3. TimersFine(timers', gen, Waited)
    BY <1>2, <1>5, <2>1, <2>2, FiredTimers
  <2>4. RvfInv'
    BY <1>3, <2>1, <2>3 DEF RvfInv, Waited
  <2> QED BY <2>1, <2>4, StillFair
<1> QED BY <1>6, <1>7

LEMMA RvfFlushStep ==
  ASSUME RvfInv, R!Flush
  PROVE  RvfInv' /\ Fair
<1>1. /\ games' = games /\ hiscores' = hiscores /\ gen' = gen /\ timers' = timers
      /\ unloaded' = unloaded /\ starts' = starts /\ dirty' = {}
  BY DEF R!Flush, R!Written, R!bounds
<1>2. saved'.games = games /\ saved'.hiscores = hiscores
  BY DEF R!Flush, R!Written, RvfInv
<1>3. RvfInv'
  BY <1>1, <1>2 DEF RvfInv, Waited
<1> QED BY <1>1, <1>3, StillFair

LEMMA RvfUnloadStep ==
  ASSUME RvfInv, R!Unload
  PROVE  RvfInv' /\ Fair
<1>1. /\ games' = games /\ hiscores' = hiscores /\ gen' = gen /\ timers' = timers
      /\ unloaded' = TRUE /\ starts' = starts /\ dirty' = dirty /\ saved' = saved
  BY DEF R!Unload, R!mem, R!bounds
<1>2. TimersFine(timers, gen, {})
  BY DEF RvfInv, TimersFine
<1>3. RvfInv'
  BY <1>1, <1>2 DEF RvfInv, Waited
<1> QED BY <1>1, <1>3, StillFair

LEMMA RvfRestartStep ==
  ASSUME RvfInv, R!Restart
  PROVE  RvfInv'
<1>1. /\ games' = saved.games /\ hiscores' = saved.hiscores /\ saved' = saved
      /\ dirty' = {} /\ unloaded' = FALSE /\ starts' = starts
      /\ gen' = [k \in Keys |-> IF k \in DOMAIN saved.games THEN 1 ELSE 0]
      /\ timers' \in R!SetToSeqs({<<k, 1>> : k \in DOMAIN saved.games})
  BY DEF R!Restart
<1>2. PICK S : S = DOMAIN saved.games
  OBVIOUS
<1>3. S \subseteq Keys /\ IsFiniteSet(S)
  BY <1>2 DEF RvfInv, GameBook
<1>4. TimersFine(timers', gen', S)
  BY <1>1, <1>2, <1>3, ReloadedTimers
<1> QED BY <1>1, <1>2, <1>4 DEF RvfInv, Waited

LEMMA RvfInitial ==
  ASSUME R!Init
  PROVE  RvfInv
<1>1. /\ DOMAIN games = {} /\ hiscores = <<>> /\ dirty = {} /\ timers = <<>>
      /\ gen = [k \in Keys |-> 0] /\ saved.games = games /\ saved.hiscores = hiscores
      /\ unloaded = FALSE /\ starts = 0
  BY DEF R!Init
<1>2. /\ <<>> \in Seq(Scores) /\ R!Ids(<<>>) = {} /\ <<>> \in Seq(Keys \X Nat)
      /\ Len(<<>>) = 0 /\ 1 .. 0 = {}
  BY DEF R!Ids
<1>3. GameBook(games, hiscores, starts)
  BY <1>1, <1>2, FS_EmptySet DEF GameBook
<1>4. TimersFine(timers, gen, {})
  BY <1>1, <1>2 DEF TimersFine
<1> QED BY <1>1, <1>3, <1>4 DEF RvfInv, Waited

LEMMA RvfStep ==
  ASSUME RvfInv, lives \in Nat, [R!Next]_R!vars
  PROVE  RvfInv' /\ lives' \in Nat /\ (lives' = lives => Fair)
<1>1. ASSUME NEW k \in Keys,
             R!cbStart(k) \/ R!cbStop(k) \/ R!Spin(k) \/ R!CallLetter(k) \/ R!BuyVowel(k) \/ R!Pass(k) \/ R!Solve(k)
      PROVE  RvfInv' /\ Fair /\ lives' = lives
  <2>1. lives' = lives
    BY <1>1 DEF R!cbStart, R!cbStop, R!Spin, R!CallLetter, R!BuyVowel, R!Pass, R!Solve, R!Move
  <2> QED BY <1>1, <2>1, GameStartStep, GameStopStep, GameMoveStep, GameSolveStep
<1>2. CASE R!Fire
  BY <1>2, TurnTimerStep DEF R!Fire, R!bounds
<1>3. CASE R!Flush
  BY <1>3, RvfFlushStep DEF R!Flush, R!bounds
<1>4. CASE R!Unload
  BY <1>4, RvfUnloadStep DEF R!Unload, R!bounds
<1>5. CASE R!Restart
  <2>1. lives' = lives + 1
    BY <1>5 DEF R!Restart
  <2> QED BY <1>5, <2>1, RvfRestartStep
<1>6. CASE UNCHANGED R!vars
  <2>1. /\ games' = games /\ hiscores' = hiscores /\ gen' = gen /\ timers' = timers
        /\ unloaded' = unloaded /\ starts' = starts /\ dirty' = dirty /\ saved' = saved
        /\ lives' = lives
    BY <1>6 DEF R!vars, R!mem, R!bounds
  <2>2. RvfInv'
    BY <2>1 DEF RvfInv, Waited
  <2> QED BY <2>1, <2>2, StillFair
<1> QED BY <1>1, <1>2, <1>3, <1>4, <1>5, <1>6 DEF R!Next

LEMMA RvfResumes ==
  ASSUME RvfInv
  PROVE  R!Resumable /\ R!OnePrize
<1>1. ASSUME NEW gs, NEW hs, GameBook(gs, hs, starts)
      PROVE  R!Seated(gs) /\ \A k \in DOMAIN gs : gs[k].id \notin R!Ids(hs)
  <2>1. ASSUME NEW k \in DOMAIN gs
        PROVE  /\ gs[k].Players # <<>> /\ gs[k].Turn \in DOMAIN gs[k].Players
               /\ \A i \in DOMAIN gs[k].Players : gs[k].Players[i].slept < rvf_max_missed_turns
    <3>1. GameInv(gs[k])
      BY <1>1 DEF GameBook
    <3>2. gs[k].Players \in Seq(PlayerType) /\ gs[k].Turn \in 1 .. Len(gs[k].Players)
      BY <3>1 DEF GameInv, Fine, GameType
    <3> QED BY <3>1, <3>2 DEF GameInv, Rested
  <2> QED BY <1>1, <2>1 DEF R!Seated, GameBook
<1>2. ASSUME ~unloaded, NEW k \in DOMAIN games
      PROVE  Cardinality({i \in DOMAIN timers : timers[i] = <<k, gen[k]>>}) = 1
  <2>1. TimersFine(timers, gen, DOMAIN games)
    BY <1>2 DEF RvfInv, Waited
  <2>2. DOMAIN timers = 1 .. Len(timers) /\ Len(timers) \in Nat
    BY <2>1 DEF TimersFine
  <2>3. PICK i \in 1 .. Len(timers) : timers[i] = <<k, gen[k]>>
    BY <2>1 DEF TimersFine
  <2>4. gen[k] \in Nat
    BY <2>1 DEF TimersFine
  <2>5. ASSUME NEW j \in 1 .. Len(timers), timers[j] = <<k, gen[k]>> PROVE j = i
    <3>1. timers[i][1] = k /\ timers[j][1] = k /\ timers[i][2] = gen[k] /\ timers[j][2] = gen[k]
      BY <2>3, <2>5
    <3>2. ~(i < j) /\ ~(j < i)
      BY <2>1, <2>4, <3>1, SMTT(30) DEF TimersFine
    <3> QED BY <2>2, <3>2
  <2>6. PICK S : S = {j \in DOMAIN timers : timers[j] = <<k, gen[k]>>}
    OBVIOUS
  <2>7. S = {i}
    BY <2>2, <2>3, <2>5, <2>6
  <2>8. Cardinality(S) = 1
    BY <2>7, FS_Singleton
  <2> QED BY <2>6, <2>8
<1> QED BY <1>1, <1>2, RvfCardinality DEF RvfInv, R!Resumable, R!OnePrize

(* A letter is owed to the player whose turn it is, and nobody in debt.    *)
LEMMA RvfOwes ==
  ASSUME RvfInv, NEW k \in DOMAIN games
  PROVE  /\ Owed(games[k])
         /\ \A i \in DOMAIN games[k].Players : games[k].Players[i].Money >= 0
<1>1. PICK g : g = games[k] /\ GameInv(g)
  BY DEF RvfInv, GameBook
<1>2. g.Players \in Seq(PlayerType)
  BY <1>1 DEF GameInv, Fine, GameType
<1>3. \A i \in DOMAIN g.Players : g.Players[i] \in PlayerType
  BY <1>2
<1>4. \A i \in DOMAIN g.Players : g.Players[i].Money >= 0
  BY <1>3 DEF PlayerType
<1> QED BY <1>1, <1>4 DEF GameInv

LEMMA RvfInvariant == R!Spec => [](RvfInv /\ lives \in Nat)
<1>1. R!Init => RvfInv /\ lives \in Nat
  <2>1. R!Init => lives = 0
    BY DEF R!Init
  <2> QED BY <2>1, RvfInitial
<1>2. RvfInv /\ lives \in Nat /\ [R!Next]_R!vars => (RvfInv /\ lives \in Nat)'
  BY RvfStep
<1> QED BY <1>1, <1>2, PTL DEF R!Spec

(* For any tables, letters and wheel: a game in memory or in the store has   *)
(* somebody at turn, nobody in it slept through all his turns, and while the *)
(* bot runs exactly one turn timer is live for it (armTimer, turnTimeout,    *)
(* Load).                                                                    *)
THEOREM RvfResumable == R!Spec => []R!Resumable
<1>1. RvfInv => R!Resumable
  BY RvfResumes
<1> QED BY <1>1, RvfInvariant, PTL

(* A game that has put its winner in the hall of fame is in no book that a    *)
(* restart could load, whatever was or was not written (cbSolve, Flush).     *)
THEOREM RvfOnePrize == R!Spec => []R!OnePrize
<1>1. RvfInv => R!OnePrize
  BY RvfResumes
<1> QED BY <1>1, RvfInvariant, PTL

(* While the bot runs, a timer that is not the last of its table moves no    *)
(* game, and a step takes nobody out of a game who did not just sleep        *)
(* through the last of his turns (turnTimeout, moveDone).                   *)
THEOREM RvfFairTurns == R!Spec => R!FairTurns
<1>1. RvfInv /\ lives \in Nat /\ [R!Next]_R!vars => [lives' = lives => Fair]_R!vars
  BY RvfStep
<1>2. [lives' = lives => Fair]_R!vars => [lives' = lives =>
         /\ \A i \in DOMAIN timers :
              i > 1 /\ timers[i][1] = timers[1][1] /\ timers[1] \notin R!Range(timers')
              => games' = games
         /\ \A k \in DOMAIN games \cap DOMAIN games' :
              \A i \in DOMAIN games[k].Players :
                 LET p == games[k].Players[i] IN
                 games'[k].id = games[k].id /\ p.slept + 1 < rvf_max_missed_turns
                 => \E j \in DOMAIN games'[k].Players : games'[k].Players[j].Nick = p.Nick]_R!vars
  BY DEF Fair
<1> QED BY <1>1, <1>2, RvfInvariant, PTL DEF R!Spec, R!FairTurns

(***************************************************************************)
(* The books of a game: what its players hold, what its vowels cost, what  *)
(* the letters called were worth.                                          *)
(***************************************************************************)
Moneys(ps) == [i \in DOMAIN ps |-> ps[i].Money]
PursesHeld(ps) == Total(Moneys(ps), DOMAIN ps)
LetterValues == [l \in Consonants |-> R!Max(Amounts) * Count[l]]
LettersWorth(s) == Total(LetterValues, s \cap Consonants)
VowelsCost(s) == rvf_vowel_cost * Cardinality(s \cap Vowels)
Balanced(g) ==
    /\ IsFiniteSet(g.Guessed)
    /\ g.State = "letter" => g.Pending \in Amounts
    /\ PursesHeld(g.Players) + VowelsCost(g.Guessed) <= LettersWorth(g.Guessed)

LEMMA MaxAmount ==
  /\ R!Max(Amounts) \in Nat /\ \A aa \in Amounts : aa \in Nat /\ R!Max(Amounts) >= aa
  /\ \A l \in Consonants : LetterValues[l] \in Nat /\ LetterValues[l] = R!Max(Amounts) * Count[l] /\ Count[l] \in Nat
<1>1. Amounts \subseteq Nat /\ Amounts \subseteq Int /\ Amounts # {} /\ IsFiniteSet(Amounts)
  BY RvfAssumption DEF R!RvfConstants, R!IsFiniteSet, IsFiniteSet
<1>2. \E x \in Amounts : \A y \in Amounts : x >= y
  BY <1>1, HasLargest
<1>3. PICK m : m = R!Max(Amounts)
  OBVIOUS
<1>4. m \in Amounts /\ \A y \in Amounts : m >= y
  BY <1>2, <1>3 DEF R!Max
<1>5. m \in Nat
  BY <1>1, <1>4
<1>6. ASSUME NEW l \in Consonants
      PROVE  LetterValues[l] \in Nat /\ LetterValues[l] = R!Max(Amounts) * Count[l] /\ Count[l] \in Nat
  <2>1. Count[l] \in Nat
    BY RvfSizes DEF GameLetters
  <2>2. LetterValues[l] = m * Count[l]
    BY <1>3 DEF LetterValues
  <2>3. m * Count[l] \in Nat
    BY <1>5, <2>1
  <2> QED BY <1>3, <2>1, <2>2, <2>3
<1> QED BY <1>1, <1>3, <1>4, <1>5, <1>6

LEMMA Purses ==
  ASSUME NEW ps \in Seq(PlayerType)
  PROVE  /\ IsFiniteSet(DOMAIN ps) /\ DOMAIN ps = 1 .. Len(ps) /\ Len(ps) \in Nat
         /\ \A i \in DOMAIN ps : Moneys(ps)[i] = ps[i].Money /\ Moneys(ps)[i] \in Nat
         /\ PursesHeld(ps) \in Int
<1>1. DOMAIN ps = 1 .. Len(ps) /\ Len(ps) \in Nat
  OBVIOUS
<1>2. PICK S : S = DOMAIN ps
  OBVIOUS
<1>3. IsFiniteSet(S)
  BY <1>1, <1>2, FS_Interval
<1>4. \A i \in S : ps[i] \in PlayerType
  BY <1>2
<1>5. \A i \in S : Moneys(ps)[i] = ps[i].Money /\ Moneys(ps)[i] \in Nat
  BY <1>2, <1>4 DEF Moneys, PlayerType
<1>6. \A i \in S : Moneys(ps)[i] \in Int
  BY <1>5
<1>7. Total(Moneys(ps), S) \in Int
  BY <1>3, <1>6, TotalInt
<1> QED BY <1>1, <1>2, <1>3, <1>5, <1>7 DEF PursesHeld

(* One purse changes, or none.                                             *)
LEMMA PurseChange ==
  ASSUME NEW ps \in Seq(PlayerType), NEW qs \in Seq(PlayerType), Len(qs) = Len(ps),
         NEW m \in 1 .. Len(ps),
         \A i \in 1 .. Len(ps) : i # m => qs[i].Money = ps[i].Money
  PROVE  PursesHeld(qs) = PursesHeld(ps) + (qs[m].Money - ps[m].Money)
<1>1. PICK S : S = DOMAIN ps
  OBVIOUS
<1>2. IsFiniteSet(S) /\ S = 1 .. Len(ps) /\ S = DOMAIN qs
  BY <1>1, Purses
<1>3. PICK F, G : F = Moneys(ps) /\ G = Moneys(qs)
  OBVIOUS
<1>4. \A i \in S : F[i] = ps[i].Money /\ F[i] \in Int
  BY <1>1, <1>3, Purses
<1>5. \A i \in S : G[i] = qs[i].Money /\ G[i] \in Int
  BY <1>2, <1>3, Purses
<1>6. PICK y : y = m
  OBVIOUS
<1>7. /\ y \in S /\ G[y] \in Int /\ F[y] = ps[m].Money /\ G[y] = qs[m].Money
      /\ \A i \in S \ {y} : G[i] = F[i]
  BY <1>2, <1>4, <1>5, <1>6
<1>8. \A i \in S : F[i] \in Int
  BY <1>4
<1>9. Total(G, S) = Total(F, S) + (G[y] - F[y])
  <2>1. /\ IsFiniteSet(S) /\ y \in S /\ G[y] \in Int
        /\ \A i \in S \ {y} : G[i] = F[i]
    BY <1>2, <1>7
  <2> QED BY <1>8, <2>1, TotalChange
<1> QED BY <1>1, <1>2, <1>3, <1>7, <1>9 DEF PursesHeld

(* Who leaves takes his purse.                                             *)
LEMMA PurseGone ==
  ASSUME NEW ps \in Seq(PlayerType), NEW qs \in Seq(PlayerType), NEW m \in 1 .. Len(ps), Len(qs) = Len(ps) - 1,
         \A j \in 1 .. Len(ps) - 1 : qs[j] = IF j < m THEN ps[j] ELSE ps[j + 1]
  PROVE  PursesHeld(qs) = PursesHeld(ps) - ps[m].Money
<1>1. PICK S, n : S = DOMAIN ps /\ n = Len(ps)
  OBVIOUS
<1>2. IsFiniteSet(S) /\ S = 1 .. n /\ n \in Nat /\ m \in S /\ m \in Int
  BY <1>1, Purses
<1>3. PICK F, G : F = Moneys(ps) /\ G = Moneys(qs)
  OBVIOUS
<1>4. \A i \in S : F[i] = ps[i].Money /\ F[i] \in Int
  BY <1>1, <1>3, Purses
<1>5. PICK Rs, U : Rs = S \ {m} /\ U = 1 .. n - 1
  OBVIOUS
<1>6. \A j \in U : G[j] = qs[j].Money
  <2>1. U = DOMAIN qs
    BY <1>1, <1>5, Purses
  <2> QED BY <1>3, <2>1, Purses
<1>7. PICK bd : bd = [i \in Rs |-> IF i < m THEN i ELSE i - 1]
  OBVIOUS
<1>8. \A i \in Rs : i \in 1 .. n /\ i # m /\ bd[i] \in U /\ bd[i] = IF i < m THEN i ELSE i - 1
  BY <1>2, <1>5, <1>7
<1>9. bd \in Bijection(Rs, U)
  <2>1. bd \in [Rs -> U]
    BY <1>7, <1>8
  <2>2. \A i, j \in Rs : bd[i] = bd[j] => i = j
    BY <1>2, <1>8
  <2>3. ASSUME NEW j \in U PROVE \E i \in Rs : bd[i] = j
    <3>1. CASE j < m
      <4>1. j \in Rs
        BY <1>2, <1>5, <3>1
      <4> QED BY <1>8, <3>1, <4>1
    <3>2. CASE ~(j < m)
      <4>1. j + 1 \in Rs /\ ~(j + 1 < m) /\ (j + 1) - 1 = j
        BY <1>2, <1>5, <3>2
      <4> QED BY <1>8, <4>1
    <3> QED BY <3>1, <3>2
  <2> QED BY <2>1, <2>2, <2>3 DEF Bijection, Injection, Surjection, IsInjective
<1>10. \A i \in Rs : G[bd[i]] = F[i]
  <2>1. SUFFICES ASSUME NEW i \in Rs PROVE G[bd[i]] = F[i]
    OBVIOUS
  <2>2. i \in S /\ bd[i] \in U
    BY <1>5, <1>8
  <2>3. qs[bd[i]] = ps[i]
    <3>1. CASE i < m
      BY <1>1, <1>5, <1>8, <2>2, <3>1
    <3>2. CASE ~(i < m)
      <4>1. bd[i] = i - 1 /\ ~(bd[i] < m) /\ bd[i] + 1 = i
        BY <1>2, <1>8, <3>2
      <4> QED BY <1>1, <1>5, <2>2, <4>1
    <3> QED BY <3>1, <3>2
  <2> QED BY <1>4, <1>6, <2>2, <2>3
<1>11. IsFiniteSet(Rs) /\ \A i \in Rs : F[i] \in Int
  BY <1>2, <1>4, <1>5, FS_RemoveElement
<1>12. Total(G, U) = Total(F, Rs)
  BY <1>9, <1>10, <1>11, TotalRenamed
<1>13. Total(F, S) = F[m] + Total(F, S \ {m}) /\ Total(F, S) \in Int /\ Total(F, S \ {m}) \in Int
  BY <1>2, <1>4, TotalTake
<1>14. PursesHeld(qs) = Total(G, U)
  <2>1. DOMAIN qs = U
    BY <1>1, <1>5, Purses
  <2> QED BY <1>3, <2>1 DEF PursesHeld
<1>15. PursesHeld(ps) = Total(F, S) /\ F[m] = ps[m].Money /\ F[m] \in Int
  BY <1>1, <1>2, <1>3, <1>4 DEF PursesHeld
<1> QED BY <1>5, <1>12, <1>13, <1>14, <1>15

Poorer(g, h) ==
    /\ h.Players \in Seq(PlayerType) /\ Len(h.Players) = Len(g.Players) /\ h.Guessed = g.Guessed
    /\ \E m \in 1 .. Len(g.Players) :
         /\ h.Players[m].Money <= g.Players[m].Money
         /\ \A i \in 1 .. Len(g.Players) : i # m => h.Players[i].Money = g.Players[i].Money
    /\ h.State = "letter" => h.Pending \in Amounts

LEMMA Accounts ==
  ASSUME NEW s, IsFiniteSet(s)
  PROVE  /\ VowelsCost(s) \in Int /\ LettersWorth(s) \in Int
         /\ \A l \in Consonants \ s : LettersWorth(s \cup {l}) = LettersWorth(s) + LetterValues[l] /\ VowelsCost(s \cup {l}) = VowelsCost(s)
         /\ \A l \in Vowels \ s : LettersWorth(s \cup {l}) = LettersWorth(s) /\ VowelsCost(s \cup {l}) = VowelsCost(s) + rvf_vowel_cost
<1>0. rvf_vowel_cost \in Nat /\ Vowels \cap Consonants = {}
  BY RvfAssumption DEF R!RvfConstants
<1>1. PICK cs, vs : cs = s \cap Consonants /\ vs = s \cap Vowels
  OBVIOUS
<1>2. IsFiniteSet(cs) /\ IsFiniteSet(vs)
  <2>1. cs \in SUBSET s /\ vs \in SUBSET s
    BY <1>1
  <2> QED BY <2>1, FS_Subset
<1>3. \A l \in cs : LetterValues[l] \in Int
  BY <1>1, MaxAmount
<1>4. PICK n : n = Cardinality(vs)
  OBVIOUS
<1>5. n \in Nat
  BY <1>2, <1>4, FS_CardinalityType
<1>6. VowelsCost(s) = rvf_vowel_cost * n /\ LettersWorth(s) = Total(LetterValues, cs)
  BY <1>1, <1>4 DEF VowelsCost, LettersWorth
<1>7. VowelsCost(s) \in Int
  BY <1>0, <1>5, <1>6
<1>8. LettersWorth(s) \in Int
  BY <1>2, <1>3, <1>6, TotalInt
<1>9. ASSUME NEW l \in Consonants \ s
      PROVE  LettersWorth(s \cup {l}) = LettersWorth(s) + LetterValues[l] /\ VowelsCost(s \cup {l}) = VowelsCost(s)
  <2>1. PICK d : d = cs \cup {l}
    OBVIOUS
  <2>2. (s \cup {l}) \cap Consonants = d /\ (s \cup {l}) \cap Vowels = vs /\ l \notin cs
    BY <1>0, <1>1, <2>1
  <2>3. \A x \in cs \cup {l} : LetterValues[x] \in Int
    BY <1>1, MaxAmount
  <2>4. Total(LetterValues, cs \cup {l}) = Total(LetterValues, cs) + LetterValues[l]
    BY <1>2, <2>2, <2>3, TotalAdd
  <2> QED BY <1>4, <1>6, <2>1, <2>2, <2>4 DEF VowelsCost, LettersWorth
<1>10. ASSUME NEW l \in Vowels \ s
       PROVE  LettersWorth(s \cup {l}) = LettersWorth(s) /\ VowelsCost(s \cup {l}) = VowelsCost(s) + rvf_vowel_cost
  <2>1. PICK d : d = vs \cup {l}
    OBVIOUS
  <2>2. (s \cup {l}) \cap Consonants = cs /\ (s \cup {l}) \cap Vowels = d /\ l \notin vs
    BY <1>0, <1>1, <2>1
  <2>3. Cardinality(d) = n + 1
    BY <1>2, <1>4, <2>1, <2>2, FS_AddElement
  <2>4. LettersWorth(s \cup {l}) = Total(LetterValues, cs) /\ VowelsCost(s \cup {l}) = rvf_vowel_cost * (n + 1)
    BY <2>2, <2>3 DEF VowelsCost, LettersWorth
  <2>5. rvf_vowel_cost * (n + 1) = rvf_vowel_cost * n + rvf_vowel_cost
    BY <1>0, <1>5
  <2> QED BY <1>6, <2>4, <2>5
<1> QED BY <1>7, <1>8, <1>9, <1>10

LEMMA PoorerBalanced ==
  ASSUME NEW g, Fine(g), Balanced(g), NEW h, Poorer(g, h)
  PROVE  Balanced(h)
<1>1. PICK ps, qs : ps = g.Players /\ qs = h.Players
  OBVIOUS
<1>2. ps \in Seq(PlayerType) /\ qs \in Seq(PlayerType) /\ Len(qs) = Len(ps)
  BY <1>1 DEF Fine, GameType, Poorer
<1>3. PICK m \in 1 .. Len(ps) :
         /\ qs[m].Money <= ps[m].Money
         /\ \A i \in 1 .. Len(ps) : i # m => qs[i].Money = ps[i].Money
  BY <1>1 DEF Poorer
<1>4. PursesHeld(qs) = PursesHeld(ps) + (qs[m].Money - ps[m].Money)
  BY <1>2, <1>3, PurseChange
<1>5. qs[m].Money \in Int /\ ps[m].Money \in Int
  <2>1. qs[m] \in PlayerType /\ ps[m] \in PlayerType
    BY <1>2, <1>3
  <2> QED BY <2>1 DEF PlayerType
<1>6. PursesHeld(ps) \in Int
  BY <1>2, Purses
<1>7. PursesHeld(qs) <= PursesHeld(ps) /\ PursesHeld(qs) \in Int
  BY <1>3, <1>4, <1>5, <1>6
<1>8. PICK s : s = g.Guessed
  OBVIOUS
<1>9. IsFiniteSet(s) /\ PursesHeld(ps) + VowelsCost(s) <= LettersWorth(s) /\ h.Guessed = s
  BY <1>1, <1>8 DEF Balanced, Poorer
<1>10. VowelsCost(s) \in Int /\ LettersWorth(s) \in Int
  BY <1>9, Accounts
<1>11. PursesHeld(qs) + VowelsCost(s) <= LettersWorth(s)
  BY <1>6, <1>7, <1>9, <1>10
<1> QED BY <1>1, <1>9, <1>11 DEF Balanced, Poorer

(* Nothing is paid and nothing owed: the turn passes.                      *)
LEMMA AdvancePoorer ==
  ASSUME NEW g, Fine(g)
  PROVE  Poorer(g, R!advance(g))
<1>1. PICK n : n = (g.Turn % Len(g.Players)) + 1
  OBVIOUS
<1>2. PICK h : h = R!advance(g)
  OBVIOUS
<1>3. g \in GameType /\ g.Players \in Seq(PlayerType) /\ g.Turn \in 1 .. Len(g.Players)
  BY DEF Fine, GameType
<1>4. h = [g EXCEPT !.Turn = n, !.State = "action", !.Pending = 0]
  BY <1>1, <1>2 DEF R!advance
<1>5. h.Players = g.Players /\ h.Guessed = g.Guessed /\ h.State = "action"
  BY <1>3, <1>4 DEF GameType
<1>6. \A i \in 1 .. Len(g.Players) : g.Players[i].Money <= g.Players[i].Money
  <2>1. \A i \in 1 .. Len(g.Players) : g.Players[i] \in PlayerType
    BY <1>3
  <2>2. \A i \in 1 .. Len(g.Players) : g.Players[i].Money \in Nat
    BY <2>1 DEF PlayerType
  <2> QED BY <2>2
<1> QED BY <1>2, <1>3, <1>5, <1>6 DEF Poorer

LEMMA LosePoorer ==
  ASSUME NEW g, Fine(g)
  PROVE  Poorer(g, R!loseTurn(g))
<1>1. CASE R!Current(g).Joker
  <2>1. PICK p : p = [g.Players[g.Turn] EXCEPT !.Joker = FALSE]
    OBVIOUS
  <2>2. PICK h : h = R!loseTurn(g)
    OBVIOUS
  <2>3. /\ g.Players[g.Turn] \in PlayerType /\ g.Turn \in 1 .. Len(g.Players)
        /\ g.Players \in Seq(PlayerType)
    BY DEF Fine, GameType
  <2>4. p \in PlayerType /\ p.Money = g.Players[g.Turn].Money /\ p.Money \in Nat
    BY <2>1, <2>3 DEF PlayerType
  <2>5. PICK ps : ps = [g.Players EXCEPT ![g.Turn] = p]
    OBVIOUS
  <2>6. ps \in Seq(PlayerType) /\ Len(ps) = Len(g.Players)
        /\ \A i \in 1 .. Len(g.Players) : ps[i] = IF i = g.Turn THEN p ELSE g.Players[i]
    BY <2>3, <2>4, <2>5
  <2>7. h = [g EXCEPT !.Players = ps, !.State = "action", !.Pending = 0]
    BY <1>1, <2>1, <2>2, <2>5 DEF R!loseTurn
  <2>8. h.Players = ps /\ h.Guessed = g.Guessed /\ h.State = "action"
    BY <2>6, <2>7 DEF Fine, GameType
  <2>9. Poorer(g, h)
    BY <2>3, <2>4, <2>6, <2>8 DEF Poorer
  <2> QED BY <2>2, <2>9
<1>2. CASE ~R!Current(g).Joker
  BY <1>2, AdvancePoorer DEF R!loseTurn
<1> QED BY <1>1, <1>2

LEMMA LoseBalanced ==
  ASSUME NEW g, Fine(g), Balanced(g)
  PROVE  Balanced(R!loseTurn(g))
<1>1. PICK h : h = R!loseTurn(g)
  OBVIOUS
<1>2. Poorer(g, h)
  BY <1>1, LosePoorer
<1>3. Balanced(h)
  BY <1>2, PoorerBalanced
<1> QED BY <1>1, <1>3

LEMMA AdvanceBalanced ==
  ASSUME NEW g, Fine(g), Balanced(g)
  PROVE  Balanced(R!advance(g))
<1>1. PICK h : h = R!advance(g)
  OBVIOUS
<1>2. Poorer(g, h)
  BY <1>1, AdvancePoorer
<1>3. Balanced(h)
  BY <1>2, PoorerBalanced
<1> QED BY <1>1, <1>3

(* A purse emptied, a joker or a nap changes no balance for the worse.      *)
LEMMA SeatBalanced ==
  ASSUME NEW g, Fine(g), Balanced(g), NEW m \in 1 .. Len(g.Players),
         NEW p \in PlayerType, p.Money <= g.Players[m].Money,
         NEW h, h = [g EXCEPT !.Players = [@ EXCEPT ![m] = p]]
  PROVE  /\ Fine(h) /\ Balanced(h) /\ Len(h.Players) = Len(g.Players) /\ h.Players[m] = p
         /\ h.Turn = g.Turn
<1>1. g \in GameType
  BY DEF Fine
<1>2. /\ h \in GameType /\ Len(h.Players) = Len(g.Players) /\ h.Players[m] = p
      /\ \A i \in 1 .. Len(g.Players) : i # m => h.Players[i] = g.Players[i]
      /\ h.Turn = g.Turn /\ h.State = g.State /\ h.Pending = g.Pending /\ h.Guessed = g.Guessed
  BY <1>1, SeatChange
<1>3. h.Players \in Seq(PlayerType)
  BY <1>2 DEF GameType
<1>4. Poorer(g, h)
  <2>1. h.State = "letter" => h.Pending \in Amounts
    BY <1>2 DEF Balanced
  <2> QED BY <1>2, <1>3, <2>1 DEF Poorer
<1>5. Fine(h)
  BY <1>2 DEF Fine
<1> QED BY <1>2, <1>4, <1>5, PoorerBalanced

LEMMA SpinBalanced ==
  ASSUME NEW g, Fine(g), g.State = "action", Balanced(g), NEW seg \in R!Segments
  PROVE  Balanced(R!Spun(g, seg))
<1>0. /\ g \in GameType /\ g.Turn \in 1 .. Len(g.Players) /\ g.Players[g.Turn] \in PlayerType
      /\ g.Players \in Seq(PlayerType)
  BY DEF Fine, GameType
<1>1. \A i \in 1 .. Len(g.Players) : g.Players[i].Money <= g.Players[i].Money
  <2>1. \A i \in 1 .. Len(g.Players) : g.Players[i] \in PlayerType
    BY <1>0
  <2>2. \A i \in 1 .. Len(g.Players) : g.Players[i].Money \in Nat
    BY <2>1 DEF PlayerType
  <2> QED BY <2>2
<1>7. g.Players[g.Turn].Money \in Nat
  BY <1>0 DEF PlayerType
<1>2. CASE seg.Kind = "money"
  <2>1. seg.Amount \in Amounts
    BY <1>2 DEF R!Segments
  <2>2. PICK h : h = R!Spun(g, seg)
    OBVIOUS
  <2>3. h = [g EXCEPT !.State = "letter", !.Pending = seg.Amount, !.spinner = g.Players[g.Turn].Nick]
    BY <1>2, <2>2 DEF R!Spun, R!Current
  <2>4. h.Players = g.Players /\ h.Pending = seg.Amount /\ h.Guessed = g.Guessed
    BY <1>0, <2>3 DEF GameType
  <2>5. Poorer(g, h)
    BY <1>0, <1>1, <2>1, <2>4 DEF Poorer
  <2> QED BY <2>2, <2>5, PoorerBalanced
<1>4. CASE seg.Kind = "bankrupt"
  <2>1. PICK p : p = [g.Players[g.Turn] EXCEPT !.Money = 0]
    OBVIOUS
  <2>2. p \in PlayerType /\ p.Money <= g.Players[g.Turn].Money
    <3>1. p \in PlayerType /\ p.Money = 0
      BY <1>0, <2>1 DEF PlayerType
    <3> QED BY <1>7, <3>1
  <2>3. PICK h : h = [g EXCEPT !.Players = [@ EXCEPT ![g.Turn] = p]]
    OBVIOUS
  <2>4. Fine(h) /\ Balanced(h)
    BY <1>0, <2>2, <2>3, SeatBalanced
  <2>5. R!Spun(g, seg) = R!loseTurn(h)
    BY <1>4, <2>1, <2>3 DEF R!Spun
  <2> QED BY <2>4, <2>5, LoseBalanced
<1>5. CASE seg.Kind = "loseTurn"
  BY <1>5, LoseBalanced DEF R!Spun
<1>6. CASE seg.Kind = "joker"
  <2>1. PICK p : p = [g.Players[g.Turn] EXCEPT !.Joker = TRUE]
    OBVIOUS
  <2>2. p \in PlayerType /\ p.Money <= g.Players[g.Turn].Money
    <3>1. p \in PlayerType /\ p.Money = g.Players[g.Turn].Money
      BY <1>0, <2>1 DEF PlayerType
    <3> QED BY <1>7, <3>1
  <2>3. PICK h : h = [g EXCEPT !.Players = [@ EXCEPT ![g.Turn] = p]]
    OBVIOUS
  <2>4. Balanced(h)
    BY <1>0, <2>2, <2>3, SeatBalanced
  <2>5. R!Spun(g, seg) = h
    BY <1>6, <2>1, <2>3 DEF R!Spun
  <2> QED BY <2>4, <2>5
<1> QED BY <1>2, <1>4, <1>5, <1>6 DEF R!Segments

LEMMA CallBalanced ==
  ASSUME NEW g, Fine(g), g.State = "letter", Balanced(g), NEW l \in GameLetters
  PROVE  Balanced(R!LetterCalled(g, l))
<1>1. CASE l \notin Consonants
  BY <1>1 DEF R!LetterCalled
<1>2. CASE l \in Consonants
  <2>1. PICK bd, s, t : bd = [g EXCEPT !.Guessed = @ \cup {l}] /\ s = g.Guessed /\ t = s \cup {l}
    OBVIOUS
  <2>2. /\ Fine(bd) /\ bd.Players = g.Players /\ bd.Turn = g.Turn /\ bd.Pending = g.Pending
        /\ bd.State = "letter"
    BY <2>1, LetterPut
  <2>3. bd.Guessed = t /\ g.Pending \in Amounts
    BY <2>1 DEF Fine, GameType, Balanced
  <2>4. PICK sum : sum = PursesHeld(g.Players)
    OBVIOUS
  <2>5. IsFiniteSet(s) /\ sum + VowelsCost(s) <= LettersWorth(s) /\ g.Pending \in Amounts
    BY <2>1, <2>4 DEF Balanced
  <2>6. IsFiniteSet(t) /\ sum \in Int /\ VowelsCost(s) \in Int /\ LettersWorth(s) \in Int
    <3>1. IsFiniteSet(t)
      BY <2>1, <2>5, FS_AddElement
    <3>2. g.Players \in Seq(PlayerType)
      BY DEF Fine, GameType
    <3>3. sum \in Int
      BY <2>4, <3>2, Purses
    <3> QED BY <2>5, <3>1, <3>3, Accounts
  <2>7. LetterValues[l] \in Nat /\ LetterValues[l] = R!Max(Amounts) * Count[l] /\ Count[l] \in Nat
    BY <1>2, MaxAmount
  <2>8. ASSUME l \notin s PROVE LettersWorth(t) = LettersWorth(s) + LetterValues[l] /\ VowelsCost(t) = VowelsCost(s)
    <3>1. l \in Consonants \ s
      BY <1>2, <2>8
    <3> QED BY <2>1, <2>5, <3>1, Accounts
  <2>9. Balanced(bd)
    <3>1. sum + VowelsCost(t) <= LettersWorth(t)
      <4>1. CASE l \in s
        <5>1. t = s
          BY <2>1, <4>1
        <5> QED BY <2>5, <5>1
      <4>2. CASE l \notin s
        BY <2>5, <2>6, <2>7, <2>8, <4>2
      <4> QED BY <4>1, <4>2
    <3> QED BY <2>2, <2>3, <2>4, <2>6, <3>1 DEF Balanced
  <2>10. CASE l \in g.Guessed \/ Count[l] = 0
    <3>1. R!LetterCalled(g, l) = R!loseTurn(bd)
      BY <1>2, <2>1, <2>10 DEF R!LetterCalled
    <3> QED BY <2>2, <2>9, <3>1, LoseBalanced
  <2>11. CASE ~(l \in g.Guessed \/ Count[l] = 0)
    <3>1. bd \in GameType /\ bd.Turn \in 1 .. Len(bd.Players) /\ bd.Players[bd.Turn] \in PlayerType
          /\ bd.Players \in Seq(PlayerType) /\ bd.Players[bd.Turn].Money \in Nat
      <4>1. bd \in GameType /\ bd.Turn \in 1 .. Len(bd.Players) /\ bd.Players[bd.Turn] \in PlayerType
            /\ bd.Players \in Seq(PlayerType)
        BY <2>2 DEF Fine, GameType
      <4> QED BY <4>1 DEF PlayerType
    <3>2. PICK won : won = g.Pending * Count[l]
      OBVIOUS
    <3>3. won \in Nat /\ won <= LetterValues[l]
      <4>1. PICK m, q, cs : m = R!Max(Amounts) /\ q = g.Pending /\ cs = Count[l]
        OBVIOUS
      <4>2. m \in Nat /\ q \in Nat /\ cs \in Nat /\ q <= m
        BY <2>3, <2>7, <4>1, MaxAmount
      <4>3. q * cs <= m * cs /\ q * cs \in Nat
        <5>1. m - q \in Nat /\ (m - q) * cs \in Nat
          BY <4>2
        <5>2. (m - q) * cs = m * cs - q * cs
          BY <4>2
        <5>3. q * cs \in Nat /\ m * cs \in Nat
          BY <4>2
        <5> QED BY <5>1, <5>2, <5>3
      <4> QED BY <2>7, <3>2, <4>1, <4>3
    <3>4. PICK p : p = [bd.Players[bd.Turn] EXCEPT !.Money = @ + won]
      OBVIOUS
    <3>5. p \in PlayerType /\ p.Money = bd.Players[bd.Turn].Money + won
      <4>1. PICK vs : vs = bd.Players[bd.Turn].Money + won
        OBVIOUS
      <4>2. vs \in Nat
        BY <3>1, <3>3, <4>1
      <4>3. p = [bd.Players[bd.Turn] EXCEPT !.Money = vs]
        BY <3>4, <4>1
      <4>4. p \in PlayerType /\ p.Money = vs
        BY <3>1, <4>2, <4>3 DEF PlayerType
      <4> QED BY <4>1, <4>4
    <3>6. PICK h : h = [bd EXCEPT !.Players = [@ EXCEPT ![bd.Turn] = p]]
      OBVIOUS
    <3>7. /\ h \in GameType /\ Len(h.Players) = Len(bd.Players) /\ h.Players[bd.Turn] = p
          /\ \A i \in 1 .. Len(bd.Players) : i # bd.Turn => h.Players[i] = bd.Players[i]
          /\ h.Guessed = bd.Guessed
      BY <3>1, <3>5, <3>6, SeatChange
    <3>8. R!LetterCalled(g, l) = [h EXCEPT !.State = "action", !.Pending = 0]
      <4>1. R!LetterCalled(g, l) = [bd EXCEPT !.Players[g.Turn].Money = @ + won,
                                           !.State = "action", !.Pending = 0]
        BY <1>2, <2>1, <2>11, <3>2 DEF R!LetterCalled
      <4> QED BY <2>2, <3>4, <3>6, <4>1
    <3>9. PICK k : k = [h EXCEPT !.State = "action", !.Pending = 0]
      OBVIOUS
    <3>10. k.Players = h.Players /\ k.State = "action" /\ k.Guessed = t
      BY <2>3, <3>7, <3>9 DEF GameType
    <3>11. PursesHeld(h.Players) = sum + won
      <4>1. h.Players \in Seq(PlayerType)
        BY <3>7 DEF GameType
      <4>2. PursesHeld(h.Players) = PursesHeld(bd.Players) + (h.Players[bd.Turn].Money - bd.Players[bd.Turn].Money)
        <5>1. \A i \in 1 .. Len(bd.Players) : i # bd.Turn => h.Players[i].Money = bd.Players[i].Money
          BY <3>7
        <5> QED BY <3>1, <3>7, <4>1, <5>1, PurseChange
      <4> QED BY <2>2, <2>4, <2>6, <3>1, <3>3, <3>5, <3>7, <4>2
    <3>12. (sum + won) + VowelsCost(t) <= LettersWorth(t)
      <4>1. l \notin s
        BY <2>1, <2>11
      <4> QED BY <2>5, <2>6, <2>7, <2>8, <3>3, <4>1
    <3>13. Balanced(k)
      BY <2>6, <3>10, <3>11, <3>12 DEF Balanced
    <3> QED BY <3>8, <3>9, <3>13
  <2> QED BY <2>10, <2>11
<1> QED BY <1>1, <1>2

LEMMA BuyBalanced ==
  ASSUME NEW g, Fine(g), g.State = "action", Balanced(g), NEW l \in GameLetters
  PROVE  Balanced(R!VowelBought(g, l))
<1>1. CASE l \notin Vowels \/ l \in g.Guessed \/ R!Current(g).Money < rvf_vowel_cost
  BY <1>1 DEF R!VowelBought
<1>2. CASE ~(l \notin Vowels \/ l \in g.Guessed \/ R!Current(g).Money < rvf_vowel_cost)
  <2>1. PICK bd, s, t : bd = [g EXCEPT !.Guessed = @ \cup {l}] /\ s = g.Guessed /\ t = s \cup {l}
    OBVIOUS
  <2>2. /\ Fine(bd) /\ bd.Players = g.Players /\ bd.Turn = g.Turn /\ bd.State = "action"
    BY <2>1, LetterPut
  <2>3. bd.Guessed = t /\ l \in Vowels \ s
    BY <1>2, <2>1 DEF Fine, GameType
  <2>4. /\ bd \in GameType /\ bd.Turn \in 1 .. Len(bd.Players) /\ bd.Players[bd.Turn] \in PlayerType
        /\ bd.Players[bd.Turn].Money \in Nat /\ bd.Players[bd.Turn].Money >= rvf_vowel_cost
        /\ rvf_vowel_cost \in Nat /\ bd.Players \in Seq(PlayerType)
    <3>1. bd \in GameType /\ bd.Turn \in 1 .. Len(bd.Players) /\ bd.Players[bd.Turn] \in PlayerType
          /\ bd.Players \in Seq(PlayerType)
      BY <2>2 DEF Fine, GameType
    <3>2. bd.Players[bd.Turn].Money \in Nat
      BY <3>1 DEF PlayerType
    <3> QED BY <1>2, <2>2, <3>1, <3>2, RvfSizes DEF R!Current
  <2>5. PICK p : p = [bd.Players[bd.Turn] EXCEPT !.Money = @ - rvf_vowel_cost]
    OBVIOUS
  <2>6. p \in PlayerType /\ p.Money = bd.Players[bd.Turn].Money - rvf_vowel_cost
    <3>1. PICK vs : vs = bd.Players[bd.Turn].Money - rvf_vowel_cost
      OBVIOUS
    <3>2. vs \in Nat
      BY <2>4, <3>1
    <3>3. p = [bd.Players[bd.Turn] EXCEPT !.Money = vs]
      BY <2>5, <3>1
    <3>4. p \in PlayerType /\ p.Money = vs
      BY <2>4, <3>2, <3>3 DEF PlayerType
    <3> QED BY <3>1, <3>4
  <2>7. PICK h : h = [bd EXCEPT !.Players = [@ EXCEPT ![bd.Turn] = p]]
    OBVIOUS
  <2>8. /\ h \in GameType /\ Len(h.Players) = Len(bd.Players) /\ h.Players[bd.Turn] = p
        /\ \A i \in 1 .. Len(bd.Players) : i # bd.Turn => h.Players[i] = bd.Players[i]
        /\ h.Turn = bd.Turn /\ h.State = "action" /\ h.Guessed = t
    BY <2>2, <2>3, <2>4, <2>6, <2>7, SeatChange
  <2>9. h = [g EXCEPT !.Guessed = @ \cup {l}, !.Players[g.Turn].Money = @ - rvf_vowel_cost]
    BY <2>1, <2>2, <2>5, <2>7
  <2>10. R!VowelBought(g, l) = IF Count[l] = 0 THEN R!loseTurn(h) ELSE h
    BY <1>2, <2>9 DEF R!VowelBought
  <2>11. Fine(h)
    BY <2>4, <2>8 DEF Fine
  <2>12. PICK sum : sum = PursesHeld(g.Players)
    OBVIOUS
  <2>13. IsFiniteSet(s) /\ sum + VowelsCost(s) <= LettersWorth(s)
    BY <2>1, <2>12 DEF Balanced
  <2>14. IsFiniteSet(t) /\ sum \in Int /\ VowelsCost(s) \in Int /\ LettersWorth(s) \in Int
    <3>1. IsFiniteSet(t)
      BY <2>1, <2>13, FS_AddElement
    <3>2. sum \in Int
      BY <2>2, <2>4, <2>12, Purses
    <3> QED BY <2>13, <3>1, <3>2, Accounts
  <2>15. LettersWorth(t) = LettersWorth(s) /\ VowelsCost(t) = VowelsCost(s) + rvf_vowel_cost
    BY <2>1, <2>3, <2>13, Accounts
  <2>16. PursesHeld(h.Players) = sum - rvf_vowel_cost
    <3>1. h.Players \in Seq(PlayerType)
      BY <2>8 DEF GameType
    <3>2. PursesHeld(h.Players) = PursesHeld(bd.Players) + (h.Players[bd.Turn].Money - bd.Players[bd.Turn].Money)
      <4>1. \A i \in 1 .. Len(bd.Players) : i # bd.Turn => h.Players[i].Money = bd.Players[i].Money
        BY <2>8
      <4> QED BY <2>4, <2>8, <3>1, <4>1, PurseChange
    <3> QED BY <2>2, <2>4, <2>6, <2>8, <2>12, <2>14, <3>2
  <2>17. (sum - rvf_vowel_cost) + VowelsCost(t) <= LettersWorth(t)
    BY <2>4, <2>13, <2>14, <2>15
  <2>18. Balanced(h)
    BY <2>8, <2>14, <2>16, <2>17 DEF Balanced
  <2>19. Balanced(R!loseTurn(h))
    BY <2>11, <2>18, LoseBalanced
  <2> QED BY <2>10, <2>18, <2>19
<1> QED BY <1>1, <1>2

(* The mover is awake.                                                     *)
LEMMA AwakeBalanced ==
  ASSUME NEW h, Fine(h), Balanced(h), NEW n \in 1 .. Len(h.Players),
         NEW m, m = [R!moveDone(h, n) EXCEPT !.Players[n].slept = 0]
  PROVE  Balanced(m)
<1>1. h.Players[n] \in PlayerType
  BY DEF Fine, GameType
<1>2. PICK p, q : p = [h.Players[n] EXCEPT !.Missed = 0] /\ q = [p EXCEPT !.slept = 0]
  OBVIOUS
<1>3. p \in PlayerType /\ p.Money = h.Players[n].Money /\ p.Money \in Nat
  BY <1>1, <1>2 DEF PlayerType
<1>4. q \in PlayerType /\ q.Money = p.Money
  BY <1>2, <1>3 DEF PlayerType
<1>5. PICK f : f = [h EXCEPT !.Players = [@ EXCEPT ![n] = p]]
  OBVIOUS
<1>6. p.Money <= h.Players[n].Money /\ q.Money <= p.Money
  BY <1>3, <1>4
<1>7. Fine(f) /\ Balanced(f) /\ Len(f.Players) = Len(h.Players) /\ f.Players[n] = p
  BY <1>3, <1>5, <1>6, SeatBalanced, SMTT(30)
<1>8. f = R!moveDone(h, n)
  BY <1>2, <1>5 DEF R!moveDone
<1>9. m = [f EXCEPT !.Players = [@ EXCEPT ![n] = q]]
  BY <1>2, <1>7, <1>8
<1>10. PICK x : x = [f EXCEPT !.Players = [@ EXCEPT ![n] = q]]
  OBVIOUS
<1>11. q.Money <= f.Players[n].Money /\ n \in 1 .. Len(f.Players)
  BY <1>6, <1>7
<1>12. Balanced(x)
  BY <1>4, <1>7, <1>10, <1>11, SeatBalanced
<1> QED BY <1>9, <1>10, <1>12

LEMMA SleptBalanced ==
  ASSUME NEW g, Fine(g), Balanced(g), NEW h, h = Slept(g)
  PROVE  Balanced(h)
<1>1. g.Turn \in 1 .. Len(g.Players) /\ g.Players[g.Turn] \in PlayerType
  BY DEF Fine, GameType
<1>2. PICK o, p, q : o = g.Players[g.Turn] /\ p = [o EXCEPT !.Missed = @ + 1] /\ q = [p EXCEPT !.slept = @ + 1]
  OBVIOUS
<1>3. o \in PlayerType /\ o.Money \in Nat
  BY <1>1, <1>2 DEF PlayerType
<1>4. p \in PlayerType /\ p.Money = o.Money
  BY <1>2, <1>3 DEF PlayerType
<1>5. q \in PlayerType /\ q.Money = o.Money
  <2>1. q = [p EXCEPT !.slept = @ + 1]
    BY <1>2
  <2> QED BY <1>4, <2>1 DEF PlayerType
<1>6. PICK f : f = [g EXCEPT !.Players = [@ EXCEPT ![g.Turn] = p]]
  OBVIOUS
<1>7. p.Money <= g.Players[g.Turn].Money /\ q.Money <= p.Money
  BY <1>2, <1>3, <1>4, <1>5
<1>8. /\ Fine(f) /\ Balanced(f) /\ Len(f.Players) = Len(g.Players) /\ f.Players[g.Turn] = p
      /\ f.Turn = g.Turn
  BY <1>1, <1>4, <1>6, <1>7, SeatBalanced
<1>9. f = [g EXCEPT !.Players[g.Turn].Missed = @ + 1]
  BY <1>2, <1>6
<1>10. h = [f EXCEPT !.Players[g.Turn].slept = @ + 1]
  BY <1>9 DEF Slept
<1>11. h = [f EXCEPT !.Players = [@ EXCEPT ![g.Turn] = q]]
  BY <1>2, <1>8, <1>10
<1>12. PICK x : x = [f EXCEPT !.Players = [@ EXCEPT ![g.Turn] = q]]
  OBVIOUS
<1>13. q.Money <= f.Players[g.Turn].Money /\ g.Turn \in 1 .. Len(f.Players)
  BY <1>1, <1>7, <1>8
<1>14. Balanced(x)
  BY <1>5, <1>8, <1>12, <1>13, SeatBalanced
<1> QED BY <1>11, <1>12, <1>14

LEMMA DropBalanced ==
  ASSUME NEW h, Fine(h), Balanced(h)
  PROVE  Balanced(R!DropCurrent(h))
<1>1. h \in GameType /\ h.Players \in Seq(PlayerType) /\ h.Turn \in 1 .. Len(h.Players)
  BY DEF Fine, GameType
<1>2. PICK ps, m : ps = h.Players /\ m = h.Turn
  OBVIOUS
<1>3. PICK qs : qs = R!RemoveAt(ps, m)
  OBVIOUS
<1>4. /\ qs \in Seq(PlayerType) /\ Len(qs) = Len(ps) - 1
      /\ \A j \in 1 .. Len(ps) - 1 : qs[j] = IF j < m THEN ps[j] ELSE ps[j + 1]
  BY <1>1, <1>2, <1>3, SeatRemoved
<1>5. PursesHeld(qs) = PursesHeld(ps) - ps[m].Money
  BY <1>1, <1>2, <1>4, PurseGone
<1>6. ps[m].Money \in Nat
  <2>1. ps[m] \in PlayerType
    BY <1>1, <1>2
  <2> QED BY <2>1 DEF PlayerType
<1>7. PICK t : t = R!TurnAfter(h, qs)
  OBVIOUS
<1>8. PICK d : d = R!DropCurrent(h)
  OBVIOUS
<1>9. d = [h EXCEPT !.Players = qs, !.Turn = t, !.State = "action", !.Pending = 0]
  BY <1>2, <1>3, <1>7, <1>8 DEF R!DropCurrent
<1>10. d.Players = qs /\ d.State = "action" /\ d.Guessed = h.Guessed
  BY <1>1, <1>9 DEF GameType
<1>11. PICK s : s = h.Guessed
  OBVIOUS
<1>12. IsFiniteSet(s) /\ PursesHeld(ps) + VowelsCost(s) <= LettersWorth(s)
  BY <1>2, <1>11 DEF Balanced
<1>13. VowelsCost(s) \in Int /\ LettersWorth(s) \in Int /\ PursesHeld(ps) \in Int
  BY <1>1, <1>2, <1>12, Accounts, Purses
<1>14. PursesHeld(qs) + VowelsCost(s) <= LettersWorth(s)
  BY <1>5, <1>6, <1>12, <1>13
<1> QED BY <1>8, <1>10, <1>11, <1>12, <1>14 DEF Balanced

LEMMA NewBalanced ==
  ASSUME NEW k \in Keys, NEW nicks \in Lineups[k], NEW n \in Nat, NEW g, g = R!NewGame(nicks, n)
  PROVE  Balanced(g)
<1>1. g.Players \in Seq(PlayerType)
  BY NewGameInv DEF GameInv, Fine, GameType
<1>2. g.Guessed = {} /\ g.State = "action" /\ g.Players = [i \in DOMAIN nicks |-> R!NewPlayer(nicks[i])]
  BY DEF R!NewGame
<1>3. PICK ps, S, F : ps = g.Players /\ S = DOMAIN ps /\ F = Moneys(ps)
  OBVIOUS
<1>4. IsFiniteSet(S)
  BY <1>1, <1>3, Purses
<1>5. \A i \in S : F[i] = 0
  BY <1>2, <1>3 DEF Moneys, R!NewPlayer
<1>6. PursesHeld(ps) = 0
  <2>1. Total(F, S) = 0
    BY <1>4, <1>5, TotalZero
  <2> QED BY <1>3, <2>1 DEF PursesHeld
<1>7. PICK s : s = {}
  OBVIOUS
<1>8. LettersWorth(s) = 0
  <2>1. s \cap Consonants = {}
    BY <1>7
  <2>2. Total(LetterValues, {}) = 0
    BY TotalEmpty
  <2> QED BY <2>1, <2>2 DEF LettersWorth
<1>9. VowelsCost(s) = 0
  <2>1. s \cap Vowels = {}
    BY <1>7
  <2>2. Cardinality({}) = 0
    BY FS_EmptySet
  <2>3. VowelsCost(s) = rvf_vowel_cost * 0
    BY <2>1, <2>2 DEF VowelsCost
  <2> QED BY <2>3, RvfSizes
<1>10. IsFiniteSet(s)
  BY <1>7, FS_EmptySet
<1>11. PursesHeld(ps) + VowelsCost(s) <= LettersWorth(s)
  BY <1>6, <1>8, <1>9
<1> QED BY <1>2, <1>3, <1>7, <1>10, <1>11 DEF Balanced

(***************************************************************************)
(* The books of all games, in memory and in the store.                     *)
(***************************************************************************)
BooksKept == /\ \A k \in DOMAIN games : Balanced(games[k])
             /\ \A k \in DOMAIN saved.games : Balanced(saved.games[k])

LEMMA BooksMove ==
  ASSUME RvfInv, BooksKept, NEW k \in Keys, R!Spin(k) \/ R!CallLetter(k) \/ R!BuyVowel(k) \/ R!Pass(k)
  PROVE  BooksKept'
<1>1. PICK g : g = games[k]
  OBVIOUS
<1>2. k \in DOMAIN games /\ Fine(g) /\ Owed(g) /\ Balanced(g)
  BY <1>1 DEF R!Spin, R!CallLetter, R!BuyVowel, R!Pass, R!CanMove, RvfInv, GameBook, GameInv, BooksKept
<1>3. \E h : Moved(g, h) /\ Balanced(h) /\ R!Move(k, h)
  <2>1. CASE R!Spin(k)
    <3>1. g.State = "action" /\ \E seg \in R!Segments : R!Move(k, R!Spun(g, seg))
      BY <1>1, <2>1 DEF R!Spin, R!CanMove
    <3> QED BY <1>2, <3>1, SpinMoves, SpinBalanced
  <2>2. CASE R!CallLetter(k)
    <3>1. g.State = "letter" /\ \E l \in GameLetters : R!Move(k, R!LetterCalled(g, l))
      BY <1>1, <2>2 DEF R!CallLetter, R!CanMove, GameLetters
    <3> QED BY <1>2, <3>1, CallMoves, CallBalanced
  <2>3. CASE R!BuyVowel(k)
    <3>1. g.State = "action" /\ \E l \in GameLetters : R!Move(k, R!VowelBought(g, l))
      BY <1>1, <2>3 DEF R!BuyVowel, R!CanMove, GameLetters
    <3> QED BY <1>2, <3>1, BuyMoves, BuyBalanced
  <2>4. CASE R!Pass(k)
    <3>1. R!Move(k, R!advance(g))
      BY <1>1, <2>4 DEF R!Pass
    <3> QED BY <1>2, <3>1, AdvanceMoves, AdvanceBalanced
  <2> QED BY <2>1, <2>2, <2>3, <2>4
<1>4. PICK h : Moved(g, h) /\ Balanced(h) /\ R!Move(k, h)
  BY <1>3
<1>5. PICK m : m = [R!moveDone(h, g.Turn) EXCEPT !.Players[g.Turn].slept = 0]
  OBVIOUS
<1>6. games' = [games EXCEPT ![k] = m] /\ saved' = saved
  BY <1>1, <1>4, <1>5 DEF R!Move
<1>7. Fine(h) /\ g.Turn \in 1 .. Len(h.Players)
  BY <1>2, <1>4 DEF Moved, Fine
<1>8. Balanced(m)
  BY <1>4, <1>5, <1>7, AwakeBalanced
<1> QED BY <1>6, <1>8 DEF BooksKept

LEMMA BooksFire ==
  ASSUME RvfInv, BooksKept, R!Fire
  PROVE  BooksKept'
<1>1. PICK t, T : t = Head(timers) /\ T = Tail(timers)
  OBVIOUS
<1>2. saved' = saved
  BY DEF R!Fire
<1>3. CASE R!Live(t) /\ t[1] \in DOMAIN games
  <2>1. PICK k : k = t[1]
    OBVIOUS
  <2>2. k \in DOMAIN games /\ R!turnTimeout(k, T)
    BY <1>1, <1>3, <2>1 DEF R!Fire
  <2>3. PICK g, h : g = games[k] /\ h = Slept(g)
    OBVIOUS
  <2>4. GameInv(g) /\ Balanced(g) /\ Fine(g)
    BY <2>2, <2>3 DEF RvfInv, GameBook, BooksKept, GameInv
  <2>5. Fine(h) /\ Balanced(h)
    BY <2>3, <2>4, SleptBalanced, SleeperSeat
  <2>6. PICK drop : drop = (R!Current(h).Missed >= rvf_max_missed_turns)
    OBVIOUS
  <2>7. IF drop /\ Len(h.Players) = 1
        THEN R!endGame(k, T)
        ELSE /\ games' = [games EXCEPT ![k] = IF drop THEN R!DropCurrent(h) ELSE R!advance(h)]
             /\ R!armTimer(k, T)
    BY <2>2, <2>3, <2>6 DEF R!turnTimeout, Slept
  <2>8. CASE drop /\ Len(h.Players) = 1
    <3>1. \A j \in DOMAIN games' : j \in DOMAIN games /\ games'[j] = games[j]
      BY <2>7, <2>8 DEF R!endGame
    <3> QED BY <1>2, <3>1 DEF BooksKept
  <2>9. CASE ~(drop /\ Len(h.Players) = 1)
    <3>1. PICK m : m = IF drop THEN R!DropCurrent(h) ELSE R!advance(h)
      OBVIOUS
    <3>2. games' = [games EXCEPT ![k] = m]
      BY <2>7, <2>9, <3>1
    <3>3. Balanced(m)
      BY <2>5, <3>1, DropBalanced, AdvanceBalanced
    <3> QED BY <1>2, <3>2, <3>3 DEF BooksKept
  <2> QED BY <2>8, <2>9
<1>4. CASE ~(R!Live(t) /\ t[1] \in DOMAIN games)
  <2>1. games' = games
    BY <1>1, <1>4 DEF R!Fire
  <2> QED BY <1>2, <2>1 DEF BooksKept
<1> QED BY <1>3, <1>4

LEMMA BooksStep ==
  ASSUME RvfInv, BooksKept, [R!Next]_R!vars
  PROVE  BooksKept'
<1>1. ASSUME NEW k \in Keys, R!cbStart(k) PROVE BooksKept'
  <2>1. PICK nicks \in Lineups[k] : games' = R!With(games, k, R!NewGame(nicks, starts'))
    BY <1>1 DEF R!cbStart
  <2>2. PICK n, g : n = starts + 1 /\ g = R!NewGame(nicks, n)
    OBVIOUS
  <2>3. n \in Nat /\ games' = R!With(games, k, g) /\ saved' = saved
    BY <1>1, <2>1, <2>2 DEF R!cbStart, RvfInv
  <2>4. Balanced(g)
    BY <2>2, <2>3, NewBalanced
  <2>5. \A j \in DOMAIN games' : (j \in DOMAIN games /\ games'[j] = games[j]) \/ games'[j] = g
    BY <2>3 DEF R!With
  <2> QED BY <2>3, <2>4, <2>5 DEF BooksKept
<1>2. ASSUME NEW k \in Keys, R!cbStop(k) \/ R!Solve(k) PROVE BooksKept'
  <2>1. saved' = saved /\ \A j \in DOMAIN games' : j \in DOMAIN games /\ games'[j] = games[j]
    BY <1>2 DEF R!cbStop, R!Solve, R!endGame
  <2> QED BY <2>1 DEF BooksKept
<1>3. CASE R!Flush
  <2>1. games' = games /\ saved'.games = games
    BY <1>3 DEF R!Flush, R!Written, RvfInv
  <2> QED BY <2>1 DEF BooksKept
<1>4. CASE R!Unload \/ UNCHANGED R!vars
  <2>1. games' = games /\ saved' = saved
    BY <1>4 DEF R!Unload, R!vars, R!mem
  <2> QED BY <2>1 DEF BooksKept
<1>5. CASE R!Restart
  <2>1. games' = saved.games /\ saved' = saved
    BY <1>5 DEF R!Restart
  <2> QED BY <2>1 DEF BooksKept
<1> QED BY <1>1, <1>2, <1>3, <1>4, <1>5, BooksMove, BooksFire DEF R!Next

(* The bank of the model is this one: its sums are totals.                 *)
LEMMA BooksLedger ==
  ASSUME RvfInv, BooksKept
  PROVE  R!Ledger
<1>1. SUFFICES ASSUME NEW k \in DOMAIN games, NEW g, g = games[k]
               PROVE  /\ R!Purse(g) + rvf_vowel_cost * R!Cardinality(g.Guessed \cap Vowels) <= R!Worth(g)
                      /\ \A i \in DOMAIN g.Players : g.Players[i].Money >= 0
                      /\ IF g.State = "letter" THEN g.Pending > 0 /\ R!Current(g).Nick = g.spinner
                         ELSE g.Pending = 0
  BY Zenon DEF R!Ledger
<1>2. R!Purse(g) = PursesHeld(g.Players)
  BY Zenon DEF R!Purse, R!MapThenSumSet, R!MapThenFoldSet, PursesHeld, Moneys, Total, AddsUp, AnyOf
<1>3. R!Worth(g) = LettersWorth(g.Guessed)
  BY ZenonT(60) DEF R!Worth, R!MapThenSumSet, R!MapThenFoldSet, LettersWorth, LetterValues, Total, AddsUp, AnyOf
<1>4. PursesHeld(g.Players) + VowelsCost(g.Guessed) <= LettersWorth(g.Guessed)
  BY <1>1 DEF BooksKept, Balanced
<1>5. /\ Owed(g) /\ \A i \in DOMAIN g.Players : g.Players[i].Money >= 0
  BY <1>1, RvfOwes
<1>6. R!Cardinality(g.Guessed \cap Vowels) = Cardinality(g.Guessed \cap Vowels)
  BY RvfCardinality
<1> QED BY <1>2, <1>3, <1>4, <1>5, <1>6 DEF VowelsCost, Owed

(* For any letters, wheel and price of a vowel: what the players of a table   *)
(* hold and what its vowels cost never exceeds what the letters called were   *)
(* worth, nobody is in debt, and a spin is paid to the one who spun           *)
(* (LetterCalled, VowelBought, loseTurn, DropCurrent).                        *)
THEOREM RvfLedger == R!Spec => []R!Ledger
<1>1. R!Init => BooksKept
  <2>1. ASSUME R!Init PROVE DOMAIN games = {} /\ DOMAIN saved.games = {}
    BY <2>1 DEF R!Init
  <2> QED BY <2>1 DEF BooksKept
<1>2. RvfInv /\ BooksKept /\ [R!Next]_R!vars => BooksKept'
  BY BooksStep
<1>3. RvfInv /\ BooksKept => R!Ledger
  BY BooksLedger
<1> QED BY <1>1, <1>2, <1>3, RvfInvariant, PTL DEF R!Spec

(***************************************************************************)
(* The report of the morning.  When the timer that counts comes due, a time *)
(* of the report has passed on the wall clock that is later than the last  *)
(* report, as the wall clock only runs on and the hour of a date shows it. *)
(***************************************************************************)
LEMMA ReportTypes ==
  /\ Day \in Nat \ {0} /\ ShiftAt \in Nat /\ Shift \in Int
  /\ D!NoTime = -1 /\ \A time \in Times : time \in D!NoTime .. Day - 1
BY ReportAssumption DEF D!ReportConstants, D!NoTime

(* Days by number.                                                         *)
LEMMA DayFacts ==
  ASSUME NEW w \in Int
  PROVE  w \div Day \in Int /\ (w \div Day) * Day <= w /\ w < (w \div Day) * Day + Day
BY ReportTypes

LEMMA DaysApart ==
  ASSUME NEW j \in Int, NEW k \in Int, j < k
  PROVE  j * Day + Day <= k * Day /\ j * Day \in Int /\ k * Day \in Int
BY ReportTypes

LEMMA TimeOfDay ==
  ASSUME NEW k \in Int, NEW time \in 0 .. Day - 1
  PROVE  (k * Day + time) % Day = time
<1>1. PICK w : w = k * Day + time
  OBVIOUS
<1>2. w \in Int /\ k * Day \in Int
  BY <1>1, ReportTypes
<1>3. PICK q, r : q = w \div Day /\ r = w % Day
  OBVIOUS
<1>4. q \in Int /\ r \in 0 .. Day - 1 /\ w = q * Day + r /\ q * Day \in Int
  BY <1>2, <1>3, ReportTypes
<1>5. ASSUME q < k PROVE FALSE
  <2>1. q * Day + Day <= k * Day
    BY <1>4, <1>5, DaysApart
  <2> QED BY <1>1, <1>2, <1>4, <2>1, ReportTypes
<1>6. ASSUME k < q PROVE FALSE
  <2>1. k * Day + Day <= q * Day
    BY <1>4, <1>6, DaysApart
  <2> QED BY <1>1, <1>2, <1>4, <2>1, ReportTypes
<1>7. q = k
  BY <1>4, <1>5, <1>6
<1> QED BY <1>1, <1>2, <1>3, <1>4, <1>7

(* The wall clock runs on, at least as fast as the hours.                  *)
LEMMA WallRuns ==
  ASSUME Shift <= 0, NEW s \in Int, NEW t \in Int, s <= t
  PROVE  D!Wall(s) \in Int /\ D!Wall(t) \in Int /\ D!Wall(s) + (t - s) <= D!Wall(t)
BY ReportTypes DEF D!Wall

(* The last time of day before now, and the next.                          *)
AtTime(m, time) == \E k \in Int : m = k * Day + time

LEMMA NextIsAhead ==
  ASSUME D!OnlyForward, hour \in Nat, NEW time \in Times, time # D!NoTime
  PROVE  /\ D!NextReport(time) \in Int
         /\ \E m \in Int : AtTime(m, time) /\ D!Wall(hour) < m /\ m <= D!Wall(D!NextReport(time))
<1>1. time \in 0 .. Day - 1 /\ Shift <= 0
  BY ReportTypes DEF D!OnlyForward
<1>2. PICK w, q : w = D!Wall(hour) /\ q = w \div Day
  OBVIOUS
<1>3. w \in Int
  BY <1>2, ReportTypes DEF D!Wall
<1>4. q \in Int /\ q * Day \in Int /\ q * Day <= w /\ w < q * Day + Day /\ D!Today = q * Day
  <2>1. q \in Int /\ q * Day <= w /\ w < q * Day + Day
    BY <1>2, <1>3, DayFacts
  <2>2. D!Today = q * Day
    BY <1>2 DEF D!Today
  <2> QED BY <2>1, <2>2, ReportTypes
<1>5. PICK m, n : m = q * Day + time /\ n = D!Date(m)
  OBVIOUS
<1>6. m \in Int /\ AtTime(m, time) /\ m % Day = time
  BY <1>1, <1>4, <1>5, TimeOfDay DEF AtTime
<1>7. m \notin ShiftAt .. ShiftAt - Shift - 1
  BY <1>6 DEF D!OnlyForward
<1>8. n \in Int /\ D!Wall(n) = m
  BY <1>1, <1>5, <1>6, <1>7, ReportTypes DEF D!Date, D!Wall
<1>9. D!NextReport(time) = IF n > hour THEN n ELSE n + Day
  BY <1>4, <1>5 DEF D!NextReport
<1>10. CASE n > hour
  <2>1. w < m
    BY <1>1, <1>2, <1>8, <1>10, WallRuns
  <2> QED BY <1>2, <1>6, <1>8, <1>9, <1>10, <2>1
<1>11. CASE ~(n > hour)
  <2>1. PICK l : l = m + Day
    OBVIOUS
  <2>2. l \in Int /\ AtTime(l, time)
    <3>1. q + 1 \in Int /\ (q + 1) * Day = q * Day + Day
      BY <1>4, ReportTypes
    <3>2. l = (q + 1) * Day + time
      BY <1>1, <1>4, <1>5, <2>1, <3>1, ReportTypes
    <3>3. l \in Int
      BY <1>6, <2>1, ReportTypes
    <3>4. PICK j \in Int : j = q + 1
      BY <3>1
    <3>5. l = j * Day + time
      BY <3>2, <3>4
    <3> QED BY <3>3, <3>5 DEF AtTime
  <2>3. w < l
    BY <1>1, <1>3, <1>4, <1>5, <2>1, ReportTypes
  <2>4. n + Day \in Int /\ l <= D!Wall(n + Day)
    BY <1>1, <1>6, <1>8, <2>1, WallRuns, ReportTypes
  <2> QED BY <1>2, <1>9, <1>11, <2>2, <2>3, <2>4
<1> QED BY <1>10, <1>11

(***************************************************************************)
(* One timer counts, and when it comes due a morning has passed that is    *)
(* later than that of the last report.                                     *)
(***************************************************************************)
Scheduled ==
    /\ reportGen \in Nat /\ weather_report_time \in Times
    /\ \A t \in mornings : t.gen \in Nat /\ t.gen <= reportGen
    /\ \A s, t \in mornings : s.gen = reportGen /\ t.gen = reportGen => s = t
    /\ (\E t \in mornings : t.gen = reportGen) <=> weather_report_time # D!NoTime

DueAhead(t) == /\ t.at \in Int
               /\ \E m \in Int : AtTime(m, weather_report_time) /\ reported < m /\ m <= D!Wall(t.at)

Mornings ==
    /\ hour \in Nat /\ reported \in Int /\ ~twice
    /\ reported <= D!Wall(hour)
    /\ \A t \in mornings : t.gen = reportGen => DueAhead(t)

LEMMA Rescheduled ==
  ASSUME Scheduled, NEW time \in Times, NEW rest \in SUBSET mornings,
         D!scheduleReport(time, rest), weather_report_time' = time
  PROVE  /\ Scheduled'
         /\ \A t \in mornings' : t.gen = reportGen' => time # D!NoTime /\ t.at = D!NextReport(time)
<1>1. PICK g : g = reportGen + 1 /\ g \in Nat /\ reportGen' = g
  BY DEF D!scheduleReport, Scheduled
<1>2. \A t \in rest : t.gen \in Nat /\ t.gen < g
  BY <1>1 DEF Scheduled
<1>3. CASE time = D!NoTime
  <2>1. mornings' = rest
    BY <1>3 DEF D!scheduleReport
  <2> QED BY <1>1, <1>2, <1>3, <2>1 DEF Scheduled
<1>4. CASE time # D!NoTime
  <2>1. PICK r : r = [gen |-> g, at |-> D!NextReport(time)]
    OBVIOUS
  <2>2. mornings' = rest \cup {r} /\ r.gen = g /\ r.at = D!NextReport(time)
    BY <1>1, <1>4, <2>1 DEF D!scheduleReport
  <2> QED BY <1>1, <1>2, <1>4, <2>2 DEF Scheduled
<1> QED BY <1>3, <1>4

LEMMA StaysAhead ==
  ASSUME D!OnlyForward, hour' \in Nat, weather_report_time' \in Times, reported' \in Int, hour' = hour,
         reported' <= D!Wall(hour'), ~twice',
         \A t \in mornings' : t.gen = reportGen' =>
             weather_report_time' # D!NoTime /\ t.at = D!NextReport(weather_report_time')
  PROVE  Mornings'
<1>1. ASSUME NEW t \in mornings', t.gen = reportGen'
      PROVE  DueAhead(t)'
  <2>1. PICK time \in Times : time = weather_report_time' /\ time # D!NoTime
    BY <1>1
  <2>2. t.at = D!NextReport(time)
    BY <1>1, <2>1
  <2>3. hour \in Nat
    OBVIOUS
  <2>4. /\ t.at \in Int
        /\ \E m \in Int : AtTime(m, time) /\ D!Wall(hour) < m /\ m <= D!Wall(t.at)
    BY <2>1, <2>2, <2>3, NextIsAhead
  <2>5. PICK m \in Int : AtTime(m, time) /\ D!Wall(hour) < m /\ m <= D!Wall(t.at)
    BY <2>4
  <2>6. D!Wall(hour) \in Int /\ D!Wall(t.at) \in Int
    BY <2>3, <2>4, ReportTypes DEF D!Wall
  <2>7. reported' < m
    BY <2>5, <2>6
  <2>8. (\E l \in Int : AtTime(l, weather_report_time) /\ reported < l /\ l <= D!Wall(t.at))'
    BY <2>1, <2>5, <2>7 DEF AtTime, D!Wall
  <2> QED BY <2>4, <2>8 DEF DueAhead
<1> QED BY <1>1 DEF Mornings

(* The report of a timer that is due is of a later morning than the last.  *)
LEMMA ReportIsNew ==
  ASSUME D!OnlyForward, Mornings, weather_report_time \in Times, weather_report_time # D!NoTime,
         NEW t \in mornings, t.gen = reportGen, t.at <= hour, D!report
  PROVE  reported' \in Int /\ ~twice' /\ reported' <= D!Wall(hour)
<1>1. CASE ~channels
  BY <1>1 DEF D!report, Mornings
<1>2. CASE channels
  <2>1. PICK time : time = weather_report_time /\ time \in 0 .. Day - 1
    BY ReportTypes
  <2>2. PICK w, q : w = D!Wall(hour) /\ q = w \div Day
    OBVIOUS
  <2>3. DueAhead(t) /\ hour \in Nat
    BY DEF Mornings
  <2>4. t.at \in Int /\ D!Wall(t.at) \in Int /\ D!Wall(t.at) <= w /\ w \in Int
    BY <2>2, <2>3, WallRuns DEF DueAhead, D!OnlyForward
  <2>5. q \in Int /\ q * Day \in Int /\ q * Day <= w /\ w < q * Day + Day /\ D!Today = q * Day
    BY <2>2, <2>4, DayFacts, ReportTypes DEF D!Today
  <2>6. PICK k \in Int : reported < k * Day + time /\ k * Day + time <= D!Wall(t.at)
    BY <2>1, <2>3 DEF DueAhead, AtTime
  <2>7. k * Day \in Int
    BY ReportTypes
  <2>8. k <= q
    <3>1. ASSUME q < k PROVE FALSE
      <4>1. q * Day + Day <= k * Day
        BY <2>5, <3>1, DaysApart
      <4> QED BY <2>1, <2>4, <2>5, <2>6, <2>7, <4>1, ReportTypes
    <3> QED BY <2>5, <3>1
  <2>9. PICK d, m : d = q * Day + time /\ m = IF d <= w THEN d ELSE d - Day
    OBVIOUS
  <2>10. k * Day + time <= m /\ m \in Int /\ m <= w
    <3>1. CASE d <= w
      <4>1. k * Day <= q * Day
        <5>1. CASE k = q
          BY <5>1, <2>5
        <5>2. CASE k < q
          BY <5>2, <2>5, <2>7, DaysApart, ReportTypes
        <5> QED BY <2>5, <2>8, <5>1, <5>2
      <4> QED BY <2>1, <2>4, <2>5, <2>7, <2>9, <3>1, <4>1
    <3>2. CASE ~(d <= w)
      <4>1. k # q
        BY <2>1, <2>4, <2>5, <2>6, <2>9, <3>2
      <4>2. k * Day + Day <= q * Day
        BY <2>5, <2>8, <4>1, DaysApart
      <4> QED BY <2>1, <2>4, <2>5, <2>7, <2>9, <3>2, <4>2, ReportTypes
    <3> QED BY <3>1, <3>2
  <2>11. ~(m <= reported)
    BY <2>1, <2>6, <2>7, <2>10 DEF Mornings
  <2>12. reported' = m /\ (twice' <=> twice \/ m <= reported)
    BY <1>2, <2>1, <2>2, <2>5, <2>9 DEF D!report
  <2> QED BY <2>2, <2>10, <2>11, <2>12 DEF Mornings
<1> QED BY <1>1, <1>2

LEMMA ReportInitial ==
  ASSUME D!Init
  PROVE  Scheduled /\ (D!OnlyForward => Mornings)
<1>1. /\ hour = 0 /\ weather_report_time \in Times /\ reportGen = 1 /\ reported = -Day /\ ~twice
  BY DEF D!Init
<1>2. PICK r : r = [gen |-> 1, at |-> D!NextReport(weather_report_time)]
  OBVIOUS
<1>3. mornings = IF weather_report_time = D!NoTime THEN {} ELSE {r}
  BY <1>2 DEF D!Init
<1>4. Scheduled
  BY <1>1, <1>2, <1>3 DEF Scheduled
<1>5. ASSUME D!OnlyForward PROVE Mornings
  <2>1. reported \in Int /\ reported < D!Wall(hour) /\ D!Wall(hour) \in Int /\ hour \in Nat
    BY <1>1, <1>5, ReportTypes DEF D!OnlyForward, D!Wall
  <2>2. ASSUME NEW t \in mornings PROVE DueAhead(t)
    <3>1. weather_report_time # D!NoTime /\ t.at = D!NextReport(weather_report_time)
      BY <1>2, <1>3, <2>2
    <3>2. t.at \in Int
      BY <1>1, <1>5, <2>1, <3>1, NextIsAhead
    <3>3. PICK m \in Int : /\ AtTime(m, weather_report_time) /\ D!Wall(hour) < m
                           /\ m <= D!Wall(D!NextReport(weather_report_time))
      BY <1>1, <1>5, <2>1, <3>1, NextIsAhead
    <3>4. reported < m
      BY <2>1, <3>3
    <3> QED BY <3>1, <3>2, <3>3, <3>4 DEF DueAhead
  <2> QED BY <1>1, <2>1, <2>2 DEF Mornings
<1> QED BY <1>4, <1>5

LEMMA ReportSame ==
  ASSUME Scheduled, D!OnlyForward => Mornings, UNCHANGED <<weather_report_time, D!armed, reported, twice>>,
         hour \in Nat => hour' \in Nat /\ hour <= hour'
  PROVE  Scheduled' /\ (D!OnlyForward => Mornings)'
<1>1. /\ weather_report_time' = weather_report_time /\ reportGen' = reportGen /\ mornings' = mornings
      /\ reported' = reported /\ twice' = twice
  BY DEF D!armed
<1>2. Scheduled'
  BY <1>1 DEF Scheduled
<1>3. ASSUME D!OnlyForward PROVE Mornings'
  <2>1. hour \in Nat /\ hour' \in Nat /\ hour <= hour' /\ reported \in Int /\ reported <= D!Wall(hour)
    BY <1>3 DEF Mornings
  <2>2. PICK s, t : s = hour /\ t = hour'
    OBVIOUS
  <2>3. D!Wall(s) \in Int /\ D!Wall(t) \in Int /\ D!Wall(s) + (t - s) <= D!Wall(t)
    BY <1>3, <2>1, <2>2, WallRuns DEF D!OnlyForward
  <2>4. reported' <= D!Wall(hour')
    BY <1>1, <2>1, <2>2, <2>3
  <2> QED BY <1>1, <1>3, <2>1, <2>4 DEF Mornings, DueAhead, D!Wall
<1>4. D!OnlyForward' <=> D!OnlyForward
  BY DEF D!OnlyForward
<1> QED BY <1>2, <1>3, <1>4

LEMMA ReportStep ==
  ASSUME Scheduled, D!OnlyForward => Mornings, [D!Next]_D!vars
  PROVE  Scheduled' /\ (D!OnlyForward => Mornings)'
<1>0. D!OnlyForward' <=> D!OnlyForward
  BY DEF D!OnlyForward
<1>1. ASSUME NEW time \in Times, NEW rest \in SUBSET mornings, D!scheduleReport(time, rest),
             weather_report_time' = time, hour' = hour,
             D!OnlyForward => reported' \in Int /\ ~twice' /\ reported' <= D!Wall(hour)
      PROVE  Scheduled' /\ (D!OnlyForward => Mornings)'
  <2>1. /\ Scheduled'
        /\ \A t \in mornings' : t.gen = reportGen' => time # D!NoTime /\ t.at = D!NextReport(time)
    BY <1>1, Rescheduled
  <2>2. \A t \in mornings' : t.gen = reportGen' =>
             weather_report_time' # D!NoTime /\ t.at = D!NextReport(weather_report_time')
    BY <1>1, <2>1
  <2>3. ASSUME D!OnlyForward PROVE Mornings'
    <3>1. hour' \in Nat /\ reported' <= D!Wall(hour')
      BY <1>1, <2>3 DEF Mornings, D!Wall
    <3> QED BY <1>1, <2>2, <2>3, <3>1, StaysAhead
  <2> QED BY <1>0, <2>1, <2>3
<1>2. ASSUME NEW time \in Times, D!onConfChanged(time)
      PROVE  Scheduled' /\ (D!OnlyForward => Mornings)'
  BY <1>1, <1>2 DEF D!onConfChanged, Mornings
<1>3. ASSUME NEW t \in mornings, D!ReportTimer(t)
      PROVE  Scheduled' /\ (D!OnlyForward => Mornings)'
  <2>0. hour' = hour /\ weather_report_time' = weather_report_time /\ t.at <= hour
    BY <1>3 DEF D!ReportTimer
  <2>1. CASE D!Orphaned(t)
    <3>1. /\ mornings' = mornings \ {t} /\ reportGen' = reportGen /\ reported' = reported /\ twice' = twice
          /\ t.gen # reportGen
      BY <1>3, <2>1 DEF D!ReportTimer, D!Orphaned
    <3>2. Scheduled'
      BY <2>0, <3>1 DEF Scheduled
    <3>3. D!OnlyForward => Mornings'
      BY <2>0, <3>1 DEF Mornings, DueAhead, D!Wall
    <3> QED BY <1>0, <3>2, <3>3
  <2>2. CASE ~D!Orphaned(t)
    <3>1. t.gen = reportGen /\ D!report /\ D!scheduleReport(weather_report_time, mornings \ {t})
      BY <1>3, <2>2 DEF D!ReportTimer, D!Orphaned
    <3>2. weather_report_time \in Times /\ weather_report_time # D!NoTime
      BY <3>1 DEF Scheduled
    <3>3. D!OnlyForward => reported' \in Int /\ ~twice' /\ reported' <= D!Wall(hour)
      BY <2>0, <3>1, <3>2, ReportIsNew
    <3> QED BY <1>1, <2>0, <3>1, <3>2, <3>3
  <2> QED BY <2>1, <2>2
<1>4. CASE D!Restart
  <2>1. /\ D!scheduleReport(weather_report_time, {}) /\ hour' = hour
        /\ weather_report_time' = weather_report_time /\ reported' = reported /\ twice' = twice
    BY <1>4 DEF D!Restart
  <2>2. weather_report_time \in Times
    BY DEF Scheduled
  <2> QED BY <1>1, <2>1, <2>2 DEF Mornings
<1>5. CASE D!ChannelsChange \/ D!Tick \/ UNCHANGED D!vars
  <2>1. UNCHANGED <<weather_report_time, D!armed, reported, twice>> /\ (hour' = hour \/ hour' = hour + 1)
    BY <1>5 DEF D!ChannelsChange, D!Tick, D!vars
  <2>2. hour \in Nat => hour' \in Nat /\ hour <= hour'
    BY <2>1
  <2> QED BY <2>1, <2>2, ReportSame
<1> QED BY <1>2, <1>3, <1>4, <1>5 DEF D!Next

LEMMA ReportInvariant == D!Spec => [](Scheduled /\ (D!OnlyForward => Mornings))
<1>1. D!Init => Scheduled /\ (D!OnlyForward => Mornings)
  BY ReportInitial
<1>2. Scheduled /\ (D!OnlyForward => Mornings) /\ [D!Next]_D!vars => (Scheduled /\ (D!OnlyForward => Mornings))'
  BY ReportStep
<1> QED BY <1>1, <1>2, PTL DEF D!Spec

LEMMA ReportCardinality == \A U : D!Cardinality(U) = Cardinality(U)
BY DEF D!Cardinality, Cardinality, D!IsFiniteSet, IsFiniteSet

(* One timer counts, whatever the clock does.                              *)
LEMMA OneCounts ==
  ASSUME Scheduled
  PROVE  Cardinality({t \in mornings : ~D!Orphaned(t)}) = IF weather_report_time = D!NoTime THEN 0 ELSE 1
<1>1. PICK S : S = {t \in mornings : ~D!Orphaned(t)}
  OBVIOUS
<1>2. S = {t \in mornings : t.gen = reportGen}
  BY <1>1 DEF D!Orphaned
<1>3. CASE weather_report_time = D!NoTime
  <2>1. S = {}
    BY <1>2, <1>3 DEF Scheduled
  <2> QED BY <1>1, <1>3, <2>1, FS_EmptySet
<1>4. CASE weather_report_time # D!NoTime
  <2>1. PICK t \in mornings : t.gen = reportGen
    BY <1>4 DEF Scheduled
  <2>2. S = {t}
    BY <1>2, <2>1 DEF Scheduled
  <2>3. Cardinality(S) = 1
    BY <2>2, FS_Singleton
  <2> QED BY <1>1, <1>4, <2>3
<1> QED BY <1>3, <1>4

(* For any days, times and changes of the clock forward that skip none of    *)
(* those times: a morning has no two reports, and one timer counts           *)
(* (scheduleReport, onConfChanged, Load).                                    *)
THEOREM ReportOneADay == ASSUME D!OnlyForward PROVE D!Spec => []D!OneADay
<1>1. Scheduled /\ (D!OnlyForward => Mornings) => D!OneADay
  BY OneCounts, ReportCardinality DEF D!OneADay, Mornings
<1> QED BY <1>1, ReportInvariant, PTL

(***************************************************************************)
(* The run: the module that is picked takes its steps, the others stand    *)
(* still, and so each of them lives by its own specification.              *)
(***************************************************************************)
LEMMA HostsModules == MCSpec => Spec /\ L!Spec /\ W!Spec /\ R!Spec /\ D!Spec
<1>1. MCInit => Init /\ L!Init /\ W!Init /\ R!Init /\ D!Init
  BY DEF MCInit
<1>2. [MCNext]_<<vars, others, running>> => [Next]_vars
  BY DEF MCNext, others
<1>3. [MCNext]_<<vars, others, running>> => [L!Next]_L!vars
  BY DEF MCNext, others, llm, L!vars
<1>4. [MCNext]_<<vars, others, running>> => [W!Next]_W!vars
  BY DEF MCNext, others, weather, W!vars, W!lookups, W!caches, W!own, W!marks, W!settled
<1>5. [MCNext]_<<vars, others, running>> => [R!Next]_R!vars
  BY DEF MCNext, others, rvf, R!vars, R!mem, R!bounds
<1>6. [MCNext]_<<vars, others, running>> => [D!Next]_D!vars
  BY DEF MCNext, others, report, D!vars, D!armed
<1> QED BY <1>1, <1>2, <1>3, <1>4, <1>5, <1>6, PTL DEF MCSpec, Spec, L!Spec, W!Spec, R!Spec, D!Spec

(* Models are asked in the run (llm.go).                                   *)
THEOREM RunTurnsPaired == ASSUME L!LlmConstants PROVE MCSpec => []TurnsPaired
<1>1. L!TurnsPaired => TurnsPaired
  BY DEF TurnsPaired
<1> QED BY <1>1, HostsModules, LlmTurnsPaired, PTL

(* Weather and its report in the run, whose assumptions hold of its values   *)
(* and whose clock goes forward (weather.go).                                *)
THEOREM RunWeatherHolds == MCSpec => []WeatherHolds
<1>1. W!ToldOnce /\ D!OneADay => WeatherHolds
  BY DEF WeatherHolds
<1> QED BY <1>1, HostsModules, WeatherToldOnce, ReportOneADay, ForwardAssumption, PTL

(* The games in the run: the bank, the turns and the prizes (rvf.go).        *)
THEOREM RunGamesKept == MCSpec => []GamesKept
<1>1. R!Ledger /\ R!Resumable /\ R!OnePrize => GamesKept
  BY DEF GamesKept
<1> QED BY <1>1, HostsModules, RvfLedger, RvfResumable, RvfOnePrize, PTL

(* The same in the run.                                                      *)
THEOREM RunFairTurns == MCSpec => FairTurns
BY HostsModules, RvfFairTurns, PTL DEF FairTurns
=============================================================================
