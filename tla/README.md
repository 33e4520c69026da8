# botje: a verification development

TLA+ models of the Go IRC bot in `src/`, TLC configurations that check them on
small instances, and TLAPS proofs of the results that hold for every instance.
`PROJECT.json` says which definition models which lines of code, which property
each run checks, and how each property is broken by a plausible bug (the
`... Mutant: ...` operators beside the definition they would replace).

## 1. The system

The bot runs in one process (`botje standalone`) or in two: `botje keeper` owns
the IRC connection and relays bytes over a unix socket to `botje core`, which may
be restarted without the connection going away.

Everything in the core happens on **one dispatcher goroutine** (`core.loop`): it
takes closures from the work channel and fires due timers. Readers, writers,
HTTP fetches, database writes and telnet clients are goroutines of their own that
hand their results to the work channel. Module code therefore never races with
itself; what is hard is the *order* in which closures of different origin run,
state read by one and used by a later one, and the goroutines outside.

| component | state | operations | talks to |
|---|---|---|---|
| scheduler (`sched`) | heap, pending set, sequence number | Schedule, Unschedule, NextIn, RunDue | called by modules, driven by the loop |
| saver (`storage/saver.go`) | dirty map, in-flight flag, wait group | Mark, Flush, completion, FlushSync | stores; work channel |
| stores (`storage`) | rows by namespace and name | Get, Put, PutMany | Postgres or memory |
| flood queue (`irc/flood`) | high queue, per-target buckets, rotation, event window | Push, PushHigh, Next | the connection's writer |
| connection (`irc/conn.go`) | queue under a mutex, wake channel, done channel | Write, WriteHigh, Close, readLoop, writeLoop | socket; work channel |
| session (`irc/session.go`) | nick, channels, members, pending NAMES, welcomed | Register, JoinChannels, HandleLine | lines in; bus events and commands out |
| core transport (`core/transport.go`) | current connection and session, held messages, autojoin set, reconnect timer | connect, disconnected, Welcome, join, part, shutdown | all of the above |
| keeper (`keeper`) | two connections, two buffers, a mutex | ircLoop, serveCore, pumps, shutdown | core socket, ircd |
| event bus (`bus`) | hooks per event, call chain | RegisterEvent, RegisterHook, UnregisterModule, Submit | session, core, modules |
| fetcher (`fetch`) | urls in flight | Fetch, delivery of the answer | work channel, modules |
| feeds (`modules/rss`) | feeds with history, subscriptions and a timer each, the id counter | add, del, refresh, poll, merge, broadcast, prune, save, Load | scheduler, fetcher, store |
| wheel of fortune (`modules/rvf`) | games, timer generations, top ten | start, stop, moves, turn timeout, save, Load | scheduler, saver |
| oven timers (`modules/pizza`) | alarms by nick and id, the id pool, first clears | set, ring, repeat, clear, save, Load | scheduler, store |
| pager (`irc/pager`) | stashes with their expiry | EventMsg, More | scheduler, commands |
| reminders (`modules/remind`) | reminders by nick and id, notes | add, ring, clear, remember, forget, save, Load | scheduler, store |
| guard (`modules/guard`) | residents, suspects | sightings, enforcement, auth, switch, flush, Load | bus, conf, store |
| command registry (`irc/cmd`) | registrations by word, catch-alls by priority | Register, RegisterDefault, UnregisterModule, Dispatch, suggestions | session, modules |
| admin and accounts (`admin`, `auth`) | telnet sessions, the user table | login, adduser, passwd, `botje adduser` | work channel, store |
| weather (`modules/weather`) | caches, homes, told alerts, the report's timer | lookups, homes, alert poll, morning report, Load | fetcher, scheduler, stores, saver |
| ticker (`modules/ticker`) | subscriptions, a fetcher per symbol, their timers | add, del, alarms, refresh, broadcast, Load | fetcher, scheduler, stores |
| talker (`modules/markov`) | chains, their reverse, a dictionary per nick, the idle timer | learn, talk, talk like, flush, migrate, Load | saver, scheduler |
| backoff (`irc/session.go`) | the last delay and when it ends | Next | core and keeper, before they dial |
| configuration (`conf`, its row in `core`) | settings with types and defaults, what was stored for them | creation, Set, dump, load | modules; bus, store |
| language models (`modules/llm`) | a history per channel | question, answer, reduction | fetcher |
| counters (`karma`, `ego`, `lastseen`, `stats`) | counts by channel and in all | messages, joins, kicks | bus, store, saver |
| other lookups (`wiki`, `urband`, ...) | nothing | not modelled | fetcher |

What makes each correct, and what is hard about it:

- **scheduler**: each timer fires once, in order, never after a cancellation that
  said true, and the loop never sleeps past a timer; callbacks create and cancel
  timers in the middle of the pass that runs them.
- **saver**: no change is lost, none overtakes another, entries changed together
  are stored together; writes fail, answers get lost, handlers mark what is being
  written, the process dies, the loop ends while a write is under way.
- **flood queue and connection**: nobody starves, nothing is reordered, no wake-up
  is lost between two goroutines, the end is reported exactly when unasked for.
- **transport**: exactly one way back online; no line of a dead connection meets
  a new session; messages wait for the welcome, in order.
- **session**: its picture of nick, channels and members is the server's, once
  every line is handled.
- **keeper**: a core sees one unbroken stretch of one session, its registration
  arrives, shutdown ends and silence is noticed.
- **feeds**: a feed is polled for as long as it is subscribed, by one chain of timer,
  request and answer; no two kept items share a short id; no channel is told an item
  twice. Commands and late answers meet, the store lags, ids wrap.
- **wheel of fortune**: a game goes on or ends whatever its players do, a stale timer
  touches nothing, money is earned once, a win counts once. Timers are never
  cancelled, players drop out in the middle, the process dies between two saves.
- **oven timers**: an alarm set and not cleared rings once per round, across restarts; a
  cleared one does not. The map, the scheduler, the pool and the store each know part
  of it.
- **pager**: a reader gets every line of a reply once and in order unless a newer reply
  or the reply's own expiry ends it.
- **reminders**: one timer per reminder, ids never shared, no occurrence rung twice.
- **guard**: residents are those learned while it was off or let in since; they are kept
  while they show up and are never thrown out; strangers at the limits are.
- **command registry**: a word reaches who registered it, in order, and no word stays
  whose last listener panicked or left; what is suggested for a mistyped word is near it.
- **admin and accounts**: a session's lines run one at a time though two goroutines
  and the dispatcher share them, none after the one that ended it; an acknowledged password
  holds although memory, store and a second process each have their own table.
- **weather**: a lookup that waits for up to four documents, which others may be
  waiting for or have cached, is answered once or refused; an alert is told once; a
  morning has one report.
- **ticker**: a symbol somebody follows goes on being refreshed, by one timer, whatever
  is added, dropped and refreshed around a running request; its price is not repeated.
- **talker**: the reverse dictionary, the rows in the store and the dictionaries of the
  nicks are all of one corpus, through migration, crashes and flushes.
- **backoff**: the server is not dialed too often, however long dials and connections
  last; the ladder starts over only after a time in peace.
- **configuration**: what was set stays set through restarts in which its module does not
  load and releases in which it does not parse; what never was follows the default.
- **language models**: what goes along with a question is a row of questions with
  their own answers, in whatever order answers come and histories are cut.
- **counters**: totals are those of the channels and both sides of a kick agree, also in the
  store, whose rows are written at different times; a crash loses less than an interval.
- **bus**: nested dispatch calls every hook once, ends, and survives panics.

The list `hazards` of `PROJECT.json` names the places in the code where these can
go wrong, with the property that would notice.

## 2. Modules

| module | models | composed of |
|---|---|---|
| `Sched` | `sched/sched.go` and `core.loop` | |
| `WriteBehind` | abstract: what a module that marks data dirty is promised | |
| `Saver` | `storage/saver.go`, `PutMany`, the shutdown in `core.Run` | refines `WriteBehind` |
| `Flood` | `irc/flood/flood.go` | |
| `Conn` | `irc/conn.go` | extends `Flood` |
| `Lists` | `slices.DeleteFunc` as the code uses it | |
| `JoinList` | `addChannel` and `removeChannel` of `core/builtins.go` | extends `Lists` |
| `Session` | `irc/session.go`, channel and member tracking; the owner's join and part | extends `JoinList`; external ircd |
| `Transport` | `core/transport.go`, join and part of `builtins.go`, welcome of `session.go` | extends `JoinList`; external ircd |
| `Keeper` | `keeper/keeper.go` | external cores and ircd |
| `Bus` | `bus/bus.go` | |
| `Feed` | `modules/rss` and `fetch.Fetch` | |
| `Rvf` | `modules/rvf` | saves as `WriteBehind` promises, timers in the order `Sched` gives |
| `Pizza` | `modules/pizza` | |
| `Pager` | `irc/pager` | timers in the order `Sched` gives |
| `Remind` | `modules/remind` | |
| `Guard` | `modules/guard`, the switch of `conf` | |
| `Weather` | `modules/weather` but the report's timer | |
| `Report` | the report's timer, of `modules/weather` | sends `morning` of `Weather` |
| `Ticker` | `modules/ticker` | |
| `Markov` | `modules/markov` | saves as `WriteBehind` promises |
| `Registry` | `irc/cmd/cmd.go` | extends `Lists` |
| `Admin` | `internal/admin`, `internal/auth`, `botje adduser` of `cmd/botje` | |
| `Backoff` | the ladder of `irc/session.go`, with the waits core and keeper sleep | |
| `Conf` | `internal/conf` and its row in `core.Run` | |
| `Llm` | `modules/llm`, with the fetcher's urls in flight | |
| `Counters` | `modules/karma`, `ego`, `lastseen`, `stats` | stats saves as `WriteBehind` promises |
| `SaverProofs`, `TransportProofs`, `ConnProofs` | theorems | extend their component |
| `SchedProofs` | theorems about `Sched`, `Markov`, and about the run that hosts them | extends `MCSched`, `Lemmas` |
| `SessionProofs` | theorems about `Session`, `Keeper`, `Backoff`, `Counters`, and about the run that hosts them | extends `MCSession`, `Lemmas` |
| `ModuleProofs` | theorems about `Bus`, `Pager`, `Conf`, `Admin`, `Pizza`, `Remind`, `Guard`, `Ticker`, `Registry`, and about the run that hosts them | extends `MCBus`, `Lemmas` |
| `ChatProofs` | theorems about `Feed`, `Llm`, `Weather`, `Rvf`, `Report`, and about the run that hosts them | extends `MCModules`, `Lemmas` |
| `Lemmas` | what a sum over a finite set is, how it changes and what it counts; what `Retained` and `removeChannel` leave of a list | extends `JoinList` |
| `MCFlood`, `MCConn`, `MCSaver`, `MCTransport`, `MCKeeper`, `MCReport` | constants for TLC | extend their component |
| `MCSched` | constants | extends `Sched`, runs `Keeper`, `Markov` beside it |
| `MCSession` | constants | extends `Session`, runs `Keeper`, `Backoff`, `Counters` beside it |
| `MCBus` | constants | extends `Bus`, runs `Pizza`, `Pager`, `Remind`, `Guard`, `Ticker`, `Registry`, `Admin`, `Conf` beside it |
| `MCModules` | constants | runs `Feed`, `Rvf`, `Weather`, `Report`, `Llm` side by side |

How state and actions correspond to the code:

- **Sched.** `heap`, `pending`, `at` and `nilfn` are the fields of Scheduler and of
  its timers; `due` is RunDue's local slice. RunDue collects in one step (nothing
  else can run) and fires one timer per step, because a callback may call Schedule
  and Unschedule. `phase` and `deadline` are the loop: NextIn arms the wake-up,
  the select takes work or the wake-up. Module code is arbitrary: in a work item
  or a callback any Schedule and Unschedule may happen.
- **Saver.** A value is a version number; `dirty[k]` is `Live` (the func Mark was
  given, evaluated at the flush), the bytes of a failed write, or absent. The
  goroutine of Flush writes one namespace per step, each may fail with or without
  the rows having landed, then calls `wg.Done` and only then delivers its
  completion, which may block on a full channel. `Restart` may strike anywhere.
- **Flood.** A line is its serial number and the extra events it costs; time stamps
  are ages. `passed` is a history variable for `NoOvertaking`.
- **Conn.** The owner's push and its kick are two steps, the writer's look at the
  queue and its wait are two steps; Close and the reader's own end race.
- **Session.** One action per IRC command of HandleLine. `channels` is the
  autojoin list, which a join or part of the owner changes and a new session finds.
  `answered` and `disputed` are history: channels whose NAMES reply the session asked
  for is in, and connections on which the bot's nick is in doubt: inherited from a core
  that ran under another one, or refused a nick when they had one. The ircd keeps
  the truth, sends each NAMES reply in one piece, may refuse joins, and only tells
  what the bot can see.
- **Transport.** The work channel carries closures tagged with their connection.
  `held` is the slice captured by `sess.Emit`. The ircd either starts afresh or
  (behind a keeper) goes on as registered, still in its channels.
- **Keeper.** Inbound bytes are half lines, outbound bytes a registration or a later
  line. `mu` is held across steps only where the code writes to the core under the
  lock. `toIrc` holds a connection taken under the lock and written to after it.
- **Bus.** `stack` is the Go call stack, one frame per Submit. Return, Stop, panic,
  nested Submit and hook changes may all happen while a handler runs.
- **Feed.** `feeds` maps a url to its record; `held` says whose `f.timer` is armed and
  `orphans` counts armed timers a later `After` has written over, so that a url's poll
  tokens can be counted. `Answer` is the fetch goroutine; the four `Fetched...` actions
  are the branches of `fetched`. A document is the set of items that pass the feed's
  grep. `stale` is `Updated` seen against `historyMinAge`. Commands of one network:
  the subscription's server is always the same, so the branches of `delFeed` for other
  servers only answer. `overlapped`, `told`, `resent` and `behind` are history.
- **Rvf.** `games` holds the records of `game.go`; one action per kind of move, each with
  `moveDone`'s mark and fresh timer, also where a buy or a call is refused. `timers` is
  the queue of armed turn timers with their generations: all have the same delay
  (`rvf_turn_seconds`; changing it while a game runs is not modelled) and the scheduler
  fires in order. `Flush` stores the marked entries of the namespace together, which is
  what the saver's one `PutMany` per namespace gives; a crash may come at any point.
  `Lineups` stands for the checks of `cbStart` on nicks. `id`, `spinner` and `slept`
  in the records are history.
- **Pizza.** Time is counted in ticks and moves by itself, so an alarm rings when it is
  due or any time later. `timers` is the map by nick and id, `armed` the alarms the
  scheduler holds; an alarm's `uid` stays with it through repeats and restarts and
  tells it from the others. `get` is the set of ids the pool may hand out, whatever its
  ten random draws hit. The time syntax of `parse.go` is reduced to its outcome: a
  delay, a refusal that gives the id back, a refusal that does not. `promised`,
  `reused` and `behind` are history.
- **Pager.** A reply is a number and a length, a line its position. The budget is read
  at every call, so every call picks one. `expiries` holds the armed timers; their
  callback deletes whatever its key has by then, as the code does. `sent` and `ended`
  are history.
- **Remind.** `waiting` holds the armed timers with the reminder their closure captured,
  `reminders` the map; `save` is its two Puts. A cron line is its period, `Never` one
  that no day satisfies. `requests` numbers reminders and notes and bounds them; `owed`,
  `rung`, `values` and `unstored` are history.
- **Guard.** A suspect keeps its stamped lines and joins, pruned as new ones come.
  `ConfSet` is a setting changed and stored; it is reached by `guard on`, by `guard off`,
  which also forgets the suspects, and by the plain `conf` command, which does not.
  `age` runs in Load only. `trusted`, `sighted` and `wronged` are history: who ought to
  be a resident, when they were last seen, and whether such a one was thrown out.
- **Weather.** A lookup is a record with the documents it still needs, in the order the
  code asks for them; `Else` is a document with a fallback. `Proceed` takes what a cache
  holds and asks for the next url, or finds it being fetched and is dropped there, as
  `Fetch`'s answer is not looked at. `asked` and `landed` are the fetcher's urls in flight
  and its answers in the work channel. Caches are kept as the time they were filled.
  `answers`, `refused`, `told`, `retold` and `unmarked` are history.
- **Report.** Hours on two clocks: `Wall` is the zone's, which goes back or forward once;
  `Date` is `time.Date` in a zone east of Greenwich, as the image sets (`Dockerfile:20`).
  `reportGen` orphans timers as in the code; `reported` and `twice` are history.
- **Ticker.** `fetchers` holds the record of `fetcher.go` without its samples; `timers`
  are the armed ones with the tag they were armed under. An answer is one of five kinds.
  `toldAt`, `early` and `unsaved` are history.
- **Markov.** A dictionary is a function from its paths to their counts; a row is the part
  that begins with one word. `StepBack` and `StepForward` are one turn each of the two
  loops of talking, so that the bounds of both are checked; nothing else runs between
  them, as nothing else may on the dispatcher.
- **Registry.** Words are sequences of letters, since the suggestions are about edit
  distance, and none is empty (`cmdRe` wants at least one letter). `since` numbers the
  registrations; `living` and `last` are history.
- **Admin.** `handler` is what the goroutine of `handle` is at: it posts one line
  and waits. `stuck` is the client whose full socket holds up the dispatcher. A write to
  a client that hung up fails at once. `handled`, `bye` and `accept` are history.
- **Backoff.** Time in seconds moves from one call of Next to the next: the caller sleeps
  what it was told, dials, and its dial or connection lasts one of `Lifetimes`. `dials`
  is history.
- **Conf.** A value is a raw string, of which each release parses some as a setting's
  type. `Start` is a process of some release in which some modules load; `stored` is what
  Stored dumps. `blind` says that the row could not be read; `promised` is history.
- **Llm.** A message is its role and the question it belongs to; `asked` is the fetcher's
  map of urls in flight, `landed` the answers in the work channel. `turns`, `settled` and
  `lost` are history.
- **Counters.** One action per event of a channel, in which the handlers of all four modules
  run; `mem` and `row` are what each module has in memory and in the store. A Put fails
  with the row written or not. `unsaved`, `misses`, `odd` and `misreported` are history.

## 3. Runs

| run | checks | shows |
|---|---|---|
| `sched` | OneFate, WakeupArmed, InOrder, FiresInTheEnd; ShutdownEnds, SilenceNoticed of the keeper; Mirrored of the talker | one fate per timer, no oversleeping, order, firing; the keeper's progress, with cores that read; one corpus, as learned, stored and talked from |
| `saver` | NoLostUpdate, FinalFlush, ImplementsWriteBehind, ShutdownEnds, SavedInTheEnd | the saver implements the write-behind memory, and progresses |
| `conn` | ConnExact (QueueExact and EndReported), NoOvertaking, Drains, GoroutinesEnd | the queue under its two goroutines |
| `transport` | OneLifeline, Orderly (NoStaleLine and InOrder), AutojoinHolds, Answerable, ComesBack | one way back online, messages in order and answerable |
| `session` | Mirrors (MembersAgree, NickAgrees, TrackedWhereIn, NothingLeft); LinkHolds (OneStretch, RegistrationArrives, NoLateLink, NoHammering); CountsHold | the session's picture is the server's; what the relay gives either side; dials spaced; counts that add up |
| `bus` | DispatchExact (ChainExact, NobodySkipped, OncePerSubmit); AlarmsKept; PagedInFull; RemindersKept; TrustHolds; TickersRun; CommandsKnown (TableExact of the registry); SuggestionsRight; AdminHolds (LastWord and AccountsKept); SettingsKept | nested dispatch; alarms and reminders: none lost, none twice; replies paged in full; residents kept, strangers not; symbols refreshed; the command table and what it suggests; telnet sessions and accounts; settings |
| `modules` | OneChain, ItemsKept (IdsDistinct and NoRepeat); GamesKept (Ledger, Resumable, OnePrize), FairTurns; WeatherHolds (ToldOnce and OneADay); TurnsPaired | feeds: the poll chain, the short ids and the broadcasts; games: money, timers, scores, restarts; lookups answered and alerts told once; one report a day; turns paired |
| `saver_doc` | FinalFlushCatchesAll (violated) | finding 1 |
| `keeper_stale` | RegistersFirst (violated) | finding 2 |
| `keeper_hang` | ShutdownEnds (violated) | finding 3 |
| `weather_dst` | OneADay (violated) | finding 4 |
| `session_nick` | AnswersToItsNick (violated) | finding 5 |

All runs say `CHECK_DEADLOCK FALSE`: every component really stops, after its
shutdown or when nobody asks anything of it; that it does not stop too early is
what the liveness properties say.

### Bounds, and why they are enough

- `sched`: three timers with delays 0, 1, 2. Two of one pass plus one created or
  cancelled in it is the smallest situation in which order, fate and wake-up can
  go wrong.
- `saver`: two entries that change together and one of another namespace, three
  versions, two failed writes, a work channel of one; one value does not marshal.
  A failed batch can be overtaken by a newer mark twice.
- `conn`: two targets and the high queue, two lines each. `MaxAge` is at least the
  longest window in ticks (`MCFloodAges`), so capping ages changes no answer.
- `session`: one channel, two other users of whom one may hold the bot's nick, two
  things they or operators do, two sessions, one join or part. Two bursts per join
  with events before, between and after them are reached.
- `transport`: three connections, three messages, two admin commands, a hold of one.
- `Keeper` (in `session`, in `sched` and in the two runs of its own): two IRC connections and
  two cores, or one of each where progress is looked at; buffers of one and three. The outbound buffer must have room for the leftovers of a
  detached core and a registration: with less, RegistrationArrives fails because
  bufferOutLocked keeps the head.
- `bus`, `modules`, `session` and `sched` check components that share no state side by side: one
  moves while the others stand still, and the properties of a component are looked at only
  while it is the one that runs. In `sched` the fairness, too, is that of the one that runs.
  - `Bus`: two modules, two events, six submits; six exceeds the deepest nesting possible,
    five. Symmetric in modules, and `Pizza` in nicks (no liveness is checked there).
  - `Feed`: two urls, one with two items and one with one, so that ids are shared, wrap
    (five of them), and are freed by pruning; one channel, three commands, one failed
    save, one restart. Three commands are what a delete and a re-add around a running
    request take. No liveness is checked: OneChain says that a token is always there,
    and each token moves on by itself (timers fall due, requests time out).
  - `Rvf`: two players, two games in one channel one after the other, three moves (what
    it takes to win with money, or to buy a vowel), two missed turns allowed, one
    restart; letters of both kinds that hit and that miss. Again Resumable is the safety
    half of progress: exactly one timer counts, and each timeout brings a player nearer
    to being dropped.
  - `Pizza`: two nicks, two alarms, one name so that the fallback numbers come into play,
    four instants: an alarm may ring in time and go on, ring too late and be denied, be
    due or nearly so at the restart; one failed save.
  - `Pager`: one reader, two commands, three replies of up to three lines, budgets 0 to 2.
  - `Remind`: two nicks, three requests, so that an id below the highest can be freed
    before a restart; one failed Put of either entry.
  - `Guard`: two masks and two channels, three sightings, limits of two channels and three
    lines; four instants around windows of one and a residence of two ticks with a slack
    of two; one failed Put, one restart, clean or not.
  - `Weather`: two places (the home, near a station, and one abroad that the geocoder calls
    by the same name), one nick, one alert; caches and marks that expire after a tick, two
    events of people or the world: two lookups share a document, or an alert is published
    around a restart.
  - `Report`: days of four hours and a change of clock by one hour, two and a half days, two
    changes. `modules` has the clock go forward, `weather_dst` back.
  - `Ticker`: one symbol, two channels, two requests of people, two answers that may wait,
    one failed Put, one restart, a window of two samples: a symbol dropped and added again
    around a running request.
  - `Markov`: order three, one talker, a blob of the old format or none; four events, so
    that a line is learned before and after the migration, and a crash comes between them.
  - `Registry`: two modules, words of two to four letters out of two, typed ones at
    distances of zero to more than two, two priorities, four steps.
  - `Admin`: two connections, one account and the superuser, two strikes, four lines of
    which one may be typed ahead, a socket that holds one unread answer, one failed Put, one
    restart, one run of `botje adduser`; two connections suffice because they meet only in
    the work channel and in the table.
  - `Backoff`: the code's ladder; lifetimes of 0, 1, 200 and 301 seconds, so that a
    connection is below or above the quiet period; seven dials, of which four in a row can
    stand anywhere on the ladder; a window of seven minutes. A dispatcher that is stuck for
    longer than the quiet period before it dials is not modelled.
  - `Counters`: two nicks, two channels and the bot, three events, an interval of two messages, a
    report every three self-references of which a message has two (so that the mark is
    passed and hit), one failed Put, one restart.
  - `Conf`: two settings, two releases that differ in a default and in what parses, three
    sets, two starts, one failure to read or to write.
  - `Llm`: two channels, two models of which one is bounded, a history of four messages,
    three questions, one restart.

### Fairness

Weak fairness on the steps of a goroutine says that it runs; on the dispatcher it
is what `core.loop` does. Strong fairness is assumed where the code competes:
`RunDue` (select picks at random among ready cases), `Deliver` (a send on a channel
that is drained again and again), taking the keeper's mutex, a dial that is tried
for ever (`ConnectOK`). Database calls return, sockets of cores are read
(`CoreFairness`, in `sched`: `keeper_hang` shows what happens without).
The keeper's `SleepOver` has a guard that encodes a duration: its shortest backoff,
three seconds, is ample for `serveCore` to let go of a core that is gone.

### Findings

1. **A failed write at shutdown is lost** (`saver_doc`). When the loop ends while the
   asynchronous write fails, the completion that requeues the batch never runs, so
   `FlushSync` finds nothing dirty and reports success. `FinalFlush` is what holds.
2. **Stale outbound bytes** (`keeper_stale`). When `toCore`'s write failed, `k.core` is
   already nil and `detachCore` does not clear `outBuf`.
3. **A core that does not read blocks the keeper** (`keeper_hang`): `toCore` writes
   with the mutex held and without a deadline.
4. **Two reports on the day the clock goes back** (`weather_dst`). The next report is
   armed 24 hours after the last, not for its time on the next day.
5. **Another user's rename taken for the bot's own** (`session_nick`). The bot runs as `bot1`,
   as somebody holds `bot`; that one renames to `ann`, and the core is restarted behind the
   keeper before it has read the line. The new session takes itself for `bot`, follows the
   rename to `ann`, and so does not know its own when the server grants it `bot`:
   it answers to `ann` until the next connection. `disputed` sets these connections apart
   for `NickAgrees`, `MembersAgree` and `TrackedWhereIn`.

Met while modelling, without a run of their own:

- Flood: `delay` truncates what is left to whole seconds, so that any fraction of a second
  after an event the wait is 0 and short lines are not paced (`flood.go:116`, against
  "1 event per second" at line 5).
- Scheduler: `Unschedule` answers false for a timer that the running pass has collected and
  will still fire (`sched.go:69`).
- Transport and session: `shutdown` between two connections submits no QUIT
  (`transport.go:219`); what finding 5 does to the nick, a part of whoever holds the
  configured nick does to a channel, which is forgotten though the bot sits in it
  (`session.go:128`; drop `~disputed` from `TrackedWhereIn` to see it).
- Keeper: `bufferLocked` cuts within a line and `LineBuffer.Feed` takes the rest for a line
  (`keeper.go:263`); `serveCore` is serial, so the newest core waits for the oldest
  (`keeper.go:316`).
- Bus: a Submit under way still calls a module that a nested panic unloaded (`bus.go:173`).
- Feeds: `!rss refresh`, or a delete and a re-add, while a request or its answer is under
  way starts a second poll chain that never merges with the first, so the feed is polled
  twice per period until the next restart (`rss.go:378`; drop `u \notin overlapped` from
  `OneChain` to see it), and on a feed given up it answers "Refresh scheduled!" and
  schedules nothing.
- Wheel of fortune: `moveDone` resets the turn clock also for a buy or a call that was
  refused, so a player can keep the turn for ever (`rvf.go:600`, against "after any valid
  move" at line 643), and the package comment still says that timeouts abort the game
  (`rvf.go:9`) where `turnTimeout` drops players.
- Oven timers: the pool's fallback number starts over with the process and is not looked
  up, so that after a restart a new alarm may take the id of a stored one: the stored one's
  timer can then no longer be cleared, and its ring removes the new one's entry
  (`parse.go:39`; drop `~reused` from `AlarmsKept` to see it), while a time that turns out
  to be past only after parsing keeps its id until the next restart (`pizza.go:177`); an
  alarm due within thirty seconds of a restart rings twenty seconds after it, up to ten
  seconds early, and a repeating one keeps the shift (`pizza.go:112`).
- Reminders: a cron line that parses but that no day satisfies (`0 0 30 2 *`) has no next
  occurrence: the library answers the zero time, which is due at once, so the reminder
  rings on every pass of the loop until it is cleared, by Load's timers again after a
  restart (`remind.go:375`).
- Guard: `conf guard_enabled=false` switches the guard off without forgetting its suspects
  (`enforce.go:13` says they are discarded), so that who was actioned in one wave is not
  touched in the next, as is who comes back after the gline has run out while the guard
  stays on (`enforce.go:58`).
- Pager: a negative `anti_flood_max_lines` makes `More` walk backwards and index below zero
  (`pager.go:142`; the model's budgets are not negative).
- Weather: a lookup whose url somebody else's lookup is fetching ends without a word
  (`Fetch` refuses, and the answer is not looked at; the comment that the callback runs on
  the dispatcher either way does not hold then), which also eats a report, and delays a
  broadcast by one poll when `!weeralarm` is asking; a place the geocoder calls by another
  name is geocoded anew each time; two answers to one nick's `home` may be applied in
  the order in which they come, not in that of the commands.
- Weather: a warning document that is no XML counts as an empty list, and the cached
  alerts are shown for as long as the cache lasts though they have run out; marks older
  than seven days go although their alert may be in force.
- Ticker: once a symbol's refresh has been given up, `!ticker refresh` fetches it again but
  nothing is armed behind the answer, as the mark is never taken back (`ticker.go:499`).
- Talker: an idle timer armed before the switch was turned off still talks once; a backup
  blob put back by hand beside rows that are there leaves the reverse underived.
- Admin: `botje adduser` and the running core each write the whole table they read, so that
  the core's next change removes the account added beside it, and the other way round
  (`main.go:96`, `auth.go:82`; `accept` keeps both in doubt); a failed Put leaves the
  account in memory, so that a retry answers "already exists"; an account with the
  superuser's name can be added and never logs in; an option sequence that two reads split
  leaves its tail in the line (`admin.go:123`, against the comment at line 109); lines typed
  before a hang-up are still carried out; a client that does not read holds up the
  dispatcher for as long as it likes (`admin.go:155`; no deadline bounds it, so there is no
  liveness to state).
- Configuration: when the row cannot be read at start this is only logged, and the next Set
  stores a row without the settings it held (`core.go:128`); the list of channels goes the
  same way with the next join. `SetFileOverrides` has no caller.
- Language models: a url serves one question at a time for all channels, so that the second is refused (`llm.go:145`); a context that was too large cuts
  the history as it is when the error arrives, which may not be the one that was sent.
- Counters: the core never calls Unload, so that ego and lastseen lose at each restart
  what they have not written (up to 99 messages), where `lastseen.go:5` says that it is
  saved on unload; the error of their Put is not looked at, which costs another hundred.

## 4. Proofs

All for arbitrary constants under the named assumptions of each module.

- **SchedProofs**: TypeOK, OneFate, WakeupArmed, InOrder. OneFate is not inductive:
  that the dispatcher's batch and the heap share no timer needs `HeapInv` (pending
  timers are in the heap, heap entries are pending or cancelled, no batch outside a
  pass), and order across passes needs `PassInv` (what stayed behind sorts after
  the whole batch). `IInv` is their conjunction; one lemma per action. Beside the timers:
  - *Markov*, Mirrored, for any lines, talkers, order and bounds. A trie is read as what a
    corpus makes of it: a path counts the windows that begin with it (`TrieOf`). What its
    continuations leave of a count is then the number of windows that end there (`ExcessIs`,
    by `TotalCounts`: sizes of sets that share nothing add up), so that turning each of these
    around gives what learning every line backwards would have (`DerivedIs`, `LearnedBack`).
    The invariant says that one corpus stands behind everything (`Remembered`): the main
    dictionary holds some of its windows, the reverse one the same windows turned around, a
    talker's a part of them; the rows hold a part of what memory holds, and all of it but
    the marked rows (`Agree`), so that a crash loses windows and never half of one; the
    migration, which may stop after each write, has its own case (`Migrating`). `Sentence`
    says which words stand in front of the seed and how far either loop of talking has come.
- **SaverProofs**: TypeOK, NoLostUpdate, FinalFlush and the refinement of
  `WriteBehind`. The strengthening says where the goroutine may be (`WriterInv`), that
  requeued bytes never meet bytes in flight (`RequeueInv`), that every value under
  way lies between store and memory (`OrderInv`) and that grouped entries move
  together (`TogetherInv`). A store that neither runs back nor shows half a change
  is `OrderInv` and `TogetherInv` read on one write.
- **ChatProofs**, as ModuleProofs does for the modules of `MCBus`:
  - *Feed*, OneChain. Not inductive: a deleted feed leaves a request, an answer or
    forgotten timers behind and the url may be added again, so `IInv` counts the tokens
    of every url, subscribed or not, and adds that a remembered timer belongs to a feed
    and that memory and store hold whole records.
  - *Feed*, ItemsKept: what was told is marked in memory and, unless the last save failed,
    in the store a restart reads (`Marked`). That no two live items share an id rests on
    `NextIdsExist` and `EnoughFree`: the walk finds as many free ids as a document has new
    items, because idWrap exceeds the items there are.
  - *Llm*, TurnsPaired: a question that is not settled is in one place, with one url or in
    the work queue (`OncePending`); a turn is added behind and, as maxHistory is even, goes
    from the front as a pair (`TurnMatched`), and so does what a too large context takes off.
  - *Weather*, ToldOnce: a lookup is in one place, in hand, with a url, in the work queue,
    refused or answered, and never again where it has left (`LookupsOnce`). What was told is
    marked unless a crash took the mark, and a mark is kept as long as its alert is in
    force (`AlertMarks`), which needs that the store has no mark memory has not.
  - *Rvf*, Resumable, OnePrize, FairTurns. `RvfInv`: of a table's timers in the queue each
    was armed after the ones before it, so what comes before another of its table is stale
    (`TimersFine`), and a table in play waits for the one with its own number; `Missed` is
    what the player slept through, below the limit between two steps; a game of the book, in
    memory and in the store, is numbered below `starts` and has no score (`GameBook`), and
    the two entries that differ from the store are marked, so that they go together.
    `Moved` says what every kind of move leaves alone.
  - *Rvf*, Ledger, on top of that: a spin under way is an amount of the wheel, and the books of
    every table in memory and in the store are balanced (`Balanced`). Each move either leaves
    the purses or takes from one (`Poorer`), or books a letter and its worth, a vowel and its
    price; who is dropped takes his purse along (`PurseGone`).
  - *Report*, OneADay, for a clock that does not go back and skips no time of a report
    (`OnlyForward`; `weather_dst` shows what the other direction does): when the timer that
    counts comes due, a time of the report has passed on the wall clock that is later than the
    last report (`Mornings`). That exactly one timer counts holds for every clock.
- **TransportProofs**: OneLifeline, Orderly, AutojoinHolds, Answerable, for any channels,
  caps and list. One invariant carries all four. `Lifeline`: the report of the end is the
  last line in the work channel, so no line of a connection can meet the next one.
  `Numbers`: message numbers grow along what was dispatched, what is held and what is in
  the channel. `Follows`: the last of a channel's comings and goings in the pipe says where
  the server has the bot, and a message in the pipe comes from a channel it is in.
  `Known` and `Wanted`: once welcomed, what no line is going to change is tracked as it is,
  and the last command for a channel of the list has it joined.
- **ConnProofs**: ConnExact and NoOvertaking. The queue is exact because its targets
  are the rotation, once each, and a bucket is popped from its head (`Turns`: who was served
  since a bucket joined waits behind it); the end is reported once because the socket is closed
  by Close, or by the reader before its one report (`EndInv`).
- **ModuleProofs**, each for any constants under the named assumptions of the module, and
  then, by `HostsModules`, for the run `bus` that hosts them (`Run...`):
  - *Bus*, TypeOK, DispatchExact. That a returning handler removes the right chain
    entry needs `OnlyTopLoops`: every frame but the innermost is inside a handler.
  - *Pager*, PagedInFull: a stash knows how much of its reply was sent, its
    timer is numbered like the reply, and no two stashes share one (`StashInv`), so the timer
    that fires is the timer of the stash it deletes. `LinesJoin` puts pages together.
  - *Admin*, AdminHolds, for inputs whose `adduser` and `passwd` name accounts of `Names`.
    LastWord is about closures in a channel, so `QueueInv` says that they are of different
    clients, each of whom waits for one; `Standing` adds where a session is: who said
    goodbye has a handler that never posts again.
  - *Conf*, SettingsKept, for releases whose defaults parse: what is in force is what the
    process holds of a setting, or the default, and what it holds is promised unless it
    started blind (`ConfInv`).
  - *Pizza*, AlarmsKept: every alarm is under its own key, numbers and ids are not shared,
    what is promised is what is armed, and the store differs from memory only in what a
    restart puts right, unless a Put was lost (`AlarmsInv`).
  - *Remind*, RemindersKept: the book of reminders is numbered below maxID, each has one
    timer, for an occurrence that is ahead and has not rung; a note is the latest of its values.
  - *Guard*, TrustHolds: a resident's row runs late by less than the slack, the
    row of who is not trusted is too old to be loaded, and suspects stay below
    the limits until they are acted on.
  - *Ticker*, TickersRun. Not inductive: that Unschedule takes the timer of its own
    symbol and no other needs that armed numbers are not shared and that a number a
    fetcher holds is that of an armed timer (`PollsInv`); that a restart does not tell a price
    again needs that the store agrees with what was told, unless its last Put was lost
    (`ToldInv`). Free numbers exist by counting (`FreeNumber`).
  - *Registry*, TableExact. Not inductive: that a list is in the order of registration
    says something of a new one only if numbers are not used again and a module is not
    registered twice for a word (`LivingInv`). `TableInv` says of each list what it is: the
    living registrations of its word, each once, in order, and no list is empty; of the
    catch-alls, that they are sorted. Every operation replaces lists by what `Retained` leaves
    of them, with one put in or exchanged, and so keeps the order (lemmas `ListedKept`, `TableChanged`).
- **SessionProofs**:
  - *Session*, Mirrors, for any channels, nicks and users. The property speaks of an empty pipe;
    what leads there is that, for every channel, some history of its members runs along the
    lines still in the pipe, from what the session has to what the server has
    (`Mirrored`): while the bot is in, each line tells all of the next change (`Follows`), and
    a list under way, with what is pending of it, is exact where it ends (`ListsExact`). It may
    be wrong only of a time when the bot is out, and a JOIN of its own, which
    starts the state over, is the one way back in. A channel the session does not
    track was not asked for, nor is a list of it under way (`NoListFor`); lists come whole (`BurstsWhole`), and
    those of an older session are told by their number (`GensFollow`). Which lines are the
    bot's own is known because the nick they were sent to changes only by a rename in the
    pipe (`NicksFollow`), and is, where not in dispute, the session's (`NickKnown`:
    before the first welcome, the one NICK that is under way). One lemma per action.
  - *Backoff*, NoHammering, for the ladder of the code (`Ladder`) and connections of
    any length. `LadderAt` says what it took to stand on a rung: after the first dial, the
    foot costs a time in peace, and the rung above it keeps that time in the last three gaps;
    the sum of three gaps is then at least seven minutes on every rung (lemma `Climb`).
  - *Counters*, CountsHold. The bound on what a crash loses is not inductive: `Late` relates
    it to the messages since the last attempt, an interval for each attempt that failed and
    the count so far; the stored tallies are those of memory but for the marked ones, so that
    a flush copies a pairing that holds (`Paired`); a message or a kick changes one summand
    (`Adjusted`, `Kicked`).
  - *Keeper*, OneStretch, NoLateLink, for any limits and any number of connections, cores
    and bytes. What a core was sent and the buffer must join, whoever holds the lock: the
    core that is attached was sent all up to what was read, but for the token `toCore` holds
    or what `attachCore` has yet to write; a new connection finds no buffer and no core that
    heard of the last and listens still (`Relayed`); that rests on where the goroutines
    are (`Seats`, `Dialing`) and on a core that waits having heard nothing (`Waiting`).
  - *Keeper*, RegistrationArrives, if what a core says fits in what is held for it
    (`Roomy`: the limit is 16 KiB; bound above). The registration of who is served
    and still there is unread, in `toIRC`, held back, or on the wire of the connection that is
    installed, or that session is about to be dropped with the core (`Said`); held
    back it is only if there is room, since what an abandoned core left
    behind is no more than it said (`Spare`). No step of these proofs uses the duration in
    `SleepOver`'s guard.
  - The run: Mirrors; LinkHolds, for the code's ladder and `Roomy` limits; CountsHold.
- **Lemmas**: the community modules sum over a set by a recursive function on its subsets, that
  takes an element of its own choice off at a time. That this defines something, and that
  any element may be taken off first (`InAnyOrder`), are inductions over the number of
  elements; from them, how a sum changes with one summand, one element, or another naming,
  and that sizes of sets that share nothing add up to the size of their union.
  That `Retained` leaves the members of the set and no others, in their order,
  is one over the length; `removeChannel` is a case of it.

Only model-checked: everything of `Flood` alone; SuggestionsRight of `Registry`, since that the
rows of the edit distance count insertions, removals and exchanges is an induction over two
words, checked on the typed words of the run; RegistersFirst of `Keeper` (which the code
breaks); and all liveness (leads-to under fairness and ENABLED are outside the prover).
RECURSIVE operators are not used here; induction is over the numbers of a finite set, as the
library's induction theorems take an operator the provers cannot instantiate.

## 5. Plan

What is left, in this order; each with its hazards, its run and its mutants.

1. Of `Feed`, `Rvf` and `Pizza` what is left: recall and paging by short id; the owner's
   puzzle list, the draw that avoids recent puzzles, the channel topic; the time syntax; the
   game over `Sched` instead of a queue, with liveness.
2. Compositions: `Transport` with `Session`; pager with the flood queue; `Fetch` once, under
   the three components that each have their own picture of it.
3. Theorems: SuggestionsRight of `Registry`.

## 6. Not modelled

Text formatting, colours and tables, URL and feed parsing, request signing, SQL
text, metrics and log output: pure data or output that no property here tells
apart. Configuration of the process (`cmd/botje`, but for `adduser`), migrations of old data
files but that of `markov`. The module interface is a type. The lookup modules other than
`weather`, `ticker` and `llm` make one request for one answer and keep no state. The logger writes lines to files.
