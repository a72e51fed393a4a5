# Tillerinobot in TLA+

Tillerinobot is a chat bot for the game osu!, with a web site, ppaddict. This
directory holds TLA+ modules of their concurrent core, configurations that check them with TLC, and proofs that
TLAPS checks. Every definition is translated from the source; the file
`PROJECT.json` names the lines.

- [The system](#the-system): components, state, operations, interactions
- [The modules](#the-modules): how state and actions correspond to the code
- [The runs](#the-runs): what TLC checks, within which bounds
- [Fairness](#fairness)
- [The proofs](#the-proofs)
- [What the checks found](#what-the-checks-found)
- [What is not modelled](#what-is-not-modelled)
- [Plan](#plan)

## The system

Three processes talk through RabbitMQ.

- **IRC front end** (Rust, `src/tillerinobot-irc`): keeps the connection to the
  game's IRC server, publishes what users write, and serves the RPC queue
  `irc_writer`.
- **Core** (Java, `src/tillerinobot`, with the web back end of
  `src/ppaddict-site` in the same process): answers chat events and web requests.
- **Live back end** (Rust, `src/tillerinobot-live`): shows the activity of the
  chat on a web page.

A chat message takes this way:

```
IRC server -> IRC front end -> [RabbitMQ] -> MessagePreprocessor --(Bouncer.tryEnter)
   -> [internal event queue] -> MessageHandlerScheduler -> IRCBot.onEvent (workers)
   -> [internal response queue] -> ResponsePostprocessor --(RPC irc_writer)--> IRC front end
                                        `--(Bouncer.exit)
```

| Component | State it keeps | Operations | Hard behaviour | What makes it correct |
|---|---|---|---|---|
| Bouncer | a lock per user, expiring after an hour without access | tryEnter, get, updateIfPresent, exit | check and update in separate calls; stale exits; expiry; restarts | one request of a user at a time; a lock is given up by its holder, and by it only |
| MessagePreprocessor | none | onEvent | reads the payload, decides, then updates it | one warning per request that is in progress |
| Internal queues (AbstractRemoteQueue) | durable RabbitMQ queues with priority, prefetch and time to live | publish, deliver, acknowledge | lost publications, expiry, redelivery after a restart | an event is never worked on twice |
| MessageHandlerScheduler | the core pool | acknowledge, then submit or offer | all workers busy; shutdown | no event overtakes by being lost |
| IRCBot | none of its own | onEvent | exceptions and interruption anywhere | every admitted event is answered |
| ResponsePostprocessor | none | onResponse: write with retries, then exit | timeouts, errors, unreadable answers | the lock is released after the answer |
| RabbitRpc | a client per method | call with timeout | late answers; calls whose time to live is over | an answer belongs to its call |
| IRC writer, Pinger, Ponger | the consumer, a counter, a channel of pongs | handle a call, ping, answer, acknowledge | two kinds of lost connections, redelivery, late pongs, a full channel | Ok means sent; order; no repetition without redelivery |
| IRC connection | loops for RabbitMQ and IRC, metrics | connect, select, reconnect, quit | the branch of the select that ends first | metrics tell the truth; reconnection |
| RateLimiter | three bounded queues of permits, a priority per thread | addPermit, limitRate, setThreadPriority | addPermit and limitRate are several queue operations each | rate and burst; the buffer for urgent threads; nobody starves without reason |
| RecommendationsManager, Sampler | a cached sampler per user, recommendations in the database | getRecommendation, save, forget, hide | chat and web site share a sampler; isEmpty is not synchronised with sample | nothing twice; settings are honoured; fair draws |
| RecommendationRequestParser | none | parse | none: a pure function | rejects what it does not use |
| IrcNameResolver, with its callers in IRCBot | cache of ids, a semaphore per name, table of mappings, records of users | resolve, setMapping, redownload, getUserOrThrow, !fixid | users swap names while ids and records are cached; mappings are set without the semaphore; downloads fail in the middle | nothing stored was never true; a message is its bearer's; a wrong mapping is repaired |
| UserDataManager | one row per user, versions seen | load, change, save; checkVersionInfo | whole rows are written back | no lost update; a message per version |
| PlayerService | time of the last update of the top plays | registerActivity, updateTop50 | check, download for seconds, write | older scores do not replace newer ones |
| DiffEstimateProvider, DatabaseManager | ten permits, 32 connections | load or calculate | waits for a permit while holding a connection | no deadlock; stale estimates only when busy |
| PullThrough, OsuApi clients | rows with a time of download | get or download | network | freshness |
| CachingConfigService | a cache that expires one second after access | config | a polled value never expires | values are reloaded |
| Live back end | a bounded channel per websocket | fan out, register, remove | slow readers | a slow reader does not hold up the others |
| ppaddict page (htmx and `code.js`) | open dialogs, help, filter row, a countdown; the request and the table on the page | help, settings, comments; sort, filter, page, scroll | answers are late, lost, overtake each other; timers; one click reaches several listeners | the table is what was asked for; help leaves things as they were; one countdown, which ends |
| ppaddict user data and links | a row per account with data or a forward | log in, comment, save settings, link | rows are read, changed and replaced without a transaction | links are final; data is nobody else's; no login fails for ever |
| Command handlers, languages | the data of one user | handle | none: sequential | - |

The hazards this list comes from, each at its line, are in `PROJECT.json`.

## The modules

| Module | What it is |
|---|---|
| `UserRequests` | abstract: what a user is promised. Requests are worked on one at a time, each at most once, and each comes to an end. |
| `ChatPipeline` | the detailed specification: preprocessor, Bouncer, queues, scheduler, workers, postprocessor. It implements `UserRequests`. |
| `RateLimiter` | permits, the task that adds them, the threads that take them. |
| `IrcWriter` | the RPC path from the bot to the IRC server and back, with RabbitMQ between the two processes. |
| `Sampler` | the distribution a recommendation is drawn from, as operators. |
| `Recommendations` | the cached sampler of one user under requests from the chat and the web site. |
| `PageDialogs` | the dialogs, the help, the filter row and the countdown of the web page. |
| `BeatmapTable` | the table of beatmaps on the page: its request, its rows, its loader, the requests under way and their answers. |
| `Page` | both together: which dialogs come from the table, which controls can be reached, and that a reload begins both anew. |
| `UserAccounts` | the rows of the users of the web site, with overlapping and failing requests that save data and link accounts. |
| `NameResolver` | names in the chat resolved to users of osu!: cache, table, records, downloads, and the repair of mappings. |
| `MC*` | instances for TLC. |
| `*_proofs` | theorems and their proofs. |

### ChatPipeline

An event is its position in the order of arrival (the code's event ids are unique
and only compared). `stage` says where each event is; `lock` is
`Bouncer.perUserLock` with the payload's event id, attempts and warning flag.
There is one thread each for preprocessor, scheduler and postprocessor, as
RabbitMQ calls the consumer of a channel from one thread at a time; `Workers` is
the core pool.

| Action | Code |
|---|---|
| `Receive`, `TryEnter`, `Peek`, `SetWarningSent`, `RespondRefused`, `Enqueue` | `MessagePreprocessor.onEvent` and `handleSemaphoreInUse`, one step per access to the Bouncer or a queue |
| `Deliver`, `ExpireEvent`, `ExpireResponse` | the internal queues: priority, prefetch, time to live |
| `Schedule`, `Submit`, `SubmitInterrupted` | `MessageHandlerScheduler.onEvent` |
| `Answer`, `VisitAborted`, `RegisterActivity` | `IRCBot.onEvent` |
| `TakeResponse`, `Write`, `WriteThrows`, `Release` | `ResponsePostprocessor.onResponse` and its retry loop |
| `HourPasses`, `ExpireLock`, `Restart` | the expiry of the lock's entry, an hour after its last access (`recent`, which every call of `getSemaphore` renews); the end of the process |

What the chat writer answers is a member of `Replies`; those in `Unreadable` have
a JSON that the bot's mapper refuses. `PingDeath` certainly is unreadable: the
Rust side writes a field `ping`, the Java record has `millis`, and the mapper fails
on unknown properties. The type ids of the other errors are written by two
libraries with different conventions and no test lets one side read the other, so
this is a parameter. Safety does not depend on it, because `Broken` may happen at
any write in `pipeline_faults`; `pipeline_live` assumes that errors are readable.

Abstracted: the text of messages (a response is a number of them), the wall clock
(whether a request is older than five seconds is nondeterministic), the handlers
(the choice of the response).

### RateLimiter

A permit has no identity, so a queue is the number of its permits. `AddPermit`
and `Offer` are the loop of `addPermit`, one queue at a time; `LimitRate`,
`Found`, `NotFound`, `Take`, `Interrupt` are the loop of `limitRate`. `window` is a
history variable: from some moment on it counts scheduled permits and calls that
were let through. The class comment speaks of "1200 permits per second" and, two
lines on, of "1200 requests per minute"; the code schedules one permit every 50 ms,
which is the latter.

### IrcWriter

A call is its number in the order of publication. The bot waits for one call at a
time (`MakeCall`, `Receive`, `Timeout`); `TakeCall`, `TakeCallAndPing`, `ReadPong`,
`PingTimeout`, `Respond`, `Ack` are the steps of `listen_for_calls` between its
await points. `IrcLost` drops the consumer wherever it is: its unacknowledged calls
stay with the channel (`held`) until `RabbitLost` gives them back. The time to live
of a call equals the timeout of the bot. `heard` is a history variable: the pongs that
have entered Ponger's channel since the last ping.

### Sampler and Recommendations

`Sampler` has the arithmetic of the class: a map from running sums to elements, the
draw (`TailMap`, `Sample`), and what `sample()` leaves (`AfterSample`): the elements
behind the drawn one, taken out in the order of their keys (`Ascending`) and put back
by the loop that also fills a new sampler (`PutAll`). Probabilities are whole numbers. In
`Recommendations` a sampler is the set of what it may still give. A draw is two
steps, since `isEmpty` is not synchronised and may see the map between the removal
of the tail and its return. The actions `Lookup` to `Save` are `getRecommendation`
and its callers: one attempt for `RecommendHandler`, `PageTries` for the page,
`HideTries` for a hidden recommendation. `Evict`, `Age` and `ForgetRecommendations`
are the cache, the four weeks and the command `!reset`. The recommender is an
external service, here the constant `Pool`.

### PageDialogs, BeatmapTable and Page

The page is served whole; then htmx replaces parts of it by the answers to
requests, and `code.js` has the few functions the attributes of the markup call.
`modals` is the browser's top layer; `request` has what htmx knows of each element
that issues requests: nothing, one under way, or one more waiting. `view` is the
state of help: the containers that show help, the filter row, whether help has
opened it (`_helpFiltersAutoOpened`), the welcome. `interval` and `timers` are the
countdown after the settings were saved, which reloads the page.

| Action | Code |
|---|---|
| `ShowHelp`, `ShowWelcomeIfNeeded`, `ClickPage`, `ClickInside`, `ClickBackdrop` | `showHelp`, `showWelcomeIfNeeded` and the listener `outsideClick` with its order of tests |
| `ClickSettings`, `SettingsAnswered`, `Save`, `SaveAnswered`, `StartCountdown`, `Tick` | `UserDataResource`, `SettingsResource`, `startCountdown` |
| `OpenFromTable`, `SaveComment`, `CommentAnswered`, `TableAnswered` | the dialogs of the table, which go with it |
| `UseControl`, `ScrollToEnd` | `rangeReq` with `deepMerge` of `window.rangeRequest` and what the control changes; the controls are those the server rendered (`NextSort`, `PageStart`, `Enabled`) |
| `PostAnswered`, `PostFailed`, `LoadAnswered`, `LoadFailed` | the answers of `BeatmapTableResource`, which replace the table or its last row, if that is still there |
| `Leave` | the reload |

The filter of length is modelled by what its conversions do: `ToTime` reads minutes
and seconds, `FormatTime` writes them; other filters are like it. Of a beatmap
there is only how many match. Abstracted: layout, positions of popups, fields of
the dialogs, texts.

### UserAccounts

`rows` is the table `ppaddictusers`: each row has data or not, and a forward or not.
A request is a thread; each statement on the database is a step, and `Fail` may end
a request between any two. `LoadForComment` to `Replace` is a save: load along
forwards, change, read the row to save to, replace it. `LoadForLogin` is
`createUserData`, which links an account of osu! at its first login; `ReadAuthenticatedUser`,
`LoadOsuData`, `LoadOldData`, `SetForward` are `tryLinkToPpaddict`. Saving a comment
stands for all saves of a user's data; settings and the last request differ in the
field only. Within the repository only logins and tests call `tryLinkToPpaddict`; the
site hands out tokens for every account, so that `TryLink` takes any.

`related` and `stale` are history variables: which identifiers were asked to be
linked, and whether a row was ever replaced by a copy that was out of date. The code
has no protection against the latter, which is what `accounts_hecked` shows; the
properties say what holds without.

### NameResolver

`thread` has one request per thread of the pool or of the web: what it is for
(`task`), who wrote (`nick`), and what the code holds in local variables. `bearer` is
who has each name at osu!; names have no history there, `known` and `lately` are
history variables of the model.

| Action | Code |
|---|---|
| `Message`, `RegisterActivity`, `WelcomeIfDonator`, `ResolveManually` | the calls in `IRCBot`: `getUserOrThrow`, `registerActivity` after each event, the welcome; `!fixid` and its REST resource |
| `GetIfPresent`, `FindByUserName`, `DownloadUser`, `DownloadTimeout`, `ReplaceMapping`, `Return` | `resolveIRCName` and `getIDByUserName`, from the acquisition of the semaphore to its release |
| `GetUser`, `DownloadId`, `PersistUser` | `PullThrough` for the record of the user an id belongs to |
| `MapName`, `Invalidate`, `RedownloadUser`, `Handle` | `setMapping`, `redownloadUser` and the rest of `getUserOrThrow`, which compares the record's name with the nick, and maps both anew if they differ |
| `Fail` | an exception at any statement; the semaphore is released in `finally` |
| `Age`, `Hour`, `Evict`, `Restart`, `Rename`, `Vanish` | mappings and records grow old; the cache is full; the process ends; users change names or are banned |

`Searchable` are the names the search of osu! finds: of a name with a space written as
an underscore it may know the id only, which is when users are told that their
name is confusing. Of a record there is only its name.

## The runs

All passing runs are exhaustive. Threads are symmetric where no liveness is checked.

| Run | Instance | What it shows |
|---|---|---|
| `pipeline_faults` | 2 users, 1 worker, 3 events, 2 tries, prefetch 1, every answer, every fault, restarts and early expiry included; users are refused without end | locks held only by admitted events; one warning per holder; stale answers leave newer locks alone; a held lock becomes free, or its user goes on writing |
| `pipeline_live` | 2 users, 2 workers, 3 events, 2 tries, no fault, readable errors: one that is tried again and one that is not | one request in flight per user; locks given up only by their holders, and when responded to; every admitted request answered; `UserRequests` implemented, its fairness included |
| `pipeline_ping_death` | an unreadable `PingDeath` | violates `ReleasedWhenRespondedTo` |
| `limiter` | 2 threads, capacities 3, 3, 2, windows of 2 ticks | rate and burst; the buffer for urgent threads; progress of requests; service when quiet; no deadlock |
| `writer` | 4 calls, a ping every 2, a channel of 1 pong, lost IRC connections, failed sends, missing pongs; or 3 calls and one lost RabbitMQ connection | order; a call that pings is sent only when this very ping's pong has come in; Ok means sent; one send per delivery |
| `recommendations` | 2 threads, 3 items of 2 beatmaps, 2 settings sharing an item, 2 samplers, pages of 2 with 2 attempts | nothing drawn twice; nothing repeated; settings honoured; draws fair |
| `sampler_empty` | the same | violates `NeverSampledEmpty` |
| `page` | all dialogs, a countdown of 2 s with 2 timers, pages of one of two beatmaps, a filter of length with ten texts, 2 updates and 1 load under way | no row left out or repeated; from the answer to the last update until another is sent or answered, the table and each of its rows are what the page's request says; help gives the filter row back and does not close settings; dialogs nest; countdowns neither pile up nor run for ever; the filter that the server writes is read back as that of the rows |
| `accounts` | an account of osu! and another one, 2 osu! users, 5 requests, 2 at a time, each of which may fail anywhere | forwards end at data; comments stay with whom they were linked to; without outdated copies links are final, logins work, no comment is lost |
| `accounts_hecked` | the same with 3 requests | violates `NeverHecked` |
| `names` | 2 names, 2 users, 2 threads, the bearer of one name writing for ever, 2 changes of names, and one other request or failure anywhere | nothing stored of a name that never was true; messages handled as those of a recent bearer; names not blocked; wrong mappings repaired; a mapping that nothing under way undoes stands |
| `names_undone` | a name the search does not find; nothing fails and no time passes | violates `AnnouncedHolds` |

Why the bounds are enough. Three events of two users give a holder, a refused
event of the same user and an event of the other, or three of one user: a holder, a
refused one and the one after it. A user who is locked out may write any number of
times: in `MCChatPipeline` a refused event is forgotten when its response is through
(`Forget`) and its id used again, and attempts are counted as far as the code compares
them (`WarnAttempts`). Of the two users one has at most one of the three events; which
one is fixed by symmetry (`OneOfOthers`). Prefetch 1 makes queues hold events back, so
that priorities and the time to live matter. Four calls with a ping every second
one give two pings, so that a late pong of the first meets the second; a redelivery
needs one outage. Capacities of three exceed the number of threads, which is the
slack of `BufferKept`. Two samplers are what two threads need to replace each
other's; two items per pool are what a race for the last one and a draw before it
need. On the page two updates and a load under way let an update overtake another and
an answer to the loader arrive after the table it belonged to. The filter is
typed as 0, 60, 65, 90, -90 and -30 seconds, as 5940, which the server refuses, and as
texts that are no time; the edges (`Edges`) come one at a time (`EdgesApart`), since what
may overtake what does not depend on the number. The dialogs and the
table share the top layer and the reload only, so that `Focus` (in `MCPage`)
explores the settings, the help and the countdown while the table rests, and the
table while the settings rest; what is excluded is proved (`PageInvariants`). Links
need a login or a token for each account, and a race one save and one link; five
requests have room for both links, two saves and a login after them. For a name to
pass from one user to another takes two changes, and a third disturbance, a request for
the same name or a failure, can come in anywhere; messages, hours and the age of the
mapping are not bounded. `SamplesFairly` covers all orders of all subsets of three elements with
different probabilities that a loaded sampler is part of; `SamplersAreFair` proves it for
all populations. Deadlock is checked in
`limiter` and `page`; the other instances end when their events, calls, samplers or
requests are used up.

Every property of a passing run has a mutant of the code that violates it, listed
in `PROJECT.json`.

## Fairness

- `ChatPipeline`: weak fairness of each thread (a handler returns, an answer or the
  12 s timeout of the RPC arrives), of RabbitMQ's delivery, of the hand-over to some
  idle worker. An hour passes, and an entry that was not accessed for an hour expires;
  but each message of a user accesses the entry and takes the hour back
  (`HourPasses` must happen again), so that a user who writes at least once an hour
  keeps `ExpireLock` from happening, and a leaked lock is then never free.
  `LockEventuallyFree` therefore promises this only to users who are silent for long
  enough. Nothing makes users write, or stop writing, or faults happen.
- `RateLimiter`: the schedule is kept; a thread that polls goes on; an API call
  returns; of the threads blocked at a queue, *some* one gets a permit. The queues
  are fair among those that wait, but a thread that polls may overtake them, so
  that more than this is not assumed.
- `PageDialogs`: the browser calls the function of a running interval every second
  (`Timely`). Nothing makes users click or the server answer.
- `NameResolver`: a request that is under way goes on (weak fairness of `Work`). In
  `names` the bearer of the name keeps writing and hours keep passing between
  requests (strong fairness, since both need a moment in which nobody is at work), and
  a mapping comes of age. Semaphores are not fair, so that no request is promised its
  turn, only that the name is freed (`NameFreed`).
- `IrcWriter`, `Recommendations`, `BeatmapTable` and `UserAccounts` have safety
  properties only: nothing in them must happen but by the grace of a user, a network
  or a database.

## The proofs

TLAPS proves the following for all values of the constants, from the assumptions
named in the modules.

**ChatPipeline_proofs** (`ConstantsAssumption`). `TypeCorrect`; `HolderCorrect`,
`WarnedOnce` and `StaleRelease` under all faults; `Serialised`, `GivenUp` and
`Refinement` if `Faults` contains neither `restart` nor `earlyExpiry`. The types
alone are not inductive: the invariant says which thread or queue has an event in
each stage, each event once, so that a thread that finishes with its event moves
that event and no other. `HolderCorrect` adds that a lock's holder was admitted, is
a private event of that user and is not done; `WarnedOnce` that a holder without the
flag has had no warning. `Serialised` needs the converse, that an admitted event in
the pipeline holds its user's lock, and this is what the two excluded faults
destroy. `Refinement` maps `tryEnter` to `Begin` and the last step of an
admitted event to `End`; every other step is a stutter. `KeptByException` says what
`pipeline_ping_death` shows an instance of: under all faults, only an exception of the
write leaves a lock with an event the postprocessor is done with, since the end of
`onResponse` frees it and a restart frees all. `ReleasedWhenReadable` excludes these
exceptions by its hypotheses (no unreadable answer, no broken connection, no
interrupted sleep before a retry), which hold in `pipeline_live`, and allows
all other faults. `NoEventMislaid` is the converse of the stages' invariant: whatever
has a stage of the pipeline is really in the thread or queue of that name, so that
only the failures that are modelled as such lose events.

**RateLimiter_proofs** (`LimiterAssumption`). `TypeCorrect`; `RateIsLimited`, from
the account that calls let through plus permits in the queues never exceed the
permits scheduled plus what was there when counting began; `BufferIsKept`, from an
invariant that says which queues `addPermit` has found full on its way down and how
many threads may have taken from them since.

**IrcWriter_proofs** (`WriterAssumption`). `TypeCorrect`, with messages that are
numbered in the order of the calls; `OkIsTrue`, as an answer Ok, on its way or
received, has its call in `sent`; `PingsAreAnswered`, as the marker
that is waited for is in the channel only if its pong came in after the ping
(`PongsHeard`); `MessagesInOrder`, as without an outage the calls of queue,
buffer and writer are in order and newer than those that were sent. `SentOnce` is an
account per message (`Budget`): the times it was sent, plus the deliveries of it that
may still be sent, plus one if the bot may still try it again, are at most one more
than its redeliveries. A failed send turns a delivery into a permission to retry, and a
lost RabbitMQ connection adds what it takes back to the deliveries and to the
redeliveries alike; the lemmas are about what a step does to one set (`SentOf`, `Alive`). With the order it gives
`MessagesOnceInOrder`: until RabbitMQ is lost, nothing is redelivered, so that the messages of
`sent` increase strictly.

**Recommendations_proofs** (`RecommendationsAssumption`, `ProbabilityAssumption`). `TypeCorrect`, which needs
that a request at work wants something and has an attempt left when it looks for a
sampler. `EachIsDrawnOnce`: an item that is being drawn is still in its sampler, one
that was drawn is not, and one thread draws at a time. `SettingsAreHonoured`: the
sampler of a request with arguments was made for these. `NothingIsRepeated`: for a
single request at a time, what its sampler and the cached one may still give is
disjoint from what was recommended; a sampler that is at work is the cached one or
the cache is empty. `EmptinessIsKnown`: `isEmpty` is right about a sampler that no
`sample()` is under way on. From the last two follows `EmptiedOnlyByAnother`: a single
request at a time never samples an empty sampler, so that the finding of `sampler_empty`
needs two.

`SamplersAreFair` is about the arithmetic, for every population without repetition:
`recommendations` checks at most three elements, a cached sampler has a thousand. The
keys of a sampler are the running sums of its population, which increase strictly
(`NewSamplerRepresents`, `SumsIncrease`). So each random number leads to one place
(`Leading`, `SampleIsPlace`), and as many numbers lead to a place as its probability
(`Likelihood`). `sample()` puts what is behind the place back in its old order
(`InOrder`, `PuttingBack`) under sums that go on from those before it, and these are
the running sums of the others (`SumsOfTheOthers`), so that what is left equals a new
sampler of the others (`AfterSampleIsNew`). `SamplesAreFair` says so of the sampler a request puts into the cache;
`SamplersRunEmpty` of what is left after any number of draws, none of which repeats an
element. `SamplersAreSets` is what allows `Recommendations` to treat a sampler as a set:
`sample()` may give any of its elements, nothing else, and leaves the rest. The loops are
functions on numbers, and what is proved of them is proved by `Induction`, for which
the library's induction theorems are not needed: it follows from `LeastNumber`, that is
from the well-foundedness of `<`, which the library states without an operator.

**PageDialogs_proofs** (`DialogsTypes`, `DialogsNest`, `HelpRestoresFilters`,
`HelpDismissed`, `CountdownAlone`): each step of the dialogs keeps its own invariant.

**Page_proofs**. First the table (`TableTypes`, `TableFollowsRequest`, `FilterShown`):
that it has no gap, and is what was asked for once the last update was answered,
needs to know what is under way: the body of the newest update is the
page's request; only one load counts, that of the loader at the end of the
table, and asks for the rows after it (`LoadsAsRequested`); controls that wait were
there to be used. Then the whole. `PageImplements`: every behaviour of the page is one
of the dialogs and one of the table, since each step of the page is a step or a stutter of either.
`PageInvariants` then has all invariants of the parts for the whole, without a
second induction.

**UserAccounts_proofs** (`AccountsAssumption`, `NullAssumption`). The types and all five
properties of the run `accounts`, for any number of accounts and requests. `Sound` says where each
request may be: it holds only data of its account's class (`Belongs`); it writes to a
row of an osu! user either to link it, with the id, or because a forward led there,
so that there is data (`Lands`); and unless a row was overwritten, data from the row of
an osu! user has its id (`Fresh`). `CommentsAreKept` needs more: the comments of rows
grow, and a request that links carries those its account had when it began (`Carried`).

**NameResolver_proofs** (`NamesAssumption`, `NullsAssumption`). `NamesTypes`,
`StoredOnceTrue` and `MessagesOfBearer`, for any number of names, users and threads,
under all failures, restarts and changes of names. An id or a record a request carries
was true when it was read and may be false when it is written; the invariant says that
it was true once (`RequestInv`, one clause per place in the code, since the meaning of
`id` and `name` changes on the way). A record that is not out of date carries the name
its user has had within the hour (`RecordsInv`); the hour does not pass while a request
holds the record. Together these make the comparison with the nick in
`getUserOrThrow` enough. `ResolutionExclusive` has an invariant of its own
(`SemaphoresInv`): the semaphore of a name is held by a request exactly while it is
between the cache and the return with this name, which every exit, `Fail` and
`Restart` included, must keep; it needs that a request does not change its name on
that way, and that steps after the return never lead back into it.
`MappingsStand` is the other side of what `names_undone` found, as an action property:
a mapping is undone only by who was asking osu! for the name, or held another id for
it, when it was stored. A request that comes to look into the table later finds the
mapping itself (`FindHarmless`), and one that looked before can only store the same id;
so each step leaves the row and the cache as they should be, or is the begin of another
mapping (`Harmless`).

Only model-checked: the liveness properties (`RequestsAnswered`,
`LockEventuallyFree`, `ImplementsFairRequests`, `RequestsProgress`,
`ServedWhenQuiet`, `CountdownEnds`, `NameFreed`, `NameHeals`), since the prover handles
neither fairness nor ENABLED. All invariants and action properties of the passing runs
are proved.

## What the checks found

- **A PingDeath shuts the user out** (`pipeline_ping_death`). The error of the Rust
  writer has a field the Java record does not know. The mapper's exception leaves
  `ResponsePostprocessor.onResponse` before `bouncer.exit`, and no retry happens.
  The lock stays until its user has been silent for an hour: each message renews the
  entry.
- **Drawing from an empty sampler** (`sampler_empty`). Two requests of one user may
  both see one element left. The second `sample()` finds none and calls itself
  until the stack overflows, which the comment calls "practically not possible".
  `EmptiedOnlyByAnother` proves that it takes two.
- **A comment undoes a link** (`accounts_hecked`). The first login with osu! links the
  account while another page of the same browser saves a comment or settings. The
  save has loaded the data before and writes it after: it removes the forward or, if
  it reads the row a step later, follows it and takes the osu! id from the data of
  the osu! user. The login then throws "This is hecked. Please get an adult."; in the
  second case every login does from then on, because existing forwards are never
  changed.

- **A resolution under way undoes !fixid** (`names_undone`). `setMapping` does not take
  the semaphore of the name. A resolution that has looked into the table before writes
  what it found after: the name is unknown again, or the old id is in the cache.
  What makes it likely is that each message is followed by a second resolution, for the
  user's activity, when the user has already been answered. `MappingStands` says when a
  mapping is safe from this.

A restart weakens the promise of the Bouncer, which is why `Serialised` and
`GivenUp` exclude it: locks are in memory, queued events are durable, and an old event
of a user may be worked on together with a new one. The restart itself frees all locks,
and a lock that a lost event leaves behind is freed by the silence of its user
(`pipeline_faults`).

## What is not modelled

Of the parts that are modelled: the handlers and language packs (sequential, without
shared state of their own), the object mapper (generated SQL), the silent mode of the
IRC process (a test setup), the conversion of IRC messages to events except for
pongs; of the web site the layout, the fields of its dialogs, the filtering of
beatmaps, cookies, the expiry of link tokens, and the older GWT client, whose
services share the user data with the page: a page whose user has last used that client
may begin at the start and with the length it has saved, where `BeatmapTable` begins at 0.

The page does not compare an answer with what it has asked for last. If an older update is
answered after the newest one, or the newest is lost, the table is that of the older
request, and rows loaded at its end are those of the page's request. Positions go on
without a gap, and the answer to the next update puts the table right
(`TableFollowsRequest`); nothing in the code promises more.

Help that is asked for while the settings are fetched stays on the page under the
settings (`code.js:193-197` says that only the help of the open dialog shows). The
next click removes it and `FiltersRestored` covers what could last, so there is no
property of its own.

In `NameResolver` the cache of semaphores is taken to keep those in use (it has room for
10000), and `!fixid` downloads the record without looking at its age, as the one
millisecond it allows comes to. When the former bearer of a name is banned, `getUser`
finds nobody and the mapping is left alone, until it is due or set by hand; `NameHeals`
therefore makes an exception for users without a name.

The following parts have no module:

- *IRC connection life cycle*: its decisions are branches of one `select`; what can go
  wrong is a metric that is not reset (`main.rs:121`), which a property could only
  restate. The connections as their users see them, lost and made again, are in
  `IrcWriter`.
- *UserDataManager, PlayerService*: each reads a row, waits, and
  writes it back, without a version or a lock. `UserAccounts` is the instance of
  this pattern with the most to lose; for the others the last write wins, and the code
  promises nothing more that a property could state.
- *DiffEstimateProvider and the connections of the database*: the bound is the product
  of a pool of a library and ten permits, whose users are spread over code that is
  not modelled.
- *Live back end*: its fan-out drops messages by design and promises none.
- *GameChatResponse, RecommendationRequestParser*: pure functions on lists and
  strings with unit tests.
- *osu! API clients, pull-through caches, configuration*: network and library code; the
  limit they obey is `RateLimiter`.

## Plan

Done, in this order: `UserRequests` and `ChatPipeline` with the refinement,
`RateLimiter`, `IrcWriter`, `Sampler` and `Recommendations`, the page (`PageDialogs`,
`BeatmapTable`, `Page`), `UserAccounts`, `NameResolver`, and the proofs of each.

What could follow:

1. `IrcWriter` as the remote end of `ChatPipeline`'s writer, by showing that it
   implements the choice among `Replies`.
2. Whatever protects the rows of users from outdated copies (a version, a lock or a
   transaction), with the guards `~stale` of `UserAccounts` removed.
3. The permits of `DiffEstimateProvider` together with the 32 connections.
