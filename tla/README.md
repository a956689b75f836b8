# Daily Info Agent: a TLA+ model

The agent fetches news from many sources, enriches it with an LLM, checks where
it comes from, stores it in PostgreSQL and publishes it to a website. It runs
once per invocation, on a schedule, or behind an HTTP API, and it answers chat
questions from the same sources. This directory holds TLA+ modules of the parts
where order, failure and concurrency matter, the TLC runs that check them, and
proofs of the properties whose argument does not depend on the size of the
instance.

Paths below are relative to `src/internal/` unless they start with `src/`.

## 1. Inventory

| Component | State | Operations | What is hard | What makes it correct |
|---|---|---|---|---|
| Fetcher manager `fetcher/manager.go` | URL fingerprint cache (memory and file), health per source, counters of the last fetch | `FetchAll` (scheduled), `FetchForTopic` (chat), `RunFailures` | both callers run at once, one goroutine per source; the file is written in place; seven-day window | a failing source is left alone; a URL is not returned again within seven days of its first return |
| Fetch API `api/handler.go` | pipeline slot, in-memory results, event channel of a stream | `TriggerFetch`, `StreamFetch`, `finishPipeline`, `GetFetchStatus` | worker, stream handler and status requests under three locks; clients that go away; bounded channel | one run at a time, the slot is always given up, the status only goes forward |
| Publication `publisher`, `src/pkg/backoff`, `store`, `api/handler.go` | an article's row and status, the website | `Publish` with retries, `PublishArticle`, `RetryArticle`, `DeleteArticle`, `SaveArticles` | lost replies, overlapping requests without a lock, rows deleted during a publish | the row never claims more than the website holds |
| Scheduler pipeline `scheduler`, `processor`, `verifier` | the stages of a run, its counters | `runPipeline` | faults in each stage, a context that ends, crashes; items are marked as seen first | every article is counted once; none is lost without a fault |
| Conversation agent `agent` | sessions (memory and table) | `Run`, `RunStream` with the tool loop, `DeleteSession`, `evictLoop` | turns that overlap, saves in the background, rows read back late | a history is only cut at its front; no turn is lost; deleted means gone |
| Chat API `chat`, rate limiter `src/pkg/ratelimit` | a token bucket per client, swept now and then | `Allow`, the chat endpoints, the management API | what a sweep forgets, requests that are turned away | in any stretch of time a client is served at most a full bucket and what is refilled meanwhile, and nobody is refused who would fit |
| Run health, schedule mode, notifiers `health`, `src/cmd/agent/main.go`, `notifier` | the run-health file, exit codes | schedule mode, alerts, `GET /health` | a file shared by processes and by CI jobs, torn writes, overlapping runs, channels that hang | alerts follow the streak of failures; nothing green without data; a success is never locked out |
| Sources `api/sources.go`, seeding in `main.go` | the sources table | import, add, pause, resume, remove, feed list of a run | several processes, stale ids, a fallback for an empty table | runs fetch what the user said; what was removed stays away |
| Dedup, filter, extraction `dedup`, `filter`, `extract` | the items of a run, a semaphore | `ByTitle`, `Apply`, `Enrich` | transitive merging, goroutines under a context that ends | one item per story, every page tried, no goroutine stuck |
| Article API, backfill, retention `api`, `retention` | articles table | export, backfill, delete, daily pruning | calls of many statements while rows come and go | an export has every matching row once, a report is true |
| Flags, tags, feedback, listings, runs, statistics | database rows | single statements | - | - |
| Source adapters, config, metrics, front ends | none to speak of | I/O, parsing | - | - |

How they interact: `Handler` starts `Scheduler.runPipeline` in a goroutine and
owns the slot; the scheduler calls the fetcher manager, the processor, the
verifier, the store and the publisher in that order; chat calls go to the same
fetcher manager at any time; `Handler` and scheduler write the same rows and
post to the same website. PROJECT.json lists each hazard at its line.

## 2. Modules

| Module | Models | Notes |
|---|---|---|
| `FetchManager` | `fetcher/manager.go` | one action per turn of the health check, per answered request, and per step of `FetchAll` after the requests |
| `PipelineSlot` | what the fetch API promises | abstract: runs start one at a time, execute once, leave a result |
| `FetchApi` | `TriggerFetch`, `StreamFetch`, `GetFetchStatus` | one action per critical section and per channel operation |
| `Publication` | one article from insert to website | the requests' read, publish and write are separate actions |
| `Pipeline` | `runPipeline`, `ProcessBatch`, `verify`, `SaveArticles`, `publishStage` | composes the stages over one cache, one table and one website |
| `Conversation` | `agent/session.go`, `agent.go`, `stream.go`, DELETE of a session | one action per access to the sessions, per LLM reply, and per end of a save |
| `ScheduleMode` | `health/health.go`, `runScheduleMode`, `GET /health`, `notifier/multi.go` | one action per access to the file and per channel tried |
| `Sources` | `api/sources.go`, `seedSources`, `managedSourcesProvider`, `resolveSourceURLs` | one action per statement on the table |
| `Intake` | `dedup/dedup.go`, `filter/filter.go`, `extract/extract.go` | one action per pair compared, one for the rest of the merge with the filter, one per step of a goroutine |
| `Library` | `api/export.go`, `api/backfill.go`, `retention/retention.go` over the articles table | one action per statement |
| `WindowLimit` | what the rate limiter does | abstract: no bucket, only the times of served requests |
| `RateLimit` | `src/pkg/ratelimit`, token check and validation around it | one action per request |
| `FetchManager_proofs`, `FetchApi_proofs`, `Publication_proofs`, `Pipeline_proofs`, `Conversation_proofs`, `ScheduleMode_proofs`, `Sources_proofs`, `RateLimit_proofs` | - | theorems, see section 4. `Publication_proofs` has those about `Library` too, and `Pipeline_proofs` those about `Intake`: each extends the second module too |
| `MCArticle` | `FetchApi` and `Publication` | the constants of the runs, see section 3 |
| `MCPipeline` | `Intake` and `Pipeline` | the same |
| `MCSchedule` | `FetchManager` and `ScheduleMode` | the same |
| `MCChat` | `Conversation` and `RateLimit` | the same |
| `MCTables` | `Library` and `Sources` | the same |

Of two modules that a proof or an `MC` module extends together one carries its name in
its `Init`, `Next`, `Spec`, `TypeOK` and other common names: `LibrarySpec`, `IntakeSpec`,
`ApiSpec`, `PublicationSpec`, `ManagerSpec`, `LimiterSpec`.

How they fit: `Pipeline` takes a fetch, a save and a publish as single steps
with all their outcomes. `FetchManager` opens up the fetch, `Publication` the
save and publish of one article against the API's own requests, and `FetchApi`
the goroutines, channel and locks around the run. `Intake` opens up what becomes
of the fetched items before the LLM, which `Pipeline` lets be any subset of them,
`ScheduleMode` what a process does with a finished run, and `Sources` the feed
list the run starts from. `Library` has the articles of many runs where
`Publication` has one. `RateLimit` stands before `Conversation` and before the
API's handlers: a request it turns away reaches neither. `Conversation` stands
alone: the marks and health its tools' fetches touch are `FetchManager`'s chat calls.

### FetchManager
`cache` and `disk` map a URL to its first-seen tick (`dedupCache.Entries` and
what the file would load as); `fails` and `skipped` are `sourceHealth`;
`lastRun` is `lastRunAttempted` and `lastRunFailures`. Health is kept under the
URL of a config, and the NewsAPI categories of a scheduled run all have the
empty URL, hence `KeyOf`. `ConsiderSource` is one `isSkipped`, `FetchOK` and
`FetchFailed` are a goroutine that records its outcome and reports it, `Gather`
is the loop over the results with `setRunOutcome`, `MarkSeen` is `FetchAll`'s
`add` loop with its `save`, whose write may succeed, not happen or be cut short.
`ReadRunFailures` is the scheduler's later call. Items a chat call reads are
not tracked, because it uses no cache.

### FetchApi
`worker[r]` is where the goroutine of run `r` is: the pipeline's stages, its
last event, recording the result, `finishPipeline`, closing the channel.
`Emit` is the select on the channel and on `ctx.Done`. `handler[r]` is the
stream's own goroutine. A status request reads `runs`, then the slot, then the
log, in three steps; `told` is history that the properties compare its
answer with. `EndStages` distinguishes runs that end short, which write no
`run_logs` row, from full ones, whose insert may fail.

### Publication
`db[u]` is the row of a source URL, `website` the website, `pc[c]` the next step
of a request or of the pipeline. `Conclude` ends `Publish` with an outcome.
The website is not part of this repository; it is modelled from the client: it
keeps one article per source URL and answers 409 to a second.

### Pipeline
A run is `idle -> process -> verify -> persist -> publish -> log -> idle`. The
LLM's calls, retry, fallback and single-item fallback come down to the set of
items that get a result. `seen` and `file` are the marks of less than seven days
in memory and in the file. `Expire` is the end of an item's seven days: its mark
moves to `stale`, where `has` does not see it and `add` does, until a save prunes
it; meanwhile, and after that, a run may fetch the item again. `dropped`, `excused`
and `forgotten` are history: filtered on purpose, met a fault, mark lost with a
restart or expired. A job of GitHub Actions that fails keeps no file: to the model
it is a run whose save did not happen, and a restart.

### Conversation
`memory` and `recent` are `SessionStore.sessions` and the order of its
`updatedAt` (a session that `Set` touches goes to the end of `recent`, the first
one is evicted), `stored` the sessions table, `saves` the goroutines `Set` starts.
A turn is a call of `Run` or `RunStream`: `Begin` (memory), `ReadRow` and `Warm`
(the table, then memory, with no lock between), `CallLLM` for each reply, `Set`.
The entry points differ in one thing that the state shows, what happens at the
iteration cap, and `AfterTools` chooses there. `Leave` forgets a turn's locals.
A message is its role and its turn, so the language switch, which rewrites the
text of the system message, is not visible. `DeleteEntry` and `DeleteRow` are
the two halves of a DELETE; the model lets one DELETE of a session run at a time.
`answered`, `excused`, `erased` and `late` are history. A turn is excused when
it meets one of the events that may lose it; each of these excuses is needed,
and `TurnsAreKept` says that there are no others.

### ScheduleMode
`files[Shared]` is `run-health.json` on a host, or the copy in the cache of GitHub
Actions; `files[p]` is the working copy of a job (`hosted` tells the two ways to
deploy apart). A process is `running -> digest -> record -> open -> flush ->
alert -> gate`. `actions/cache` saves in its post step, which runs only after a job
that succeeded, so a job whose process passed saves its file last (`Save`, or
`SaveLost` if a later step fails), and that of any other is gone (`NotSaved`); the
`if: always()` of the workflow's second cache step only makes it restore again. `Open` and `Flush` are the two
halves of `os.WriteFile`: between them the file is empty, so another process may
read it torn and a crash leaves it so. `Recorded` is what happens after `Record`
returns, whatever it returned. In a fan-out `tried` are the channels called
while there was time, `starved` those called after a hanging one had used it up.
`bad`, `good` and `calm` are history: the true streak and last success, and
whether nothing happened yet that loses track of them.

### Sources
`rows` is the table, `list[p]` the feed list a run of process `p` took. A failed
read of the table is a choice of `Start` and `StartRun`, a failed insert one of
`ImportOne`. Users act by an id they were shown (`shown`), which may be of a row that
was removed since. `paused`, `kept` and `gone` are history, what the last
acknowledged call on a URL was; an answer that is lost acknowledges nothing.
`reopened` names the removed feeds of `RSS_FEEDS` that may come back: those an
import had still to insert when they were removed (`Pending`), and all that were
gone when a removal emptied the table, which the provider and the next import take
for one that was never filled. They stay in `gone`, where `RemovedIsNotFetched` finds
them fetched again.

### Intake
`parent` is the union-find forest of `ByTitle` and `Compare` one turn of its two
loops. `Root` is what `find` returns, the one item on the way up (`Above`) that
is its own parent; `Union` is `parent[find(i)] = find(j)` with the path
compression of both calls. `Prepare` is the rest of `fetchStage`: the clusters
in the order of their first members (`Firsts`, `InOrder`), the item a scan of
each settles on (`Scan`, `Best`), the keyword lists, the jobs of `Enrich`. The
property says in its own words what a story is (`Story`, the least set closed
under similar titles) and which item is the best (`Outranks`). Then each page's
goroutine waits for a slot or the end of the context (`Acquire`, `GiveUp`), and
ends with a text or without.

### Library
`articles` is the table by id; `created` is a turn of the retention loop, so
articles saved between two prunings, and always those of one run, share it. An
export has a filter and perhaps a query, and `rank` is what they make of a row: 0
where it does not match, else its `ts_rank` (one rank for all without a query).
`Orders` are the orders its listing may come in (by rank, then time, ties open),
`Oldest` those of a backfill's list. Rows enter and leave the filter when they are
published, retried, read or bookmarked (`Amend`), and enter the query or move
within it when a backfill writes the text their `search_tsv` is generated from
(`WriteText`, `NewRanks`). An export alternates `ReadPage` and `CountRows`, a
backfill lists, counts, then enriches a batch and updates it row by row; exports
and backfills run beside each other. `calm`, `same` and `tied` are history: no row
came, went or moved in the order since the call began; the rows asked for are the
same; two of them tied. For a backfill `calm` is that nobody else changed the set of
articles or their texts.

### RateLimit
`buckets` counts tokens in the ticks that refill them, so that a fraction of a
token is a number of ticks. `Allow` sweeps, refills and takes. A request passes
the token check, then `Allow`, then validation, and one that fails validation has
used its token. `granted` is history; `WindowLimit` has only that, the clock and
the answers.

## 3. Runs

Each run that passes has two components. They share no variable, and in a
behaviour one of them runs while the other stays as it began (`side`), so that a
run explores all states of both and no product of them.

| Run | Expect | Component | Checks |
|---|---|---|---|
| `article` | pass | `FetchApi` | `SlotIsHeldByWorker`, `NeverBackToRunning`, `SlotIsReleased` (liveness), `SlotSpec` (refinement of `PipelineSlot`) |
| | | `Publication` | `PublishedIsOnSite`, `PendingHasNoId`, `OutcomeIsOwn`, `RequestsReturn` (liveness) |
| `pipeline` | pass | `Intake` | `OneItemPerStory`: the forest yields the connected stories and the best item of each, in order, of which the keyword lists keep those the user wants. `EnrichIsComplete`: at most so many pages at once, and every one that is due. `EnrichReturns` (liveness) |
| | | `Pipeline` | `EveryArticleCounted`, `LossNeedsFault`, `SiteAgreesWithTable`: no article is on the website whose row says skipped, unless its mark was lost in a restart or expired. `RunsEnd` (liveness) |
| `schedule` | pass | `FetchManager` | `FailingSourceIsLeftAlone`: a source that only fails is asked at most a known number of times more than the threshold. `SkipIsFinal`: once it is skipped and no request is under way it is never asked again. `FirstWindowKept`: no URL comes back within seven days of its first return |
| | | `ScheduleMode` | `SignalIsExact`: between runs the file tells the last success, and on a host the true streak (under Actions it never counts a failure). `AlertsFollowStreak`: an alert goes out on the first failure and on each multiple of the threshold (under Actions on every failure) and then only, to all channels in order up to the first that hangs. `ExitCodeIsTrue`: the exit code is 0 only with data and, undisturbed, always with data. `HealthIsHonest`: no 200 without a recent success |
| `chat` | pass | `Conversation` | `CutOnlyAtFront`: a history keeps its system message and its limit and mixes no two turns. `TurnsAreKept`: the next turn reads every earlier one, unless a listed event lost it. `DeletedIsForgotten`: a session deleted while quiet, with no save under way, stays deleted |
| | | `RateLimit` | `WindowBound`: what any window serves. `WindowSpec` (refinement of `WindowLimit`: nobody is refused who would fit) |
| `tables` | pass | `Library` | `BackfillReportIsTrue`: an undisturbed backfill filled as many texts as it says and leaves as many without. `ExportIsExact`: an export during which no row came, went or moved in the order, without ties, holds each matching article once, and is refused only above the cap; a backfill that moves nothing may run beside it |
| | | `Sources` | `RunsFollowTheUser`: a run that could read the table fetches nothing paused, everything added or resumed, and nothing removed but feeds in `reopened`. `GoneStaysGone`: nothing removed is in the table but feeds in `reopened` |
| `skip_forever` | violation | `FetchManager` | `SkipIsTemporary` (liveness): a skipped source is asked again some time: it is not |
| `same_source` | violation | `Intake` | `SourcesStayApart`: no two items of one domain are merged: they are through a third |
| `window` | violation | `RateLimit` | `CapacityPerWindow`: no more than the capacity in a window: nearly twice as many |
| `removed_fetched` | violation | `Sources` | `RemovedIsNotFetched`: no run fetches a removed source: the removal that empties the table brings back the configured list |
| `job_streak` | violation | `ScheduleMode` | `StreakSurvives`: the streak survives the processes of GitHub Actions: a failed job keeps no file |
| `session_deleted` | violation | `Conversation` | `DeletedStaysDeleted`: a deleted session is gone: a save under way inserts its row again |
| `export_incomplete` | violation | `Library` | `ExportIsComplete`: an export holds every row that matches all the time: with ties the pages may repeat one article and miss another, and a backfill that moves a row between pages of a query hides another one |

PROJECT.json's findings quote the sentence each violation run is about. Each of
these runs has one property, which says what that sentence says; the runs that
pass state what holds instead, over the same behaviours.

### Bounds and why they are enough
Every property of these runs but the liveness is also proved for all values of the
constants (section 4), so the bounds have to be large enough for the interesting
cases to occur, and need not be larger.

- `FetchApi`: two runs (a new one may start while the old worker closes), a
  channel of one slot with one event before the last (so it fills), one status
  request, one restart. Capacity 1 instead of 8 only makes a full channel come sooner.
- `Publication`: one URL, since rows of different URLs share nothing; two rows
  over time (delete and insert again), three attempts as in the code, two
  requests besides the pipeline.
- `Pipeline`: two items, one whitelisted, each a batch of its own (so a context
  can end between batches), any number of runs and crashes, marks that expire at
  any time between runs, and three deployments: everything on, no website and no
  verification, no database.
- `Intake`: up to three items, enough for a chain whose ends are not similar;
  titles of a chain and one too short, a trusted and another domain, with and
  without a text; one slot and two pages, so that goroutines wait and the limit
  cuts; four keyword lists. `MinTokens` is 3 as in the code.
- `FetchManager`: a scheduled call that asks a feed and a NewsAPI category, or two
  categories that share a key, and a chat call that asks the same feed (so both
  kinds of overlap on one key occur); threshold 2 instead of 3 (reached within a
  call and across calls); a window of one tick in a clock of two, so entries expire,
  with one restart. The two URLs are symmetric: the properties do not tell them apart.
- `ScheduleMode`: two processes alive at once and three in all (a streak that a
  third run continues or ends, while two overlap), a threshold of 2 and two
  channels (the first may starve the second), items up to 2 with a minimum
  of 2 (none, thin, enough), a clock of three ticks with a freshness limit of one.
- `Conversation`: two turns in one session, which may overlap or follow, and one
  in another; memory for one session instead of 1000, so that eviction happens; a
  history of five messages instead of 20, so that one turn with a tool call in
  each iteration, or two turns, are cut; two iterations instead of five, so that
  a reply with tools may come before the cap or at it; one tool per reply
  (`MaxCalls`), since each tool's message is appended alike.
- `RateLimit`: two clients, two requests per minute of four ticks, a sweep at the
  earliest age the assumption allows, seven ticks, so that a bucket is drained,
  refilled, swept and made anew.
- `Library`: three articles, looked at twice. For the reports, two backfills of at
  most two articles each in batches of one, days of one turn in a clock of three,
  and all rows of one rank. For the export, pages of one and a cap of two (so a
  refusal is reached), three ranks (not asked for, and two that order rows), two
  days, and one backfill that may write a text between any two statements of the
  export: of one article, which is enough to move a row.
- `Sources`: two processes, a list of two feeds and a source outside it, four
  rows ever inserted and four calls of users, so that each URL can be removed and
  come back under a new id while an old one is still on a user's screen.

The violation runs use the bounds of the passing run of their component, without
the other one (`Sides`), but for `skip_forever`: one URL and no restart, since the
cache has no part in it.

The deadlock check is off where a component stops: the one run of `Intake` ends, and in
`ScheduleMode` the bounds on processes and on the clock stop it. That concerns
`pipeline` and `schedule` and the violation runs of their `MC` modules.

### Fairness and why the code justifies it
The specification of a run with liveness assumes the fairness of both its components;
what it assumes of the one that stays as it began is never enabled.

- `FetchManager`: none for the passing run, whose properties are about what must
  not happen. `skip_forever` assumes all a running process can give: time passes,
  calls go on and end, and each caller calls again and again with every list it has.
- `FetchApi`: a worker that can go on does, and the fifteen-minute deadline
  passes. Nothing is assumed of clients: one may stop reading forever.
- `Publication`: the HTTP client has a timeout and each wait a timer.
- `Pipeline`: every stage's calls have timeouts. Nothing is assumed about faults.
- `Conversation`: none. `Get` reads the row without a deadline and the stream's
  client has none, so no turn is known to end, and only safety is stated.
- `Intake`: a page that is being read ends because the HTTP client has a timeout, and
  as long as a slot is free and wanted some goroutine takes it. Both are weak: which
  goroutine gets a slot is left open. `EndContext` is never assumed, nor is `GiveUp`.
- `ScheduleMode`, `Sources`, `Library`, `RateLimit`: none; safety only.

## 4. Proofs

The theorems hold for every value of the constants that the modules' named
assumptions allow: any sets of runs, requests, URLs, items and (finitely many)
callers and configs, any processes, channels and list of feeds, any sessions
and turns, any threshold, freshness limit, number of attempts, history limit and
other bounds, any clients, capacity and refill with a sweep that waits at least
as long as a bucket takes to fill, any items with finitely many words, any size of
a page, a cap and a batch. The values that stand for "no file", "no row"
and the like are assumed to differ from the values they are told apart from
(`FilesAssumption`, `NoRowAssumption`, `NoneAssumption`, `NoTurnAssumption`,
`NoRunAssumption`, `NullAssumption`). No fairness is used.

| Module | Theorems | Property |
|---|---|---|
| `FetchApi_proofs` | `TypeCorrect`, `SlotHeld`, `StatusGoesForward`, `ImplementsSlot` | `ApiTypeOK`, `SlotIsHeldByWorker`, `NeverBackToRunning`, `SlotSpec` |
| `FetchManager_proofs` | `TypeCorrect`, `FailingSourceLeftAlone`, `SkippedForGood`, `NoRepeatInWindow` | `ManagerTypeOK`, `FailingSourceIsLeftAlone`, `SkipIsFinal`, `FirstWindowKept` |
| `Publication_proofs` | `TypeCorrect`, `PublishedHeld`, `PendingIsClean`, `OutcomesAreOwn` | `PublicationTypeOK`, `PublishedIsOnSite`, `PendingHasNoId`, `OutcomeIsOwn` |
| `Publication_proofs`, on `Library` | `LibraryTypes`, `ExportsAreExact`, `BackfillReports` | `LibraryTypeOK`, `ExportIsExact`, `BackfillReportIsTrue` |
| `Pipeline_proofs` | `TypeCorrect`, `CountersAddUp`, `NothingIsLost`, `SiteAgrees` | `TypeOK`, `EveryArticleCounted`, `LossNeedsFault`, `SiteAgreesWithTable` |
| `Pipeline_proofs`, on `Intake` | `StoriesAreMerged`, `PagesAreTried` | `OneItemPerStory`, `EnrichIsComplete` |
| `Conversation_proofs` | `TypeCorrect`, `CutFrontOnly`, `Forgotten`, `Kept` | `TypeOK`, `CutOnlyAtFront`, `DeletedIsForgotten`, `TurnsAreKept` |
| `ScheduleMode_proofs` | `TypeCorrect`, `SignalExact`, `AlertsFollow`, `ExitCodesTrue`, `HealthHonest` | `TypeOK`, `SignalIsExact`, `AlertsFollowStreak`, `ExitCodeIsTrue`, `HealthIsHonest` |
| `Sources_proofs` | `TypeCorrect`, `RemovedStaysRemoved`, `UserDecides` | `TypeOK`, `GoneStaysGone`, `RunsFollowTheUser` |
| `FetchApi_proofs`, `Pipeline_proofs` | `RunsAreShort` in each | what `SlotIsReleased` and `RunsEnd` need besides fairness |
| `Publication_proofs` | `CallsAreShort` | the same for `RequestsReturn` |
| `Pipeline_proofs`, on `Intake` | `PagesEnd` | the same for `EnrichReturns` |
| `RateLimit_proofs` | `TypeCorrect`, `SweptIsForgotten`, `BoundHolds`, `ImplementsWindows` | `LimiterTypeOK`, `WindowBound`, `WindowSpec`; and that no bucket outlives the idle time |

Where a module has a theorem `Invariance`, it is that of its inductive invariant
`IInv`. `Pipeline_proofs` and `Conversation_proofs` add further invariants to it,
`Rest` and `Ledger`, and `TypeInv` and `KeptInv`, for the types and the later theorems.
Those of `Library` and `Intake` are `LibraryInv` and `IntakeInv`.

**Fetch API.** `SlotIsHeldByWorker` is inductive with the types: a worker enters
`Holding` only by `Start`, which requires the slot to be free and so no other
worker to hold it, and leaves it only by `FinishPipeline`, whose identity test
succeeds because the slot names the worker's own run. `NeverBackToRunning` is
not inductive. A request is answered "running" after two reads, so one has to
know that a run some client was told to be over no longer owns the slot by the
time a request asked later reads it. This takes `ResultsAreOfOverRuns` (only
runs past their stages have a result, and each of them has one until it is
gone) and `RequestsFollow` (the runs clients were told about are over; a request
that knew so and still goes on to the slot missed the result only because the
process restarted, so its run has released the slot). `IInv` is the conjunction
of these four with `ApiTypeOK`; the lemmas `InitIInv`, `NextWorkers`,
`NextRequests` and `WorkersGoOn` show that it is kept.
The refinement maps each step to a step of `PipelineSlot` or a stutter
(`SlotStep`): `Start` to `Start`, `Record` to `Finish`, `ApiRestart` to `Restart`.

**Fetch manager.** `NextHealth` says what any step may do to one health key
(`HealthStep`): nothing, start a request if the key is not skipped, take the
answer of one open request, or lose everything in a restart. `SkippedForGood`
reads this off. The bound on a failing source is not inductive alone: while the
source is not skipped it follows from `FewFailures` (fewer failures than the
threshold) and from the open requests being among those the callers' plans allow;
once it is skipped each further failure uses up one open request, so the sum
does not grow. `FirstWindowKept` follows from `MarksInv`, which says of each URL
what the memory and the file know (`Known`): nothing that was not returned, and
each URL that was returned within the window and whose mark no restart lost; the
file knows those that a save wrote. A chat call and a torn write leave the memory
alone, pruning drops only marks that are no longer fresh, and a fresh mark keeps
its URL out of `got`.

**Publication.** The row invariants need what a caller knows when it writes
(`CallersKnow`): a request works on a row it began to publish, and one that is
about to mark it published got its reply from a website that has the article. A
write by id changes at most the row the caller read (`UpdateRow`).

**Pipeline.** `LossNeedsFault` speaks of the time between runs; `SeenIsAccounted`
extends it to a run under way, whose items are still to be saved. A crash is
harmless because the file never knows more marks than memory does. For
`SiteAgreesWithTable` the invariant follows an item through its run (`RunIsFresh`):
a fetch takes only items without a mark that counts, so one that already has a row
or is on the website lost its mark to a restart or to its age, and any other is inserted as pending if
and only if it may be published. `EveryArticleCounted` speaks of a run that
is being logged; `Ledger` says what each stage before has counted. In the
process stage the items fetched are those still to be batched and those that
became articles (`ProcessLedger`); then every fetched item is an article unless
the context ended (`ArticleLedger`); and from the persist stage on the articles
are those counted as published, skipped and failed and those the publish stage
has yet to come to (`UnsentLedger`), of which a run that publishes leaves none.

**Conversation.** Every history in memory, in the table or in a save is
`Closed`: only cut at the front, and the last turn in it is over. It holds only
turns that are past reading their own history and were not forgotten
(`StoreIsSound`), so a turn that starts from it is not yet in it, and the message
it adds fits (`LocalsAreSound`). A copy read from the table may go back into
memory later, hence the same of the copies of turns still reading. `QuietIsEmpty`
says that memory stays empty from the first half of a quiet DELETE to the second,
after which `ErasedAreOver` keeps its turns from being written again. The lemmas
`Asking`, `Adding`, `Calling`, `Trimmed` and `Trimming` are about sequences alone:
what adding or cutting messages keeps. For the types, `TypeInv` has that `recent` holds
each session with an entry once (`WithoutOne`, `TouchedLast`, `FirstGone`).

`TurnsAreKept` needs the order in which a session's turns were answered. In
every history the messages stand in that order, and those of an open turn stand
last (`InOrder`, `OwnLast`), so `Trim` takes turns away from the oldest on. A
history is `Full` if each answered turn is excused, is in it, or was cut
from it by newer ones that fill it. `KeptInv` says that what the next
turn would read is full, that each save under way is, and that the table lacks
at most what saves still carry. An open turn's copy stays full because a turn of
the same session that is answered meanwhile overlaps it, and is excused then
(`OverlapIsExcused`). Two saves of a session may commit in either order, so `Set`
excuses a turn whose save starts during another, and the turns that the
saves of an evicted session still carry.

**Schedule mode.** `HealthIsHonest` and the first half of `ExitCodeIsTrue` hold
whatever processes overlap or crash: no file, and nothing a process is
about to write, knows a later success than the last one (`NoLaterSuccess`), and
a process that passes had a success of its own (`CodesAreOwn`). That a streak
fits the number of processes (`CountsFit`) is needed for the types: each failure
counted anywhere is one of another process than those still to be counted. The
exact claims are made while nothing has disturbed the file (`calm`). Then one
process is there at a time, and `OnTrack` says for each of its steps which
snapshot tells the truth: the file before it records, the one it computes until
it has written, and the file again after that (`CalmIsExact`). On a host the truth is
the streak and the last success; under Actions the kept file is that of the last
job that succeeded (`CacheHolds`), so a process counts its own failure and no other.
`AlertsAreDue` follows the fan-out: the channels before the current one were called in
order, and starved after the first that hung.

**Sources.** `GoneStaysGone` and `RunsFollowTheUser` rest on three facts. A URL
has at most one row and an id never stands for two URLs (`OneRowEach`), since
ids are not reused, so a call with an old id reaches the URL it was listed with
or nothing. What the users were last told of a URL is in the table (`OneWish`,
`WishesHold`). And a removed URL that is not in `reopened` (`Final`) has no row, waits
in no import, and is no configured feed once the table is empty (`GoneIsSafe`), so
neither an import nor the provider's fallback can bring it back.

**Library.** While an export is undisturbed and no two of the rows it asks for tie, a
row's place is the number of those before it in the order (`Preceding`), so what the pages
read so far hold is known (`ExportKnows`): as many rows as the pages have room for, or
all there are, each at its place. When the last page came and the count agrees, the
rows are all that match, each once. A text that a backfill writes either leaves its
row's rank alone, and with it every place, or ends the calm. A backfill is followed
by `CallFits` and `CallKnows`: those updated and failed are the ones it has come to, those still in its list have no text while
nobody else touches them, and updated and missing articles add up to the
number it counted at first. The lemmas on `Orders`, `Page` and `Oldest` say what a
listing holds; the other call at work, and saves, deletions and prunings, either leave
these alone or end the calm (one lemma per action).

**Intake.** The forest has a root function: an item's parent has the same root, and
a set that the parents do not lead out of holds the roots of its members
(`Forest`). `UnionForest` shows that a union keeps this, with the paths it compresses,
and gives one tree the other's root. `Merging` then says what the comparisons so far
have achieved: similar items of the pairs before the next one share a root, and no
tree reaches beyond a story. After the last pair trees and stories are the same
(`ClustersAreStories`). That the scan of a cluster settles on the best member
(`ScanPicks`) is an induction over the positions. It is proved, and so is the
existence of the function `Scan` that it is about (`Recursion`, `ScanUnfolds`), from
`Induction`, which follows from the library's theorem that every set of numbers has
a least one; `OutranksIsOrder` says that there is no other best member. For the pages
`Extracting` has that the goroutines partition the due pages and that the slots in use
are the pages being read; `JobsAreAsManyAsAllowed` counts the jobs by their places
in the order of the items (`PlacesInOrder`).

**Rate limiter.** Neither the bound nor the refinement is inductive: they speak
of past requests, while the limiter remembers a bucket. The invariant relates
the two. `Covers` says that for every earlier served request of a client the
tokens it has now and the requests served since fit into a full bucket and the
time passed; `IsTight` says that for one of them they fill it exactly, or the
bucket is full. From the first follows that what the bucket serves fits every
window, from the second that what it refuses would break one. A swept bucket was
idle for at least the time it takes to fill (`RateAssumption`), so the full
bucket that replaces it holds what the old one would have held.

**Progress.** Each liveness property has a theorem beside it that says how much
work is left: `StepsLeft` of a worker, a call or a pipeline run and `PagesLeft` of
`Enrich` are natural numbers that every step of their owner lowers and nobody
else's step raises. A worker has its five stages and the events it can still send,
a call two steps for each attempt that is left, a run its stages, the items it has
yet to take into a batch and the articles it has yet to insert and publish; a
waiting page counts twice, since it starts and then ends. `PagesEnd` also has that
a place of the semaphore is free, or held by a page that is being read, while a
goroutine waits. That the owner then takes its steps is the fairness of section 3.

Only model-checked is the liveness itself (`SlotIsReleased`, `RequestsReturn`,
`RunsEnd`, `EnrichReturns`): it rests on fairness and on `ENABLED`, which are beyond
the proof system. Every other property of a passing run is a theorem.

## 5. What the model leaves out
- `Pipeline`: extraction and notification (in `Intake` and `ScheduleMode`), the
  callback behind `WithFailureAlert`, which only tests set, the expiry of the mark of
  an item that is under way (a run takes minutes), and the publish retries (in
  `Publication`).
- `FetchManager`: the parsing done by the adapters, the keyword filter of chat
  results, the dashboard's health snapshot.
- `FetchApi`: what the events say, and the counters in a result.
- `Publication`: the text of an article, flags, tags and feedback.
- `Conversation`: what the tools fetch and the replies say, the events of a
  stream, and a server without a database, whose sessions are those of
  `Conversation` with no table. A history may begin with a tool message whose call
  was cut off: no property rules that out.
- `ScheduleMode`: retention's turn after the alerts (`Library`'s `PruneOnce`), the
  text of messages, senders that are not configured.
- `Sources`: the validation of a URL, which changes nothing when it fails.
- `Intake`: how a title becomes tokens. A keyword is a token here and a substring
  in the code; the properties compare matches, whatever they are.
- `Library`: the words of a filter or query, which a rank stands for, the formats of
  an export, and run logs, which retention prunes in the same way.
- `RateLimit`: floating-point rounding. One limiter is modelled; chat and the
  management API each have their own, with nothing in common. The lock of `Allow`
  makes it one step.
- The components marked `not_modelled` in PROJECT.json, with their reasons.

### Disagreements that no run states
The models show more that is at odds with a sentence of the repository, or with what a
reader would expect. The violation runs are the ones with a consequence the most users
would notice; these are left to words, and each is a behaviour of its module:

- `FetchManager`: `add` leaves an entry that is already there, however old, so a URL
  returned after its seven days keeps the expired entry and comes back in the next
  run too (`manager.go:57`; line 265 says "so subsequent runs skip them"). A chat
  call that ends between `FetchAll` and `RunFailures` replaces the run's failures by
  its own (`manager.go:464`; lines 113-114 say that outages surface).
- `FetchApi`: a run recorded after a status request's first look, and released
  before its second, is looked for in the log alone, and one that ended short is not
  there: 404 (`handler.go:582` says that the in-memory result is returned).
- `Publication`: a publish that succeeds between `RetryArticle`'s check and its reset
  is taken back to pending, and its id forgotten (`handler.go:390` says that only
  failed ones are retried). An article the pipeline published is marked failed by a
  publish by hand that meets a 409 (`MarkRow` writes every outcome but published as
  failed), so a row may say less than the website holds.
- `Conversation`: a session read back from the table evicts nothing, so memory grows
  past `maxSessions` (`session.go:86`; line 16 calls it the most at once).
- `Sources`: an import that found the table empty inserts the rest of its list into a
  table that holds rows by then, a feed removed meanwhile included (`main.go:276`;
  lines 263-264 say that the table is then the single source of truth).
- `Pipeline`: an article of a whitelisted domain without an AI result is counted as
  skipped before the verdict of `Verify` is looked at (`scheduler.go:442`;
  `src/docs/02-DESIGN.md:940` says that it passes).
- `ScheduleMode`: a channel that hangs until the common deadline leaves the later ones
  a context that is over (`multi.go:66`). The comment at `multi.go:12` speaks of a
  failure, after which the later channels do have their turn; a hang is none.

## 6. Plan
1. `Pipeline` as an implementation of a ledger that accounts for each item.
2. `Publication` as an implementation of a website that has an article or has not:
   what a client of the API may conclude from each answer.
