# TLA+ models of the Impresso middle layer

The middle layer is a Feathers application (several server processes behind one
address) between the Impresso web application and public API on one side and
Solr, MySQL, Redis and external services on the other. Most of its services
translate a request into a Solr or SQL query and keep no state. What is hard to
get right is where it does keep state: counters in Redis shared by every process,
background jobs that are retried, database rows and Solr documents that are kept
together by nothing but the order of calls. These modules are about that.

All paths below are in the repository (`src/...` is its source directory).

## 1. The system

| Component | State | Operations | Hard behaviours | What makes it correct |
|---|---|---|---|---|
| **Quota checker** `src/services/internal/quotaChecker` | three Redis keys per user (bloom filter, counter, first access), each with a time to live | `check` (one Lua script), `getState` (two GETs) | checks of several processes race; the clock of the check is the caller's; keys expire one by one and may be evicted; a check may fail | at most N documents per window, a document seen is never denied, windows are not shortened, no counter lives for ever |
| **Redaction hook** `src/hooks/redaction.ts` | none of its own | asks the quota for every permitted content item, serves or redacts | fails open when the check fails | follows the checker's answer |
| **Rate limiter** `src/services/internal/rateLimiter`, `src/hooks/rateLimiter.ts` | one Redis hash per user and resource (tokens, last refresh) | `allow`, `undo` (a Lua script each), an around hook | checks and rollbacks interleave; refused requests are rolled back too; integer rounding; lost calls to Redis | no more than a burst plus the rate, but for what rollbacks take back; a rollback lets one request in |
| **BullMQ queues and workers** `src/internalServices/queue.ts`, `workerManager.ts` | jobs in Redis; one worker per queue and process | add a job, run its handler, retry after a backoff, hand out a stalled job | a handler runs at least once: again after an exception or the death of its worker | - |
| **Search result export** `src/jobs/searchResults`, `search-exporter`, `jobs` | CSV file and zip archive, row of `jobs`, row of `attachments` | request, one job per page, stop, remove | chain of retried jobs over files and tables that no transaction covers; the user stops or removes it meanwhile | the archive holds the result, an export ends, a killed export writes nothing |
| **Collections** `src/services/collections`, `collectable-items`, `src/jobs/collections` | row of `collectables`, documents of the Solr index `collection_items` | create, patch, remove; add and remove items; add the result of a query in the background | read-then-write calls race; three queues run in any order; retried jobs | a deleted collection loses its items; every match of a query is added once |
| **Accounts** `src/services/users`, `terms-of-use`, `user-change-plan-request`, `user-special-membership-requests` | rows of users, profiles, groups, bitmaps and requests; Celery tasks that the Django application runs | register, accept the terms, ask for a plan or a special membership | calls overlap between their awaited steps; a row and its task are two writes; tasks are lost | an account is complete and announced once, a pending request is on its way, accepted terms count |
| **Access rights** `src/util/bigint.ts`, `src/models/user-bitmap.model.ts`, `src/authentication.ts`, `src/hooks/redaction.ts` | bits in the database, in the token, in a cached response | log in, exchange a token, compare a user's bitmap with an item's | token and response outlive a change of rights; two deployments share them | nobody sees, or is charged for, what no bit allowed recently; nobody is refused what one always allowed unless the quota is used up |
| **Solr client and cache** `src/internalServices/simpleSolr.ts`, `src/util/solr/cacheControl.ts`, `src/utils/http/client` | response cache in Redis, connection pool | look up, send, retry, store | updates do not invalidate; retries of updates; errors on every path of a connection | collections are never answered from the past, connections come back |
| **Startup and well-known caches** `src/jobs`, `src/app.ts`, `src/cache.ts` | JSON caches in Redis, memoised values | fill at start, read | reads before the caches are filled, failing jobs, restarts | startup ends, an empty value is not kept once there is a full one |
| **Search** `src/hooks/params.ts`, `src/hooks/search.ts`, `src/util/solr`, `src/services/content-items` | none between requests | validate, translate filters into a Solr query, page | NOT, AND and OR put together as text; clamped limits | pages show what the filters ask for, once |
| **Celery client, channels** `src/celery.ts`, `src/channels.js` | tasks and their progress | send a task, publish progress | messages lost or doubled | - |
| Facets, statistics, read-only services, proxies, generated code | none | queries | - | - |

How they interact: the redaction hook calls the quota checker for each content
item it is about to serve. The rate limiting hook wraps service methods. The
services `search-exporter`, `collections` and `collectable-items` add jobs to
BullMQ queues through the queue service; workers in the same processes run the
handlers, which add further jobs to the same or another queue (an export's next
page, a query's batches). The `jobs` service writes the status that the export
handler reads (a flag in the database is the only signal). Every service asks
Solr through the one client with its cache and its pool, the startup jobs
included. Account services write rows and queue tasks for the Django
application, which writes the same rows when administrators decide; the rights
it writes reach the redaction hook through tokens, and the items' rights reach
it through Solr's cached responses. Redis holds the quota, the buckets, the
queues and the caches.

## 2. Modules

| Module | Models | Extends / uses |
|---|---|---|
| `QuotaBudget` | the promise of the quota: documents charged in a window | |
| `QuotaChecker` | Lua script, `check`, `getState`, the redaction hook's condition, Redis' expiry and eviction, the clocks | implements `QuotaBudget` |
| `QuotaCheckerProofs` | proofs | `QuotaChecker` |
| `RateLimiter` | both Lua scripts and the around hook | |
| `RateLimiterProofs` | proofs | `RateLimiter` |
| `BullJob` | life of one BullMQ job: attempts, stalls | |
| `Export` | the promise of an export: one process that writes, packs and delivers, or stops | |
| `ExportJob` | the export of search results | `BullJob`, implements `Export` |
| `ExportJobProofs` | proofs | `ExportJob` |
| `Collections` | collections, their items, and the three queues that change them | `BullJob` |
| `CollectionsProofs` | proofs | `Collections` |
| `Access` | tokens, response cache and redaction of content items | |
| `AccessProofs` | proofs | `Access` |
| `Membership` | registration, terms of use, plan changes, special memberships, and the tasks behind them | |
| `MembershipProofs` | proofs | `Membership` |
| `SolrText` | the text of a Solr query | |
| `SolrParser` | what Solr's parser makes of it | |
| `FilterQuery` | from filters to a Solr query | `SolrText` |
| `Search` | a client's walk through the pages of a search | `FilterQuery`; Solr's parser and ranking are parameters |
| `SearchProofs` | proofs about what a query means and about the walk | `Search`, `SolrParser` |
| `SolrClient` | the Solr client: cache, pool, retries | |
| `Startup` | startup jobs, well-known caches, memoised topics, among the other users of the client | `SolrClient` |
| `StartupProofs` | proofs about the client and the startup | `Startup` |
| `MC...` | values and symmetry sets for TLC | the module of that name |

Definitions whose comment begins with "Mutant" are wrong on purpose: each is the
definition that follows with a plausible mistake, and shows that some property
notices the mistake.

### QuotaChecker

Keys are per user, so one user is modelled. `keys`, `expireAt`, `firstAccess`,
`bloom` and `count` are Redis' keys; `req` and `reader` are the checks and
`getState` calls in flight in any process. A check reads the clock of its own
process (`SendCheck`, `redis.ts:143`), and the script runs later, atomically:
its four exits are `OpenWindow` (`init_quota_window`), `SeenBefore`, `Deny` and
`ChargeDoc`. The bloom filter never forgets a document and may claim one it does
not hold, as soon as it holds any (`FilterSays`). `CheckFails` is any failure of
the call, before or after the script ran, after which the hook serves the
document (`redaction.ts:205`). A stamp may be up to `MaxLead` seconds ahead of
Redis' clock and `MaxLag` behind when the script runs; `Tick` does not let it
grow older. `Tick` removes the keys that expire, all at one instant of Redis'
clock; `Evict` removes one key of its own accord. `granted` and `openedAt` are
history: the documents charged in the running window and when it was opened.

Abstractions: a quota limit of 0 is left out (`BF.RESERVE` rejects a capacity of
0, so every check fails and the document is served). `math.ceil` on the window
is left out: it is an integer. The check's second answer, the number of tokens
used, reaches nobody. The `find` method of content items asks the quota with the
default field `id`, which the items do not have, so the quota applies to `get`.
The script cache of Redis is not modelled (`NOSCRIPT` after a restart of Redis).

The window is fixed, from its first access, although the comment on top of the
script calls it "rolling": the end of one window and the start of the next can
both fall in an interval as long as a window, which may then see up to twice the
limit. `WindowNotCutShort` states what fixed windows do give.

### RateLimiter

`tokens` and `last_refreshed_sec` are the fields of the hash. `Allow` is
`leakyBucketRateLimit.lua` together with `rateLimitCheck`; both fields are
written even when the request is refused. The hook runs its check inside of the
`try` that surrounds the handler (`rateLimiter.ts:98`), so a refusal goes to
`rollbackRateLimit` like any other error, and `Undo`
(`leakyBucketTakeToken.lua`) takes a token that this request did not put.
`Served` and `HandlerFails` are the outcomes of the handler. The rollback leaves
the token in place only for an error below 500 that it finds in `context.error`
(`rateLimiter.ts:73`), which is not where an around hook's error is: it is there
only if an error hook inside of this one has put it there. Whether the
application's own error hook (`app.hooks.ts`) runs inside of it is for the
framework to say, so an error below 500 has both outcomes in the model: the
token is kept, as for an answer (`Served`), or rolled back (`HandlerFails`).
`AllowFails` and `UndoFails` are calls to Redis whose answer is lost, before or
after the script ran; a check that failed is rolled back as well. The rate is
the fraction `RateNum / RateDen`. Redis' clock is taken not to go back. `net`
(tokens put less those taken back), `served` and `refused` are history. A
rollback also adds to what the response header says of the tokens used; the
header is left out.

### BullJob

The record of a job, and what happens to it when it is taken, returns, throws
(`attempts: 5` with an exponential backoff, `queue.ts:58`) or loses its worker
(BullMQ hands a stalled job out again, `maxStalledCount` times: once, as nothing
here sets another number). BullMQ calls a job failed either way; the state
"stalled" tells the jobs given up because of their workers' deaths from those
that threw too often ("failed"). A job that
waits may be taken before one queued earlier, because of the backoff. A stalled
job whose worker is still alive and goes on at the same time is left out: a
stall is a death of the worker.

### ExportJob

`jobs` is the queue, `records` the table `jobs` (its rows are numbered by
position; a removed one stays as "gone" because ids are not reused), `attached`
the table of attachments, whose primary key is the job's id, `csv` and `zip` the
two files of each export id (a file without rows is an absent one: none is ever
written without rows), `worker` where each worker is in the handler. One action per
awaited call of `createJobHandler`: `Open` (getOrCreateJobRecord and the status
check), `Kill`, `Fetch` (the page, and the look at the file), `AppendRows` (which
truncates when `Fetch` saw no file), `QueueNext`, `OpenZip`, `WriteZip`,
`UnlinkCSV` (createZipArchive), `MarkDone`, `Attach`, `Finish` (which publishes
the progress). `CallFails` is an exception at any of these; `Crash` the death of the process in between.
`Stop` and `Remove` are the user's. Rows are numbered by their place in the
result, which is fixed during an export. `archived` is history.

`PromiseSpec` is the module `Export` under a mapping: as long as nothing failed,
all jobs, workers and records of an export together are one process. It is `Live`
while a queued job or a worker still has something to do for it (`About`) and it
is not `Over` (attached, or its record marked killed); `asked` are the exports
whose record was stopped, killed or removed, `delivered` those with an
attachment. A step that touches the files of an export that is not live, packs
before all rows are there, delivers before the CSV file is gone, or leaves off
for no reason is not a step of `Export`. Nothing is promised from the first
failure on: retries repeat rows, and a crash after `Kill` revives an export.

Not modelled: the status `ERR`, which no code sets; progress messages; access
control (the handler fetches without a user although the comment in front of the
call, `exportSearchResults.ts:335`, says the user's access applies); the celery
test task of `jobs.create`.

Seen in the model, besides the findings: a retry repeats the rows of a page
(`RepeatsBounded` says how many times); a crash between marking a record killed
and the end of the job revives the export, since only `STO` is looked for; a stop
of a finished export leaves it `STO` for ever, neither running nor removable;
`FirstArchiveComplete` needs one worker process: with two, a forked chain can
truncate the archive of the other between `WriteZip` and `UnlinkCSV`.

### Collections

`status` is the row, `index` the Solr documents as pairs of collection and item,
`caller` a `patch` or `remove` between its calls (`FindRow`, `UpdateRow`,
`QueueRemoval`), `jobs` and `worker` the three queues with one worker each.
`AddItems`, `RemoveItems` and `AddQuery` are the collectable-items service, which
does not look at the row. `SelectPage` and `PushBatch` are the loop of
`addQueryResultItemsToCollection`, including the way it advances its offset;
`AddBatch` and `RemoveAll` are one Solr request each. The queue `removeItems` has
a worker but nothing adds to it. `addedLate` is history: collections that a call
added to after they were deleted.

Seen in the model, besides the findings: a patch of the access level that read
the row before a remove wrote it makes the deleted collection visible again, its
items removed; a remove that fails between its two calls leaves the items for
good.

### Access

One user. `rights` and `active` are the user's row, `index` the bitmaps of items
in Solr, `cache` the response cache, `session` the tokens, `req` the requests
between their awaited steps. Rights change elsewhere (`SetUser`, `SetItem`). A
login, or the exchange of a web app token for one of the public API, reads the
user (`LoadUser`) and later issues a token with the bits it read (`Issue`). A
request takes its bits from the token (`BeginWithToken`), from the database
where `useDbUserInRequestContext` is set (`BeginWithDbUser`), or is a guest's;
`LookUp` asks the cache and then Solr, `Store` caches the answer unless the query
touches the collections' index, `Redact` compares the bitmaps. For an item that a
bit permits, the public API then asks the quota (`CheckQuota`;
`unlessHasPermissionAndWithinQuota`, `redaction.ts:174`), which may refuse it
when the user's quota is used up (`spent`), and serves it when the check fails.
How the quota gets used up is the matter of `QuotaChecker`; here it may change at
any time (`QuotaMoves`). `gained`, `lost`, `opened` and `closed` are history: when
each bit was last given or taken.

The other services with redaction (images, text reuse clusters and passages) use
`unlessHasPermission` in both deployments, which is `Redact` without the quota;
so does, in effect, the `find` of content items (see QuotaChecker), whose items
are those that `CheckQuota` serves. An item that an export of the web app asks for
as the public API is not a request of this model.

Abstractions: a bitmap is a set of bits; the policies' fields are left out, a
document is shown in full or redacted; `useDbUserInRequestContext` is a
parameter of each deployment. A login or a request takes at most `Delay`.

### Membership

One account. `user`, `profile`, `groups`, `bitmap`, `request` and `special` are
the rows; `caller` the API calls in flight, one action per awaited call;
`joining` and `sending` what a call started and did not wait for (`addGroup`
in `users.class.js:107`, the task in
`user-special-membership-requests.class.ts:93`); `tasks` the copies in the
broker. `RunTask`, `Activate` and `Review` are the Django application, modelled
as far as this program uses it. `CallFails`, `JoinFails`, `SendSpecialFails` and
`LoseTask` are the failures. `failed`, `done` and `request.told` are history.

Abstractions: a task is named by what it is for; its arguments are ids. Mail
addresses, passwords and the contents of a profile are left out. The unique
indexes of the tables are taken as given: the second of two `INSERT`s fails.

### SolrText, SolrParser, FilterQuery, Search

`SolrText` keeps a query the way the parser meets it: a flat sequence of clauses
with their AND and NOT, so that texts joined without parentheses mix
(`SolrParser!Reading` is Solr's standard parser, prohibited, required and
optional clauses, given the reader of the texts inside; `MCSearch` ties the knot
with a recursive operator that `MCSearch.cfg` gives to `Search` for its
parameter `Matches`, and some order for `Ranking`). `FilterQuery` translates filters as
`filterReducers.ts` and `filterBuilders/base.ts` do, for eleven types that stand for the rules of
`solrFilters.yml`. `Search` is a client that asks for pages until it has them
all (`Ask`), and `Find`, the request with its hooks: validation, the clamped
limit, the offset, the query.

Abstractions: a value stands for a whole phrase, its escapes and its precision;
dates and numbers are 1..3. The index holds every document the filters in use
can tell apart. Ranking is some fixed order, and the index does not change
during a walk. A limit of 0, which asks for the total only, is no walk. Left out:
order, facets, highlighting, `collapse_by`, embeddings and the filter types that follow the same rules as one of the eleven.

`Plain` names the filters whose words the query keeps, and the properties are
about those; see below for the others.

### SolrClient, Startup

An index is its version, and one request of each kind stands for those of that
kind: a search of the main index, one that joins `collection_items` in its body,
one of that index, and an update of it. `cache` is Redis, `call` the request of
each caller (`Lookup`, `Acquire`, `Answer`, `Error`, `BadStatus`, `Release`,
`Store`), `out` the connections out of the pool. An error may come before or
after Solr has applied an update; the retry callback looks at the count only, so
updates are sent again like searches. `Startup` adds the jobs (`job`, `left`),
their caches (`well`), the memoised topics (`memo`) and `Restart`. `lost` is
history: caches that Redis dropped since the process started.

Abstractions: the four startup jobs differ in what they fetch and where they
keep it; one is modelled, the one whose cache is memoised, and any number is
proved about. A cached response goes by `Forget` at any time, so its time to
live is not a clock here (in `Access` it is). The bun client is left out.

## 3. Runs

Every run uses the module and configuration named. "Violation" runs check one
statement quoted from a comment of the repository, which the code does not
keep: TLC's counterexample is the shortest way to see it.

| Run | Configuration | Instance | Shows |
|---|---|---|---|
| `quota_checks` | `MCQuotaChecker` | 2 checks, 3 documents, limit 2, window 4 s, lag and lead 1 s, until 10 s | `KeysAgree`, `ChargedWithinLimit`, `SeenStaysAllowed`, `WindowNotCutShort`; implements `QuotaBudget` |
| `quota_state` | `MCQuotaState` | 1 check, 1 reader, limit 1, window 3 s, 2 evictions | `TypeOK`, `ReportWithinBounds`, `CounterAlwaysExpires` |
| `rate_limit` | `MCRateLimiter` | 4 requests at once, capacity 3, 2 tokens in 3 s, 3 refusals, 2 lost calls, until 12 s | `TypeOK`, `RateBound`, `ServedBound` |
| `export_safety` | `MCExportJob` | 2 workers, 1 export of up to 3 pages, 2 faults | `TypeOK`, `WrittenBeforeQueued`, `AttachedExact`, `RepeatsBounded`, `PromiseSpec`; implements `Export` |
| `export_liveness` | `MCExportJobLive` | 1 worker, up to three pages of two rows, the last one partial or not, 3 attempts, 1 stall, 2 faults | `FirstArchiveComplete`, `ExportDelivered`, `ExportEnds` |
| `export_lost_rows` (violation) | `MCExportJobRows` | 1 worker, 1 fault | `AttachedHoldsEveryRow`: after the unlink, a retry archives the last page alone |
| `collections` | `MCCollections` | 1 collection, 2 callers, 2 calls, 4 results, 2 attempts, no stall, 1 fault | `TypeOK`, `DeletedHasRemoval`, `DeletedEmptied`, `BatchesAligned`, `BatchesApplied` |
| `collections_matches` (violation) | `MCCollectionsMatches` | 1 call, 3 results | `AllMatchesPublished`: every second page is skipped |
| `access` | `MCAccess` | 2 bits, a plain and a joined query, 1 token, 1 request, 1 change of rights, a quota used up or not, until 5 | `TypeOK`, `FullOnlyIfGranted`, `RedactedOnlyIfDenied` |
| `membership` | `MCMembership` | 2 calls at once, 4 in all, with or without a plan, 2 plans, 1 failure | `TypeOK`, `AccountComplete`, `PendingOnItsWay`, `AcceptedCounts`, `SpecialAnnounced`, `PendingHeard` |
| `queries` | `MCSearch` | every search with up to two filters of eleven types and a term, limits absent and too large, pages and offsets | `WalkInOrder` (with the types), `NothingUnwanted`, `NothingMissed` |
| `caches` | `MCStartup` | 2 users and a startup job of 2 pages, a pool of 1, 1 retry, 1 update, 1 restart | `TypeOK` (with the pool), `CollectionFresh`, `MemoAfterStartup`, `StartupEnds` |

### Bounds

- *Quota*: the clock runs long enough for a window to open, end by expiry or by
  age, and open again; three documents against a limit of two reach the denial;
  two checks are enough for one to run between another's stamp and its script.
  In `quota_state`, two evictions can remove any two of the three keys of a
  window, and two documents against a limit of one reach it in every window.
- *Rate limiter*: four requests exceed the capacity of three, the rate of 2/3
  makes every second round down, twelve seconds refill the bucket more than
  twice, and two lost calls can be a check and its own rollback. Three refusals,
  rolled back in any order, can free every token of a full bucket.
- *Export*: three pages are a first, a middle and a last one, of one row each or
  of two with an odd one at the end; two workers run the jobs of a forked chain at
  once. Two exports share no file and no row, so one is enough. In
  `export_safety`, two faults are as many as attempts, so that a job can be given
  up. `export_liveness` has three attempts and one stall: as in the code (five and
  one), a job outlives more failed calls than deaths of its worker. Its two faults
  are one fewer than the attempts and one more than the stalls, so that two failed
  calls must not lose the export and two deaths do.
- *Collections*: one collection, since ids share nothing; four results are one
  over the limit of three, three are two batches of the loop; two calls overlap.
  A second fault is out of reach of TLC here, so the run has two attempts and
  allows no stall: the one fault is fewer than the attempts and more than the
  stalls, a failed call must not lose a batch and a death does. A job handed out
  again after a death is in the export's runs; here it would be no different from
  one that is tried again.
- *Access*: a token that lives two, a cached response one and a request one unit
  let each copy of a right be older than the next; one change of a right is
  enough to be missed by a copy. Sessions and requests of one user share nothing
  but the cache, which one request fills and finds again.
- *Membership*: two overlapping calls for the races, four in all for the longest
  story that needs a history: registration, a plan change, then two more at once.
- *Queries*: filters interact in pairs, within a type and across types, and with
  the term in front of them. Three values of a field are a first, a last and one
  outside; limits that come down to 13 and 30, over up to 343 documents, give
  walks of one page and of many, with a partial last one.
- *Caches*: two callers race for one connection with the job as third; one retry
  has a first and a last attempt; two pages have a first and a last one; one
  update makes a cached answer old; a restart meets every state.

`MaxTime`, `MaxFaults`, `MaxRefused`, `MaxTotal`, `MaxExports`, `MaxCalls`, `MaxEvictions`,
`MaxChanges`, `MaxVersion` and `MaxRestarts` only end the runs. Deadlock is not
checked where the system may really stop, or the model at a bound: when no call,
refusal, fault or time is left and all jobs are done, or the walk is over.

### Seen in the models

Besides the two findings, the models show what follows. It is in the actions; no
run is spent on it, or the properties name it as their exception.

- A request that the rate limiter refuses is rolled back although it put no token
  (`rateLimiter.ts:102`), which frees the token of another one: with a full bucket
  every second request passes. The comment at `rateLimiter.ts:72` says "Only roll
  back for unexpected server errors", that of `undo` (`redis.ts:32`) "if we put
  one before and there was an error caused by us"; the check of `context.error` in
  line 74 does not see the refusal. `RateBound` counts what rollbacks took back,
  and `ServedBound` allows one more request for each refusal.
- A check that failed is rolled back too, and takes back a token it may never have
  put; `ServedBound` is for runs where no call is lost.
- Each check drops the fraction of a token that leaked and moves the refresh time
  on (`leakyBucketRateLimit.lua:38`): who checks often is refilled more slowly.
- An export without rows never ends: there is no file to archive, and every
  attempt leaves another running record (`exportSearchResults.ts:384`).
- A batch of a query that is added after the removal of all items stays in a
  deleted collection (`collections.class.ts:309`).
- A registration without a plan throws after user and profile have been written
  (`users.class.js:104`): the rule names its default `default`
  (`users.hooks.js:59`), which `params.ts` does not read. Nobody is told, and a
  second attempt is refused because the user exists.
- A plan change whose task could not be sent stays pending, and no other can be
  asked for (`user-change-plan-request.class.ts:151`).
- Excluding a string filter with two values excludes the first only
  (`filterReducers.ts:138`), and several included values joined by OR without
  parentheses lose to another filter in the same query.
- Excluding by `collection`, and AND between collections, is decided for each
  collection item by itself and not for the document; `isFront` and `regex`
  ignore the context (`filterReducers.ts:281-421`).
- `jobs/index.ts:13` says there is no need to wait for the startup jobs, and line
  15 awaits them all.
- The topics are kept empty for the life of the process when they are first read
  before their cache is filled (`content-items.class.ts:303`), and a filled cache
  is not refreshed for 100 days whatever happens to the index.

### Fairness

The quota and rate limiter models state safety only. In `ExportJob!FairSpec` and
`Collections!FairSpec` each worker is weakly fair: BullMQ workers poll their
queue, backoff timers fire, and a handler goes on when the call it awaits has
answered or failed. Accepted calls of `Collections` go on as well. In
`Membership!FairSpec` calls in flight go on, and the broker's tasks are run or
lost. In `Startup!Spec` each request on its way goes on (waiting for a
connection ends with one or with the pool's timeout, a sent one with an answer or
a timeout), so do each startup job and the hook that waits for them. Nothing
obliges users to call, stop or remove anything, and no fault has to happen.
`Access` and `Search` state safety only.

## 4. Proofs

TLAPS checks these for every value of the constants that meets the assumptions
of each module: `QuotaAssumption` (limit and window positive, documents finite;
lag, lead and the bounds natural numbers), `RateAssumption` and
`RequestsAssumption` (capacity and denominator positive, finitely many requests),
`AccessAssumption` (bitmaps are sets of bits, the guest's bit is one, lives and
delays natural), `MembershipAssumption` (names do not clash), and the assumptions
of `SolrClient` and `Startup` (finitely many callers, a pool of at least one, a
job has at least a page), `CollectionsAssumption`, `ExportAssumption` and
`BullAssumption` (some collection, a page and the attempts positive, limits and
bounds natural), `LimitsAssumption` (limits
are integers other than 0) and `FiltersAssumption` (a client sends sequences of
filters with values, of any type).

`QuotaCheckerProofs`: `TypeCorrect`, `QuotaRespected` (`ChargedWithinLimit`),
`KeysConsistent` (`KeysAgree`), `CounterKeepsExpiry`, `ReportBounded`,
`WindowsApart` (`WindowNotCutShort`), `SeenAllowed` (`SeenStaysAllowed`), and
`ImplementsBudget`: with no eviction `Spec` implies `QuotaBudget!Spec` under the
refinement `charged <- IF keys = {} THEN {} ELSE granted`.

None of these is inductive by itself. The invariant `IInv` adds:
- `ClockInv`: a stamp in flight is within lag and lead of Redis' clock;
- `StartInv`: the start of the window is at most a lead in the future, and the
  counter and what was read of it are at most the limit, evictions or not;
- `WindowInv`: without evictions all three keys carry the same expiry, one window
  after the window was opened, and the filter holds exactly the documents
  charged, as many as the counter says. This is why a script never meets half a
  window, and why the age computed with a caller's clock shortens a window by at
  most lag and lead: until the keys expire only a stamp that is too fast can find
  the window over.

There is one lemma per action (`SendCheckInv`, ..., `TickInv`, `EvictInv`), and
lemmas on cardinalities and on `Drop`.

`RateLimiterProofs`: `TypeCorrect` and `BoundedRate` (`RateBound`). The invariant
adds `LeakInv`: `(net - tokens) * RateDen <= RateNum * last_refreshed_sec`, what
left the bucket other than by a rollback has leaked before the last refresh. The
floor of each leak only loses, and intervals between refreshes add up.

`BoundedService` (`ServedBound`) rests on `ServedInv`: until a call is lost, `served`
and the requests with their handler or waiting for their rollback are together
at most `net` and `refused`. A refusal adds one to both sides, and its rollback takes
one from both; a request that found room adds one to both when its token is put.

`AccessProofs`: `TypeCorrect`, `GrantedFull` (`FullOnlyIfGranted`) and
`DeniedRedacted` (`RedactedOnlyIfDenied`). The invariant says of every copy of a
right how old it can be: `UserSays(R, t)` and `ItemSays(q, D, t)` bound a copy
from both sides by what was held, or always held, since `t`. `SessionInv`,
`CacheInv` and `RequestInv` hand it from the database to the token, from Solr to
the cache, and from both to the request; each step adds its own delay, and the
sums are `RightsAge` and `ItemAge`. An item waits for the quota's answer only with
a bit in common and in the public API, and a copy that was true when the bitmaps
were compared still is when the answer comes. The lemma that such a copy stays true when
the row changes is what makes it inductive.

`MembershipProofs`: `TypeCorrect`, `Pending` (`PendingOnItsWay`), `Accepted`
(`AcceptedCounts`), `Special` (`SpecialAnnounced`) and `Complete`
(`AccountComplete`). `CallerInv` adds what a call knows at each step;
`RegistrationInv` that a registration past the creation of the user is the only
one, and has done its steps in order. `Complete` is why the unique index, and
not the look-up before it, keeps accounts whole.

`StartupProofs`: `TypeCorrect`, `Fresh` (`CollectionFresh`) and `MemoSound`
(`MemoAfterStartup`). `FreshInv` adds that nothing that mentions
`collection_items` is in the cache, and that a request's answer is never older
than the request; `JobInv` that a job whose cache was filled has it, or lost it
since. `PoolSound` is inductive by itself: a connection is out exactly while its
request is sent or its outcome not yet handed on.

`ExportJobProofs`: `TypeCorrect`, `Written` (`WrittenBeforeQueued`), `Exact`
(`AttachedExact`), `Repeats` (`RepeatsBounded`), `KeepsPromise` (`PromiseSpec`,
the refinement of `Export`), `Killed` and `FirstComplete`
(`FirstArchiveComplete`), for any number of workers but in the last. The
invariant has five parts:
- `Structure`: types, that every job after the first names a record of its
  export, that no two workers are at one job, and `FirstAlone`: until the second
  page is queued nobody else knows the export its first job created (a retry of
  that job starts another one).
- `WrittenInv`: what a job or a worker relies on having been written is in the
  file, as long as the file was not archived.
- `OwedInv`: how often a row is in the file, and how many jobs may still add it
  (`Debtors`), are together at most one more than the failures. This is what
  `RepeatsBounded` lacks to be inductive: a failure makes one debtor more, a job
  that queues the next page hands its debt on, and appending pays it. A worker
  that has unlinked the file owes its page again, to a file that is empty.
- `ZipInv`: the archive took over the bound when it was written.
- `ChainInv`, while nothing failed: `OwedInv` then leaves each export a single
  debtor, the files are as its offset says (`Upto`), and a record that is
  attached or killed has none. `Exact` and `Killed` are read off it (`Killed`,
  that nothing is written behind a stop, is a part of what `KeepsPromise` says).

`KeepsPromise` has one lemma per action (`MapFetch` to `MapUser`), which says what
the action is to `Export`: a step of it, or one that changes nothing there.
`LiveIsDue` and `OneClaim` say that a live export has exactly one job or worker
with a claim on it, so that an export changes hands or ends by its own worker
only (`StageGoes`, `StageLeaves`). `StageInv` adds to `IInv` what has been done at
each place of the handler: there is no archive before `WriteZip`, no CSV file
after `UnlinkCSV`, and a worker only marks a record killed that is to be stopped.

`FirstComplete` assumes that all workers are one (`\A v, w \in Workers : v = w`),
as the run `export_liveness` does: with two, the second chain of a fork truncates
the archive that the first is about to make final. It adds `SoloInv`, the archive
between `WriteZip` and `UnlinkCSV`.

`CollectionsProofs`: `TypeCorrect`, `RemovalQueued` (`DeletedHasRemoval`),
`BatchesApart` (`BatchesAligned`) and `Emptied` (`DeletedEmptied`). `RemovalInv`
adds the call between the update of the row and the queueing of the job: only a
patch that read the row before could undo the status, and none can bring the
removal's job out of the queue. `AlignedInv` says the loop over a query's result
only ever stops at multiples of two pages (its increment is counted twice) or
beyond the result, so that a page queued again by a retry is the same page;
`OnceInv` that a first run has queued nothing beyond its offset. `PagesApart` is
the arithmetic: parts of one page at different multiples of two pages never meet.
`EmptiedInv` says of a deleted collection that nothing can still add to
(`Doomed`) that it is empty, or that a call is about to queue its removal, or
that a removal has not deleted the items yet (`Promised`). Each way of adding an
item ends `Doomed`; the removal that completes leaves the collection empty, and
an overlapping patch can make it visible again but not deleted with its items.

`SearchProofs` has two parts. The first is about one request. `RequestMeaning`:
the request that any list of filters becomes, of any length and order, selects
the documents that every filter wants, if the list is `Plain` and not `Refused`.
It assumes `Reads`: Solr reads every text as `SolrParser!Reading` says. The
argument follows the code:
- *Reading.* `ReadOne`, `ReadConj` and `ReadDisj` say what Solr makes of a single
  clause, of clauses joined by AND throughout, and of alternatives. A mixture of
  AND and OR has no such lemma, and `Plain` leaves out what produces one.
- *Texts.* A text is `Solid` when it is one clause, without NOT, that means the
  same inside of parentheses and at the top; it is `Sound` when it is joined by
  AND and its parts are steady. `JoinSound`, `JoinAlternatives`, `GroupedSolid`
  and `NegatedSolid` say how joining, parentheses and NOT act on these. A text of
  NOTs alone matches nothing inside of parentheses: this is why an exclusion
  starts with `*:*` (`Excluded`) and why `wrapAsFilter` moves its NOT out
  (`Wrapped`).
- *Rules.* One lemma for each rule (`ValueRule`, `StringRule`, `NumericRule`,
  `DateRule`, `BooleanRule`, `RegexRule`, `CollectionRule`), put together by
  `GroupRule`. `StringAlone` is the exception: alternatives without parentheses
  are right only when nothing else is in the query (`LooseAlone`).
- *Groups.* `Grouping` and `GroupOf` say that every filter is in the one group of
  its type, `QueryMeaning` that the groups together, in the query or in the
  filter list, mean all of them.

The second part is the walk. `InOrderWalk` (`WalkInOrder`) holds for any filters,
and for whatever Solr finds in whatever order (`Ranks`: the ranking lists
documents that were found, none twice). `RequestInv` says that the offset the
server computes is the number of documents the client has; `ShownInv` that these
are whole pages of the clamped limit from the start of what is found. The
client's page number, the division in it, the clamping and the offset meet in
`AskInv` and `FindInv`. `Accepted` adds that nothing is shown of a refused
request. With `RequestMeaning` these give `Unwanted` (`NothingUnwanted`) and
`Missed` (`NothingMissed`); the latter assumes `RanksAll`, that Solr lists all
of what it finds. `MCSearch`'s `Matched` and `SomeOrder` are what TLC checks
these for.

Texts and groups are built by recursive functions and folds. Induction is used
in the form that needs no operator as a parameter: `Induction` is about a *set*
of numbers that has 0 and the successor of each of its members, from the theorem
that a well-founded relation has minimal elements. `Iterates` gets from it that a
function defined step by step exists, and `JoinsAs` and `PickedTakes` what the
functions in `Join` and `Picked` return for sequences of any length.

Only model-checked: all liveness (`ExportDelivered`, `ExportEnds`,
`BatchesApplied`, `PendingHeard`, `StartupEnds`), which needs fairness. Every
safety invariant a run checks is proved. What is assumed and not proved about
the environment is in the theorems' hypotheses: `Reads`, `Ranks` and `RanksAll`.

## 5. Not modelled, and what remains

- *Facets, statistics, n-gram trends* (`search-facets.class.ts`, `stats`): one
  request each, whose aggregated answer is reshaped. No state, nothing
  interleaves; what could be wrong is a table of field names.
- *Read-only services, proxies, uploads, generated code*: queries and pure I/O.
  What one request builds for itself is left out too, and three places of it
  deserve a look. The topics graph takes a topic's index before the await that
  precedes its push (`topics-graph.class.js:183`, `:245`, `:261`), so that topics
  placed in one turn share an index and links name other nodes. A list of topics
  with a search term and filters is cut by the page up to three times
  (`topics.class.ts:59`, `:141`, `:187`). The search for text reuse clusters
  drops the `fq` that collapses passages by cluster
  (`text-reuse-clusters.class.ts:167`, `logic/textReuse/solr.js:168`), so that a
  page can name a cluster more than once.
- *Celery progress and channels*: messages to a screen. The handler is added at
  every connect, so that after a reconnect each message arrives twice
  (`celery.ts:39`).
- *`parallelLimit`*: used once, for reads of the cache of Wikidata entities.
- *Password change and reset, patch and removal of users*: one update each.
- *The working of the quota inside of a request* (`Access`): `spent` changes freely,
  and the check is one step; `QuotaChecker` has the rest.
- *The end of a Redis look-up*: `StartupEnds` takes for granted that Redis answers
  or fails. The read of the topics' cache and their keeping (`getTopics`) are one
  step, since replies come in order on the one connection; a page of the topics
  job, which sends two requests at once, is one request.
- *The precision of dates*: days are 1 to 3, and a year or a month as the upper end
  of a range, which `normaliseDate` turns into its first day, is not told apart.
- *Redis' script cache*: the scripts are loaded once; after a restart of Redis
  every check fails until this process restarts. The failure of a check is
  modelled, its lasting is not.
- *Migration of old collections*: its queue has no worker.

Next in order: the refinement of the row of a collection and its index to a set
that is deleted at once; the bun client; the embedding filters.
