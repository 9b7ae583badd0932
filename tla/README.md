# Verification of python-proxy-cache

TLA+ models of the pull-through cache for Python package indexes in `src/app`,
with TLC configurations that check them on small instances and TLAPS proofs of
the theorems that hold for every instance.

## 1. The system

One process is an asyncio application (FastAPI) behind nginx; several replicas
may share one Redis. A request for a project page goes

    client -> nginx -> simple_project -> Cache (Redis, or a dictionary in memory)
                                      -> KeyLocker (one fill per project and replica)
                                      -> upstream index
                                      -> enrichment (background tasks, off by default)

| Component | State | Operations | What makes it correct |
| --- | --- | --- | --- |
| `singleflight.py` KeyLocker | a lock and a count per key | `hold(key)` with every way out | exclusion per key, fairness, no entry left behind, no lost wake-up |
| `simple_project.py` handler | the locals of each request; in the cache: fresh and stale copies of two formats, validators, a 404 entry | lookup, conversion with compare-and-set, conditional fetch, 304 promotion, refetch, fill, negative entry | a reply in an acceptable format, entries in the format their key names, nothing older than what a 304 confirmed made fresh, one fetch per stampede, every request answered |
| `cache.py` Cache | client, state, dictionary | get, get_many, exists_any, setex, setex_many, ttl, ttl_if_values, setex_many_if_unchanged, connect, reconnect, health_ping | batches from one backend, recovery after an outage, a state that says what is used |
| `metadata.py` enrichment | pending maps, semaphores, idle clock, closing flag; body-bound markers in the cache | schedule, discover, extract, commit, ensure, drain, cancel | bounded queues, work only in idle windows, nothing marked complete that is not, no expired body revived, shutdown ends |
| `metadata.py` store and recovery, `metadata_route.py` | content, blob, pointer and failure entries; a fill lock per URL, four semaphores | load, probe, extract, store, recover | one extraction per wheel, no client refused without its own attempt, every request answered |
| `wheel_metadata.py` | the locals of one extraction | range requests, end record, directory, header, text | sound wheels read, everything ambiguous refused, never a mixture of two wheels |
| `simple_index.py` | listing entries | read-through without a lock, four ways from upstream's form to the client's | all projects of upstream in every answer, as its format has them |
| `accept.py`, `ttl.py` | none | quality values, cap and floor of lifetimes | no refused format served |
| `parse.py`, `models.py` | none | both parsers and renderers | a page says the same after any conversions |
| `artifacts.py`, `config.py` | settings | rewriting of links and back | the file that is linked is the file that is fetched, metadata found where it was stored |
| `main.py`, `metrics.py`, `deps.py` | counters, settings | lifespan, `/health`, `/metrics` | wiring |
| nginx, compose, bench | - | - | configuration and load generation |

What is hard here: code between two awaits is atomic, but every cache call and
upstream call is an await, so a handler acts on what it read some steps ago;
replicas share entries but not locks; entries expire or are evicted one by one;
Redis may run a command whose reply is lost; a cancelled task may hold a
wake-up. `PROJECT.json` lists these hazards at their lines with the properties
aimed at them.

## 2. Modules

| Module | What it is |
| --- | --- |
| `SingleFlight` | the abstract section per key: tasks ask, get in, give up, release |
| `KeyLocker`, `KeyLockerProofs` | `hold()` on `asyncio.Lock`, future by future; `ImplementsSingleFlight` is the refinement mapping; its inductive invariant, four properties and the refinement |
| `SimpleProject`, `SimpleProjectProofs`, `OneReplicaProofs` | the handler on several replicas with a shared cache; its inductive invariant, seven properties and its use of `SingleFlight` |
| `Cache`, `CacheProofs` | the cache client of one process, Redis and the fallback; its inductive invariant and two properties |
| `Enrichment`, `EnrichmentProofs` | what requests and background jobs of several processes read and commit of one page; its inductive invariant and four properties |
| `BackgroundTasks`, `BackgroundProofs` | when the background jobs of one process are scheduled, started, cancelled and forgotten; its inductive invariant and six properties |
| `MetadataStore`, `MetadataProofs` | probes, extractions and recoveries over content, blob, pointer and failure entries; its inductive invariant and three properties |
| `WheelReader` | the range requests and ZIP checks of one extraction |
| `Artifacts` | a link on its way from upstream to the client and back as a request for metadata |
| `Conversions` | the entry of a file through parsing, rendering, rewriting and enrichment |
| `Negotiation` | Accept headers and the lifetime of a project page |
| `SimpleIndex` | requests for the listing of all projects |
| `MCSimpleProject`, `MCCache`, `MCEnrichment`, `MCBackground`, `MCMetadata` | instances for TLC: placement, operations, wheels, symmetries |
| `Parts`, `PartsProofs` | `WheelReader`, `Artifacts`, `Conversions`, `Negotiation` and `SimpleIndex`, one at a time; an inductive invariant of each and all nine of their properties |
| `MCParts` | `Parts` with the data TLC runs it on |

Operators whose comment begins with "Variant:" are deliberately wrong versions
of the definition they stand in front of: the plausible bugs each property is
known to detect.

### KeyLocker

`locks` and `waiters` are the two dictionaries, `locked` and `queue` the flag
and deque of each lock object, `fut` the future a task is suspended on. `_meta`
is never contended (nothing is awaited under it), so entry and exit are atomic:
`EnterNew`, `EnterFree` and `EnterQueued` are lines 23-28 for the three states a
key can be in, `Leave` and `AbandonWait` run the `finally` block (`Unregister`).
`asyncio.Lock` is external and modelled as CPython implements it, including that
a task woken from the deque may be cancelled before it runs.

### SimpleProject

One action is the code from one await to the next, together with the cache
operation or fetch it awaits; `pc` names the next one. `_try_serve_from_cache`
is `Lookup`, `LookupOther`, `SourceTtl`, `StaleTtl`, `Commit`; it is used for
both passes, and `filling` says which one. `GetLock` enters the section that
`SingleFlight` specifies. The fetch is `StaleCheck`, `ReadValidators` and the
four outcomes under `Fetch`; a 304 continues with `StaleBodies`, `Restale`,
`Promote`, a 404 with `Put404`, a 200 with `Fill`. What a 304 makes fresh goes
under `key`, the format of `response_cache_key`, which the handler keeps next to
the body and apart from it. A body is its version, its
format and who wrote it: the commit of a conversion compares bytes, and a page
converted back and forth has the meaning of the original but not its bytes. ETag
and Last-Modified are one validator, named by the body they came with. Clients
are of three kinds, which is what the two functions of `accept.py` tell apart:
they want JSON only, HTML, or JSON with HTML acceptable. Lifetimes
are abstracted to `Expire`, which may take any entry at any time, so cached
values of `ttl` only matter for whether they were there.

The environment is a constant set `World` of moves that a run allows, so that a
run can ask its question without the moves that do not bear on it. The same
holds for `Enrichment`, `BackgroundTasks` and `MetadataStore`.

### Cache

An operation that finds a client is `Begin`, then `Serve` (Redis runs the
command, all of it: MGET, a MULTI pipeline or a script), then `Reply`; an
`Outage` cuts whatever is under way before or after Redis ran it, and the
operation then either is repeated by redis-py (`Resend`) or fails, drops the
client and runs on the dictionary (`Fail`). `StartProbe` is `/health` and
`connect()`; the probe's answer comes in a later step, which is where the races
are. A `BatchAssumption` on the operations says which keys are only ever written
together; the handler's fresh and stale copies of one fill are such keys.

### Enrichment

The page of one project in one format, as the cache has it: the fresh and the
stale body and what is bound to them, the discovered and ready markers, which hold
the digest of the body they are for. A body is its version and the set of wheels
it advertises.
Requests are a coarser form of the handler, down to what they do to the same
keys (`Hit`, `Miss`, `Fetch`, `Fill`, `Restale`, `Promote`, `StartConversion`,
`Convert`) with `ensure_metadata_background_work` after a hit (`CheckReady`,
`ReadMarker`, `ReadBodyTtl`). Where `World` has `"conversion"`, the project is
also cached in the other format, which is enriched on its own and may advertise
any wheels: this page may be written by a conversion of that one, which compares
its source and not what it writes over, by a 304 that is answered from that one's
stale copy, and by a request for that one, which fills or promotes this page
along with it and leaves it unlooked at. A job is one task: `StartDiscovery` and `Probe` are `_enrich`,
`Reload` and `Extract` are `_extract_project_after_idle`, and both commit
through `_commit_project_enrichment` (`ReadUnderLock`, `ReadBoundTtl`,
`Commit`), whose compare-and-set expects what `Expected` says. The fill lock is
shared with requests of the same process, the cache with all processes.

### BackgroundTasks

The two pending maps, their bounds, the tasks and the clock of
`_wait_for_project_idle`. A task goes from its first gate to a permit, through
the second gate under the permit, and through its batches, each behind a gate
of its own; it ends, and only later does the callback of line 448 forget its
entry. `StartShutdown`, `Round` and `EndRound` are `cancel_metadata_tasks`,
which goes round until no entry is left; a request in flight may still try to
schedule. `quiet` counts the ticks since the last request, up to the longest idle
delay, and `wake` those that are left of a task's sleep.

### MetadataStore

`_resolve_metadata_for_url` from one await to the next: the store is looked at
(`LoadPointer`, `LoadBody`, `LoadBlob`), then again under the fill lock, then
come the HEAD for native metadata, the failure entry, a permit, the archive and
the writes, each a step, because the backend may change between any two of them.
`Free` tells whether a semaphore has a permit left. A pointer is hashed, bare or
legacy, by who wrote it. Wheels are immutable: a URL stands for its wheel and
for one digest.

### WheelReader

A wheel is a record of what the reader looks at: the end record, the members
its directory lists, local headers and stored texts by their offset. Its flags
are a set, which the directory and the local header have to agree on. Sizes are
scaled down (a header of 3 bytes, a suffix of 24), with the order of the limits
of the code kept and every limit met exactly, exceeded by one and undercut by
some archive. `Reply` gives ten ways in which a server may answer a range
request, from the range to the whole file under a 206. Between any two requests
`Replace` may put another archive under the URL. Checksums of different texts
are taken to differ, which is what CRC-32 is for and cannot promise.

### Artifacts and Conversions

`Artifacts` follows one link: `Rewrite` when the page is stored, `Enrich` when
background work finds or extracts its metadata, `Ask` when the client requests
it. URLs are records of scheme, host, port, path and query; a path knows whether
it is written with a percent escape, because the framework decodes it.

`Conversions` follows what a page says of one file: `Passthrough` or `Convert`
from upstream, `Convert` again between the two entries of the cache, `Enrich`
in whichever format, for the sake of this file or of another on the page. `Meaning` is what an installer takes from an entry.

### Negotiation and SimpleIndex

`WantJson` and `AcceptsHtml` are the functions of `accept.py`, and
`Representation` is how the handler combines them with what upstream has.
`SimpleIndex` has one action per await of the listing's handler. Upstream lists
its projects in whichever form it likes (`Listings`), and `Rendered` has the four
branches of the code: HTML for HTML is passed on as it came, with its blank
anchors, and all else is written anew from the names (`Synthesized`). `ReadAs` is
what a client of each format finds in what it is sent.

`Parts` lets these five run one at a time. They share no variable, but some have
variables of the same name, so the module declares every name once, instantiates
each part on it, and lets a behaviour be one of whichever part `part` says; the
variables of the others stay `None`. What a part asks of its constants is its
`DataAssumption`, which `Parts` assumes and TLC evaluates on the data of `MCParts`.

## 3. Runs

| Run | Instance | Shows |
| --- | --- | --- |
| `key_locker` | 4 tasks, 2 keys, 4 locks | exclusion, no leak, no lost wake-up, no overtaking, refinement of `SingleFlight`, every waiter moves on |
| `synthesis` | 2 requests on 2 replicas, clients of all kinds, 2 versions of which one does not parse, expiry | acceptable replies, keys name formats, no outdated conversion is published |
| `revalidation` | 2 requests, 1 replica, 2 versions, one client format, every move of the world but removals | all copies are of one upload; a 304 promotes what it confirmed; every request is answered |
| `stampede` | 3 requests, 1 replica, conversions from JSON to HTML only, 2 versions, removal, crashes and stray 304s, nothing expires | one fetch per stampede |
| `cache_failover` | 1 caller, 1 probe, 2 keys, 2 values, 6 operations, 3 backends | batches are whole, the process recovers |
| `enrichment` | 2 processes with a request and a job each, 2 versions, crashes and failing jobs | ready bodies were tried in full; commits only add |
| `readiness` | 1 process, a request and 2 jobs, expiry, crashes and failing jobs until calm | markers are for the body that is there; every page becomes ready |
| `tasks` | 2 projects, 2 tasks, a bound and a permit of each kind, shutdown and restart | one task per key and no more than the bound, starts in idle windows only, no sleep too long, shutdown ends and leaves nothing, every task ends |
| `store` | a background extraction and a request on one wheel, eviction, failover, an older release, cancellation | one extraction while nothing is lost, no refusal without cause, every request answered |
| `parts` | 45 archives, 11 of them sound, which may replace another during a read; 55 links, with and without escapes, in 96 deployments; every entry with up to two hash algorithms; all headers of up to 3 of 18 ranges; 2 clients and a project that comes and goes, listed in every form | sound wheels are read, others refused, none mixed; links keep their target and their metadata; pages keep their meaning; no refused format; listings have all projects |
| `mixed_formats` | 1 request at a time, two client formats | violation, see section 6 |
| `connected_client` | as `cache_failover` | violation, see section 6 |

Bounds. Four tasks are the fewest for a holder, a woken waiter, a waiter behind
it and a newcomer on one key, and two keys show that keys do not interfere; four
lock objects are never all in use by fewer tasks. Two requests give every
interleaving of a pair of handlers, and slots are reused, so one request may
meet the leavings of many; the stampede needs a third to be queued behind a
second. Two versions suffice for "older than". One caller of the cache is enough
for the properties of the process, because other writers of Redis are
`Elsewhere` and the second party of each race on the client is the probe; the
theorems hold for any number. `MaxVersion` cuts behaviour: upstream stops
changing after it. `MaxAttempts`, two, lets startup fail once and succeed, and
fail for good.

For enrichment, a job that commits needs one other writer to race with: a job or
a request of the other process in `enrichment`, a request or the second job of
the same one in `readiness`. `Limit` is the number of files one enrichment
extracts, and is reached. In `tasks` the maps hold one entry a kind, so that a
full map, a coalesced and a dropped task all occur with two projects. In `store`
one caller of each role meets the other at every await; callers are reused. A
discovery next to them, and two wheels with the same metadata, took more states
than a run has time for. `MaxSeen` lets four archives be under a URL in the
course of the five requests of one extraction; a fifth could only be read by the
last of them.

## 4. Fairness

- `KeyLocker`: weak fairness for a task whose future is done and for the end of
  the body. The event loop runs ready tasks, and every await in the body ends.
  Nobody has to enter or to cancel.
- `SimpleProject`: weak fairness for every step of a handler (each await ends
  with an answer or a timeout) and strong fairness for `GetLock`. The latter is
  what `KeyLocker` shows of the real lock: `NoOvertaking` and
  `EveryWaiterMovesOn`. No fairness for the world.
- `Cache`: weak fairness for operations under way and for probes: the container's
  healthcheck polls `/health` every ten seconds. `Recovers` assumes that Redis
  eventually stays reachable.
- `Enrichment`: weak fairness for the steps of jobs and requests, strong fairness
  where jobs enter the fill lock. `EventuallyReady` speaks of the time after
  `calm`, a flag the world raises once and for all when crashes, failing jobs
  and lost entries cease, and of pages that are requested: a dropped extraction
  is only resumed by a request.
- `BackgroundTasks`: weak fairness for tasks, callbacks, the rounds of shutdown
  and the clock, strong fairness for permits, as `asyncio.Semaphore` serves its
  waiters in turn. `EverythingEnds` speaks of the time after requests cease.
- `MetadataStore`: strong fairness for the steps of a request, because locks and
  semaphores serve their waiters in turn, and weak fairness for those of
  background work.

## 5. What is proved

All proofs are checked by TLAPS for every value of the constants, from the named
assumptions in the modules.

- **KeyLocker.** `IInv` is inductive: all users of a key hold the same lock
  object and no two keys share one (`SameLockPerKey`); a deque holds exactly the
  waiters of its lock, once each (`QueueHoldsWaiters`); a task inside has its
  lock taken and to itself (`OneInside`); only the head of a free lock is woken
  (`OnlyHeadWoken`); counts are the numbers of users (`NoLeak`, which needs the
  finiteness of `Tasks`); and `NoLostWakeUp`. Mutual exclusion alone is not
  inductive: it needs the count, because the entry is removed when the count
  reaches zero, and the deque, because a woken waiter acquires without looking at
  the flag. From it follow `Exclusion`, `MapsDoNotLeak`, `WakeUpsAreNotLost`, and
  `Refinement`, by mapping each action to `Ask`, `AskAndGet`, `Get`, `GiveUp`,
  `Release` or a stutter. `NoOvertaking` (theorem `InTurn`) follows too: who gets
  in past a live waiter was woken, hence the head of the deque the waiter is in.
- **SimpleProject.** `IInv` adds to the types and to `StoredAsNamed` what the
  locals of a handler hold at each of its awaits (`LocalsFit`): the source is in
  the other format, and the body about to be promoted is in the format of the key
  it goes under, which is the wanted one unless the client takes both. Without it
  a promotion could file a body under the wrong key. `RepliesAcceptable` and
  `KeysNameFormats` follow; `SynthesisIsCurrent` from what `Commit` compares,
  once it is shown that no other step answers a request that is about to commit.
  `LockDiscipline` adds, for any number of replicas and with crashes, that one
  request of a replica is under the lock and only there it goes upstream:
  `OneUpstreamPerReplica`. With it `LockIsSingleFlight` ties the handler to its
  lock: the queue and the holder of each replica move as `SingleFlight` says, the
  contract that `KeyLocker` is proved to implement. It is stated for a `World`
  without crashes, since a process that dies gives up all its requests in one step.
  `OneReplicaProofs` adds, for one replica where nothing expires, that what a
  request under the lock saw in the cache is still so (`SeenUnderLock`): a
  conversion by somebody else finds a source, so it changes nothing where there
  was no page, and it writes the format that all conversions write, so it spoils
  no source. `OneFetch` follows for any number of requests, under the condition
  `Settled`, whose one direction of conversions is needed (section 6).
  For revalidation it adds that nothing in the cache is older than the validator
  in it (`CacheFollowsValidator`) or than the one a request under
  the lock has sent, and that the bodies it is about to write back are not either
  (`Carries`). `Revalidated` follows for one replica under the condition
  `Uniform`: upstream answers in one format, and its clients all take pages as
  they come or all have them converted. Then a fill replaces every copy that is
  kept (`FilledWhole`), which is what `mixed_formats` (section 6) shows to be needed.
  Expiry, eviction, crashes, missing validators and stray 304s are all allowed.
  `OneUploadKept` says more of the cache under the same condition: there is a
  version that all copies of both formats, fresh and stale, are of, and that the
  bodies a request is about to write back are of too (`IOneUpload`). It rests on
  `Revalidated`'s invariant for the lock, on the commit of a conversion comparing
  its source, and on `FilledWhole`.
- **Cache.** `IInv` says that neither backend ever holds a batch in two versions,
  and that a process without Redis never waits for it. A read is then whole
  because it is answered by one backend at one moment, whatever failed before.
  `BatchesDoNotMix` follows.
- **Enrichment.** `IInv` says that a job's findings are wheels of the page it
  holds and, after an extraction, that all its candidates were tried
  (`FindingsFit`); a request may have enriched the body meanwhile, which only
  takes candidates away. `ReadyIsEarned` follows. `MarkersAreBound` and
  `CommitsAreSafe` hold of every step because the compare-and-set of a commit
  covers the body it was prepared for and, for a stale body, the absence of a
  current one.
- **MetadataStore.** `IInv` says that what is stored can be loaded
  (`KeptCanBeLoaded`) and that a caller that missed it under the lock still
  misses it (`MissedIsNotKept`), from which `NoSecondExtraction` follows; that
  discoveries only probe, and that recoveries alone write the failure entries
  they read (`DiscoveryOnlyProbes`, `FailuresHappened`), from which `Refusals`
  follows.
- **BackgroundTasks.** `IInv` says that a live task is the entry of its key
  (`LiveTasksAreKnown`); the entries of a kind, which scheduling bounds, then
  bound the live tasks (`EntriesAreBounded`, with the library's facts on
  cardinalities; the live tasks alone are not inductive, as an entry outlives its
  task until the callback). A shutdown under way waits for every live task, and
  once it has returned the closing flag keeps the maps empty until `Restart`
  (`ShutdownFindsAll`). A sleep never ends after the idle window that follows the
  last request (`NobodyOversleeps`), for which slots without a task must not sleep
  (`FreeTasksAreClear`). `LiveTasksAreKnown`, `TasksAreBounded`,
  `NothingOutlivesShutdown` and `NobodyOversleeps` follow; `StartsWhenIdle` holds
  of every step, because only the second gate lets a task work.
- **Parts.** Each part has an inductive invariant of its own in `PartsProofs`, for
  any data that fits its `DataAssumption`.
  - `ReaderInv` says what has been read so far of an archive that was there all
    along: its end record, its directory, its local header, the names behind it and
    its text, one more with each stage (`ReadSoFar`). At the end these add up to
    `IsWheelWith`, the definition of a wheel, which gives `OnlyWheelsAreRead`;
    conversely no check fails on a wheel if the server does as asked, which gives
    `WheelsAreRead`, with `SuffixIsExact` for the one size the reader has to take
    from the server. Where archives replace each other, the entry is of one of
    them (`Entries`) and the result has the entry's checksum (`Results`):
    `NoMixture` rests on checksums alone, because nothing else ties the five answers
    together. It is therefore proved under the idealisation of `WheelReader`, that
    no two texts share a checksum. That the reader's text is the wheel's is not
    assumed: `TextOf` is defined for an archive exactly if it is a wheel in
    the sense of `IsWheelWith`.
  - `WayInv` says that the page has the link as it came or as rewritten once, that
    whatever was fetched is what one of these stands for, and that an extraction
    left the metadata under the identity of the rewritten link. `NothingElse` and
    `ReadOnce` follow, because rewriting changes nothing the second time
    (`RewrittenOnce`) and is undone when the client asks.
  - `PageInv` bounds the values an entry can have after any number of conversions.
    `OfferedThroughProxy` follows without a condition, `SaysTheSame` under
    `Renderable`: every mapping of hashes has an algorithm in the fixed list of
    `metadata_value_to_html`. A mapping without one is left out of the
    HTML page, so the condition cannot be dropped.
  - `FormatInv` says that what is served is what `Representation` chose for the
    header and upstream. `RefusalsAreKept` follows from the most specific range
    deciding in each of the two functions of `accept.py`.
  - `IndexInv` says that each listing, on its way, in the cache or sent to a
    client, is in its format and has the projects of one time. Requests that
    overtake each other may replace a listing by an older one, but not mix two.
    `ListingsKeepTheProjects` follows because what `Rendered` returns reads, in the
    format asked for, as the names that were taken from what came (`NamesAreKept`).

Only model-checked: liveness and everything under fairness (`EveryWaiterMovesOn`,
`EveryRequestAnswered`, `Recovers`, `EventuallyReady`, `EverythingEnds`,
`ShutdownEnds`, `RequestsAreAnswered`) is beyond TLAPS, as are ENABLED and
induction over data. Every invariant and every step property that a passing run
checks is stated by a theorem, `RevalidationSound`, `OneUpload`,
`StampedeCollapses` and `MeaningIsKept` under the named conditions that are given
above.

## 6. Where the code disagrees with its comments

Found by a run:

- `mixed_formats`: validators are shared by both formats, but a passthrough fill
  replaces the stale copy of one. A later 304 for the newest version makes an
  older body of the other format fresh (`simple_project.py:265`, comment at
  191-192). With two replicas the same happens in one format, when a slow fill
  lands between another replica's read of the validator and its 304.
- `connected_client`: a ping answered after a failed operation dropped the client
  leaves `state` at connected, and `/metrics` at backend 1, while operations go to
  the dictionary (`cache.py:111`, `cache.py:138`). `Recovers` shows that the next
  probe repairs it, thanks to the second half of the test in line 134.

Noticed while modelling, and kept out of the properties by the conditions these
state; no run is about them:

- `simple_project.py:123`: a request under the lock converts a page; another one
  has just converted it the same way, and a third, which missed before the page
  was filled, converts the result back and overwrites the source with other
  bytes. The commit of the first is refused and it fetches a page that is fresh
  in both formats, against "so a stampede collapses to a single upstream fetch"
  (172-173). It takes clients of both formats: TLC finds it with `Kinds` changed
  to `{"json", "html"}` in `MCStampede.cfg`.
- `simple_project.py:237`: the comment "cache synthesized stale as well" stands on
  a write of the source body under its own key.
- `metadata.py:828`: `_enrich` probes only the files that
  `_extraction_candidate_indexes` selected, although `config.py:58-59` says
  "Upstream metadata HEAD probes remain uncapped by this setting".
- `metadata.py:213`: if the backend changes between the three writes of a store,
  a pointer is visible without its content, against `metadata.py:207-208`
  ("readers never observe a pointer before its content has been committed"). It
  is read as a miss; `store` includes it.
- `metadata.py:336`: a background extraction waits for its permit while it holds
  the fill lock that a request for the same wheel needs, so a request may queue
  behind the backlog after all (`config.py:55-56`). `RequestsAreAnswered` shows
  that it is served in the end.
- `wheel_metadata.py:115`: a 206 with the whole archive is read to its end, up to
  the archive limit, before lines 137 and 151 compare it with the range asked for
  ("bounded HTTP range requests", `wheel_metadata.py:1`).
- `metadata.py:552`, `metadata_route.py:24`: with `REWRITE_ARTIFACT_URLS=false`,
  or for a link with a percent escape, metadata is stored under another identity
  than it is asked for and extracted once more. `StoredIsServed` excludes both.
- `config.py:98`: an allowlist entry with its scheme's default port matches no
  link, since only links are normalised (`artifacts.py:39-40`: "Both sides are
  normalised by authority_of").
- `simple_index.py:23`: the listing and the page of a project called `index`
  share their keys, `simple:index:json` and `simple:index:html`, so that each may
  be served for the other. `SimpleIndex` has the listing alone.
- `accept.py:54`: a client that accepts JSON by a wildcard only and refuses HTML
  gets HTML (`accept.py:44`: "True when the client accepts the PEP 691 JSON media
  type"). `RefusedIsNotServed` is about types that are welcome by name.
- `ttl.py:45`: with a project TTL below the floor, a smaller `max-age` is raised
  above it ("never extends beyond", `ttl.py:33`).
- `parse.py:23`: of a mapping without SHA256 the first algorithm of a fixed order
  is used, not "the first upstream-provided algorithm" (`parse.py:13-14`).

## 7. Not modelled, and why

- The handler with `enable_background_metadata` on: `SimpleProject` has the
  default, and `Enrichment` has a coarser handler and one of the two formats;
  what the other does to this one is left open there. `_pending` is keyed by
  project, so a discovery for the other format keeps one for this format from
  being scheduled until it ends; that delay is not modelled.
- `drain_metadata_tasks`, which only tests call.
- Signed URLs whose signature expires: `MetadataStore` takes wheels as immutable.
- Fragments, path parameters, IPv6 hosts, user names in URLs and
  `METADATA_ARTIFACT_BASE_URL`; markup, escaping and copied fields; parameters of
  media ranges other than `q`; parsing of `Cache-Control`.
- Metrics and log lines: no property here is about them.
- nginx, compose, CI, benchmarks: configuration and load generation.
- Durations other than idle windows: timeouts and lifetimes are steps that may
  happen, not amounts of time.

## 8. What could come next

1. Whether the composed handler keeps the theorems of its parts: a composition of
   `SimpleProject` with `Enrichment` in place of its coarser handler, and of
   `MetadataStore` with `Cache` in place of `Failover`.
