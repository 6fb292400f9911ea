# A TLA+ verification of corsget

corsget is an HTTP proxy for browsers: `GET /<url>` fetches `<url>` on behalf of
a web page and adds CORS headers. It applies target and origin policies, request
and byte limits, follows redirects by hand and keeps a disk cache of responses.
This directory holds TLA+ modules of its stateful parts, the TLC configurations
that check them on small instances, and TLAPS proofs for every instance. Paths
below are relative to the repository root (`README.md`, `src/cache.rs`, ...).

    tlc -workers 2 -config DiskCache_race.cfg MCDiskCache     # one run
    tlapm DiskCacheProofs.tla                                 # the proofs

## The system

| Part | Source | State | Operations | Concurrency and failure |
|---|---|---|---|---|
| Disk cache | `src/cache.rs` | `<key>.json`, `<key>.body`, temporary files; one `CacheWriter` per miss | `initialize`/`cleanup_startup`, `plan`, `lookup`, `refresh`, `begin_write`/`write`/`finish`/`discard`, `commit`, `evict`, `file_stream` | no lock at all: every request works on the directory across awaits; any file operation may fail; the client may go away, the process may die |
| Request handler | `src/proxy.rs` | locals of `proxy_handler` and of the body stream | parse, policy, rate tiers, cache decision, redirect loop, 304, result cap, tee into the cache | one task per request; timeout of the upstream; dropped at any await |
| Bandwidth meter | `src/limit.rs` | a map of fixed windows per tier; a guard per body | `BandwidthLimiter::charge`, `ResultSizeGuard`, `metered_stream` | streams of one bucket interleave between tiers |
| Request-count limiter | `axum_limit`, used in `src/proxy.rs` | counters per tier and bucket | `check` | shared by all requests |
| Match policy | `src/matcher.rs` | immutable lists | `is_allowed`, `has_whitelist` | none |
| Header overrides | `src/headers.rs` | immutable rules | `apply` | none |
| Request identity | `src/extractors.rs` | none | site from `Origin` or `Referer`, client address, bucket key | none |
| CORS layer | `src/cors.rs` | none | `cors_layer`, `preflight_handler`, hop-by-hop lists | none |
| Configuration | `src/config.rs` | immutable | byte expressions, null lists, validation | an operator edits the file meanwhile |
| Shared state, startup, shutdown | `src/state.rs`, `src/main.rs` | `AppState`, listeners | construction, binding, graceful shutdown | each listener has its own signal task; waits for open connections |
| Errors | `src/error.rs` | none | status codes and bodies | none |

How they interact: `main` builds `AppState` (which runs the cache cleanup before
anything is served) and mounts `proxy_handler` behind the CORS layer. A request
passes `validate_target_policy`, then every rate-limit tier, then `Cache::plan`
and `lookup`. A fresh entry is answered from disk through `metered_stream`.
Otherwise the upstream is asked, with the entry's validators if there is one;
each redirect passes the policy again. A 304 refreshes the entry and serves its
body from disk; any other answer is streamed through the meter and teed into a
temporary body, which `finish` renames into place before it writes the metadata
and evicts.

What makes each part correct:

- cache: no partial or foreign body is stored or served; headers and body belong
  together; age and size limits hold; startup cleans up what crashes leave;
- handler: policy on every hop, bounded redirects, limits before any work,
  credentials never meet the cache, `X-Cache` tells the truth, requests end;
- lifetimes: no answer is served longer, or to anybody else, than its origin and
  the configuration allow, and a 304 confirms what it is taken to confirm;
- headers: a reply is readable by the site that asked wherever it comes from;
  what is meant for one connection stays there; a hit looks like its miss;
- startup: limits are what the file says; all addresses or none; the operator's
  file is not overwritten; a signal ends the process and cuts no request;
- meter: windows count what they accept and never more than their maximum, the
  result cap is hard, the windows are soft.

The hard behaviours, each at its line, are the hazards of `PROJECT.json`.

## Modules

| Module | Models | Extends |
|---|---|---|
| `ResponseStore` | what the cache promises: a register per key | |
| `DiskCache` | `cache.rs` and the part of `proxy_handler` that drives it | `Integers`, `FiniteSetsExt` |
| `FoldProofs` | lemmas about finite sets of data: induction over subsets, extreme elements, folds, sums | `FiniteSetTheorems`, `WellFoundedInduction` |
| `DiskCacheProofs` | proofs about `DiskCache` | `DiskCache` |
| `DiskCacheLimitProofs` | proofs about the size of the directory and the bodies served | `DiskCacheProofs`, `FoldProofs` |
| `BandwidthMeter`, `BandwidthMeterProofs` | `limit.rs` | |
| `ProxyRequest`, `ProxyRequestProofs` | `proxy_handler` from the request line to the end of the body, with `is_allowed`, `apply` and the identity of a request | |
| `CachePolicy`, `CachePolicyProofs` | which answers `cache.rs` keeps, under which key, for how long, and what a 304 does to them | `SequencesExt` |
| `ResponseHeaders`, `ResponseHeadersProofs` | the headers of a reply: `copy_response_headers`, `cache_headers`, `cached_response`, `headers.rs`, `cors.rs`, `error.rs` | `SequencesExt` |
| `Startup`, `StartupProofs` | `config.rs`, `state.rs` and `main.rs`: from the configuration file to the end of the process | `SequencesExt` |
| `MC...` | values of the constants for TLC | the component |

A definition whose comment begins with MUTANT is a plausible bug in the code
behind the definition it names. No specification uses it: it documents which bug
a property would find.

### DiskCache

State: `meta[k]` and `body[k]` are the two files of a key, `litter` says whether
a temporary file without an owner is in the directory, `task[s]` is the request
of slot `s` (program point and locals), `boot` the locals of `cleanup_startup`,
`phase` the life of the process. `clock` and `origin` are the environment;
`contact` is a history variable, the time of the last exchange about a version:
the origin sent it in full, or a 304 was taken for it. The code asks no more of a
304 than that there is an entry: it may vouch for the client's own copy, or come
from a host the target redirected to. `NotModified` therefore renews any entry.

| Actions | Code |
|---|---|
| `BootStart` `BootSweep` `BootOrphans` `BootEvict` `BootDone` | the passes of `cleanup_startup`: temporary files, metadata one by one, orphaned bodies, LRU |
| `Start` `ReadMeta` `StatBody` `DropMeta` `TouchMeta` | `lookup`, one step per await; the last one also takes the handler's decision to serve |
| `FetchFails` `NotModified` `Refresh` `FullResponse` | the answer of the upstream, `refresh`, `begin_write` |
| `Chunk` `StreamBreaks` `StreamCut` `StreamEnd` | the tee in the body stream, `write`, `discard` |
| `RenameBody` `CommitMeta` | `finish` and `commit` |
| `Scan` `EvictMeta` `EvictBody` `EvictDone` | `evict` |
| `OpenBody` `Replied` | `file_stream` |
| `Cancel` `Crash` `Tick` `Publish` | client, operating system, clock, origin |

Abstractions, and why they lose nothing the properties can see:

- a response is a version with a length and a lifetime. An ETag identifies the
  version; status and headers go with it. `Life`, `Storable`, `NoCache` and
  `ConfirmTtls` are the results of `effective_ttl`, `cacheable_headers`,
  `parse_vary` and `cache_control_requires_revalidation`, see `CachePolicy`;
- writing a temporary file and renaming it is one step, with an alternative in
  which it fails and may leave the temporary file. Nobody reads that file. The
  body is different: its temporary file lives as long as the stream;
- a rename or removal that was started may take effect although its future is
  dropped: that is the effect followed by `Cancel`. A `tokio` file writes behind,
  so a failed write shows up at the next write or the flush: `Chunk` and
  `RenameBody` may both fail;
- `evict` reads the metadata, its length and the body's length of an entry in one
  step. Keys are visited in any order, as directory entries are. Sorting is
  stable over that order, so `Oldest` may pick any of the oldest;
- `Foreign` is metadata of another `CACHE_VERSION` (its last access counts as 0),
  `Garbled` metadata that does not parse. Both occur only as leftovers;
- a metadata file has the constant size `MetaSize`;
- a crash loses the process, not the page cache: renames happen in order. The
  code never calls fsync, and what a power loss does is outside the model;
- the end of the upstream's stream is the end of the response. `hyper` may drop
  a body whose announced length is reached, which is `Cancel` after the last
  `Chunk`;
- requests without a cache plan do not touch this state and are not started; a
  304 to a request without an entry is a response that may not be stored.

### BandwidthMeter

`window[i][b]` is the `DashMap` entry of bucket `b` in tier `i`, `stream[s]` the
state of one `metered_stream` with its guard. A tier's charge holds the map
entry's lock and is one step (`Charge`); `Pull` is the next chunk and the guard,
`Yield` hands the chunk on. Counters saturate at `Top`, which stands for
`u64::MAX`. `seen` is a history variable: what a window was offered, refused or
not. `LaterTiersCount` compares it between tiers: a refusal of one tier must not
keep the chunk from the next, while streams interleave between the two.

### ProxyRequest

`req[s]` holds the locals of `proxy_handler` and the history of the request
(`path`, `hops`, `paid`). `spent[i][o]` is the counter that `axum_limit` keeps;
the library is modelled as a counter that refuses when used up and may start anew
at any time, or fail. `cache[u][o]` is what a lookup can find; it may age or go at
any time, and a lookup may miss it. The directory outlives the process
(`README.md:352`), so a process starts with any entries of `Left`: they may come
from hosts that its own lists deny, or over more redirects than it would follow,
and changing lists does not delete them (`README.md:359`). `here` tells what this
process has fetched from what it inherited. The site of a request comes from its `Origin`
or, failing that, from its `Referer` header, while the cache key contains the
`Origin` header only: `site` and `header` of a request are therefore two fields.
An `Origin` header that does not parse counts as one more request without it.
URLs that differ in their scheme only share a key in the code; here they are one
URL. The upstream answers with anything; redirects lead anywhere.

### CachePolicy

One resource over its life. `entry[k]` is what the cache has for the request
variant `k`, `config` the cache section of the running process; `origin` is the
response the origin (or whatever server redirects lead to) has at present. Time is
`real`; the wall clock that `now_seconds` reads is `real - drift`, and `StepClock`
sets it back or right again. `word[k]` is a history variable: the last exchange
that stored or renewed the entry, with its headers, its time and the configuration
then in force. `Stored` is `begin_write`, `Confirmed` the 304 branch of
`proxy_handler` with `refresh`, `Restart` `initialize` with its cleanup, which drops
stale entries, incomplete ones and what max_size has no room for, `Evict` the loss
of an entry to other resources. An origin confirms by tag when it is asked by tag,
and otherwise any version dated no later than the date it is asked about. Requests are whole here; their interleaving is
`DiskCache`'s. Header values are data: `Cache-Control` is a sequence of lines of
directives, since the code reads only the first line and the first `max-age` in
it that is a number; `accept` stands for the headers of the key, of which only
the first line counts as well: no line and an empty one (`Blank`) are hashed alike;
`private` for credentials or `Range`. Dates that do
not parse are no dates.

### ResponseHeaders

A `HeaderMap` is a set of pairs of a name and a value, list members apart. The
target may answer with anything in `Answers`, at any URL after redirects; the disk
cache is one entry for each `Origin` header; `shared` is an HTTP cache between
proxy and browsers that follows `Vary`, as the comment on `add_vary_field` has it
in mind. `Fetch`, `Serve`, `Refuse` and `Preflight` are the ways a request is
answered; `Restart` brings other overrides over old entries. Values in `Opaque`
are not visible ASCII: they pass on a miss and are dropped in an entry.

### Startup

`stage` is where `main` is, `queue` the addresses still to bind, `server[l]` the
life of a listener: bound, polled (`running`), its `shutdown_signal` task
registered (`armed`), told (`notified`), no longer accepting (`closing`), drained
(`done`). `touched` and `lost`, `served` are history. A configuration file is a
record of the settings that `config.rs` treats in a way of its own; `typed` is
false for a file with an unknown key or a value of the wrong type. `MaxWord` is
`u64::MAX`. The load, `exists()` and the write of the template are separate steps
and the operator may edit between them. `Signal` kills the process before any
handler is registered, as the default action does, and reaches only handlers that
are registered by then. The cleanup of the cache directory inside `Build` is
`DiskCache`'s `Boot`.

`Create` may fail half way and leave a file of `Torn`, which the next start finds.

`CachePolicy` gives `Life`, `Storable`, `NoCache`, `ConfirmTtls` and `Keys` of
`DiskCache` their meaning, and `Plan` of `ProxyRequest`; `ResponseHeaders` refines
what `ProxyRequest` calls overrides. `DiskCache` and `ProxyRequest` meet at `lookup`, `refresh` and `finish`:
`ProxyRequest` abstracts from files and awaits inside the cache, `DiskCache` from
policy, limits and hops in front of it.

## Runs

| Run | Instance | Shows |
|---|---|---|
| `DiskCache_race` | 1 key, 2 requests, 2 versions of different length, `max_size` 2 that only one fits in, clock to 2 | `IndInv`, `AcceptedIsWhole`, `HitIsRecent` |
| `DiskCache_faults` | 1 key, 1 request, failing calls, disconnects, 2 crashes, result cap 1, all leftovers | `BodiesComplete`, `ImplementsStore`, `RequestsEnd`, `StartupEnds` |
| `DiskCache_limit` | 2 keys, 1 request, 3 responses, `max_size` 3, 1 crash | `LimitKept`, `OvershootBounded`, `ServedIsWhole`, `WritersCleanUp`, `CleanStart` |
| `BandwidthMeter_streams` | 1 bucket, 2 streams, 2 tiers, counters up to 4 | `IndInv`, `WindowsHonest`, `HardCap`, `SoftCap`, `LaterTiersCount` |
| `ProxyRequest_concurrent` | 2 requests, 2 tiers, whitelists, no redirects allowed, inherited entries of a denied host | `IndInv`, `CredentialsBypass`, `LabelsHonest`, `ChargedFirst` |
| `ProxyRequest_redirects` | 1 request at a time, 4 URLs, 2 redirects, 1 tier, blacklists, 3 kinds of site, inherited entries of a denied host | `EveryHopPermitted`, `CacheBehindPolicy`, `HopsBounded`, `RequestsEnd` |
| `CachePolicy_lives` | 1 resource, 4 answers, 7 kinds of requests, evictions, restarts, clock to 2, set back by 1 | `HitsWithinLife`, `HitsAllowed`, `LastRuleDecides`, `VariantKept`, `ConfirmedIsCurrent` |
| `ResponseHeaders_replies` | 1 target that redirects, requests of two origins and of none, overrides, refusals | `OriginHonoured`, `RepliesEndToEnd`, `ManagedHonest`, `HitLikeMiss` |
| `Startup_lives` | 12 files, 2 listeners and an address that does not parse, 2 requests per listener, 4-bit words | `ConfigSound`, `AllOrNothing`, `NoneCut`, `TemplateOnlyIfMissing`, `StartsOrFails`, `NotifiedEnds` |

Type correctness is part of `IndInv` where a run checks that; the type invariants
of the last three modules are theorems (`TypeCorrect`).

Why the bounds are enough to meet the interesting cases: two requests suffice for
every overlap of two operations on a key, and the invariants speak about one
request and the directory. Two versions are the old and the new response. A clock
up to 2 with lifetimes 1 and 2 has a fresh, a just expired and a revalidated
entry. In the `limit` run (metadata 1, bodies 1, 2 and 3, `max_size` 3) one entry
fits when its body is one of the first two, two never do, and the third is larger
than the whole cache, so evictions happen on commit and on the way to serving and
none may be spared; in the `race` run the longer body with its metadata is over
`max_size` 2, so that one request evicts what the other is looking at. In
`CachePolicy_lives` every source of a lifetime is the least
one in some answer, and the four kinds of validator (tag, date, both of the
client's) occur; in `Startup_lives` four-bit words make two factors overflow, and
there is a file for each check of `config.rs` and `state.rs`. Two
crashes allow one during the cleanup that follows the other. In the meter,
`Maxima` has one window narrower than a body and one as wide as the counter, so
refused charges and saturation both occur. `MaxTime`, `MaxCrashes`, `MaxPulled`
and `MaxSeen` are bounds of the models, not of the code; no proof uses a value
of theirs. Concurrent requests under redirects, and more of everything, are left
to the proofs, as are two requests with failing calls or more than one key. Symmetry is used over slots and streams, which are
interchangeable, and in runs without liveness only.

Deadlock is checked in every run.

### Where the documentation says otherwise

Three runs show a disagreement between the code and its documentation. Their
properties state the documentation.

| Run | Property | Documentation | What happens |
|---|---|---|---|
| `DiskCache_crash_mixes` | `ServedIsWhole` | `cache.rs:3-5`, `cache.rs:401`: incomplete commits are ignored on restart | a crash between the two renames leaves the new body under the old metadata; with equal lengths it is accepted |
| `CachePolicy_foreign_304` | `RevalidatedIsCurrent` | `README.md:365-367`: a 304 refreshes the metadata and serves the stored body | when the entry has no validator of the kind, the client's own is sent, and the 304 that vouches for the client's copy renews the older entry |
| `ProxyRequest_overrides` | `CachedOverrides` | `README.md:275-280`: overrides match the final URL, consumers of an entry all get theirs | a hit only matches the requested URL |

Each of the three holds where a theorem says so, and the conditions are the ones
the counterexamples violate:

- `WholeAnswers`: `ServedIsWhole`, for one request at a time and responses of
  different lengths, through crashes, failures and disconnects;
- `OwnValidatorsSuffice`: `RevalidatedIsCurrent`, when clients send no validators
  of their own or every response of the origin has an entity tag;
- `OverridesWithoutRedirects`: `CachedOverrides` of the entries this process has
  fetched (`FetchedOverrides`), when `max_redirects` is 0; an inherited entry may
  have come through redirects, and then it does not hold.

The modules have further behaviours that the documentation does not expect; they
have no run of their own:

- a 304 confirms an entry while another request replaces its body; the file is
  opened after that, so that the confirmed headers go out with the other body
  (`DiskCache`, two slots; `README.md:366`);
- the touch of a lookup writes the metadata of an entry back that an eviction
  has just removed, so that `LimitKept` fails with two requests (`README.md:347`);
- a forced revalidation answered by a response that may not be stored leaves the
  old, fresh entry in place (`README.md:394`);
- an entry larger than `max_size` is stored and can be hit until `evict` removes
  it (`README.md:348`: it is not stored); `OvershootBounded` says how far;
- a chunk that would take a window over its maximum is sent but not counted
  (`limit.rs:6`; `WindowsHonest` says how far the count can be off);
- a second `Cache-Control` line is not read, so its `no-store` has no effect, nor
  has one in a 304 (`README.md:362-364`; `CachePolicy`: `FirstLine`, `Refreshed`).
  `HitsAllowed` is about the first line of the answer that was stored;
- a 304 without `Cache-Control` and `Expires` gives the entry the full configured
  age, although the answer it renews had a shorter `max-age` (`README.md:362`,
  "`Cache-Control` and `Expires` are honored"; `Refreshed`). `HitsWithinLife`
  counts by the headers of the last exchange, bare as they may be;
- an entry keeps its lifetime when the configured age is lowered across a restart
  (`README.md:363`; `Restart`);
- a 304 for the client's copy, or of another host, makes an entry younger
  (`DiskCache`: `NotModified`); `HitIsRecent` counts such a renewal as one;
- a request without a header of the key and one with an empty value share an entry
  (`README.md:370`; `CacheKey`, `VariantKept`);
- entries that an earlier process fetched from a host that is denied by now, at
  first hand or through a redirect, are served as hits for a URL that is allowed
  (`ProxyRequest`: `Left`; `README.md:359` says it of the cache whitelist only).
  `CacheBehindPolicy` is about the requested URL, and about the source of what this
  process fetched;
- a target's own `X-Cache` passes through when the request is not eligible for
  the cache (`README.md:379-380` says that such a request receives none;
  `ManagedHonest` and the label NONE of `ProxyRequest` are about what the proxy
  adds), and headers the target names in `Connection` are left out of a miss but delivered with a hit (`ResponseHeaders`: `TargetReply`,
  `CacheHeaders`);
- a listener whose signal task registers after the signal misses it, and keeps
  the process until the next one (`Startup`: `Arm`, `Signal`; `main.rs:275`); a
  configuration written between `exists()` and the write of the template is lost
  (`README.md:127`: never overwritten; `TemplateOnlyIfMissing` makes that
  exception); the 429 is plain text among JSON errors.

`AcceptedIsWhole` covers more than one request at a time: when no two versions
have the same length, crashes and races never make a lookup accept a mixed entry.
What is opened after that may be another one.

## Fairness

`FairSpec` of `DiskCache` assumes weak fairness of `Boot` (sequential code before
serving: it goes on) and of `Handle(s)` for each slot: the runtime polls every
task, file operations return, and `reqwest` bounds each upstream exchange by
`proxy.timeout` (`src/state.rs:65`), so that an answer or a failure always comes.
A client that stops reading without closing its connection is not bounded by the
code; `Handle` includes delivery, and liveness is claimed for clients that read.
Nothing is assumed of the environment: not that the clock ticks, that windows of
the limiter start anew, that entries age, or that the process crashes or does not
(crashes are finite in a run, and a crash ends all requests). `ProxyRequest`
makes the same assumption about `Handle`.

`FairSpec` of `Startup` assumes that `main` goes on (`Begin`, `Exit`), that the
runtime polls each listener's tasks (`Arm`, `Close`, `Drain`) and that every
client takes its response or leaves (`Finish`): `with_graceful_shutdown` waits for
connections without a bound, so the end of the process is claimed under that
condition only. Nothing is assumed of signals, operators or new requests.

## Proofs

All are for any number of keys, slots, versions, URLs, tiers, buckets and
streams, any sizes, policies and bounds that satisfy the named assumptions of the
modules (`SetsAssumption`, `MarksAssumption`, `NumbersAssumption`,
`FiniteAssumption`, `MeterAssumption`, `RequestAssumption`, and those named below): the
constants have their types, the special values are not ordinary ones, no lifetime
exceeds the configured one, and a directory has finitely many keys. Every invariant
of the passing runs but `LaterTiersCount` is stated by a theorem.

**Folds.** Byte products, lists without their null entries, cache rules, header
overrides and the size of a directory are folds over sequences and sets, defined
with the community modules. The provers cannot instantiate an induction theorem
whose parameter is an operator. `SubsetInduction` in `FoldProofs` is one about a
*set* of subsets of a finite set, which follows from `WFMin`, and `FoldsAgree` and
`FoldExists` say that the equation of a fold has exactly one solution as a
function on subsets. `FoldsFromLeft`, `FoldsFromRight` and the lemmas on sums tie
the library's operators to it; a property of a fold is then shown along its
equation, one element at a time.

**DiskCache.** Neither `BodiesComplete` nor `AcceptedIsWhole` is inductive: they
speak of files and of answers, while the danger is in what requests in the middle
of something will still write. `IndInv` adds that to them. `DiskOK` says that
metadata on disk is of a response the origin gave, with its full length, an age no
younger than the last exchange about it and a lifetime within the configured one;
bodies on disk are complete. `TaskOK` says the same of the entry a request
carries, and, at the program points of the tee, that version and metadata agree
and that a body about to be renamed is complete. `ContactOK` keeps the history in
the past. Every action has a lemma; most change
one request (`SlotStepOK`, `LocalStepOK`), and what is said of the others survives
a growing `contact` (`HistoryGrows`, `TaskKept`).
From `Invariance` follow `CompleteBodies`, `WholeEntriesAccepted` (at the step
that accepts, both lengths equal `BodySize`, which is injective), `RecentHits`
(`created` is not later than the contact) and `Refinement`: under the mapping to
`ResponseStore` every action is `Give`, `Put`, `Lose`, `Answer`, `Close` or a
stutter. `NoLitter` has an invariant of its own: without failing calls and
disconnects only a crash leaves litter, and the sweep that precedes serving
removes it.

`DiskCacheLimitProofs` has three invariants on top of `IndInv`. `BootOK` relates
the running total of `cleanup_startup` to the files: every file is still to be
visited or is in the total exactly once (`Accounted`), so that `CleanStart` follows
for any number of keys. `LimitInv` does the same for `evict` and says at each
program point how much one request may have added to a directory within the limit
(`Calm`, `AloneOK`); `LimitKept` is what is left of it between requests,
`OvershootBounded` what is left during one. It needs one slot, because a lookup of
another request can write back what an eviction removed, and neither failing calls
nor disconnects, because an eviction that is abandoned or cannot remove a file
leaves it to the next commit or start. `ServedInv` says that an accepted entry
describes the body on disk until it is sent; it needs one slot, and `LengthsDiffer`
because the lookup compares lengths, but no restriction of failures.

**BandwidthMeter.** `IndInv` relates `used` of the guard to the bytes pulled,
and `sent` to `pulled` at every program point;
`WindowsHonest` is inductive beside it because a tier's charge is atomic and
history and window start anew in the same step. `LaterTiersCount` is only
model-checked: its invariant needs the sum of what all streams between two tiers
carry, window by window.

**ProxyRequest.** `RequestOK` says what a request may rely on at each point:
`paid` is the prefix of the tiers, `hops` is `MaxRedirects - left`, the URL to be
contacted next is permitted, and an entry in hand is covered by the plan. `CacheOK`
says that what this process fetched comes from allowed targets, which with the
requester's own permission gives `CacheBehindPolicy` although entries are shared
between sites; of inherited entries it says nothing, as nothing holds.
`OverridesWithoutRedirects` rests on `Direct`: without redirects the URL that is
contacted and the one a fetched entry came from are the requested one.

**CachePolicy.** `PolicyAssumption`, `ConfigsAssumption` (a
configuration is a list of rules with natural ages and a default age),
`ValidatorAssumption` (validators tell versions apart) and `EntryAssumption`. The
properties speak of requests, the invariant of entries: `IInv` says of each that
it is as its `word` makes it (`Founded`: the creation time is the clock at the last
exchange, the lifetime at most what its headers and the rules then in force allow),
that what stored it
was acceptable (`Accepted`), that its validators are its version's as long as only
they were used, or those of a later one than the origin went back to (`Owned`), and that its key is that of the request that stored it
(`Keyed`, where an absent and an empty header are one). `LifeKept` then compares two readings of a clock that may step.
`RuleAgeIsLast` shows that the fold over the rules ends with the age of the last
one that matches, which bounds the lifetime of what is stored and renewed:
`LastRuleAlwaysDecides` follows for any list of rules;
`AllOwn` says that every confirmation used the entry's own validators, which is all
`RevalidatedIsCurrent` lacks.

**ResponseHeaders.** `InitHonours` and `NextHonours` show that every reply, and
the one the shared cache holds, allows one origin only and names `Vary: Origin`
when that is the asking one; a replay keeps it because `Vary` holds the request to
the same origin. `TypeCorrect` says that an entry has no header its answer did not
have. `ConfigsAssumption` says that overrides are a list of rules. `OverrideApplies`
unfolds the policy rule by rule; `OverrideManaged` (rules that compile leave managed
and hop-by-hop headers alone) and `OverridePoint` (a pair of the result depends on that pair
only) are inductions over it. `AlwaysHonest` follows with `AlwaysCompiled`, as
the proxy does not start with a rule that does not compile, and `AlwaysLikeMiss`
with `EntriesAlwaysKept`. `AlwaysEndToEnd` needs both: an entry was cleaned when it
was stored, and the overrides of a later process bring nothing back.

**Startup.** `StartupAssumption` says that hosts are hosts, `FilesAssumption` that a file
holds numbers and lists as they can be written. `IInv` adds to
the properties that the bound and the queued addresses are those of the
configuration (`Bindings`), who may have requests in flight (`Requests`: nobody
whose listener is not open, closing or told) and what was seen before a write
(`Writing`). `AlwaysNoneCut` needs that a listener is done only without requests
and accepts none after. `AlwaysConfigSound` compares the parser with arithmetic:
`EvalExact` shows that the checked product from the left is the true product from
the right or no number at all (`ProductsAgree`), `ListedIs` that the list has the
entries that are not null in their order, and `Taken` that the configuration in
use is the one of the file that was read.

Only model-checked besides: liveness (`RequestsEnd` of `DiskCache` and `ProxyRequest`,
`StartupEnds`, `StartsOrFails`, `NotifiedEnds`), since proofs from fairness need
`ENABLED`, for which no installed prover has rules. What is proved is the part of
them that does not depend on fairness: `RequestsGetNearer` (of both modules) and
`StartsGetNearer` give every request and every start a number of steps left, of
which each of its steps takes at least one. A request of `ProxyRequest` has at most
`NumTiers + MaxRedirects + 3`, one of `DiskCache` three for each key and one for
each part of the longest body besides nine, a start two for each key and three.
They exclude a loop for any redirect graph, any directory and any failures; that a
request in the middle of its steps can always take one is what TLC checks. The violated forms of the three
documented properties above are counterexamples of TLC.

## Not modelled, and the plan

1. A composition of `ProxyRequest` with `DiskCache` in place of its abstract
   cache, and the refinement between them.
2. Two processes on one cache directory: the second one's cleanup runs before it
   fails to bind.
3. A run of its own for each further behaviour listed above.
4. A proof of `LaterTiersCount`.

Left out for good: the copy of the request headers for each hop
(`forward_headers`, a pure function of the client's request; the validators that are
added to it are `CachePolicy`'s `Sent`), compilation of patterns to regular expressions, URL parsing,
logging, the wording of errors, TLS and HTTP framing, the internals of
`axum_limit`, `reqwest` and `hyper`, and the unbounded growth of the map of
windows, for which the code states no bound to check.
