# fumox: specification and proofs

fumox aggregates proxy subscriptions: it fetches feeds, keeps their proxies in
SQLite, probes them, and serves processed subscriptions to clients. This
directory holds TLA+ models of it, from the concurrent core (lifecycle, cache,
refresh) to what surrounds it (parsers and formats, pipeline rules, the panel's
forms, settings and sessions, rate limits, outgoing connections), the TLC
configurations that check them on small instances, and TLAPS proofs for every
instance. Paths below are relative to the repository, `core` =
`crates/fumox-core/src`, `server` = `crates/fumox-server/src`, `probe` =
`crates/fumox-probe/src`.

Contents: 1 the system, 2 the modules, 3 the runs, 4 fairness, 5 the proofs,
6 where code and documentation disagree, 7 what is left out, 8 the plan.

## 1. The system

Two processes share one SQLite database (WAL, one writer at a time, busy
timeout): `fumox-server` (tokio, many tasks) and `fumox-probe` (one cycle at a
time, many checks inside a lane). They never talk to each other except through
rows, and both read `app.toml` when they start. Inside the server, tasks share
in-memory maps behind `tokio::sync::Mutex`.

| component | state it keeps | operations | interacts through |
|---|---|---|---|
| Proxy store (`core/repo/proxies.rs`, `probe.rs`) | `proxies`, `proxy_source_links`, `probe_requests`, `probe_results` | one SQL statement or transaction each: reconcile, verdicts, resets, revivals, cleanups, purges, selectors | every other component calls it |
| Probe daemon (`probe/main.rs`, `t1.rs`) | checks in flight, claimed ids of a cycle | six steps of `run_cycle`, verdict of each check | proxy store; meow-rs engine |
| Tunnel engine client (`probe/meow.rs`, `clash.rs`) | backoff clock, batch guard counters | push config, delay checks, backoff | outcome `engine` of a check |
| Ingest (`server/ingest.rs`) | task-local payload, `now` | fetch, parse, drop, reconcile, revive, enqueue, journal, stamp | proxy store, source rows, cache |
| Source scheduler (`server/scheduler.rs`) | in-flight set, semaphore, sweeping flag | sweep, due test, Refresh now, spawn | spawns ingests |
| Fetcher and address gate (`server/fetcher.rs`, `core/ssrf.rs`) | none across fetches | vet, pin, request, redirect, retry | outcome of an ingest; the probe vets with the same gate |
| Cache and serving (`server/cache.rs`, `serve.rs`) | entries, generations, inline claims, revalidation marks | get, claim, guarded put, invalidate | reads proxy store, profiles, sources |
| Pipeline (`server/pipeline.rs`) | none (pure) | validate, compile, merge, filter, drop, rename, dedup, sort, limit | between store and output, and at ingest |
| Parsers, formats, fingerprints (`core/parsers`, `formats`, `fingerprint.rs`) | none (pure) | text to record and back | ingest, serving, T1 and T2 checks |
| Panel forms, import, export (`server/admin/handlers/*`) | the `sources` and `profiles` rows | create, update, toggle, delete, mask and restore secrets, export, import | write rows, then invalidate |
| Pipeline editor (`server/admin/pipeline_editor.rs`) | the page in front of the operator | document to form and back, mode switches | a source's or profile's stored document |
| Settings (`core/config.rs`, `config_writer.rs`, `admin/handlers/settings.rs`) | `app.toml`, `live_config` | render, apply, save, reload | options of both processes |
| Access (`server/security.rs`, `admin/auth.rs`, `admin/mod.rs`, `host_gate.rs`) | attempt windows, warn registries, session epoch | count, refund, login, logout, verify | in front of every route |
| Alive export (`server/alive_export.rs`) | entries and claims of the same cache | token, gates, render the live pool | cache |
| Geo (`core/geo.rs`, `server/geo_backfill.rs`, `geo_download.rs`) | database files, reader, backfill cursor | lookup, backfill, download | geo columns of proxies |
| Event bus and statistics (`server/events.rs`) | broadcast channel | publish, render | presentation only |

What is hard, and the properties that answer it:

- **Late verdicts.** A check writes its verdict seconds after its lane selected
  the row; ingest or the operator may have removed, purged, reset or revived
  the row since. (`ColumnsAgree`, `StepsAreLawful`, `NoRowFrozen`)
- **Overlapping lanes.** Five lanes draw from overlapping populations with four
  predicates over status, scheme, tunnel block and links. A gap strands rows,
  an overlap charges them twice. (`ColumnsAgree`, `ChargedOncePerCycle`,
  `T1ReachesEveryone`, `T2ReachesWhatT1Skips`)
- **Two writes where one would be simple.** Journal and verdict; insert and
  enqueue; source delete and orphan sweep; reconcile and stamp; commit and
  invalidate; import row by row; save and swap of the live settings. Crashes,
  busy errors and other actors fall in between. (`FailuresAreConsecutive`,
  `IngestsDoNotMix`, `SupersededIsNotKept`, `BackupsWork`,
  `SettingsAreSafeToSave`)
- **Single flight with guards that are dropped.** Inline claims, revalidation
  marks and in-flight marks are released by `Drop` with `try_lock` or a spawned
  task; leaders fail, panic, time out or lose their client. (`FlightsAreLed`,
  `ClaimsAreReleased`, `RequestsAreAnswered`, `LinkServesFreshRows`,
  `MarksAreReleased`)
- **Stale snapshots.** A render, an ingest, a save and a form all work from what
  they read before an await or a click. (`SupersededIsNotKept`,
  `StampCoversQuietEdits`, `EditsAreFetched`, `SecretsSurviveEditing`,
  `LoggedOutStaysOut`)
- **Six translations that must agree.** Three parsers, three writers, the
  fingerprint and the two checks read one proxy, each in its own vocabulary;
  the drop rules run on what ingest parsed and again on what serving loads.
  (`RepublishingKeepsTheProxy`, `RowsAreCheckedAsTheyAre`,
  `IngestAgreesWithServing`, `SubscriptionMatchesMembers`)
- **Forms that show less than they edit.** The editor and the settings page
  render a document, take a post and write a document back.
  (`EditorKeepsMeaning`, `SettingsAreSafeToSave`)
- **A hostile outside.** Names resolve differently from one call to the next,
  servers redirect, the engine dies, windows expire under requests in flight.
  (`OnlyVettedAreDialled`, `DownloadKeepsToItsSource`, `BatchIsAccountedFor`,
  `LimitsAreFair`, `InstalledIsVerified`, `FactsAreCollected`)

## 2. The modules

The core, each with its own specification and proofs:

| module | models | EXTENDS |
|---|---|---|
| `ProxyRow` | one `proxies` row; every statement that writes a lifecycle column, as a function from row to row | |
| `ProxyLifecycle` | the four tables under probe daemon, ingest and operator | `ProxyRow` |
| `ProxyStatus` | abstract: the status diagram of `USERGUIDE.md`, with an owner for each arrow | |
| `ProbeHistory` | history variables over `ProxyLifecycle` | `ProxyLifecycle` |
| `RenderCache` | the processed cache under requests, background renders, saves and ingests | |
| `SourceRefresh` | scheduler, ingests, source rows and admin saves | |

What surrounds it, composed by the MC module named:

| module | models | composed in |
|---|---|---|
| `PipelineRules` | validation, compilation, merge and every step of the pipeline, as operators | `Subscription`, `PipelineEditor` |
| `Subscription` | ingest with drop rules and geo stamps, then `render_sub` over the stored rows | `MCEntries` |
| `ProxyEntry` | per parameter: parsers, writers, fingerprint, T1 kind, T2 tunnel, as operators | `Republish` |
| `Republish` | one proxy travelling through panels that feed on each other | `MCEntries` |
| `Payload` | detection and decoding of a document, Xray endpoints, numbering of names | `MCEntries` |
| `PanelStore` | source and profile rows, masks, and the backup file, as operators | `Panel` |
| `Panel` | two operators on forms, toggles, deletes and imports, write by write | `MCPanel` |
| `PipelineEditor` | the pipeline widget: builder or raw, rebuilt on every request | `MCPanel` |
| `Settings` | registry of fields, loader of both binaries, locked rewrite, live view, two tabs, crashes | `MCPanel`, `MCSettings` |
| `AccessRules` | client address, window, warn registry, host gate, origin test, as operators | the next five |
| `PublicGate`, `WarnLog` | the public listener's two windows with refunds; the hourly warn registries | `MCEdge` |
| `AdminLimiter`, `AdminSession` | the panel's outer layers; cookies over key and epoch | `MCEdge` |
| `AliveExport` | capability link, gates, single flight with a deadline | `MCEdge` |
| `Positions` | the members of a set of positions in order, a list's entries at them; tables of one key laid over one another | `HostGate`, `GeoFacts`, `PipelineRules`, `PanelStore`, `ProxyEntry` |
| `HostGate` | `ssrf.rs`: address classes, pick, cap, `vet_host`, as operators | the next three |
| `Fetcher` | a download: form gate, hops with their own lookup, retries | `MCEdge` |
| `EngineBatch` | the two tunnel lanes against an engine that dies and comes back | `MCEdge` |
| `TargetDial` | one reachability check over several addresses | `MCEdge` |
| `GeoFacts`, `GeoDownload` | overlapping backfill passes; overlapping, killed downloads | `MCEdge` |

`MCProxyLifecycle` and `MCProbeHistory` give the scheme classes of the model's
rows; `MCEntries`, `MCPanel` and `MCEdge` put components that share no state
into one run: their `part` chooses the one that moves, the others keep an
initial state, so a run explores the union of its parts and not their product.
`ProxyLifecycleProofs` (the lifecycle and its history), `RenderCacheProofs`,
`SourceRefreshProofs`, `EdgeProofs` (what comes in and what goes out across the
border, and the border as a whole), `ServingProofs` (from feed to subscription),
`EntriesProofs` (documents, republishing, and `MCEntries` as a whole) and
`PanelProofs` (forms, imports, backups, the pipeline editor and the settings)
hold the theorems, `PositionsProofs` the lemmas about lists that the last four
share.
Operators carry the name of the function or statement they translate
(`check_failed`, `reconcile_source`, `processed_put_guarded`,
`verify_session`); PROJECT.json's `map` gives the lines. Definitions whose
name extends another's (`check_engine_unavailable_unguarded`) are mutated forms
used to show that a property can fail; nothing refers to them.

**ProxyRow / ProxyLifecycle.** `row[p]` has the lifecycle columns of proxy `p`.
A nullable timestamp is `"null"` or `"set"`, except `ladder_at`, compared with
the clock and therefore `"null"`, `"later"` or `"due"`. Schemes are reduced to
the four classes the lanes tell apart. `links`, `requests` and `journal` are
the other tables, `journal` keeping what `last_failed_kind` and the
never-probed test read. A cycle is `lane` moving through `ladder_t2`, `ladder`,
`queue`, `t1`, `t2`; each lane starts with its selection (`probe_*` actions)
and ends when `inflight` is drained. `Conclude` is the check's end with its
journal transaction, `Judge` the verdict transaction, which applies the
`ProxyRow` statement for the check's lane and outcome. `handoff` holds ids the
server has inserted or revived and not yet offered to the queue, `orphanSweep`
the second statement of `source_delete`. A crash of either process
(`CycleLost`, `ServerLost`) loses exactly this in-memory state, and
`LoseVerdict` and the `stored`/`found` choices of `Conclude` are the failed
writes and reads the code logs and survives. Which rows a lane picks among the
eligible ones (shuffle, newest request, oldest check) is left open: `Draws`
is any set of the size the quota gives.

**ProxyStatus.** Only the status of each row. `ProbeVerdict` moves one row along
the diagram, `Feed` inserts and retires, `Operator` restarts, removes and
purges. `ProxyLifecycle` implements it under `status <- row[p].status`
(`ImplementsDiagram`).

**RenderCache.** One cache key, the subscription of one profile. A rendering is
what it has read: the versions of the profile, of each source's settings and of
each source's rows. The generation of the key is compared with one remembered
value only, so each render has a flag `live` that a bump clears. A request
(`resolve_token`, `processed_get`, `try_start_revalidate`,
`member_source_ids`, `begin_inline_render`, `WokenGet`, `StopWaiting`), a
render (`get_sources`, `get_many`, `list_with_source`,
`processed_put_guarded`, `processed_invalidate`, `Release`) and a change
(`profile_update`, `source_toggle`, `ingest`, then
`invalidate_processed_for_source`, `bump_generation`, `processed_remove`) are
each cut at their await points. `announced` and `covered` are history: the
versions whose invalidation has returned, and those whose invalidation bumped
the key.

**SourceRefresh.** Source rows as an admin save and an ingest see them: the
version of the fetch settings, `enabled`, `last_fetched_at` (`stamp`),
`error_class` (`failed`), `updated_at`. Times are ages that grow together and
stop at the longest interval the code compares with, so that nothing
distinguishable is lost. A sweep lists all enabled rows, then consults the
journal row by row, then spawns; Refresh now reads the row and spawns; a task
marks the source, waits for a permit, fetches with the row it was given,
reconciles, journals, stamps, drops its guards. A save reads the row
(`build_source_from_form`, `source_toggle`), lets `update` compare it with the
stored one (`update_reads`), and writes every column back (`update_writes`).
`overlapped` is history: the last save of the source met other work on it.

The three parts meet at ingest: `ProxyLifecycle!ingest_source` is what
`SourceRefresh!Reconciles` does to the proxies, and `RenderCache!ingest` is its
commit followed by the invalidation.

**PipelineRules / Subscription.** A JSON document is a record with the fields
it has, an optional value `None` or `Some(v)`; a pattern stands for the set of
values it matches (`Hits`), a collation for the order of texts. `from_json`,
`validate`, `merge_configs`, `apply_per_source` and the rest translate
`pipeline.rs`. `Subscription` saves documents through the forms, ingests feeds
(`ingest_source`: drop rules, geo stamps in the parallel list, reconcile by
fingerprint), and its rendering `render_sub` is an operator of the state.

**ProxyEntry / Republish / Payload.** A parameter is a key with a value, a
structured block (`ws-opts`, `reality-opts`) one key per field. The operators
say which key each parser reads into which, which key each writer writes from
which, and what the fingerprint and the two checks of the probe read. A written
document is a table of its keys, laid over one another (`++`) as the code
inserts them. `Republish` sends one entry through `via_uri`, `via_clash`,
`via_singbox` hop by hop; `Spelled` says which entries a feed can be read into
that does not contradict itself. In `Payload` a document is the list of its
lines, each of a kind: what `detect_format` and `decode_payload` look at (an
opening brace or bracket, a line that begins with `proxies:`, a `://`) is read
off the lines, and so is what the parsers accept (`IsClash`, `IsJson`), so a
document can be sniffed as something it is not. It also lists the endpoints of
an Xray document, good and broken, and numbers names.

**PanelStore / Panel.** A database is a record of tables and the next id; the
repositories are operators on it. A job of an operator (`work`) is the form on
the screen, a validated request that has still to write, an export or an import
on its way. Each database write is a step, and so is each query of an export
(the sources, the profiles, one composition after the other), so two operators
interleave between them; an export remembers which rows others `touched`.
A header value or token is a pair of prefix and secret, a mask keeps the prefix.

**PipelineEditor.** `fields`, `text` and `mode` are what the browser posts;
every action is one request, which rebuilds the page (`to_raw`, `to_builder`,
`pipeline_rows`, `pipeline_preset`) or saves. `meant` is history: what the
administrator last typed or saw previewed.

**Settings.** `app_toml` is absent, torn, or a whole document over the
registered keys; `env` the overrides. A value keeps its type and the boundary
it is near; a posted number may be padded with blanks (`Spaced`).
`settings_update` parses and applies the form under the editor lock, `save`
replaces the file (a rename, which may be refused each time; then
`direct_write` over it), the epoch, reload and swap follow outside the lock;
`Crash` and `Start` fall between any two of them, `Start` runs the loader of
both binaries (`load`).

**AccessRules and its users.** `AccessRules` has `client_key` (walk of the
forwarded headers), the fixed window with its refund, the warn registry, the
Host test and the cross-site test as operators. `PublicGate` cuts a request
into the half before and the half after its handler; `AdminLimiter` follows the
order of the router's layers; `AdminSession` steps from the epoch read to the
verification to the handler, with a rotation cut at file, epoch and live swap;
`AliveExport` cuts `cached_render` at its awaits.

**HostGate and its users.** An address is its written form (v4, mapped, NAT64,
Teredo, ...) and the range it leads to. `vet_resolved_addrs`, `pick_vetted`,
`cap_vetted` and `family_matches` translate `ssrf.rs` and `vet_host`; whatever
filters or cuts a list is written as the positions it keeps (`Positions`:
`Firsts`, `Entries`), so that lists of every length can be reasoned about.
`LeadsOut` says where the policy lets a connection go. `Fetcher` asks
for a name anew at the form, at every hop and every retry, and each answer is a
free choice. `EngineBatch` has lane, tasks with permits and retries, the batch
guard's counter and flag, and the backoff. `TargetDial` dials the short list in
order.

**GeoFacts / GeoDownload.** A row's geo columns are the set of facts it has, so
`COALESCE` is union. A pass has a cursor, a page, a budget and the stamps it
will write; ingest, the card's refresh and deletions run beside it. A download
is a file going from check to rename, a database file its declared type,
wholeness and age.

The parts meet at ingest: `ProxyLifecycle!ingest_source` is what
`SourceRefresh!Reconciles` does to the proxies, `Subscription!ingest_source`
says which proxies those are, `RenderCache!ingest` is its commit followed by
the invalidation, and `Fetcher` decides whether there is anything to ingest.
`EngineBatch` decides which outcome `ProxyLifecycle!Conclude` has.

## 3. The runs

Safety runs fix no order between actors; a fault is one crash, panic, lost
write or failed read.

| run | question | bounds | result |
|---|---|---|---|
| `lifecycle` | do the columns stay consistent, are failures charged once per cycle and in order, is every step an arrow of the diagram? | 1 row checked by both tiers, 2 sources, 1 fault | holds |
| `lifecycle_schemes` | is every step lawful where tunnel checks alone decide, on the tunnel ladder, with drop_gate off and two rows competing for a quota of one? | 2 rows (hysteria2; tuic/mieru), 2 rungs, 1 fault | holds |
| `lifecycle_live` | does quarantine end, do T1 and T2 keep coming back? | 1 row, 1 source, 1 fault | holds |
| `lifecycle_frozen` | is a row awaiting its first verdict always in a lane? | no fault | violated, 6.1 |
| `cache_safe` | does the guarded put keep superseded renderings? | 1 returning client, background render, 2 concurrent changes | holds |
| `cache_live` | one render at a time, everybody answered, claims released? | 2 clients, failures, panics, disconnects, eviction, 1 change | holds |
| `refresh` | one ingest per source; does a stamp stand for the stored settings? | 1 source, sweep, 1 Refresh now, 1 editor, 1 edit, 1 fault, all intervals 0 | holds |
| `refresh_live` | is an enabled source asked again and again under its settings; do marks come free? | 1 source, sweep, 1 editor, 1 edit, 1 fault | holds |
| `edge` | are windows fair, do revoked sessions stay out, are export links fresh, does every connection go where the gate let it, are batches, facts and downloads whole? | 2 requests in flight per listener, 1 restart or failed epoch read, 1 redirect, 1 retry, 4 rows in 2 tunnel lanes with 2 outages, 2 geo passes over 3 rows, 2 processes with 3 starts | holds |
| `entries` | does a proxy survive parsing, storing, filtering and every other panel's format? | 2 sources, 4 entries on 3 hosts, 3 to 4 documents per form; every combination of the parameters the formats disagree about, through 3 hops; 5 names; Xray outbounds of 2 endpoints; lists, Clash and JSON documents of up to 6 lines, plain and wrapped | holds |
| `panel` | do forms, imports and settings keep what they cannot show? | 2 operators with 3 jobs, 6 stored and 6 typed documents with 2 edits, 2 tabs over every field with 1 crash, renames that work and renames that are refused | holds |
| `settings_boot` | does a saved configuration start? | 2 tabs, one empties the endpoint list | violated, 6.2 |

The properties of the composed runs, and what each combines:

- `LimitsAreFair`: a request is counted for its sender or the proxy in front of
  it, whatever headers it carries (`NeverAThirdParty`); a late refund never
  leaves a hit nobody made or lets more through than a window's budget
  (`NoPhantomHits`, `WindowBudget`); foreign pages spend nothing
  (`OwnHitsOnly`); a silenced warning is earned and remembered
  (`SilenceIsEarned`).
- `LoggedOutStaysOut`, `LinkServesFreshRows`: sessions and export links, across
  rotations, restarts, failing leaders and the deadline of waiters.
- `OnlyVettedAreDialled`, `DownloadKeepsToItsSource`: the address gate as its
  three callers use it, under changing DNS answers; headers stay with their
  origin, requests stay bounded.
- `BatchIsAccountedFor`: every row of a batch is journaled exactly once, an
  outage charges nobody, one backoff per lane.
- `FactsAreCollected`, `InstalledIsVerified`: geo facts never vanish and are
  asked for once per pass; only verified files are installed.
- `SubscriptionMatchesMembers`, `IngestAgreesWithServing`: the served output is
  what a reference definition selects from the members; what ingest links is
  what serving delivers under the same drop rules.
- `RepublishingKeepsTheProxy`, `RowsAreCheckedAsTheyAre`: node, verification
  and REALITY survive every hop; one fingerprint stands for one node; T1 and T2
  check the node a client connects to.
- `DocumentsSurviveTheirFormat`: a document is read as what it is and a list to
  its last link (`DocumentsAreRecognised`; without a pinned format but for the
  `Ambiguous` ones, section 6), distinct names, junk that costs only itself.
- `SecretsSurviveEditing`, `EditorKeepsMeaning`: the panel's forms.
- `BackupsWork`: a backup taken while others write has every row none of them
  touched, a profile with all its members (`UntouchedIsInBackup`); one nobody
  wrote beside restores everything (`BackupRestores`); an import stops only for
  what others did (`ImportStopsForOthersOnly`).
- `SettingsAreSafeToSave`: an untouched form changes nothing, saves exclude each
  other, and a save leaves a file that loads, in place by rename or about to be
  written over it when the rename was refused.

Why the bounds are enough. Rows of the lifecycle interact only through quotas
and through a cycle's order; every verdict and every operator statement is per
row. One row and two sources therefore show every race on a row, and
`lifecycle_schemes` adds the competition for a quota. `FailLimit = 2` and one
recheck delay are the shipped defaults of `config/app.toml` and are the
smallest values where "below the limit" and "not the last rung" differ from
their opposites; `lifecycle_schemes` walks two rungs. In `RenderCache` two
changers and two changes let one invalidation overlap another, a render and an
undo; two clients are a leader and a waiter. In `SourceRefresh` a TTL and a
backoff of one second separate fresh, expired and backing off; one edit gives
two versions, an older one being posted again included
(`build_source_from_form`). With a single source the permit limit never makes
a task wait for another, so contention for permits is proved about, not run.
The safety run `refresh` sets every interval to 0: its invariants read no time,
and a source that is due whenever a sweep asks meets every other actor more
often than one that is not. The due test, the backoff and the ages matter to
liveness and are at 1 in `refresh_live`.

In `edge` each limit is the smallest with a case on both sides: a window of 1
inside one of 2, two requests so that one refund can meet the other's window,
four rows for an abort threshold of two, two of them sharing a host, lists of
addresses longer than the short list of two, three starts of two processes so
that one meets the other's temporary file. In `entries` the parameters are
crossed with each other where a writer or the fingerprint reads them together,
and three hops take every format after every other, there and back. In `panel`
one operator's write can fall between any two of the other's; `t2` of the
settings posts its form as rendered while `t1` changes any field of the
registry, numbers padded or not, an untouched post being the most one can lose;
only the endpoint list and padded ends of the backoff are kept out, for what
section 6 says of them. A rename may succeed or be refused at every save. The
proofs of section 5 cover all sizes of what they are about.

Deadlock: the lifecycle and `cache_safe` never stop. `cache_live` lets clients
ask once and then everything is done; the `refresh` runs disable the check
because `Tick` is always enabled and it would say nothing; the composed runs
end when the jobs, starts and lanes of their bounds are used up.

Every property of a passing run is shown to depend on the code: for each one a
mutated definition of the model (a dropped guard, an off-by-one, a missing
release, a swapped order), named beside the original, makes TLC violate it; a
combined property has one for each thing it combines where the mutated
definition is the model's.

## 4. Fairness

- `ProxyLifecycle`: the ticker of `run` never stops (weak fairness of the
  cycle's steps), every check has timeouts (of its conclusion and verdict
  together; a verdict may be lost, so only the end is promised), the clock
  reaches each `ladder_at`. Nothing is assumed of operator, feeds or faults.
- `RenderCache`: renders run under `WAIT_FOR_LEADER` or the pool's acquire and
  busy timeouts, spawned removals are polled by the runtime. Clients leaving,
  failures and changes are not fair.
- `SourceRefresh`: the loop's `select!` and spawned tasks are polled, fetches
  have deadlines. `IngestStarts` is strongly fair because tokio's semaphore is
  first-in first-out. `Tick` is weakly fair: time passes.

`lifecycle_live` sets `EngineBacksOff = FALSE`: while the engine is down for
good no tunnel check ever happens, and the code promises none.

The composed runs `edge`, `entries` and `panel` check safety only and assume no
fairness.

## 5. The proofs

All theorems hold for every number of rows, sources, clients, changers and
editors and every value of the limits, from the constants' assumptions alone
(for instance `FailLimit \in Nat \ {0}`). They rest on no unproved statement.

**Lifecycle** (`ProxyLifecycleProofs`). `IInv == TypeOK /\ RowsOK /\ LinksOK`.
None of the safety invariants is inductive alone: that a late verdict is
harmless depends on which check can be in flight for a row in a given status.
`RowsOK` joins a row's columns with its check (the schedule matches the status,
a ladder check carries the row's step and belongs to the scheme's own ladder, a
`ready` row has a tunnel scheme and no block, a block and a tunnel check occur
for tunnel schemes only, nothing is out for an unprobeable row), and `LinksOK` says
that only existing rows are linked. One lemma per statement of `ProxyRow` shows
that it keeps a row in order whatever check is out; one lemma per group of
actions lifts it to all rows. `Invariant` yields the type invariant,
`SchedulesMatch`, `ReadyIsVerified`, `LadderCheckCurrent` and
`JudgedRowsStayInALane`; the action properties `RemovedIsTerminalForTheProbe`,
`LadderWalk`, `OutageIsNotCharged` and `OnlyLateVerdictsFreeze` follow from it
step by step.

**Refinement** (`ProxyLifecycleProofs`). `LifecycleImplementsDiagram`: every step
of the lifecycle is a `ProbeVerdict`, `Feed` or `Operator` step of the diagram
or changes no status; the invariant is needed for verdicts (a tunnel verdict
of a quarantined row can only come from the tunnel ladder).
`FeedsOwnNoLifecycle`: server-side steps insert or retire, nothing else.

**Cache** (`RenderCacheProofs`), in three layers. `FlightOK`: the claim and the
revalidation mark name exactly the tasks that render, and waiters have a claim
(`SingleFlight`, `WaitersHaveALeader`). `DataOK`: types, with every version
bounded by the commits made. `CoverOK`: committed versions never run behind
covered ones; a render that still holds its generation has read past every
completed bump; a fresh entry covers every completed bump unless a render is
about to undo it. From these `SupersededIsNotKept`, the reason for the check,
insert, recheck order of `processed_put_guarded`.

**Source refresh** (`SourceRefreshProofs`). `TypeInvariant`. `IngestsAreGuarded`
proves `OneIngestPerSource` and `StampDescribesRows` together: the second needs
that nobody else reconciles the source between reconcile and journal.
`QuietEditsResetTheStamp` strengthens `StampCoversQuietEdits` to: unless the
last save overlapped, every copy of a row held by a sweep, a task or an editor
carries the stored settings.

**Probe history** (`ProxyLifecycleProofs`). `HistoryInvariant` ties the history
variables to the lifecycle's: what a cycle has charged a row limits the checks
that can still be out for it in this cycle and the lanes that may still draw
it. From it `ChargedAtMostOnce` (no cycle charges a row twice) and
`CountersAreConsecutive` (unless a write was lost, the fail counter holds only
failures since the last success). Every step of `ProbeHistory` is a step of
`ProxyLifecycle`, so the lifecycle's invariant is used, not proved again.

**Frozen rows** (`ProxyLifecycleProofs`, `RowsFreezeByLateVerdictsOnly`).
`NoRowFrozen` fails (6.1), and the theorem says by which step only, for rows of
every scheme: a waiting row gets its T2 block from a failed tunnel check whose
verdict finds it waiting. Every other way to `unknown` (insert, reset, the
revivals) clears the block, no connect check and no ladder failure sets it, and
no cleanup or retirement leaves a row waiting. `BlockStep` goes through
everything that can happen to a row (`HowARowChanges`).

**Requests** (`EdgeProofs`), one inductive invariant per part.

- `PublicInv` ties each counter of a window to three history counts of the
  same window: what came in, what was let through, what was given back. One
  tick clears them together, a refund never reopens a window, and so nobody is
  let through more than `AllLimit` times plus the refunds. That a request is
  counted for its sender needs what `walk` returns for a header of every
  length: the last entry no trusted proxy wrote (`WalkEndsAtClient`).
- `LimiterInv`: a counter of the admin side holds at most what the browser asked
  for itself; only a followed link of another site counts.
- `LogInv`: keys are suppressed only while `MaxWarns` warnings are used up, the
  totals are those of the window, and trimming keeps the registry within
  `MaxTracked` (`TrimmedFits`).
- `SessionsOK` is about epochs: a cookie in a browser or in a request, and a
  login about to mint one, carries an epoch no newer than the stored one, and an
  older one once it is revoked; what `require_auth` reads comes after the
  request brought its cookie. Bumping the epoch re-establishes it for all of
  them at once, which is why logout needs no list of sessions. `RevokedStaysOut`
  follows: `verify_session` wants equal epochs.
- `ExportInv`: while a body is fresh, its age and what is left of its window add
  up to the window, so a fresh entry is younger than it; the one holder of a
  claim is at work on it, and a claim's end wakes every waiter
  (`LinksServeFreshRows`).

**Lists** (`PositionsProofs`). Members of a finite set of naturals are ranked
without gaps, `Ascending` lists them, the first `n` reach as far as the last of
them. A strict total order on a finite set ranks its members 0, 1, 2 ... without
gaps either (`OrderRanks`). A loop over a list has a run that keeps its
accumulator in a set (`RunExists`), and what holds at its start and is kept by
each turn holds at its end (`SetInduction`): with these a recursive definition
over a list of any length is reasoned about although the library's induction
theorems are out of reach. All rests on the library's least-member and
cardinality theorems.

**Connections** (`EdgeProofs`), after lemmas about `HostGate`: what
`vet_host` pins has the family asked for and was let out, `Distinct` and
`cap_vetted` keep the first address of each family, and a list that is not empty
does not become so.

- `DialInv`: the addresses tried so far took no connection, and the short list
  still has the first of each family (`DialsCoverFamilies`).
- `FetchInv`: requests are bounded by finished tries times hops plus the hops of
  this one; a pinned address was let out under the frozen switch; while form
  and fetcher agree, the answer the source was saved with is one the fetcher
  accepts (`DownloadsKeepToTheirSource`).
- `EngineInv`: a row's journal count follows its task and its lane, a lane backs
  off only after its guard gave up, the guard has counted no more failures than
  rows that ended, and every host of a lane has its pin, so no tunnel is left to
  the engine's own lookup (`BatchesAreAccountedFor`).
- `GeoInv`: what a pass has asked for lies behind its cursor or on its page, and
  what it owes and has not asked for lies ahead of both, whoever stamps, inserts
  or removes rows meanwhile. `FactsAreKept` gives both halves of
  `FactsAreCollected`: rows only gain facts, and no row is asked for twice or
  left out.
- `DownloadInv`: a temporary file has one writer, so what `Verify` found in it is
  what `Rename` moves (`OnlyVerifiedInstalled`).

**The border.** `MCEdge` moves one part at a time. Each of its steps is a step of
every part or leaves that part alone (`RequestParts`, `ConnectionParts`), so the
parts' invariants hold beside one another (`RequestInvariant`,
`ConnectionInvariant`) and give, for every value of the constants,
`HonestLimits`, `VettedConnections` and the type invariant of the whole
(`BorderTypes`). The assumptions they use are on the constants' modules: limits
and windows are positive, the trusted proxy is no client, lookups answer lists
of addresses, a first geo table has its ids in order, the short list has room
for two families.

**Serving** (`ServingProofs`). `ServeInv` says that no fingerprint has two rows,
that every row's stamp is what the database says of that row's own host (and
nothing while the resolver is inactive), that links name rows, and that what the
forms saved validates. An ingest keeps it upsert by upsert (`StoredKeeps`, a loop
over a feed of any length), which needs that entries and stamps leave a drop
together (`DropKeepsPairs`): the index shift the property is about.

- `IngestServesAlike`: a row that no drop rule hits under its host's facts is
  delivered whether its stamp was stored or is asked for again
  (`UnhitIsDelivered`), and what an ingest links is such a row.
- `SubscriptionMatches`, the answers of `/sub` and `/src`, from what each step
  makes of a list: deduplication keeps the first of every fingerprint
  (`DedupKeepsFirsts`), sorting permutes and leaves nobody before one who
  outranks them, also turned round (`SortedByOrders`), a cap keeps a beginning
  (`TruncatedIsBeginning`), and contributions stand one after the other by place
  (`ConcatenatedOffers`), so the survivors are the earliest members' versions and
  no others (`DedupKeepsWinners`). What is sorted and cut by is a section of some
  posted document, whichever way documents were merged or finalized
  (`MergedIsAssembled`, `FinalizedIsAssembled`), and validation makes it usable
  (`AcceptedPipesAreOK`).

The assumptions are those of serde and of the tables: feeds are lists of parsed
entries, every text has a rank in the collation, a cap is a natural number or
null, a rename rule rewrites to a text, and a database answers at most one record
per host.

**Documents** (`EntriesProofs`). `NamesInv` says that names differ and that a
counter of `dedupe_names` has passed only numbers that were taken. A counter
that starts behind the taken numbers would still find a free one: the numbers up
to the length of the list plus two cannot all be taken (a pigeonhole on the names
written so far, `NumberedIsFree`). So no two names of a document are equal, for
lists and names of every length (`DocumentsSurvive`, with broken endpoints and
detection). Detection is about documents of any number of lines of the kinds of
`LineKinds`: what opens a JSON document is no list's first line, a Clash document
has its `proxies` line, a list that is not `Ambiguous` has neither, and wrapped
text with a link or a document's opening is unwrapped.

**Republishing** (`EntriesProofs`). Two strengths of hypothesis, and the theorems
keep them apart.

- `ChainsKeepVerification` is about any entry: whatever its parameters say and
  in whichever dialect, no chain of panels turns certificate verification off.
  Every writer spells the toggle it read, and only that one (`UriToggle`,
  `ClashToggle`, `SingboxToggle`).
- What else a hop keeps holds for feeds that say what they mean
  (`SpellingAssumption`): the words of the dialect, one network with its own
  block, REALITY with its public key, a credential. This is no restriction on
  the chain: `Spelled` is inductive (`HopSpelled`), because every writer hands
  on the words of one vocabulary and no others, and it is part of the type
  invariant.
- The tables of a format say key by key what a written document is read into
  (`UriTable`, `ClashVless` ... `SingboxSs`). From them `NodeHop` and
  `RealityHop`: a client of the next panel connects to the same node
  (`RepublishingKeeps`).
- `RowsAreChecked`: the fingerprint leaves nothing of the node open
  (`NodeFromKey`, which reads the node out of the sorted pairs the fingerprint
  hashes), and T1 and T2 read what the tunnel reads (`ProbeMeetsEntry`). `Keyed`
  keeps out what the fingerprint does leave open, and the Clash items of `tuic`
  and `socks5`, whose toggle the URI writer drops: their row and their
  republished row are two.

`EntriesTypes` joins the three parts of `MCEntries`.

**Panel** (`PanelProofs`). `PanelInv` is `Sound(db)`, the foreign keys and unique
indexes of the tables with no mask stored as a token (`Related`), and `WorkOK`
for each operator's unfinished work, the only other state there is. One lemma
per statement of the repositories shows that it keeps a database sound, one per
step of a handler that it keeps the rest; another operator's work survives a
write because it speaks of the database only where nobody else wrote
(`OthersGoOn`).

- `SecretsAreKept`: a line of a form that stands for a stored header shows that
  header's mask, through any number of dropped, renamed and retyped lines
  (`EditedLines`). So if the headers are stored as they were opened,
  `restore_masked_headers` gives every line its secret back, or leaves a mask
  only where two secrets share it (`RestoredLines`). The condition is read when
  the form is checked: as a condition on the write it is not stable, another
  operator's stale toggle can bring the opened headers back in between.
- `ImportsComplete`: a job knows the slugs taken and the ids given out, which is
  all its next write needs (`JobFits`, `ImportStepFitsAlone`). Only a job nobody
  disturbed may rely on the database being as it last saw it.
- `BackupsAreWhole`: `WholeExport` says of an export on its way that each part of
  it read so far is what the database holds now, but for ids others touched since
  (`ExportGoesOn`: a write adds what it changes). Once the last composition is
  read, every untouched row is in the file with all its members
  (`UntouchedRead`), and if nothing was touched the file is the whole database
  (`WholeBackup`). Such a backup, when the import's validation lets it through,
  restores every source and profile. The import is a run of its writes
  (`ImportRun`, of any length), and the argument an induction along it: after n
  sources the ids from the first new one on are the file's sources in its order
  and the job knows their new ids (`SourcesIn`),
  after m profiles the same of profiles and members (`ProfilesIn`). Slugs are
  the delicate part (`Claims`, `NextClaims`): on an empty instance every slug of
  the file stays free until its own row claims it, because the export has each
  once; beside the originals none is ever free. Members are written with
  positions that count up the list and read back by `MergeOrder`, which is the
  same list again (`MembersReadBack`); `RestoredShows` compares the two databases
  row by row, members by their place among the sources, since ids differ.

The assumptions are that the first databases are sound (positions are natural
numbers: forms and imports only write such), that a row has finitely many
headers, and that a backup file is a list of sources and one of profiles.

**Pipeline editor** (`PanelProofs`). `EditorKeeps` proves `EditorKeepsMeaning` of
`EditorSpec` for any stored documents, edits and typed texts, and any number of
requests. The property alone is not inductive: it speaks of the document a page
stands for now, and a mode switch or a save opens the next page on that document.
`EditorInv` (`SoundPage`) adds that the page and the documents have their types,
that a page of text carries no controls, and that a page that must keep what is
meant stands for a document a page of fields can show.

- One request must not change what the page stands for: what a page posts,
  posted again, emits the same document, and one that can be shown
  (`PostedSettles`). Trimming twice is trimming once, lines without a pattern are
  dropped once, a template left empty is the default one.
- Opening a form must not either: a form opened on a valid document that can be
  shown says section by section what the document says (`RoundTrip`, one lemma
  per section). "Says" (`SaysAlike`) is more than equality of meanings and less
  than equality of documents: an absent list and an empty one of a filter
  exclude alike, statuses exclude as a set. Documents that say alike are valid
  together and mean the same, alone and over any other (`AlikeAccepted`,
  `AlikeMeans`).
- Each request then has its lemma (`to_raw_Sound` to `save_form_Sound`). The
  controls are what `to_builder` loses on the way back from text, and why the
  property asks for `controlled` (section 6, `SwitchingKeepsMeaning`).

The theorem assumes `ProfileForm`. A source's form has no control that tells an
explicit empty list of rules from none and drops it; its document is the lower
one of the merge, where both read alike, so what the property says of overriding
is a profile's business only. `FormAssumption` asks for an idempotent `Trim` and
well-formed documents.

**Settings** (`PanelProofs`). `SettingsInv` says that the file and the overrides
hold registered keys with values of their kind (`IsWritten`), that the live view,
and one read but not yet swapped in, hold every key in the configuration's own
type (`IsConfig`), that a form shows every key as a file has it (`IsForm`), and
that one tab at most is between load and commit. The lemmas follow a value round
its way: what a field accepts has its kind, a text no field parses included
(`AcceptedShape`), so an accepted form is a document again (`AppliedIsWritten`);
what the loader makes of documents is a configuration (`MergedIsConfig`), which
the next form renders (`FormOfConfig`). Values are told apart by their kind only:
the tables of the registry stay closed, and each lemma splits into the five
shapes a value has.

- `PanelTypes` puts this and `PanelInv` together into `TypeOK` of `panel`, for
  any first file and overrides of their kinds, any number of tabs and crashes.
- `SavesAreExclusive`: whoever writes the file in `save` or `direct_write` is the
  one tab past the lock, so nobody's document is overtaken by another save. It is
  the second conjunct of `SettingsAreSafeToSave`.

Only model-checked: all liveness properties (fairness and ENABLED are outside
the prover's fragment), and of `SettingsAreSafeToSave` the other two conjuncts.
Of these `SavesStayLoadable` is no fact about every instance: it depends on which fields a
tab changes (section 6.2) and on what is overridden. `UntouchedFormIsIdentity`
needs induction over the nested lists of `meow.test_url`; TLC's enumeration of
the registry is its check.

## 6. Where code and documentation disagree

With a counterexample run:

1. `lifecycle_frozen`. A T2 check is in flight, the operator resets the row, the
   verdict fails: `last_t2_failed_at` lands on an `unknown` row and no lane
   draws it again. `proxies.rs:1060` names this very outcome as what the reset
   avoids. hysteria2 rows are safe, T2 takes them while `unknown`.
2. `settings_boot`. The form accepts an emptied list of `meow.test_url` and
   writes `[]`, which the loader refuses at the next start of both binaries;
   `settings.rs:1098` says the panel refuses exactly what the parser refuses.

Met while modelling, as a property TLC refutes that no run lists. These keep
their definition, with a comment that says so:

- `ProxyLifecycle!T2ReachesEveryone`. T2 drops the rows the T1 sample covered in
  the same cycle; when the pool fits `sample_size` that is every row in every
  cycle. `main.rs:237` says such a row is the head of the next batch.
- `RenderCache!AnnouncedRowsCurrent`. `invalidate_processed_for_source` lists
  entries, then claims. A leader that stores and drops its claim in between is
  in neither list and its pre-change rows stay for a TTL (`cache.rs:22-29`).
- `RenderCache!SavedProfileIsEffective`. The profile is loaded before the claim
  takes its generation (`serve.rs:447`); a save in between is invisible to the
  guarded put, against "Saved means immediately effective" (`profiles.rs:571`).
- `SourceRefresh!StampIsCurrent`. An ingest in flight during an edit stamps the
  row as fresh afterwards (`repo/sources.rs:409`) and the edit waits a full TTL,
  against `repo/sources.rs:155`.
- `Subscription!SavedConfigsServe`. A profile saved as `{}` merged with a source
  that sets a sort finalizes to a document without a version (`serve.rs:1115`),
  and the subscription answers 500 "corrupted pipeline"; `pipeline.rs:436` calls
  `{}` pass-through with defaults.
- `PipelineEditor!SwitchingKeepsMeaning`. Raw mode renders without the profile
  flag, so builder, raw and builder again lose the tri-state of rename and drop
  and an explicit `[]` (`pipeline_editor.rs:550`: "emitting `{}` keeps the
  meaning exactly"). A second switch from raw to raw empties the textarea
  (`pipeline.rs:100`); `EditorKeepsMeaning` takes what the page shows then as
  what is meant.
- `Settings!LiveFollowsFile`. `refresh_live_config` loads the file outside the
  lock it swaps under, so of two overlapping saves the older view may win
  (`admin/mod.rs:88-96`).
- `Settings!SavesStayLoadable` once `Pads` has an end of the meow backoff.
  `apply_all` compares the two ends as the raw texts parse (`settings.rs:1075`),
  `u64_field` trims first (`settings.rs:1210`): a maximum below the initial delay
  with a blank around either number is saved, and `config.rs:126` refuses the
  file at the next start. The page's own number inputs send no blanks, other
  clients may.
- `Panel!BackupsAreClosed`. An export reads sources, profiles and compositions in
  queries of their own (`import_export.rs:127`, 131, 157). A source created and
  attached in between is named by its profile and missing among the sources; the
  import drops the membership with a warning (`import_export.rs:772`), although
  the export "captures all sources and profiles" (`USERGUIDE.md:1301`).
  `BackupsWork` therefore speaks of what nobody touched.
- `Panel!ExportIsImportable`. The form accepts a token shorter than 16
  characters (`handlers/mod.rs:796`), the import refuses the whole file that
  holds one (`import_export.rs:616`; `USERGUIDE.md:1301`).
- `Republish!OneOutboundPerRow`. The keys of the fingerprint and the keys of the
  writers differ: gRPC and h2 blocks of Clash items and the `plugin` of ss are
  left out of `SECURITY_PARAMS` (`fingerprint.rs:24`), so two nodes may share a
  row.
- `Republish!BothVocabularies`. Facts one format spells and another drops: a
  Clash vless REALITY item's `client-fingerprint` and `ws-opts` never reach a
  sing-box outbound (`parsers/mod.rs:344`, `formats/singbox.rs:285`); httpupgrade
  loses its flag on the second Clash hop; tcp with an http header becomes h2;
  xhttp is dropped by the sing-box writer; `tls: true` and `security=tls` give
  different fingerprints.

Met by reading:

- `main.rs:258`: "one proxy is never judged twice in a single cycle". A queue
  success puts the row into the T2 batch of the same cycle, and a row the ladder
  revives may be in the same cycle's T1 sample. Charges stay at one per cycle
  (`ChargedOncePerCycle`).
- `proxies.rs:94`: `ladder_at` is "NULL outside `quarantine`". Retirements leave
  it set on a removed row; `ScheduleMatches` therefore speaks of regular and
  quarantined rows only.
- `mark_orphans_removed` spares protected orphans "until the probe decides for
  itself", but every regular lane requires a link.
- A background render whose entry a first invalidation removed is unseen by a
  second one (`cache.rs:260`). Enabling a source does not drop an entry rendered
  without it.
- `scheduler.rs:102`: an edit reopens a backing-off source, except when a task
  that waited for a permit with the old settings fails after the edit;
  `EditsAreFetched` shows that the wait ends. The second freshness test of
  `ingest.rs:103` cannot fire for a sweep.
- Saves: a toggle writes the whole row back (`sources.rs:973`,
  `profiles.rs:778`); a profile and its composition are two writes, and a
  failing second one skips the invalidation (`profiles.rs:563-569`); an import
  whose later write fails leaves the earlier rows (`import_export.rs:739`).
  `restore_masked_headers` falls back by key when a mask does not match its
  header (`sources.rs:550`).
- Settings: the rotation test compares with a live token that another save may
  have replaced (`settings.rs:943`); overriding one end of the backoff by the
  environment can make a saved file unloadable; an untouched form writes the
  environment's values into the file; `settings_create` checks and writes
  outside the editor lock (`settings.rs:1010`).
- Access: a failed epoch read yields 0 (`auth.rs:64`), which lets a cookie of
  epoch 0 back in until the next good read: `LoggedOutStaysOut` is about
  requests whose epoch was read. The refund of the admin limiter's 429 is
  unreachable.
- Detection: a list of links whose first line is bracketed (`[Premium] ...`) is
  taken for JSON, one with a line that begins with `proxies:` for Clash YAML, and
  the whole payload is then refused (`parsers/mod.rs:713-721`); a Clash document
  in braces is taken for JSON. `Payload!Ambiguous` names these, and only a pinned
  format reads them.
- Editor: a comma alone in an ASN field emits `asns: []`, although the comment at
  `pipeline_editor.rs:338` says only non-empty lists are written; patterns lose
  their outer blanks; statuses in another order than the default's collapse
  into it.
- Outbound: URLs with an IPv6 literal are never fetched, `host_str` keeps the
  brackets; the save gate reads the live `allow_private_urls`, the fetcher the
  one of its start; an engine that answers `/version` but no delay charges the
  whole batch, as documented; a crashed start leaves its temporary file.
- `meow.rs` documents `ServiceUnavailable` as a failure for the ladder, while an
  outage charges nobody (`BatchIsAccountedFor`, `OutageIsNotCharged`).

## 7. What is left out

- Lists, statistics, charts, logs, HTML, CSRF tokens, language, paging, the
  event bus: nothing they hold is read back by another part.
- Latency and traffic figures; the order of rows within one lane.
- Wall-clock resolution: link stamps are compared in whole seconds
  (`proxies.rs:399`); two reconciles of one source within a second are excluded
  by the model of reconcile. Clocks that step back are left out.
- Deleting a source during its ingest, retention of the fetch journal and an
  unreadable journal row (`SourceRefresh`): the last two only make a source due.
- Cache keys beyond one, and eviction of generation counters.
- Character-level syntax: percent-decoding, YAML aliases, line breaks, the
  grammar of hosts, URLs, headers and regular expressions. A text is a member
  of a small set with the relation its reader tests (`Hits`, `Collation`,
  `Trim`, a mask's prefix); size caps and counts above the small bounds, numbers
  beyond `i64::MAX` and key case are left out.
- snell, tuic, mieru and naive parameters beyond the server name; `obfs-opts`.
- Tags, display names and countries of the panel's rows, the dry-run pages.
- Addresses are classes, not numbers; Teredo and IPv4-translated forms pass
  undecoded as the comment in `ssrf.rs` says. `allow_private_targets` is off in
  `EngineBatch` and `TargetDial`.
- `NeverAThirdParty` assumes that the proxy names the client in one header and
  that no client is in the list of trusted proxies.
- A request's body, redaction and what is logged, except the warn registries.

PROJECT.json lists every component with what is left out of it, and every
hazard with the property that covers it or the reason why none does.

## 8. Plan

Done, in order of weight: the lifecycle with its abstract diagram, cache, source
refresh, then what surrounds them (formats and pipeline, panel and settings,
access and outgoing connections), with the proofs of section 5. What would add
most next:

1. `UntouchedFormIsIdentity` as a theorem, field by field, and the hypotheses
   on the overrides under which `SavesStayLoadable` is one.
2. `Fetcher` as a refinement of the fetch step of `SourceRefresh`, and
   `EngineBatch` of the tunnel checks of `ProxyLifecycle`.
3. Profile and source saves of `Panel` composed with the invalidations of
   `RenderCache`: a failing second write, two toggles.
4. Deleting and creating sources while the scheduler holds them, composing
   `SourceRefresh` with the links of `ProxyLifecycle`.
