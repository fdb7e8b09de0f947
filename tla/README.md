# Verification of BAIC

BAIC ships two programs. **Tokenmaxxing** (`apps/tokenmaxxing`) is a desktop app
that probes the usage of AI subscriptions through plugins, shows it in a panel and
serves it on a local HTTP API; its backend is Rust (Tauri), its webview is
TypeScript (React). The **control plane** (`core`, `db`, `bridge`, `web`) is a
FastAPI service with a SQLite database, a routing decision, provider bridges and a
web client.

These TLA+ modules model the parts of both programs in which something can go wrong
that a test would hardly reach. In the desktop app: the usage cache, the probe
batches, the refresh logic of the webview, the provider plugins (their sessions,
their keys and what they report), the local HTTP server, the tray icon, the update
of the application, the panel with its global shortcut. In the control plane: the
rows that several processes write to one database. TLC checks them on small
instances; TLAPS proves every safety invariant and action property of the passing runs, and
both refinements, for every value of the constants; liveness stays with TLC.

## 1. Inventory

### Desktop app, backend (`apps/tokenmaxxing/src-tauri/src`)

| Component | State | Operations | Talks to |
|---|---|---|---|
| Usage cache, `local_http_api/cache.rs` | `CacheState` under a mutex (snapshots, history, two generations, `flush_scheduled`), the write lock, two JSON files | load, cache an output, import, clear, debounced flush, flush at exit, queries | probe workers and HTTP handlers call it; `lib.rs` flushes it at exit |
| Probe batches, `probe_batch.rs` | per batch a queue, a countdown, worker threads | `start_probe_batch`, the worker loop | calls the plugin runtime and the cache, emits `probe:result` and `probe:batch-complete` |
| HTTP API, `local_http_api/server.rs` | count of open connections | accept, read a request, route, answer | reads and updates the cache |
| Plugin runtime, `plugin_engine/` | a QuickJS runtime and deadline per probe | run a script, parse lines and metrics | host API: files, keychain, processes, HTTP |
| Provider plugins, `plugins/*/plugin.js` (scripts run by the runtime) | the stores of the providers' own programs: files, keychain items, databases | find a credential, refresh a session and write it back, ask for the usage, build lines and metrics | the host API; the providers' services |
| Panel, shortcut, tray, commands, secrets, analytics | atomics for pinning, the managed shortcut, settings and secrets files | commands of the webview, window and tray events | webview, operating system |

### Desktop app, webview (`apps/tokenmaxxing/src`)

| Component | State | Operations | Talks to |
|---|---|---|---|
| Refresh logic, `hooks/app/use-probe*.ts`, `hooks/use-probe-events.ts` | `pluginStates` (loading, data, error, last manual refresh), `manualRefreshIds`, `activeBatchIds`, `listenersReady` | bootstrap, automatic refresh, retry, refresh all, enable, handlers of results | `start_probe_batch`, the remote machine's `/v1/usage` |
| Settings, `lib/settings*.ts`, `stores/` | plugin order and disabled set, machine settings, preferences | load, normalise, migrate, save | store files |
| Tray icon, app update | timers and in-flight flags | coalesced redraws; check, download, install | Tauri plugins |

### Control plane (`core`, `db`, `bridge`, `web`)

| Component | State | Operations |
|---|---|---|
| API, `core/api/app.py` | the singletons it is built with | about thirty routes, run in a thread pool |
| Capability matrix, `core/capability_service.py` | the matrix in memory and its file | queries, `patch_model` |
| Database, `db/` | SQLite tables; event ids are unique | sessions, metrics, action events, seeding |
| Routing, `core/arbitrage.py` | none | `evaluate_route` |
| Bridges, `bridge/` | none across calls | forward a request or answer from a stub |
| X-ray, `core/xray_service.py` | two bounded logs under a lock | append, snapshot |

### What is hard here, and what makes a component correct

* *Usage cache.* A flush copies under the mutex, writes two files without it and
  marks the copied generation later; updates, other flushers, failures and the end
  of the process come in between. Correct means: nothing unflushed is forgotten,
  nothing is marked that is not in both files, files never go back, the flush at
  exit keeps everything, every update reaches the disk in the end.
* *Probe batches.* Workers of a batch race for plugins and for the countdown;
  batches race for the cache. Correct means: every plugin answered once or lost to
  a panic, `complete` once and last, no failure over a good value, no result shown
  that is not served.
* *Refresh logic.* Up to six ways to start a refresh overlap, results come from
  two places, some before the response of the call they belong to. Correct means:
  no card loads for nothing or for ever, no result is dropped, the manual marks and
  the cooldown stay consistent.
* *Provider plugins.* Batches overlap, so two probes work on one session, and a
  refresh spends the refresh token; a probe can be cut between any two host calls. A
  stale credential may stand before a good one. What a provider answers may be
  negative, missing, beyond its limit, or in any order, and the runtime refuses what
  it cannot read, one bad metric with all others. Correct means: no session is
  lost, no good credential is masked, the user is told the truth, every number shown
  is one the runtime accepts, and two places that show one number agree.
* *HTTP server.* The accept thread raises the count of permits while handlers lower
  it, and a handler has many ways out. Correct means: the count is the number of
  handlers, never above the limit, and every permit comes back.
* *Tray, update, panel, shortcut.* Flags keep asynchronous steps apart and any step
  can fail. Correct means: the last state is drawn; only a complete update is
  installed; the window behaves as its flags say; the system listens to the one
  shortcut the program manages.
* *Control plane.* Request threads share one matrix without a lock; a posted event
  may come twice, also after a crash; two processes may seed one database. Correct
  means, for the database: every row once, and no caller is told of one that is not
  there.

`PROJECT.json` lists each hazard at its line with the properties that cover it, or
why none does.

## 2. Modules

| Module | Models | Builds on |
|---|---|---|
| `WriteBehindStore` | what the cache promises: memory goes through versions, each file moves forward to versions memory really held, a new process starts from the files | |
| `UsageCache` | `cache.rs`: state mutex, write lock, workers, exit flush, disk, crashes | refines `WriteBehindStore` |
| `UsageRetention` | the two state-changing handlers of the API, as their callers see them | extends `UsageCache` |
| `UsageCacheProofs` | theorems about `UsageCache` | extends `UsageCache` |
| `ProbeService` | what a batch promises the webview | |
| `ProbeBatch` | `probe_batch.rs`: queue, workers, countdown, cache, events | refines `ProbeService` |
| `ProbeBatchProofs` | theorems about `ProbeBatch`, the refinement among them | extends it and `InductionFacts` |
| `ProbeUi` | the hooks of the refresh logic, with `ProbeService` as backend | instantiates `ProbeService` |
| `ProbeUiProofs` | theorems about `ProbeUi` | extends it |
| `Lookup` | the order of a plugin's search: those of its places that have something | |
| `InductionFacts` | induction over numbers, folds and searches, for the proofs | extends `Lookup` |
| `OAuthProbe` | the seven plugins that refresh a session they share with the provider's own program: claude, codex, cursor, factory, grok, kimi, kiro | extends `Lookup` |
| `OAuthProofs` | theorems about `OAuthProbe` | extends it and `InductionFacts` |
| `KeyProbe` | the eight plugins that find a key or token on the machine: copilot, devin, antigravity, minimax, synthetic, zai, amp, perplexity | extends `Lookup` |
| `KeyProofs` | theorems about `KeyProbe` | extends it and `InductionFacts` |
| `ReportLines` | the line builders of the host API and what `runtime.rs` makes of a script's result | |
| `UsageReport` | what seventeen plugins report from what they were answered | extends `ReportLines` |
| `ReportProofs` | theorems about `UsageReport`, and about the plugins together | extends `MCPlugins`, `OAuthProofs`, `KeyProofs` |
| `ClaudeThrottle` | the request interval and backoff of the claude plugin | |
| `LocalHttpServer` | `server.rs`: accept loop, permits, reading, routing | |
| `TrayIcon` | `use-tray-icon.ts`: timer, flags, rendering | |
| `AppUpdate` | `use-app-update.ts`: check, download, install | |
| `DesktopShell` | panel and shortcut of Windows and Linux | |
| `ControlPlane` | seeding and action events over one SQLite file | |
| `ShellProofs` | theorems about `AppUpdate`, `DesktopShell`, `ControlPlane`, `LocalHttpServer` | extends the four |
| `MCPlugins`, `MCShell` | several of the above for one run: they share no state, so a behaviour follows one of them | extend them |
| `MCBackendLive` | the cache and the batches for the run of their liveness, one at a time | extends `ProbeBatch`, instantiates `UsageCache` |
| other `MC...` | model values and symmetry for TLC | |

Because `ProbeBatch` refines `ProbeService`, and `ProbeUi` takes its backend steps
from `ProbeService`, the webview is checked against everything the worker threads can
do without carrying their state.

### `UsageCache`: how it corresponds to the code

The variables carry the names of the fields: `snapshots`, `history`,
`dirty_generation`, `flushed_generation`, `flush_scheduled`, `cache_write_lock`.
An update is one critical section of the state mutex, so it is one action
(`CacheSuccessfulOutput`, `ImportMetricsExport`, `ClearMetricsHistory`), with the
scheduling of a flush at its end. `flush_pending_cache_once` takes the mutex twice
and writes in between: `LockWriter`, then `PendingIdle` or `PendingCopy`, then
`SaveCache`, `SaveHistory` (each ends in a rename, so it happens or not),
`MarkCacheFlushed`; `SaveFails` is the early return of either save. The same five
steps are run by debounced workers, which sleep again, and by `flush_cache` on the
event loop (identity `Exit`), which stops. `Stop` is a crash or an exit at any
point, `Start` is `init()` in a new process.

`versions`, `cacheGen`, `historyGen` and `exitFlush` are history variables: no
guard reads them. `versions[g + 1]` is what memory held at generation `g`.

Abstracted: what a snapshot holds besides its time stamp, the length of the sleeps
(any sleeping flusher may wake at any moment), and files that the program did not write
(one that cannot be parsed is read as empty by the code). Stamps are taken before the
mutex, so an output may carry any time up to now.

### `ProbeBatch`: how it corresponds to the code

A worker is a pair of batch and slot; `pc` follows the loop: `pop`, `run`, `cache`,
`emit`, `count`, `complete`. A panic inside `catch_unwind` goes from `run` to
`count`. The cache update and the emission are two actions, since other threads can
run between them. The outcome of a probe is `ok` or `error` (an Error badge) or a
panic; which one is open. `events` is what was emitted, in order.

### `ProbeUi`: how it corresponds to the code

JavaScript runs a handler to its next `await`, so an action is a handler or the
part of one between two awaits. A call of `startBatch` passes through `fetch`
(awaits the remote machine), `start` (awaits `listenersReady`) and `invoke` (the
command is sent). The machine settings appear as the set of plugins that are fetched
from the remote machine: `{}` is local mode, all of them remote mode, some of them
mixed mode. `inbox` holds events that were emitted and not yet handled; it keeps
their order and delays them by any time. `cooling` is the set of plugins whose last
manual refresh is less than `REFRESH_COOLDOWN_MS` ago.

Abstracted: the data of a result but for success or error, the text of errors, the
schedule that is shown to the user, and the action log of `startBatch`.

### `OAuthProbe`: how it corresponds to the code

The seven plugins have one shape and differ in its parts: the order of their
stores (`Order`), which stored credentials they take (`...Candidates`), which answers
to a refresh are thrown and which only logged (`...Refresh`), where a probe goes on
without a new token (`...GoesOn`) and what they write back (`...Saved`). Each part is
one operator per plugin; the actions are the steps between two host calls: `Start`,
`NextSession`, `RefreshSkipped`, `RefreshRequest`, `Save`, `UsageRequest`. `Cut` is the
deadline of the runtime, `SignIn` the provider's own program writing a new session.
Tokens are numbers; `live` is the refresh token the provider accepts, per store,
and a granted refresh replaces it whether or not its reply arrives.

`live`, `mishap` and `refused` are what the environment knows: `mishap` are the
stores where a write failed, a reply was lost, a probe was cut before its write or a
sign-in met a write that was due; no code could keep those.

### `KeyProbe`: how it corresponds to the code

`KeyOrder` is where each plugin looks, in order; `Attempts` which places it will ask
with; the `...Fetch` and `...TryUrls` operators map the answers to one credential's
requests (several hosts, several URLs) to one verdict. The actions go through the
attempts; copilot's shared cached token, antigravity's refresh of an access token and
its fall back to the agy keychain are actions of their own.

antigravity takes any JSON object of Google's Cloud Code for an answer (`CloudCodeJson`):
"ok" with a model to show, "empty" without one. The first object ends the search, also
an empty one, which ends it with the error (`AntigravityHeard`): no other token is tried,
none refreshed, and agy's is not asked. So `GoodNotMasked` exempts a probe that met an
empty answer, as it does one that met an outage, and the run `antigravity_strategies` shows
what that costs.

### `ReportLines` and `UsageReport`: how they correspond to the code

`ParseLine`, `ParseMetrics` and `AppendDerivedQuotaMetrics` are the runtime: a line that
cannot be read becomes an error line, one such metric drops all metrics, and every
quota line has metrics derived from it unless the plugin gave them. `UsageReport` has
one operator per plugin from an answer to its lines and metrics, with the windows of
opencode-go computed over a calendar whose months differ in length. Answers are
records of the fields the plugin reads. `MayAnswer` says which fields a plugin reads and
what each may hold: an amount may be missing, and is any integer otherwise, the counts
and costs of the days in a usage log included; a list has any length. Only the counts by
model are natural numbers, since `modelTokenCount` keeps the positive ones and nothing
else reads them. `Given` is the set of the answers tried. Labels and the parts of
metric keys are names (`Labels`, `KeyParts`); percentages are floored; texts, dates and
units are left out. A value that may be missing is a set of at most one element
(`Optional`).

claude and codex sum the days of their log twice: the card adds up every number
(`TotalTokens`), the API leaves negative ones out (`ServedTokens`). `TotalsAgree` says what
holds of the two: the API serves no less than the card shows, the same unless some day is
negative, and the chart, which leaves negative days out too, shows no more than the API
serves; so with a negative day the chart can show more than the line above it. A
cost has no such guard: when the costs of the days add up to less than nothing, the
runtime refuses that metric and with it all others the plugin gave (`CostIsRefused`), while the
card stays as it is. `MetricsComplete` exempts that case and `TotalsAgree` says what is left
of it: the card's quota metrics, and no token count.

### `ClaudeThrottle`: how it corresponds to the code

`scope` holds the three variables of the script. `Evaluated` is what a probe finds in
them: `run_probe_with_timeout` makes a new runtime and evaluates the script in it,
so it is the fresh scope. `Fetch` is the request with its three outcomes.

### `LocalHttpServer`: how it corresponds to the code

`Accept` is the loop of the one accept thread taking a connection and loading the
count, `Acquire` one round of the compare-and-swap: refused (503), taken, or tried
again since a handler came in between. `ReadChunk`, `Eof`, `ReadFails` are what one
`read` returns, with the check of the size after each; `Respond` routes by method and
path. Every way out drops the permit (`Ends`). The two handlers that change the
cache are in `UsageRetention`. The size is counted in pieces.

### `TrayIcon`, `AppUpdate`: how they correspond to the code

Handlers run to their next `await`, so each action is one between two awaits or
a timer or event. `TrayIcon` keeps the flags of the hook under their names
(`pending`, `queued`), the timer and the picture on its way; `Wanted` is the picture
of this moment. `AppUpdate` has the three flags of `inFlightRef` and the status, which
download events set too: `Finished` arrives before `download()` has verified the
update (`DownloadEvent`, then `Downloaded`).

### `DesktopShell`: how it corresponds to the code

Commands of the webview, clicks on the tray, the shortcut and the loss of focus
are one action each, since they run on the main thread. The three flags are the
atomics of `panel/mod.rs`, `window` is what the system shows, `grace` the time after
a panel was shown in which a blur means nothing. `UpdateGlobalShortcut` unregisters
the old shortcut and registers the new one, each of which may fail; `stuck` are the
shortcuts the system did not give up.

### `ControlPlane`: how it corresponds to the code

`Initialize` and `Seed` are the check and the insertion of `initialize`, `SeedCommit` the end
of its session. A request goes through `Receive` (validation), `AddActionEvent` (the
INSERT, which takes SQLite's write lock or finds the row), `Commit` and `Answer`. `Locked`
is a lock that stays taken for too long or a commit that fails, `Dies` the end of a
process at any point.

## 3. Runs

| Run | Question | Bounds |
|---|---|---|
| `cache_safety` | Is anything forgotten, marked too early, put back, or lost at exit? Does the cache implement the store? | 2 plugins, 3 worker identities, history of 2 points, 3 updates over all restarts, imports of up to 1 point |
| `backend_liveness` | Does every update reach the disk? Does every batch complete, also when probes panic? | for the cache 1 plugin, 2 workers, history of 1, 2 updates; for the batches 3 plugins, 1 batch of 2 workers, requests of up to 3 ids |
| `retention` | Is a deleted history gone for good? **No.** | 1 plugin, 1 worker, 3 updates |
| `probe_batch` | Is `complete` once and last, is each plugin settled, is the cache right? Does the batch implement the service? | 2 plugins, 1 unknown id, 2 batches of 2 workers, requests of up to 3 ids |
| `shown_and_served` | Does the API serve what the panel shows? **Not always.** | 1 plugin, 2 batches of 1 worker |
| `probe_ui` | Does a card load for nothing, is a result dropped, do marks and cooldown agree? | 2 plugins (one of them remote or local, as the settings say), 3 calls, 2 events on their way |
| `probe_ui_liveness` | Does every refresh end on its card? | the same with 2 calls |
| `probe_ui_remote` | Does a manual refresh that fails leave its mark behind? **Yes.** | 1 remote plugin, 2 calls |
| `plugins` | Is a session lost, a credential masked, a wrong thing said, a refused number shown, do the numbers of a card agree? | all plugins but the mock; 2 overlapping probes, 3 tokens issued, at most two stores with a session and one of them odd; the answers in `SmallAnswers`, whose amounts are missing, negative, zero, usual or too large and whose lists have up to three entries; months of 3, 2 and 4 days, charts of 2 days and 3 points |
| `antigravity_strategies` | Does antigravity try all its strategies before its error? **No.** | 1 probe of antigravity, whatever its six places hold |
| `shell` | Is the last picture drawn, only a complete update installed, every permit held and returned, the window as its flags say, one shortcut registered, every row once? | 2 tray providers, 3 changes; 2 updates; 3 connections on 2 permits, 4 kinds of request; 2 shortcuts; 2 processes, 3 posts of 2 events |
| `claude_throttle` | Does the claude plugin keep its interval and the provider's backoff? **No.** | an interval of 5 minutes, backoffs of 0, 2, 5 and 8, 12 minutes |

`IInv`, checked in `cache_safety`, `probe_batch` and `probe_ui`, and `PluginsIInv`, checked in
`plugins`, are the inductive invariants of the proofs; but for the cache's, each contains
the types of its module's variables.

### Why the bounds are enough

* *Cache.* An update starts a worker only when it sets `flush_scheduled`, and the flag is
  down only when a worker is on its way out or a `flush_cache` took its work over. So
  the workers alive are at most one more than the calls of `flush_cache`, which are at
  most two: three identities are enough. Three updates make a file lag by two versions with an
  update between copy and mark, overflow the history, and leave something for the life after
  a restart. The proofs show the same properties without any of these bounds.
* *Batches.* Three ids exceed two workers in the liveness run, so a worker pops again
  while another runs; two batches are what it takes to race for the cache. A batch
  shares nothing with others but the cache, and the cache keeps one value for
  each plugin.
* *Webview.* Every hazard involves one plugin and two overlapping calls; the third
  call lets a new refresh meet what the first two left behind. Two events on their way
  let results and `complete` of different batches mix.
* *Plugins.* Two probes are what it takes to spend one refresh token twice; three
  tokens allow both to refresh, or one and a sign-in. At most two stores matter
  to a probe at one time: the one it works on and the one it should have taken. The
  reports are one step, over every answer of the small domains, among them every order
  of two or three competing quotas and a month shorter than its anchor's day.
* *Shell.* Three connections on two permits refuse one; two pieces let a request end in
  its headers, in its body, or be too large in either. Three changes of the tray come
  before, during and after a rendering. Three posts of two events hold a
  duplicate pair beside another event.

The theorems of section 4 state the safety properties of every passing run without
these bounds.

TLC checks for deadlock in `cache_safety`: a process can always stop and start again. In
the others batches, tokens, connections, changes or posts are used
up, and the system may stop.

### Fairness

* *Cache.* Threads keep running (weak fairness of the steps between blocking calls);
  some waiter gets a free write lock (weak fairness of the union); disk writes do not
  fail for ever (strong fairness of the saves, an assumption on the environment:
  the code retries without end, so nothing less would do). Crashes are not fair:
  `EventuallyFlushed` allows the process to end.
* *Batches.* A worker thread keeps running, and a probe ends: `run_probe` has a
  deadline that interrupts scripts and host calls.
* *Webview.* The event loop handles every event and every settled promise in the end;
  the listeners register; the backend goes on, which `EveryBatchCompletes` shows of
  `ProbeBatch`. A remote fetch settles in the end. That one is the browser's
  promise: the code sets no time limit.
* *HTTP server.* The accept thread runs, and a read ends with data, with the end of the
  stream or with its time limit. That a client may send one byte before each time
  limit is allowed; the size limit is what ends it.
* *Tray.* A timer fires, and a promise of the webview settles. Nothing is assumed of
  changes, of settings being loaded, or of the tray being found.

### What the violated runs show

* `retention`. `docs/local-http-api.md:48` says DELETE "Deletes all locally retained
  structured-metric history". The handler clears memory, answers 204 and leaves
  the file to the debounced flush. A process that ends before it loads the old file. A point
  that is recorded or imported again after the DELETE is wanted and leaves `deleted`
  (`RecordOutput`, `PostMetricsImport`), so only the end of a process violates the property.
* `antigravity_strategies`. `docs/providers/antigravity.md:263-269` lists what the plugin
  tries, tokens (4), refresh tokens (5), agy's keychain token (6), and ends "If all strategies
  fail: error". The code stops at the first JSON object Cloud Code sends, with a model
  in it or not (`antigravity/plugin.js:699`, `720`), and without one it throws that error at
  line 743 with the other tokens and agy's not tried.
* `shown_and_served`. `docs/local-http-api.md:3` says the API serves "the same usage
  data shown in the menu bar". Enabling a plugin starts a second batch for it while the
  first still runs; the two can cache in one order and emit in the other.
* `claude_throttle`. `plugins/claude/plugin.js:13` says the state of the rate limit is
  "persisted across probe() calls (module scope survives re-invocations)", line 14
  "never poll more than once per 5 min", and `plugin.test.js:1914` tests that the API is
  not called again while the rate limit lasts, by calling `probe` twice in one
  scope. `runtime.rs:111` makes a new `Runtime` for each probe and evaluates the script
  at line 168, so nothing survives: two probes a moment apart both ask, also
  within a backoff. With `Evaluated == scope` the property holds.
* `probe_ui_remote`. The tests say that a manual refresh that cannot start "cleans
  up manual refresh ids". A failing remote fetch is caught inside `startBatch`, so
  the handler that cleans up does not run: the buttons stay dead for that plugin until
  an automatic refresh answers, and its answer then starts a cooldown.

Related to `shown_and_served`, and outside the model: the backend counts any Error badge
among the lines of an output as a failure and does not cache it, while the webview
takes an output for failed only when the badge is its one line. An output that
mixes both (the runtime makes one from a single bad line) is shown and not served.

One more thing the model makes visible, and which its properties exempt: a probe
that panics has no result, and `complete` does not end the loading state, so that
card loads until something else answers for it (`LoadingHasCause`).

## 4. Proofs

### The usage cache

`UsageCacheProofs` proves for `UsageCache`, for every set of plugins and workers,
every length of the history, every bound on updates and imports:

| Theorem | States |
|---|---|
| `TypeCorrect` | `Spec => []TypeOK`, with the retention bound in memory, copies and files |
| `Invariant` | `Spec => [](TypeOK /\ IInv)` |
| `NothingIsForgotten` | `Spec => []NoLostFlush` |
| `MarkedIsWritten` | `Spec => []FlushedIsOnDisk` |
| `ExitKeepsAll` | `Spec => []ExitFlushKeepsAll` |
| `NeverBackwards` | `Spec => DiskMovesForward` |
| `Implementation` | `Spec => ImplementsStore` |

They assume `CacheConstants`: the event loop is no worker, the bounds are natural
numbers and the history holds at least one point.

*The argument.* None of the properties is inductive alone. What keeps the files
from going back is that the holder of the write lock copied a version no
older than the files, and that nobody else writes while it does. So `IInv` is the
conjunction of

* `LockInv`: the lock has one holder, and it is held exactly along a flush;
* `VersionInv`: `versions` counts with `dirty_generation`, memory is its last
  entry, and `flushed <= historyGen <= cacheGen <= dirty`, where both files hold
  exactly the version of their generation;
* `JobInv`: what a flusher past its copy has in hand is a version no older
  than the files, and the file it has saved holds it;
* `ScheduleInv`: something unflushed, or a flush past its copy, keeps
  `flush_scheduled` up, and a flag that is up has a living worker. The second
  part is why an idle flush at exit may reset the flag of a sleeping worker;
* `ExitInv`: `flush_cache` copies no generation older than the one it was called
  at, and ends only with that generation written.

TLC checks `IInv` in `cache_safety`; the proof has one step per action and below it
one per conjunct. The order `historyGen <= cacheGen` is the order of the two
renames, and the refinement needs it to find a version for each file.

### Probe batches

`ProbeBatchProofs` proves for `ProbeBatch`, for any set of plugins, unknown ids and batches,
requests of any length and any number of workers of a batch:

| Theorem | States |
|---|---|
| `SelectionIsExact` | a request selects the loaded plugins it names, each once and in the order of their first mention |
| `Invariant` | `Spec => []IInv` |
| `TypeCorrect` | `Spec => []TypeOK` |
| `CompleteComesLast` | `Spec => []CompleteIsLast` |
| `CompleteIsSettled` | `Spec => []CompleteMeansSettled` |
| `OnlySuccessIsCached` | `Spec => []CacheHoldsSuccess` |
| `EmittedIsServed` | `Spec => []ResultIsServed` |
| `Implementation` | `Spec => ImplementsService` |

They assume `ProbeConstants`: at least one worker, and no id both loaded and unknown.

*The argument.* That `complete` comes last follows from what the countdown counts.
`OnePlace` says that a selected plugin waits in the queue, is in the hands of one
worker, was lost to a panic or has its result: exactly one of the four. `CountsOpen`
says that `remaining` is the length of the queue plus the number of workers that hold a plugin
or have let go of it and not counted down. So the worker that reaches zero finds the queue
empty and no worker but itself busy, and everything selected is lost or answered
(`ZeroIsSettled`). `OneReport` then keeps a second worker from reporting: the count is
zero only once. `InHand` and `EmittedIsCached` carry an output from the end of its probe over
the cache to its event; the latter holds for plugins that only one batch probes, which
is where `shown_and_served` fails. A step of one worker leaves the hands of the others
alone (`BusySteps` has the four ways in which the set of busy workers changes).

The refinement maps a batch to the set of what it selected, what its events answer and
whether one of them is `complete`. Popping, running, caching and counting down are
stutters (`SilentSteps`); `StartImplements`, `AnswerImplements`, `LoseImplements` and
`CompleteImplements` are the steps of the service. An empty selection starts and completes
in one step.

*Induction.* `SelectPlugins` is a fold over the request, so its theorem needs induction on the
length of a request. The library's induction theorems take a predicate as a
parameter, which the provers cannot instantiate. `InductionFacts` states induction with
the set of the numbers that have the property (`Induction`, from the well-foundedness of
the natural numbers), shows that the fold of the community modules has the values its
definition describes (`FoldExists`), and gets from this what a search through places
finds (`AmongFacts`). `SelectionRuns` writes a selection as a run over the request, and
`SelectionIsExact` is an induction along it.

### The webview

`ProbeUiProofs` proves for `ProbeUi`, for any set of plugins and calls, any settings of
remote machines and any length of the inbox:

| Theorem | States |
|---|---|
| `Invariant`, `TypeCorrect` | `Spec => []IInv`, `Spec => []TypeOK` |
| `LoadingEndsSomewhere` | `Spec => []LoadingHasCause` |
| `ManualMarksEnd` | `Spec => []LocalManualHasCause` |
| `ResultsAreTaken` | `Spec => []NoResultDropped` |
| `CooldownIsKept` | `Spec => []NoRefreshInCooldown` |

They assume `UiConstants`: what is remote is a set of plugins.

*The argument.* `BackendOK` is what the service keeps. `ActiveOK` ties a call's phase to
its batch: the id is active from before the command is sent until `complete` is
handled. `InboxOK` says that events on their way are of started batches and that
`complete` comes behind all others of its batch, so no handler can forget a batch that has
results to come. A mark is harder than a card: any call that is pending keeps a card
loading, but a call that was started by an automatic refresh does not take a manual
mark away when it fails. So `ManualIsAnswered` asks for a call that was made by hand,
or for one whose batch is started, whose result will take every mark. It holds for plugins
that are never remote (`FetchedIsRemote`); for the others `probe_ui_remote` shows it false.
There is one lemma per handler (`StartKeeps`, `FetchKeeps`, ..., `HandleEventKeeps`).

### Sessions

`OAuthProofs` proves for `OAuthProbe`, for any of the seven plugins, any number of overlapping
probes and any number of tokens issued:

| Theorem | States |
|---|---|
| `SessionInvariant`, `SessionTypeCorrect` | `OAuthSpec => []OAuthIInv`, `OAuthSpec => []OAuthTypeOK` |
| `NoSessionIsLost` | `OAuthSpec => []RefreshTokenKept` |
| `ErrorIsDeserved` | `OAuthSpec => []ErrorTellsTruth` |

They assume `OAuthAssumption`: the plugins are among the seven, and a token is issued.

*The argument.* `SoleOwner`: between the grant and the write the live token is in the hand
of one probe and nowhere else, neither in the store nor in what another probe has read, so
no other probe can spend it and none that writes writes over it. What a probe read
before is older, and a refresh with it is refused. `OnlyIssued` makes a new token differ
from all that anyone holds. cursor's refresh token never rotates (`CursorKeeps`); grok, which
writes both its sessions at once, is exempt, as in the property. For the errors, `Blame`
follows a probe from session to session: whatever it goes on from was refused,
expired or had no token, and kiro's sessions are chosen for having a refresh token
(`KiroRefreshes`).

### Keys

`KeyProofs` proves for `KeyProbe`, for any of the eight plugins, any number of probes and
whatever the machine holds when they start:

| Theorem | States |
|---|---|
| `KeyInvariant`, `KeyTypeCorrect` | `KeySpec => []KeyIInv`, `KeySpec => []KeyTypeOK` |
| `StaleHidesNothing` | `KeySpec => []GoodNotMasked` |
| `AskedOnlyOnce` | `KeySpec => []AskedOnce` |
| `OutagesAreHarmless` | `KeySpec => []OutageChangesNothing` |
| `BlameIsDeserved` | `KeySpec => []LoginMeansRefused` |

They assume `KeyAssumption`: the plugins are among the eight, and there is a probe.

*The argument.* It is about one probe, since only copilot's probes share tokens that
change (`OneAtATime`, `FoundAsItWas`). `Accounted`: each place the search covers is still to
be looked into, is being asked with, or has been, unless an empty answer ended the search;
and what was asked with has a verdict or met an outage. When nothing is left, every
credential has been judged. `NoRepeat`: none
is asked with twice, which for antigravity needs that the tokens it refreshes differ from those it
found and from each other. `SpentIsTold` and `BlameIsDue` keep, at each step, the answer
that justifies the next one: clearing, saving, refreshing, blaming.

### The reports

`ReportProofs` proves for `UsageReport`, for each of the seventeen plugins, answers of any
length with any amounts, any calendar, and any limits on a chart:

| Theorem | States |
|---|---|
| `ReportTypeCorrect` | `ReportSpec => []ReportTypeOK` |
| `NeverRefused` | `ReportSpec => []NoRefusedLine` |
| `MetricsAreComplete` | `ReportSpec => []MetricsComplete` |
| `TotalsAlwaysAgree` | `ReportSpec => []TotalsAgree` |
| `BestIsShown` | `ReportSpec => []ShownIsBest` |
| `WindowsAlwaysHold` | `ReportSpec => []WindowsHold` |
| `PluginsInvariant` | `PluginsSpec => []PluginsIInv`: sessions, keys and reports together |

They assume `ReportAssumption`: what is given is in `MayAnswer`, a month has a day, and a
chart of the days that claude and codex keep is one the runtime accepts. The last theorem also
assumes `IdleAssumption`, by which the three parts that stand idle start in states of their own
specifications, and the assumptions of sessions and keys.

*The argument.* A report is one step, so the invariant is short (`ReportInv`): nothing
is shown yet, or what is shown is what the runtime makes of what the plugin returned
for what it was given. The work is in the operators.

* *The runtime.* `LinesParsed` says which lines pass `ParseLines` as they are, and that
  all others become error lines; `DerivedFacts`, an induction along the fold of
  `AppendDerivedQuotaMetrics`, that it keeps the metrics it gets, gives each quota its own,
  and adds no key twice; `OutputFacts` puts both together.
* *The plugins.* One lemma per plugin (`DevinSound`, ..., `CursorSound`, combined in
  `ReportedSound`) says of every answer that the plugin throws, or returns lines of the type,
  which the runtime accepts when the answer is `Sane`, and natural metrics with unique keys.
  So each plugin's clamps and guards are shown to be enough for the checks that `runtime.rs`
  makes, which stand in another language and another file.
* *The choices.* `BestRuns` follows jetbrains' choice along its fold and `BestFacts` concludes that it is one
  of the states and that none is better. That needs the comparison of shares by cross-multiplication
  to be transitive (`RatioTransitive`), which holds since limits are above zero.
  `PickSessionFacts`, `PickLargestFacts`, `UsedFacts`, `MinimaxChosenFacts` and `FindLimitFacts`
  say the same of the other searches.
* *The token counts.* `Sum` is a fold: `SumFacts` and `SumConcat` give its value, sign and behaviour
  over concatenation. `SortedFacts` shows that sorting by insertion keeps the total of the days and
  `ChartFacts` that the latest days sum to no more than what is served, and to all of it when
  nothing was cut. `TotalFacts` compares the two sums of a log whose days may be negative,
  `RefusedFacts` and `CostFacts` follow a negative cost through `ParseMetrics`, which leaves none
  of the plugin's metrics (`Taken`). `CardedFacts` says where on a card the token lines are; the rest of a card of
  claude or codex uses other labels (`AsideLabels`).
* *The calendar.* `MonthStart` is a recursive function; `MonthStarts` shows that it has the values
  its definition gives, `MonthOrder` that it increases, so one month holds each moment
  (`MonthOfFacts`). The anchor's day, cut to the length of a month, stays within it
  (`AnchorFacts`), and so the bounds around the present are those of two months that follow each
  other (`BoundsFacts`).

### The HTTP server

`ShellProofs` proves `CountMatchesHandlers`, `HttpSpec => []PermitsHeld`, for every finite
set of connections, every limit on them and on the size, and every set of
requests (`HttpAssumption`: the limit is positive, "noConn" names no connection). The
invariant `HttpInv` adds the types and that the connection in the hands of the accept
thread is served by nobody yet; without it, raising the count would not add a member
to `Served`. Each way out of a handler removes one member (`EndsKeepsInv`), each other
step of a handler none (`MovesKeepsInv`), and the compare-and-swap adds one only if
the count it loaded is still the count.

### Update, panel with shortcut, and rows

`ShellProofs` proves, with no bound on updates, shortcuts, processes, requests or ids:

| Theorem | States | Invariant |
|---|---|---|
| `CompleteUpdates` | `UpdateSpec => []InstallOnlyComplete` | `UpdateInv`: the three flags exclude each other, and a status of "ready" with no download in flight means that the held update is whole |
| `OneShortcut` | `ShellSpec => []RegisteredIsManaged` | `ShellInv`, which the panel's steps keep since they leave the shortcuts alone |
| `PanelFollowsFlags` | `ShellSpec => []WindowFollowsFlags` | `ShellInv`, with the types of flags and window |
| `EventsRecordedOnce` | `PlaneSpec => []RecordedOnce` | `PlaneInv`: a transaction that has inserted holds the lock and its row is absent until it commits; a request that has committed counts as recorded before it is answered |

They assume `UpdateAssumption` (the bound is a natural number), `ShortcutsAssumption` ("none"
is no shortcut) and `PlaneAssumption` (processes, requests and "free" differ, "demo" is no
event id).

`UpdateInv` shows why the button of the webview checks the download flag as well as
the status: the status alone is "ready" too early.

### What is only model-checked

* Liveness (`EventuallyFlushed`, `EveryBatchCompletes`, `EveryRefreshEnds`, `LastStateDrawn`,
  `EveryPermitReturned`): fairness and `ENABLED` are beyond the prover.
* What a model bounds by a table: the places of a credential (`Order`, `KeyOrder`) are written
  out plugin by plugin as the code has them, and the proofs go through these rows.

## 5. Not modelled

* *Input and output of other systems*: files, keychains, processes, SQLite and HTTP of the
  host API. They keep no state across calls; the plugin modules have their failures.
* *The macOS panel*: it is driven by another window system, through a crate outside
  the repository.
* *The capability matrix*: it is read, changed and written whole without a lock. That one
  of two concurrent writers loses is plain from the code and nothing says otherwise, so
  there is no promise to check.
* *Plugin secrets*: a file that is read, changed and written by synchronous commands, which
  run one after another on the main thread.
* *Saving and migrating settings*: whether two saves that are not awaited arrive in order is
  decided by the store plugin, outside the repository.
* *Routing*: `evaluate_route` is one pass of comparisons; a reference definition would
  repeat it.
* *No state of their own*: rendering and formatting, the remote dashboard server, the
  bridges, the loaders of configuration and provenance, the x-ray log, the hub web
  client, analytics. The mock plugin is a fixture for development.

## 6. Plan

Done: every module above with its runs, and a proof of every safety property a passing
run checks.

Left, in this order:

1. **`ProbeRuntime`**: which of its error texts the runtime shows when the deadline
   interrupts a script or a host call.
2. **`PluginSettings`**: normalisation and migration against a reference.
