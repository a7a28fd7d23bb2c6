# KotaUI in TLA+

KotaUI is a web panel for one managed sing-box core. It keeps its state (clients, inbounds,
settings, traffic) in `state.json`, generates the core's `config.json` from it, restarts the core
when the configuration changes, bills what the core carries to its clients, and updates itself.
These modules model the parts of it that are hard to test: what happens between the steps of
concurrent requests, background jobs, core, service manager and update scripts, and when one of
them dies or fails halfway.

## 1. The system

### Components

| Component | State | Operations | Modelled by |
|---|---|---|---|
| Configuration store and commit pipeline (`store.go`, `config_apply.go`, `app.go` mutate / persistStateOnly / resetMonth / New, `settings_apply.go`, `service_control.go`) | state in memory, `state.json`, `config.json`, `App.mu`, `Store.mu`, `coreReloadMu`, `settingsApplying` | commit = clone, mutate, stage + `sing-box check`, rename, save, roll back; restart of the core; start-up | `ConfigCommit`, `DurableConfig` |
| Traffic accounting (`traffic.go`) | `UsedBytes`, `TrafficCounters`, core counters; `DailyHistory`, `DailyUsage` and its anchor | `syncTraffic` = snapshot, query, update; `recordDailyUsage`; client create, reset, delete | `TrafficAccounting`, `DailyTraffic` |
| Quota enforcement and periods (`types.go`, `traffic.go`, `singbox.go` activeClients) | per client: pause, limits, day and month buckets | billing, turn of day and month, edits, reload of the core | `QuotaEnforcement` |
| Site ledger (`site_ledger.go`, the core patch) | record file, offset file, a ledger per day | the core appends; the panel aggregates, truncates, removes old days | `SiteLedger` |
| Panel update (`update.go`, `task_state.go`, `service/kota*`) | `update.status`, `update.context`, `update.lock`, `App.updateRunning` | press, poll, unit, daily script, administrator | `UpdateTask` |
| Background scheduler (`app.go` backgroundSchedulerLoop) | timers, the last mark seen | sync every 15 s with daily bookkeeping, rule-set watch, ping rounds | each job in the module of what it changes: `QuotaEnforcement`, `DailyTraffic`, `RuleSetWatch`, `PingHistory` |
| Login, sessions, throttle (`app.go`) | failure windows, bans; signed session values | login, eviction | `LoginThrottle`; sessions have no state on the server |
| Inbounds, clients, credentials (`app.go`, `validation.go`) | inbounds with protocol, port, keys; clients with bindings and a secret per inbound | create, edit, toggle, delete; rotate; `New` repairs secrets | `Resources` |
| Settings request, relay and rule-set watch (`app.go`, `settings_apply.go`, `singbox.go`, `kota-autoupdate`) | settings, landing port and secret, rule-set files and their mark | normalize, save or apply; fetch, mark, watch, restart | `SettingsRelay`, `RuleSetWatch` |
| Certificate renewal (`certificate.go`, `kota-cert-renew`) | `certificateRenewing`, `certificate-renew.status` | press, status request, script, deploy hook | `CertificateRenewal` |
| Network quality (`network_quality.go`) | targets (in the store), samples in memory and in `ping-history.json` | add, remove, round, first ping, prune, write | `PingHistory` |
| Configuration generation and subscriptions (`singbox.go`, `clash.go`) | none | pure | the choice of clients (`QuotaEnforcement`), users and links (`Resources`) |
| Dashboard, metrics, logs; SNI and route tests; web interface; installer | caches | reporting, probes | not modelled |

### Interactions

- Handlers and background jobs share the store under `Store.mu`; commits that write
  `config.json` also hold `App.mu`. Restarts of the core happen after both are released, under
  `coreReloadMu`, so commit order and restart order differ.
- Panel and core share `config.json` (read by the core when it starts), the core's statistics API
  (polled), and the site record file (appended by one, truncated by the other, no lock).
- Panel and scripts share `update.status` and `update.context` (renamed into place), the scripts
  share `update.lock` (flock). `updateIsRunning` gates every change to the configuration.
- `kota-autoupdate` and the panel share the rule-set files and the mark `.updated`; the panel and
  `kota-cert-renew`, its child, share `certificate-renew.status`.
- systemd restarts both processes, and a restart of the panel's unit ends its children; `Requires=` makes a restart of the panel restart the core.

### What is hard, and what makes each part correct

- **Commit pipeline.** Two files cannot be renamed at once; a save fails after `config.json` is
  live; the panel dies in between and the core restarts with a change that is then forgotten;
  the restart takes place after the lock. Correct: what was answered stays durable and in
  force, a core behind the panel is owed a restart, a failure is rolled back, the flag that blocks
  every other change is given back.
- **Accounting.** Counters are cumulative, restart at zero, are read unlocked before they are
  booked, and are saved only once a minute. Correct: no byte is billed twice, none is lost while
  the core lives.
- **Quota.** Usage, clock and edits change who is active; only a restart tells the core. Correct:
  a core that serves the wrong clients is owed a reload.
- **Site ledger.** Reader and writer share an append-only file without a lock; ledgers, offset
  and truncation are separate writes. Correct: a record is counted, and counted once.
- **Update.** Three ways to start it, a status file written by the panel and by scripts that kill
  that panel, flags that are set from what a poll read earlier. Correct: one updater, changes
  refused while it works, not refused for ever, every press gets an answer.
- **Resources.** A binding is kept in three places; the core reads one, the subscription another; an
  inbound's protocol and keys change under clients that keep their secrets. Correct: both readers
  agree, secrets suit their protocol, links last until somebody breaks them on purpose, and a
  withdrawn secret stays withdrawn.
- **Login throttle.** The check and the note of an attempt take the lock separately, and a full table
  evicts. Correct: a ban stops whatever was not in flight, and is served.
- **Settings and relay.** Pages overlap and send back fields they read earlier; the handler looks at
  the settings three times. Correct: a success is saved, the landing host's port and secret stay,
  and its port is no inbound's.
- **Rule sets.** Files, mark, configuration and core are changed by four parties, and the panel
  remembers the last mark in memory only. Correct: the core ends up with the newest rules.
- **Certificate.** The renewal's success kills the panel that waits for it. Correct: the button is
  given back, and the report is true.
- **Ping history.** Pings run outside both locks. Correct: rounds do not overlap, a removed target
  takes its samples along, no other target loses any.
- **Days of traffic.** A sync keeps the day it began on, the total is read before the commit that uses
  it. Correct: the rows add up, and each day has one.

`PROJECT.json` lists each hazard at its line with the properties that watch it.

## 2. Modules

### ConfigCommit, DurableConfig

A *request* is one operation performed once; a state of the store is the set of requests whose
mutation it contains, so "the change is in `state.json`" is `r \in disk`. `data`, `disk`, `file`
and `loaded` are memory, `state.json`, `config.json` and what the core read. The kinds of request
are `mutate` (App.mutate), `settings` (startSettingsApply and its goroutine), `month`
(resetMonth), `persist` (persistStateOnly), `traffic` (the status change and reload of
syncTraffic) and `service` (serviceAction). Actions follow the code: `PassGate`,
`BeginSettings`, `BeginService`, `BookTraffic` are the gates; `Lock`, `Apply`, `Save` /
`SaveFails`, `Rollback` are `commitConfigMutation` with `Store.UpdateWith`; `Regenerate` is the
reload's own write; `RestartCore`, `RestartFails`, `Confirm` are `controlManagedSingBox` and
`waitForServiceRunning`; `ClearApplying` ends a settings application. `PanelDies`, `PanelSpawns`,
`PanelOpens`, `CoreDies`, `CoreRespawns`, `DependentRestart` are the service manager and
`app.New`. `mu` stands for `App.mu` with `Store.mu`, which every commit holds over the same steps.

`DurableConfig` is what this promises to a user: changes become durable and stay so, an answered
change is durable and in force, and the core may be reloaded at any time but never without an
answered change. `ConfigCommit!KeepsPromise` is the refinement (committed <- disk,
answered <- acked, inForce <- loaded).

### TrafficAccounting

`core` is the running core's counter per username, `mem` and `disk` the store. `SyncBegin`,
`SyncQuery`, `SyncApply` / `SyncIdle` / `SyncFails` are the three unlocked parts of `syncTraffic`;
every other action may fall between them. `CreateClient`, `ResetClient`, `DeleteClient` and
`CommitOther` save the state as it is, `PanelRestart` goes back to `state.json`, `CoreRestart`
zeroes the counters and loads the client list. The history variable `carried` is what was really
carried; `undisturbed` are the usernames for which no reset, deletion or restart with a non-zero
counter ever took place. Users are keys of the map, one direction (up or down) is modelled: the
other is an identical copy. Renaming is left out.

### QuotaEnforcement

`Active` is `Client.Active`, `Generated` is `activeClients`, `SyncUpdate` the status comparison
of `syncTraffic` with `Reload`, `ResetMonth` and `RecordDailyUsage` the two bookkeeping jobs,
`SetPaused`, `Reset`, `SetTerms` the client handlers. Every commit is atomic here and billing is
exact, because their internals belong to the two modules above. `restarts` counts owed restarts
of the core.

### SiteLedger

A line of the record file is two units, `head` and `tail`, so a reader can meet half a line.
`Begin` takes size, offset, whole lines and days; `WriteDay`, `WriteOffset`, `Truncate`,
`WriteZero` are the later writes, and `Interrupt` may end the pass before each of them. Nothing
is synced, so a power failure may damage the offset (`LoseOffset`) or any day's file (`LoseDay`);
`Loaded` is `loadDaySiteLedger`, which takes a file that does not parse for an empty ledger. `Call` is
a caller that has taken its Snapshot and waits for `siteAggregateMu` (so the detail switch may
have changed since).

### UpdateTask

The systemd variant. `PressRead` ... `PressEnds` are the steps of `updatePanel`, `PollRead` ...
`PollStore` those of `updateStatus`. Both read the status (`Read`), ask `updateIsRunning` whether the
task they read about is dead (`PressJudge`, `PollJudge`; `PollJudgeStart` is the limit of a minute),
write that it failed (`PressGivesUp`, `PollGivesUp`: `Verdict`) and set the flag in memory (`PressClears`,
`PollStore`). Nothing is locked between these steps, and every other action may fall between
them. `finishUpdateForRun` is two steps as well: the file, which may refuse, then the flag. A call of
`systemctl` that fails counts as "inactive" (`Answers`).

Scripts: `unit` is `kota-update.service` running
`kotaui-update-run`, `auto` is `kota-autoupdate` (which takes the lock, looks for a commit, then
runs the same script), `shell` is an administrator. `Install` replaces the programs and restarts
the panel, which loses its memory and the requests in flight (`PanelStartsAnew`). The age of the
status file is `fresh`, `stale` (15 s) or `old` (1 min), the two limits the code compares with.

Two histories say what a verdict is worth. `current` are the readers since whose reading nothing was
written. The status is `mistaken` if the last write is a verdict of a reader that was not current, or
that `systemctl` had no part in. `overlapping` says that at the last claim of the flag an earlier one
was not done with, or the unit was at work.

Simplifications: the readings inside one call of `updateIsRunning` (flag, file, `systemctl`, age) are
one step; progress texts are left out, but for "starting"; `flock` is installed (without it `kota` 227-238
updates without a lock, and there is nothing to show).

### Resources

`inbounds` and `clients` are the two lists of the state. A secret is its kind (UUID, base64 key or
token) and the operation that made it; the key of an inbound stands for the REALITY key pair and
short id, or the Shadowsocks 2022 server key. `Users` is what `proxy.Write` lists under an inbound,
`Links` what `proxy.Subscription` hands to a client. A handler's mutation is one step, but an edit
of an inbound is two: `BeginEdit` reads the Snapshot and prepares the keys, `Edit` commits, and
anything may happen between (`drafts`). `Commit` asks `Check`, which stands for `sing-box check`:
TUIC users need a UUID, Shadowsocks 2022 users a key (VLESS derives a UUID from any text).
`Activity` is whatever makes a client active or not: pause, quota, expiry. `handed` and `revoked`
are history: every link anybody could have fetched, and every secret withdrawn. `Breaks` names the
edits after which links need not work.

### LoginThrottle

`Check` is `login` up to the comparison, `Fail` and `Succeed` note the outcome; between them any
number of attempts of any address may do the same. `Noted` is `noteLoginFailure`, `Swept` its call of
`sweepLoginFailsLocked`: a set of tables, for the map's order decides among equal windows. `judged`
counts the attempts noted during the current ban.

### SettingsRelay

`request` is what each page has in the handler: what it sent, what `normalizeRelay` made of it, and
whether the next step is to save, to apply, or (the flag taken) to commit. `Normalize`, `NothingToDo` /
`Decide`, and `Save` or `StartApply` with `CommitApply` read the settings anew, in the code's order.
The relay is its role, port and secret; `access` stands for the settings that concern the core. A
commit is one step, its faults being `ConfigCommit`'s. `handed` are the ports ever made up, `doubled`
those an inbound has taken afterwards.

### RuleSetWatch

`BeginFetch`, `Fetch`, `MarkChange`, `FetchStops` are `update_relay_rule_sets` of `kota-autoupdate`,
one file at a time; `Commit`, `Regenerate`, `PanelRestart` the places that generate `config.json`, which
names the files that exist at that moment; `Baseline`, `NewMark`, `WatchRestarts`, `WatchRestartFails`
are `relayRuleSetWatchStep`. A set is the version of its file. That the core reads a rule-set file
when it starts, and only then, is an assumption about sing-box.

### CertificateRenewal

`Press` ... `Released` are the steps of `renewCertificate` and its goroutine, `StatusReadsOld` and
`StatusWritesFailed` a status request that finds an old "running". `script` follows
`kota-cert-renew`, certbot and its deploy hook; `HookFails` is a hook whose `systemctl try-restart`
is refused, which certbot only logs (`outcome` is then `unloaded`), and `HookRestart` is `systemctl restart kotaui` seen from
inside the unit, which ends everything there (`KillMode=` is systemd's default, the control group).

### PingHistory

`AddTarget` and `RemoveTarget` change the store, `RemoveSamples` is the manager's part that follows;
`BeginRound`, `PingEnds`, `EndRound` are a round of `runPingChecks`, `first` the ping of a new target,
which no flag holds back. Every change writes the file anew, and no failure is noticed. `taken` is the history of
what was sampled. `Restart` reads the file, and takes one that does not parse (nothing is synced) for
an empty one.

### DailyTraffic

`SyncBegins`, `SyncUpdates` are `syncTraffic` with the day it took first and the roll of a client's
day (`Rolled`); `ReadTotal`, `Record` / `RecordRefused` are `recordDailyUsage`, whose total precedes
its commit. Memory and file are whole stores, and `Crash` goes back to the file. `all`, `billed` and
`gone` are history: what was billed, and what went with the rows that are no longer kept.

### MCPanelParts

`SiteLedger` and the six modules above share no variable and never wait for each other in what is
modelled of them. Their composition would be the interleaving of seven behaviours, in which each
part sees the other six as stuttering; so one run checks the sum instead of the product: the first
state chooses a part, and only that part moves. Nothing is lost by it, because every property names
the variables of one part only.

## 3. Runs

| Run | Question | Bounds, and why they suffice |
|---|---|---|
| `config_commit` | do failures, crashes and other requests ever take back an answered change; does the module implement `DurableConfig` | one request each of `mutate`, `settings`, `traffic`, `persist`, all faults but a rejected configuration: every pair of kinds meets at every step, with any number of crashes |
| `config_commit_live` | is `settingsApplying` given back, does the core converge | `mutate`, `month`, `settings`, `service` with rejected configurations and core deaths. No panel crash and no failed restart: after these nothing owes the core a restart |
| `traffic_accounting` | overbilling, loss | two usernames (one created, reset or deleted while the other is queried), three bytes each: a counter can fall behind, equal and pass an older one |
| `quota_enforcement` | is every wrong client owed a reload | one client (clients are independent in every action but the shared reload, which only helps), three days over two months, two bytes, two edits over four terms: a daily limit, a monthly one, a total with an expiry, monthly and total |
| `quota_bookkeeping` (violation) | comment of persistStateOnly | two clients, no edits |
| `panel_parts` | the seven parts of `MCPanelParts`: what each promises, through all its interleavings, failures and restarts | see below |
| `site_offset` (violation) | comment of readSiteOffset | two records |
| `update_task` | one updater, blocked while it works | two presses and one poll, which meet between any two of their steps; one fault (a kill, a crash, a `systemctl` that does not answer, a verdict not written), one run of the daily script |
| `update_task_live` | unblocks, every press resolved | one press, one fault, one check |
| `update_unwatched` (violation) | the same without polls | one press |
| `autoupdate_lock` (violation) | "another update is running" | the daily script and an administrator's call, no faults |
| `resources` | do core and subscription agree, do secrets fit, do links last | one client, two inbounds, two free ports and a reserved one, four operations that make a secret or a key, any number of the others: create, bind, two overlapping edits; or create, retype, restart, rotate. Clients share only the check |

Bounds of `panel_parts`:
- *Site ledger*: three records over two days, one interrupted pass, a maximal size of half a line so
  that each pass may truncate; offset and day files may be damaged between any two passes.
- *Login*: three addresses for a table of two, so that eviction has a choice; two attempts fill a window
  and two overlap, so that one can be in flight when the other starts a ban; bans of 2 and 3 ticks (the second is cut to the
  maximum) over windows of 1, and time for a ban, its end and a second one.
- *Certificate*: no bound but the age, which matters up to one tick past the limit.
- *Rule sets*: two sets, two versions, three marks, one switch of the relay: a set may be new, changed, or
  lag while the other is fresh, and a mark may come while an older one is being applied.
- *Ping*: two targets, at most two ids, and one tick, after which the earlier samples are a day old: a
  target can be removed and its address added again while the pings of both run.
- *Days*: two clients, three days, two bytes, two changes of clients, one row of all clients and two of each
  kept: rows are appended and dropped, and a sync or the bookkeeping can cross midnight twice.
- *Settings*: two pages, two requests, two ports, two secrets: a request can meet another page's at each
  of its steps. Three pages were explored once, with three requests; the theorems cover any number.

`a1` and `a2`, of which the six instances build their sets, are interchangeable (`Symmetry`): no part
tells its addresses, targets, clients, pages or ports apart. So are `r1` and `r2`, the records of the
first day. All properties of the run are invariants or properties of single steps.

Deadlock checking is off where the bounds (requests used up, bytes carried, days passed) let a
model stop.

**Fairness.** `ConfigCommit`: strong fairness for the steps of a request that has begun, since its
goroutine is scheduled and `sync.Mutex` hands a waiter the lock after 1 ms of starvation; weak
fairness for restarts by the service manager (`Restart=on-failure`; the deaths modelled are failures). Nothing forces a user to send a
request. `QuotaEnforcement`: the scheduler starts a sync every 15 s; strong fairness of
`SyncUpdate` says that the core answers sooner or later. `SiteLedger`: a dashboard is open
(`site_offset`). `UpdateTask`: systemd runs what it started and ends it after half an hour
(`TimeoutStartSec`); `Watched` adds that a page polls (`waitForUpdate` does every second) and
`Unwatched` does not, which is the difference between `update_task_live` and `update_unwatched`.

**Exceptions the properties state.** They are named in the modules, so that each is visible:
`unnoticed` (a client whose first bytes of a month reach its limit, or bytes that a sync begun before
the month's midnight bills to the old month; see `Overlooked`),
expiry (nothing restarts the core when a client expires) and `reloadFailed` (a failed reload is
never tried again) in `QuotaEnforcement`; `cut` (records appended between `Stat` and `Truncate`),
`spoiled` (behind half a line), `staleOffset` (stopped between truncation and offset 0),
`dropped` (in a day's file when a power failure damaged it), a damaged offset, `excused` (details off) and
`interrupts` in `SiteLedger`; the eviction of the oldest window of a full
table in `LoginThrottle`; the details switch of a request that also concerns the core, and `doubled`
(nothing compares a new inbound's port with the landing host's) in `SettingsRelay`; `mayLag` in
`RuleSetWatch` (a mark taken for the baseline by a panel that started after the files came, a restart
that failed and is not tried again, a fetch stopped before its mark); `unfinished` and `overtaken`
(a press that was cut off, a status request that judged an age just before the result) and `unloaded` (a
new certificate whose reload failed, of which the panel says "success") in `CertificateRenewal`; `left` (a ping in flight at the removal, a write that failed, a restart in between) and `lost` (the last write before a restart failed, or its file was damaged)
in `PingHistory`; `crossed` (a client created while a sync begun the day before waits: it gets two
rows of one day) in `DailyTraffic`; `overlapping` (a claim over a claim)
and `mistaken` (a verdict overtaken or guessed, until the next report of a script) in `UpdateTask`; in `Resources`, inbounds retyped since the panel started, and two accidents
of `Breaks`: an edit of a Shadowsocks 2022 inbound that leaves out its server key (the web form
sends none) makes a new one, and an edit of a REALITY inbound puts back the keys it read although
another edit changed them.

## 4. Findings

1. `recordDailyUsage` goes through `persistStateOnly`, "for bookkeeping that never affects the
   generated core config", but the configuration is generated from the clients active *now*: the
   step rewrites `config.json` without the clients that expired, and restarts nothing. An expired
   client is served until something else restarts the core. (`quota_bookkeeping`)
2. A damaged offset file is never replaced: the pass that skips to the end returns before it writes
   an offset, and so does every later one. (`site_offset`)
3. After a failed update only a poll clears the flag that refuses changes; with no page open the
   panel claims for ever that an update is running. (`update_unwatched`)
4. `kota-autoupdate` holds `update.lock` while the `kota update` it starts asks for it: the
   automatic update cancels itself, reporting another one. (`autoupdate_lock`)

Seen while modelling, without a run of their own:
- The certificate page says of a success that panel and core have reloaded "if the certificate was
  renewed". A run that replaces the certificate never gets there: its hook stops panel and script, the file
  says "running", presses are refused for 15 minutes and the result is then "failed"
  (`ReportIsHonest` states it as it is).
- If the hook's restart is refused (`kota-cert-renew` 13), certbot logs it and ends well, and the page
  says of a new certificate that panel and core have reloaded; they serve the old one until somebody
  restarts them.
- A poll, or a second press, that judged an older task dead may write "failed" and clear the flag after a
  press has started its unit (`update.go` 107-110, 19-20). So may one to which `systemctl` did not answer
  while the unit built for more than 15 s without a report. The panel then takes changes during an update
  until its next report.
- The comment on the first rule-set mark (`app.go` 229-231) says that a core just started has read the newest
  files. Panels restart without their core; what came in between is then taken for the baseline
  (`mayLag`).
- The settings are saved before the core restarts. After a failed restart the same request is answered
  "not changed, in force".
- Rule sets that arrive for the first time are not named in `config.json`, and so not loaded, before it is
  generated again; the watch only restarts the core.

## 5. Proofs

The theorems hold for every value of the constants that the named `ASSUME`s of the modules admit: any
number of requests, clients, inbounds, records, pages, presses, days and versions, and any number of
crashes. A bound such as `MaxOps` or `LastDay` is a parameter like the others. Proved are
all invariants the runs check, the action properties and the refinement; no theorem has a hypothesis of its own.

Each module has one inductive invariant: its type invariant, what the properties say, and what they
rest on. It is proved of the first states and of each action by a lemma of its own; a theorem per
property then reads it off.

| Module | Theorems | What the invariant adds, and why |
|---|---|---|
| `ConfigCommitProofs` | `CommitCorrect`, `CommitTypeCorrect`, `AnswersKept` (AckedInForce), `NeverSilentlyStale` (StaleIsOwed), `FileIsTheState` (FileMatchesState), `PipelineKeepsPromise` (KeepsPromise) | `StateInv`: `state.json` is within memory, a candidate is the state and its own request, no request is in the state before its commit. `CoreInv`: only a quota change reaches the state before the file, and whatever the core lacks belongs to a request that has not restarted it yet or has failed. `AnswerInv`: what waits for its answer is saved already. Without them a rollback or a crash could take back what an answer is about to promise |
| `TrafficAccountingProofs` | `TypeCorrect`, `BillingCorrect`, `NobodyOverbilled` (NeverOverbilled), `NothingLostWhileCoreLives` (ExactWhileCoreLives) | the answer in flight. `BillingInv` splits a username's bytes into those of earlier cores and the running counter; a store's usage is *covered* by the first plus, if its counter may come from this core, that counter; and what the answer in flight will have billed is covered in the same way, or the client is newer than the Snapshot and owes nothing. `ExactInv` is the equality for undisturbed usernames |
| `QuotaEnforcementProofs` | `QuotaCorrect`, `QuotaTypeCorrect`, `DisagreementAlwaysOwed` (DisagreementIsOwed) | a standing in the *file*, which the next restart hands to the core, as well as in the core; and two ways to judge it, for a configuration made before a client enters a month may follow last month's usage (`Active`) or this month's (`activeClients`), and the update that enters the month compares the two |
| `SiteLedgerProofs` | `LedgerCorrect`, `LedgerTypeCorrect`, `RecordsCountedOnce` (CountedOnce), `NoRecordLost` (NoneLost) | the text of the file (`LogInv`: one head per record, a tail behind each finished one), where the offset stands in it (`PassInv`, `LossInv`: behind a whole line), and how often what a later pass may still read was counted (`CountInv`). A damaged day counts nothing, so the counts shrink with it and bounds on them stay. That `LastLine` is well defined is a lemma |
| `UpdateTaskProofs` | `LockCorrect`, `UpdateTypeCorrect`, `OneUpdaterOnly` (OneUpdater), `PanelIsBlocked` (BlocksWhileWorking) | `LockInv`: who works holds `update.lock`, and the daily script holds it while it looks for a commit. `GateInv`: a reader that is current and judged the task dead did so with the unit off, and the unit has not begun since, for it would have written (`VerdictsStand`); two claims at once, or a claim beside the unit, are of a press that overlapped (`ClaimsOverlap`); the daily script has the lock as long as it runs, so its last words never fall into the unit's work (`LastWords`) |
| `ResourcesProofs` | `ResourcesCorrect`, `ResourcesTypeCorrect`, `SubscriptionAgrees` (SubscriptionIsServed), `SecretsSuit` (CredentialsFit), `LinksKeepWorking` (LinksLast), `WithdrawnForGood` (RevokedStays) | bindings and secrets name the same inbounds (`BoundInv`); whatever exists was made by an earlier operation, so a new secret is never an old one (`AgeInv`); a key belongs to one protocol, and a draft's key to what it read (`KeyInv`), without which an overtaken edit could bring any key back; links handed out are the links of now (`HandInv`) |
| `PanelPartsProofs` | `LoginCorrect`, `BansStopNewAttempts`, `BansServed` (BanIsServed); `CertificateCorrect`, `RenewalRefusedForAReason`, `RenewalReportIsHonest`; `RulesCorrect`, `NewestRulesAreInForce` | a ban reaches no further than its length, and `loginBanDuration`, as the recursion of its loop, only grows (login); flag, child, file and script agree (certificate); a core behind the files is on its way to be restarted (rules) |
| `PanelRecordsProofs` | `PingCorrect`, `RoundsApart`, `RemovedForgotten`, `SamplesKept`; `DailyCorrect`, `DaysHaveOneRow`, `AddingCorrect`, `DaysAreRight` (DaysAddUp); `SettingsCorrect`, `PortsStayApart`, `LandingFixed`, `AnsweredSaved`, `RequestsRest`; `TypesCorrect` (TypesOK) | ids are given once, and whoever is pinged is known (ping); days ascend in memory *and* in the file a crash goes back to, and what is in flight is not older; what was billed *covers* the rows and the total's distance from the anchor, and also the distances from the anchor to a total read but not used and from there to the total of now (days); every port a page or a request shows was made up once, and a request that was completed shows a whole relay; one that is not under way is an answer (settings) |

`PipelineKeepsPromise` is the step simulation of `DurableConfig`: every step of the pipeline maps to
one of its steps or a stutter.
The theorems of `PanelPartsProofs` and `PanelRecordsProofs` are about `PartsSpec`, those of
`SiteLedgerProofs` about the ledger's own `Spec`.

**Induction over data.** The provers cannot instantiate the library's induction theorems, but they can use
`WFMin`, which gives a set a smallest element: a lemma is proved by the smallest counterexample to it, a
number (`SmallestNumber`) or a set all of whose subsets obey (`SmallestOf`). That is how

- the lengths of bans are computed: the recursive function of `BanDuration` exists and is unique
  (`BansExist`, `SameBans`), each ban is the one before doubled and capped (`NextBan`), and none is shorter
  than the one before (`BanGrows`);
- the sums of `DailyTraffic`, `SumFunction` of the community modules, are unfolded: the function that adds up
  set by set exists (`SumsExist`), the sum of a set is that of one element less and the element
  (`SumStep`), whichever element that is (`SumWithout`). From these follow what a row appended adds, what rows
  dropped take along (`BytesAfter`, `BytesKept`), and what the total of all clients makes of one client
  more, less or billed (`OneLess`, `OneUsed`). `ClientsCount` and `RecordAdds` then are arithmetic: billing
  n bytes moves the total and `billed` by n, and a commit turns the distance from the anchor to the
  total read into a row.

`AddingInv` was checked by TLC on the instance of `panel_parts` before it was proved.

**What the attempts found.** Four attempts failed because the formula, or the model, was wrong:
- `DisagreementIsOwed` was false for clients with a monthly and a total limit, where a sync begun before a
  month's midnight bills to the old month what `activeClients` no longer counts. `Overlooked` names these
  clients now, and the run has terms with both limits.
- `LandingIsFixed` was false with three pages: a request completed while the host was no landing host was
  saved after another page had brought the old port back. `first` records it; the run's two pages were too few.
- `GateInv` needs the poll not to be one of the presses (`PollAssumption`).
- `AnswerInv` is inductive only together with "who regenerates the file is a quota change", because
  `Regenerate` takes it for granted.

**Only model-checked.** Liveness under fairness (`CoreConverges`, `SettingsApplyEnds`, `Unblocks`,
`Resolved`, `ServesTheActive`) and ENABLED are beyond the proof system. What the four violation runs show
is a matter of single behaviours. No module declares a RECURSIVE operator.

## 6. Not modelled

- *Dashboard, metrics, logs* read procfs, the journal and the store and change nothing; `serviceAction` is
  in `ConfigCommit`. *SNI tests* are probes without state behind a semaphore, *route tests* keep a cache by
  viewer address. The *web interface* is a client of the API. *Installer and build scripts* run once, in
  sequence.
- Generation of JSON and links is a pure function of the store. But for ports, bindings and the
  settings, validation of requests is abstracted to "the mutation may fail".
- OpenRC: the variants of update, renewal and restart there (the panel is the script's parent and the
  restart spares it). All modules model systemd.
- The update's gate is not composed with the commit pipeline; a refused request is a stuttering step
  there.
- Three hazards have no property: the details switch is read before the aggregation's lock
  (`app.go` 476; the passes a caller runs with an old switch are in `SiteLedger`, what the switch promises
  is not), the core's record channel drops when full (the patch, 107), and a late poll may write
  "failed" over a success (`update.go` 110: `Verdict` does so, what the page is told of it is not a property).

## 7. Plan

Modelled: commit pipeline, accounting, quota, site ledger, update, inbounds and clients, login
throttle, settings and relay, rule sets, certificate, ping history, days of traffic. Proved: all
safety properties of these. What could follow:

1. The update's gate in front of `ConfigCommit`, so that a change and an update cannot overlap by more
   than the check already made.
2. The OpenRC variants of update and renewal.
