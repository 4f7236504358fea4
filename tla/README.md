# A verification project for mining-stack

mining-stack runs and watches a small farm of ASIC miners: a Python collector reads the
machines, Prometheus stores what it read and Alertmanager raises alerts, a Node backend
keeps the inventory, the statistics and the alert record, a React frontend shows them, a
Telegram bot answers on the phone, and a watchdog on the site's Raspberry Pi restarts the
router when the uplink is gone.

These modules model the parts of it in which order, failure and staleness decide whether
the result is right. TLC checks them on small instances; TLAPS proves every safety invariant and
action property the runs check for every value of the constants.

    cd tla
    tlc -workers 2 -config Collector.cfg MCCollector      # any run of the table below
    tlapm MachineProofs.tla                               # any *Proofs module

`PROJECT.json` lists the components, the runs, a mutant of the model for every property,
the source lines of every definition, the hazards and the theorems.

## 1. The system

### 1.1 Components

| component | source | state it keeps | operations |
|---|---|---|---|
| Alert record and notification | `backend/src/services/alert.service.ts`, `notifier.service.ts` | `activeAlerts`, `alertHistory` (at most 1000), table `alerts`, counters | webhook from Alertmanager, manual create and resolve, load at start, notify |
| Miner inventory | `config/miners.config.ts`, `db/repositories/miner.repository.ts`, the inventory routes | table `miners`, one cached list with a five-second life | list (all, or one owner's), look up, add, edit, delete, transfer, import from YAML, status updates |
| Live statistics | `services/mining/*`, `services/mining.service.ts` | one snapshot in memory, intervals, history rows | tick (Prometheus or simulation), push, start, stop, restart of a miner, hourly and six-hourly jobs |
| Statistics history | `db/repositories/stats.repository.ts`, `miner-stats-history.repository.ts` | tables `stats_raw`, `stats_hourly`, `stats_daily`, `miner_stats_history` | insert, aggregate, clean up |
| Metrics collector | `python-scheduler/main.py`, `config.py`, `metrics.py`, `state_manager.py`, `collectors/pyasic_collector.py` | list of machines and its provenance, published series and their labels, failure streaks (saved), fallback breakers | one pass every two minutes, reload, start, forget, save |
| Drivers and parsers | `python-scheduler/collectors`, `parsers`, `asic` | none that outlives a read | read a machine, make readings of it |
| Telemetry of firmware v3, rated hashrate | `python-scheduler/v3_telemetry.py`, `rated_hashrate.py` | de-duplicated event file, per-machine caches | poll, append, rotate, prime |
| WAN watchdog | `bin/wan_watchdog.py`, `router-exporter/rci.py` | outage, ladder, budget; saved to a file | probe, escalate, save, load |
| Router exporter | `router-exporter/router_exporter.py` | none | scrape |
| Alert rules | `alert-rules.service.ts`, `alert-rule.repository.ts`, `pages/AlertRulesManagement.tsx` | tables of rules and of their history; the page's dialogs and list | create, update, toggle, delete, history, load |
| Accounts and sessions | `auth.service.ts`, `auth.middleware.ts`, `auth.routes.ts`; frontend `AuthContext`, `Login`, `api.ts` | users, pending verifications, cookies of the browser | ask for a login, confirm it in Telegram, poll, refresh and retry, log out |
| Pools | `pool.service.ts`, `pool.routes.ts`, `pool.repository.ts`, `pages/PoolEarnings.tsx` | tables of pools and accounts; the page's selection and data | edit accounts and pools, load the earnings of an account |
| Miner control | `miner-control.service.ts`, `miner-rebooter.ts`, the control routes, `setMinerPools` | table `miner_pools` | reboot one, several or all; write pools to machines; read and store them |
| Telegram bot | `telegram.service.ts` | last message and navigation stack of each chat, the polling bot | commands, buttons, edit or send, retries, reboots, settings |
| Live channel | `websocket.service.ts`, frontend `websocketMiddleware`, `useWebSocket`, `miningSlice` | clients, heartbeat, reconnection attempts | broadcast, ping, reconnect |
| Response cache, database, server | `cache.service.ts`, `database.service.ts`, `migrations.ts`, `server.ts` | cached responses, schema, timers | middleware, migrate, start, stop |
| Frontend pages | `frontend/src/pages` | forms, fetched lists | one request each |
| Farm initialisation, maintenance scripts | `bin/farm_init.py`, `backup_prod.py`, `dmi*_reconcile.py` | none | scan, reconcile, back up |
| File locks | `utils/fileLock.ts`, `file_lock.py` | lock files | called by nothing any more |

### 1.2 How they interact

* The **collector** asks the backend for the list of machines (`GET /mining/miners` with the
  system key), reads the machines, exposes series to Prometheus, and pushes the readings to
  the backend after each pass. When the backend is silent it works on an older list or on a
  seed file.
* **Prometheus** scrapes the collector; the backend's tick queries it every 30 s and writes
  the snapshot and the statuses, or, with `METRICS_SOURCE=push`, the push does.
* **Alertmanager** posts groups of alerts to the backend, a critical alert through two
  receivers to the same URL; the backend records and notifies.
* The **inventory** is read by everything in the backend through one cache, and edited by
  routes that each patch that cache in their own way.
* The **frontend** and the **Telegram bot** read the snapshot and the record, and send the
  requests that edit the inventory.
* The **watchdog** shares nothing with the others but the router; it asks Prometheus about
  the LAN before it acts.

### 1.3 What is hard, and what correct means

| component | hard behaviour | correct means |
|---|---|---|
| Alert record | two requests interleave at awaits; at-least-once delivery by two receivers; crash between record, write and notification; bounded history | an episode is announced once, recorded and active lists agree, rows can rebuild memory, a resolved alert goes away |
| Inventory | one cache for lists of different scope; each write patches it differently; a row is rewritten whole by every edit | the cache names only miners that exist; an owner changes by transfer only; a field nobody edited is kept |
| Live statistics | await between query and list; a query that fails looks like a farm without readings; timers that outlive what they are about | no deleted miner comes back; snapshot and statuses become right once things are quiet |
| Collector | provenance of the list; series removed by remembered labels; breakers and streaks over restarts and aborted passes | a machine's readings under one name, no ghosts, dark machines lose their readings, the backend's list is followed |
| WAN watchdog | crash between action and save; an action that succeeds and raises; old state read back | budget, spacing, one restart per outage, no hasty restart |
| Statistics history | windows that begin inside a bucket; retention against aggregation | a closed bucket holds the aggregate of all its rows |
| Sessions | two tabs share cookies and one pending verification; a message pressed late; lost answers; a restart forgets what was pending | one login per confirmation, a valid login survives everything but a logout or a change of secrets, no call and no form hangs |
| Telegram bot | handlers interleave at every call; edits that fail become messages; repeated calls; messages with buttons that outlive what they are about | a reboot for every confirmation and no other, no single failure stops the backend, every handler ends |
| Pages of rules and of earnings | answers in any order; dialogs over a list that is loaded again; two administrators | a save goes to the rule its form shows; what is shown belongs to the selection; keys left blank stay |
| Live channel | closes, timers, unloads and failed attempts each touch the one connection; links that die silently; a shutdown | exactly one connection alive or planned, dead sockets are dropped, an assumed reboot is corrected while snapshots come |
| Miner control | commands whose answer is lost; a bulk as slow as its slowest machine; a table written without a transaction | no command repeated, every request answered, the stored pools are one list's |

## 2. Modules

| module | models | lines of code it stands for |
|---|---|---|
| `AlertPipeline` | the alert record and its environment | `alert.service.ts`, `notifier.service.ts`, the webhook route |
| `AlertBook` | the abstract promise: opening an episode owes one announcement | refined by `AlertPipeline` |
| `WanWatchdog` | the watchdog's tick, ladder, budget, saved state | `wan_watchdog.py`, `rci.py` |
| `MinerInventory` | table and cache of the miners, one action per operation | `miners.config.ts`, `miner.repository.ts`, routes |
| `LiveStats` | tick, push, start, stop, restarts, **composed with** `MinerInventory` (EXTENDS) | `services/mining/*`, `mining.service.ts`, `prometheus.service.ts` |
| `Collector` | list, pass, series, streaks, breakers, restarts | `main.py`, `config.py`, `metrics.py`, `state_manager.py`, `pyasic_collector.py` |
| `Session` | cookies, pending verification, calls and forms of several tabs, the login message | `auth.routes.ts`, `auth.service.ts`, `auth.middleware.ts`, `AuthContext.tsx`, `Login.tsx`, `api.ts` |
| `TelegramBot` | one chat: messages, contexts, handlers in flight, pollers | `telegram.service.ts`, the Telegram routes, `server.ts` |
| `AlertRules` | the table of rules and the page in several browsers | `alert-rule.repository.ts`, `alert-rules.service.ts`, `mining.routes.ts`, `AlertRulesManagement.tsx` |
| `Pools` | pools, accounts and the page of earnings in several browsers | `pool.repository.ts`, `pool.service.ts`, `pool.routes.ts`, `PoolEarnings.tsx` |
| `LiveChannel` | WebSocket server, its shutdown, the reconnecting page | `websocket.service.ts`, `server.ts`, `websocketMiddleware.ts`, `miningSlice.ts` |
| `MinerControl` | restarts, pool updates and reads in flight, `miner_pools` | `miner-control.service.ts`, `miner-rebooter.ts`, `mining.routes.ts`, `miner.repository.ts` |
| `MC*` | instances for TLC | |
| `AlertPipelineProofs`, `WanWatchdogProofs`, `SessionProofs`, `AlertRulesProofs`, `PoolsProofs`, `LiveChannelProofs` | theorems about the module of that name | |
| `FleetProofs` | theorems about `MinerInventory`, `LiveStats` and `TelegramBot` | |
| `MachineProofs` | theorems about `Collector` and `MinerControl` | |

Operators whose comment begins with *Defect* are deliberately wrong versions of the
operator that follows them; nothing uses them. They are there so that each property can be
shown to notice a plausible bug (`mutants` in `PROJECT.json`).

### 2.1 AlertPipeline

*State.* `active`, `history` with `order`, `rows` are `activeAlerts`, `alertHistory` and the
table; `request` holds the locals of each webhook request in flight; `condition`, `acked`
are what Alertmanager knows. `tally`, `lost`, `unsaved` are history variables.

*Atomicity.* Node runs what is between two awaits without interruption. A request awaits
twice per alert: `determineAlertRecipients` (before recording) and `notifyAlert` (after).
So a request alternates between `RecordFiring`/`RecordResolved` and `Notify`, and requests
interleave there and only there. The write queue is a chain of microtasks, which run before
any other request gets its turn: a row is written, or fails to be, in the recording step.

*Environment.* Each receiver has at most one request it waits for, repeats and retries;
`Timeout` lets it stop waiting while the handler runs on. `MaxFaults` bounds crashes,
timeouts, failed writes, repeats and days passing, together.

*Abstracted.* Texts and recipients; whether the phone got the push (it is only counted and
logged). `clearResolvedAlerts` only logs; `cleanupDuplicateAlerts` looks for duplicates of a
primary key. The order of the alerts inside a batch is left open. `resolveManualAlert` takes the
id of any active alert (only the page offers manual ones): `Resolvable` and `FirstEpisode` bound which alerts of
Alertmanager somebody resolves so, and a later delivery of one still firing opens it again.

`AlertBook` is the promise without requests, rows or history; `ImplementsAlertBook` says
that active webhook alerts are its open episodes and requests about to announce a firing
alert its debts.

### 2.2 WanWatchdog

*State.* `st` is `self.state`, `file` the saved copy, `armed` the flag of the running
process. A tick is two steps, what it decides and does (`Tick`), and `Save`, so that the
process can be killed between them. `acts` are the restarts of the router that really
happened; `missed` those that left no trace in the state the process works with. The budget is claimed for the others, and
`AFaultForgetsOneRestart` bounds what is left out: a process that reads its file back has forgotten
at most one restart for each fault, and none without one.

*Environment.* Probes fail or not; a restart's answer may make `command()` raise although
the router restarted (`raise`); the process may be killed before a save, fail to save, read
a corrupt file, or be off while the link recovers and fails again.

*Bounds of the run.* Real defaults (`wan_watchdog.py:91-113`): a probe a minute, three failed
rounds, first action after 10 min, settling 15 min, a budget of three in six hours, back-off of
one hour. The instance has two failed rounds, first action after 1 unit, settling 5, back-off 7,
a window of 11 and a budget of two: first action < settle < back-off < window, as in the code.
Ticks are 1 or 6 units apart, so that both sides of each boundary are met; sixteen units hold two
restarts, a spent budget, the first of them leaving the window and a third restart after it. The
`VIEW` `FewFailures` identifies states that differ only in failed rounds beyond the
threshold, which nothing reads.

### 2.3 MinerInventory

One action per operation; each is one synchronous call in one process. The cache is one
list whatever it was loaded for: `getMiners(owner, true)` leaves one owner's miners in it
for the next five seconds, and the model has that. Every write is modelled with the patch
it makes to the cache: `addMiner` appends, `updateMiner` merges the request body (owner
included) into the entry, `deleteMiner` filters, a transfer only invalidates.

*Abstracted.* Aliases, credentials, model and role (they can make an operation refuse,
which changes nothing); a `null` in an edit is taken as the field being left out; no other
process writes the table. `ip` and `name` are distinct sets because an identifier is looked
up as either.

### 2.4 LiveStats

Extends the inventory by the snapshot, the tick with its await (`FetchStart`, `FetchFails`,
`FetchEnd`), the push and the scheduler's reload, start, stop, restarts and their timers.
A machine is up or not; readings are the set of machines seen up. The statuses `error` and
`offline` of a machine that answers badly are not told apart from up and down.

*One tick at a time.* `setInterval` does not wait for an async callback, but the queries
have a timeout of five seconds and the interval is thirty.

*Fairness.* Timers fire (interval, cache life, restart timers), an awaited answer arrives,
the scheduler goes on pushing and reloading. Nothing is assumed of users, machines or
failures; `MaxRequests`, `MaxTurns` and `MaxFailures` bound them, so that the liveness
properties say what happens once they are over.

### 2.5 Collector

*State.* `list`, `source`, `fresh` are the cached list, its provenance and its age;
`polled`, `outcome` the locals of a pass; `labels` the label cache of the gauges, `partLabels`
those of the parts; `values`, `parts`, `status` the published series as pairs of address and label; `streaks` (saved on `disk`) and `fails`
the counters. `answer` and `dark` are history variables.

*Atomicity.* A pass is `StartPass`, `Read`, `Retry`, `Finish`, with `Abort` where something
raises. `load_miners_config` is synchronous and nothing else runs meanwhile. One pass at a
time: the job, a request and the first pass all skip while the lock is held.

*Three kinds of series.* `values` are the gauges of `get_all_miner_metrics()`: they are removed by
the labels of `_miner_label_cache`, and a relabelled machine loses them at once, answering or not.
`parts` are the series of boards, fans, supply and pools: each family has a cache of its own, which
only an answer, the cull at the threshold or forgetting the machine touches, so that a machine
renamed while it is silent keeps them under its old name (3.1). `status` is
`miner_scrape_status`, which the code keeps when readings are dropped. `dark` counts refusals under
one label, as the streak does: a rename begins anew.

*Abstracted.* The families of a kind are one; a frozen uptime is one of the ways a
reading is `poor`; streaks are capped at the threshold (only the comparison with it is
used); one second method per machine; an example has none. Comparison mode, the v3 and
the rated-hashrate passes are not modelled, and with them neither `miner_psu_v3` nor the counter of
error events, which keeps an old name until the machine is forgotten. `miner_state`, written as 0
by a failing read, counts as part of no kind; a machine whose algorithm changes to scrypt keeps
the source of its rated figure until it is culled, which `PublishParts` has go with the rest.

*Fairness.* The container is restarted, the job fires, each read has a timeout, the list
ages. `MaxEvents` bounds edits, outages, crashes, exceptions and failed saves together:
four are enough for a failed save, a crash, an outage and an edit in one behaviour.

### 2.6 Session

*State.* `jar` is what the tabs share: no cookies, cookies of an older secret, an access
token that ran out beside a refresh token that did not, or both good. `call` is the axios
call of a tab with its leg (first, refresh, again), `form` the call of its login form,
`pending` and `timers` the map `pendingVerifications` of one chat and its one-minute timers,
`buttons` the login messages that can still be pressed.

*Atomicity.* The server answers in one step; an answer arrives later and sets cookies then.
`/auth/login` awaits the sending of the message, so the entry it made may be another tab's
when the sending fails (`MessageFailed`). The timer of a confirmation deletes the chat's
entry whatever it is by then (`ConfirmTimer`).

*Abstracted.* One account and one chat; roles, tokens and their signatures. A restart either
keeps the secrets or changes them, and always forgets `pendingVerifications`.

*Fairness.* Answers arrive, the message is sent, a form that waits polls, timers fire. Lost
answers, failed messages, restarts and expiring cookies are bounded by `MaxFaults`.

### 2.7 TelegramBot

*State.* `chat` are the messages with their buttons (what a press leads to depends on the
screen that is shown), `contexts` the `UserContext` objects, `current` the one the map holds
(a handler keeps the object it took, although the clean-up may have dropped it from the
map), `handlers` what each command or press in flight has still to do. `taps`, `reboots` and
`doubled` are history variables.

*Atomicity.* A handler runs to its next call of Telegram or of a machine. `sendOrEditMessage`
edits, and sends when the edit fails; `withTelegramRetry` repeats temporary errors;
what a handler throws is caught, answered, and what that throws ends the process
(`GoDown`, the `unhandledRejection` handler of `server.ts`). Telegram may fail every call;
`Fault` bounds only what others do: deletions, settings saved again, restarts, clean-ups.

*Abstracted.* Texts, pages of lists, the debounce as a set of messages refreshed since the
start. The commands that only read are `start`, `help`, `status`, `alerts`, `miners`,
`find`, `whoami`. A refused `/transfer` posts as `whoami` does, without a catch; the login buttons,
which have none either, are on the messages of `Session` and not in this chat.

### 2.8 AlertRules and Pools

Both compose a repository, its routes and the page that edits it, open in several browsers.
A request changes the table when it is sent; its answer, with the list as it was then, is a
record in `calls` that arrives in any order or is lost. A click needs what the page shows:
the table, no spinner, no dialog on top. `version`, `at` and `done` say how new a list is;
`form.from` and `form.crossed` remember what a form was opened for. A page whose loads
overlapped is `strayed`: the code does not order them, so nothing is claimed of it.

In `Pools` the tables may be missing (no code of the repository creates them), an account is
visible only while its pool exists, and the key field left blank keeps the key. An account
cannot be added (3.1): the accounts are there from before.

*Fairness* (`Pools`): answers arrive. The client's axios sets no timeout; the backend's calls of a
pool have one of ten seconds (`pool.service.ts:115`), and a connection that breaks is an error.

### 2.9 LiveChannel

A page has a socket, a number of scheduled reconnections, the count of attempts; the server
has a socket for each page, alive or pinged, and the sockets of links that died silently
(`zombies`). `Broadcast` queues a snapshot, `Delivered` replaces what the page shows,
`RebootClicked` marks a miner in it. `Signal` makes the server wait for its sockets, which
`ForcedShutdown` ends after thirty seconds. `source` is `METRICS_SOURCE` and `running` the interval:
with "prometheus" the ticks broadcast until `StopMining` (`POST /mining/stop`) clears the interval;
with "push" the ticks broadcast nothing and the scheduler's pushes do, running or not. The catch
around `new WebSocket` (`websocketMiddleware.ts:69`) needs a bad URL, which is a constant.

*Fairness.* Intervals that are set and timers of both ends run, the scheduler pushes, attempts to connect end, the network
delivers, a supervisor starts the server again. Dropped links, failed connections, late
pongs, stops, signals and unloads are bounded by `MaxFaults`. Nobody need ever start mining again:
`MarksHeal` is claimed under pushes or `<>[]running`, as `SnapshotHeals` of `LiveStats` is.

### 2.10 MinerControl

`jobs` are the requests in flight: a bulk with the leg each machine is at (token, restart,
post), or a read with the method it tries. A command may be carried out or not and be
answered or not, independently. `setMinerPools` deletes the rows and inserts until a
priority is taken twice; a miner that is gone takes no rows. `given`, `asked`, `restarted`
are history variables.

*Atomicity.* `setMinerPools` is synchronous: nothing comes between its statements but the
failure of one of them. A read awaits each method; removal, another read and an entered list
may come between it and the storing of what it read.

*Fairness.* Every call has a timeout, so a task or a method ends. The socket of the last
method has an idle timeout only, which a machine that keeps sending would renew; such a
machine is not modelled.

*Abstracted.* A request names a machine once; the code maps a list, so one that names a machine
twice is two commands to it, as two requests at once are in the model.

## 3. Runs

| run | question | instance | result |
|---|---|---|---|
| `alerts` | Is the record consistent, and each episode announced once, in every interleaving? | two alerts, one critical, the other resolvable by hand; two requests; history of one; two faults of five kinds; slots symmetric | holds |
| `alerts_live` | Does a resolved alert leave, and is a recorded one announced? | one critical alert, resolvable by hand, one manual; crashes and repeats, three in all | holds |
| `wan` | Budget, spacing, one restart per outage, patience; does a fault cost one restart of the record? | 2.2; one fault of any kind; armed and dry | holds |
| `inventory` | Does the cache name real miners, and do owners keep theirs? | two addresses, three names, two users; no other bound: the state space is finite | holds |
| `live` | No miner back from the dead, all right in the end? | two miners, two users, three deployments; two requests, one machine turning, one failed read | holds |
| `collector` | Readings under one name, no ghosts, dark machines lose readings, the list followed? | one renamable, removable machine with a second method, one example; thresholds 3 and 2; four events | holds |
| `session` | One login per confirmation, no login lost, no call or form left waiting? | two tabs; two login messages, one reload, logout or administrator's request, one fault | holds |
| `telegram` | Are reboots confirmed, does one failure leave the process up, do handlers end? | one miner; two updates in a chat that may hold old screens; two handlers; two attempts; one fault | holds |
| `rules` | Does a save hit its rule, does a page show what it reported done? | two administrators (symmetric), an imported rule and one more; three requests, one lost answer | holds |
| `pools` | Do data and selection agree, do pages settle? | two administrators, two accounts, a second pool; two requests, one failure | holds |
| `channel` | One connection alive or planned, dead sockets dropped, marks healed while snapshots come? | two browsers, two attempts; ticks or pushes broadcast; two faults | holds |
| `control` | Are stored pools one list, restarts asked for, requests answered? | a Whatsminer and another machine; two requests, two changes | holds |

Why the bounds are enough. `alerts`: a history of one makes every second alert evict, two
requests are what the two receivers can have in flight for one group each, and two faults
combine any two kinds; the properties speak of one alert at a time, the second is there to
share a batch and to evict. One alert at a time is `Resolvable`, and in its first episode
only (`FirstEpisode`), because each resolution by hand may be followed by another delivery that
opens the alert again. `inventory`: two addresses and three names allow a swap of
names through a third, a miner moved to a free address and a name refused. `live`: two
miners of two owners are the least for a filtered list to differ from the fleet; two
requests are a listing or deletion during a tick, or a stop and a start. `collector`: the
threshold of 3 above the breaker's 2 lets the breaker open before the streak is full.
`session`: two tabs and two messages are the least for one tab's timer, failure or poll to
meet the other's entry. `telegram`: two handlers are what a double tap needs; the chats left
by an earlier life of the bot stand for the updates that made them. `rules`: three requests
are an edit, a history and a save, or two changes and a load, on pages that each hold two in
flight. `pools`: two requests are an edit against a deletion, or two selections. `channel`: with
two attempts a page gives up after a single signal, while the server stays down; two faults are a
stop of mining and one thing more, or a dropped link and a late pong. `control`: two requests are two reads of one machine, or a read and an
entered list; two changes remove a miner and add it again while it is read.

Deadlock is not checked where `CHECK_DEADLOCK FALSE` is set: time, faults and requests are
bounded and every one of these systems may come to rest. `inventory` never does and is
checked.

### 3.1 Where code and words differ

The models were translated from the code, so they have the following behaviours. No property
claims the opposite.

* `wan_watchdog.py:430`: "A rolling action budget prevents the restart loop" (line 49);
  charge, rung and time stamp are written after the action returned, so a restart whose answer
  raises is repeated at the next tick, uncharged and unsettled; one followed by a kill or a failed
  save is forgotten by the next process, although "a restart of this process does not reset the
  budget" (line 58). `LoopPreventedWithoutFaults` proves the promise when no fault loses a charge.
* `metrics.py:901`: "Remove metrics with old labels when a miner's name/model
  changes"; the function removes the fourteen gauges of `get_all_miner_metrics()`, and a machine
  that is renamed while it does not answer (`pyasic_collector.py:1285`) keeps the series of its
  boards, fans, supply and pools under the old name. Its failure streak, kept by name, begins anew,
  so they also outlive `FAILURE_THRESHOLD` refusals in all.
* `miners.config.ts:389`: THRESHOLDS.md gives a miner's own thresholds priority; any edit of
  the miner erases them. Changing the address inserts a second row.
* `prometheus.service.ts:50`: "On a Prometheus read error it returns the last-known-good live
  stats" (`stats-reader.ts:10`); the client turns errors into empty answers, so the fleet is
  shown, and recorded, as offline.
* `miners.config.ts:199`: "Get all configured miners"; within five seconds of a user's listing
  the tick gets that user's.
* `main.py:532`: "Reset failure streak if any data was collected"; a time-out resets it.
* `config.py:246`: "serving last known good"; so are called the examples of the seed file from
  the second load on.
* `telegram.routes.ts:64`: "Store credentials in database"; the route of that name in
  `mining.routes.ts:548` comes first, stores nothing and leaves the bot that polled before
  polling (`SettingsSaved`), so a restart comes up without the bot, and until then every
  update may be handled twice (`DeliveredTwice`).
* `telegram.service.ts:1057`: the answer to a debounced press is outside the try, and the
  handler of errors answers again: a query too old ends the process.
* `TELEGRAM_PRIORITY1_COMPLETE.md:144-157` describes the way back from a machine's pools; the
  stack grows with every visit there (`StackBefore`), and "back" may show another miner.
* `alert-rule.repository.ts:241`: the history is an "audit trail" (`database.service.ts:394`);
  deleting a rule deletes its history, and the row "deleted" refers to a rule that is gone and
  is refused.
* `AlertRulesManagement.tsx:278`: the answer of a history request replaces the rule being
  edited; the save of an open form then goes to that rule (`crossed`). The answer of a save
  closes whichever form is open by then.
* `pool.repository.ts:60`: the insertion of an account binds one value less than it has
  placeholders and fails; `pool.routes.ts:105` leaves the usernames out, which the page uses to
  match miners; no code creates the pool tables, and `database.service.ts:455` lets `miners`
  refer to one of them, so on a fresh database the insertion of a miner fails. The other
  modules assume the tables are there.
* `websocket.service.ts:82`: "gracefully"; `server.close` waits for the WebSockets that only its
  callback closes: with a page open every stop is the forced one after 30 seconds.
* `websocketMiddleware.ts:75`: a page that is told to unload and stays has no connection and
  plans none (`unloaded`); a page whose link died silently shows "Connected"; one that gave up
  shows 'Reconnecting...' (`Dashboard.tsx:336`).
* `mining.routes.ts:486`: reading a machine's pools hides the passwords, and storing what was
  read replaces the stored ones by `***`.
* `miner-control.service.ts:37`: any answer counts as a successful restart, one success makes a
  bulk one (106).

Modelled but without a promise they break: a crash between recording and notifying silences
an alert (`lost` in `ActiveIsAnnounced`); a manual alert is dropped by a restart; a dry run
uses up the rungs of a later armed process; a start on an outdated saved outage acts at the
first failed round (`stale` in `NeverHasty`); a request Alertmanager gave up on may re-open
an alert after its resolution.

## 4. Proofs

All proofs are checked by TLAPS 1.4.5 (Z3, Zenon, LS4). Assumptions are the named ASSUMEs
of the modules only. They say that constants have their types (lists of pools are sequences
of entries, numbers are naturals, the bot allows at least one handler and one attempt), that
there are finitely many requests at a time (`SlotsAssumption`; the bot's slots are an interval,
`BoundsAssumption`) and, for the watchdog, that the settling time is not longer than the budget
window. Finiteness is needed where requests are counted, and only there: a process has finitely
many at any moment.

| module | theorems | inductive invariant |
|---|---|---|
| `AlertPipelineProofs` | `Invariance`, `OncePerEpisode`, `EveryActiveIsAnnounced`, `HistoryAgrees`, `RowsFollowMemory`, `PipelineImplementsBook` | announcements made plus announcements under way are at most the episodes ended plus the one open (`Episodes`: an announcement under way already counts, or two requests could each be about to make the same one); an alert that is active, *or whose row says firing*, was announced, is about to be, or is `lost` (`Told`: a restart reopens what the row says) |
| `WanWatchdogProofs` | `TypeCorrect`, `BudgetIsKept`, `SpacingIsKept`, `OutageGetsOneRestart`, `PatienceIsKept`, `FaultsForgetOneEach`, `LoopPreventedWithoutFaults` | the recorded restarts of any window are the action times kept in the state or in the file (pruning only drops what is too old for every later window), they lie before the last action, and the outage known to the process began no earlier than the link was last up unless it is stale; the restarts of the window that the file does not know of are at most one for each fault and one for a tick still to be saved (`Few`) |
| `FleetProofs`: inventory, live statistics | `InventoryIsTyped`, `CacheNamesRealMiners`, `OwnersKeepTheirMiners`, `CacheStaysHonestLive`, `TicksMakeNoGhosts` | an address stands in the cache at most once (`CacheKeyed`): without it, an edit that patches one of two entries would leave a name that the table no longer has. The same invariant holds under ticks, pushes and restarts, and with it whatever list `FetchEnd` gets after its await, cached or loaded, has only miners of the table |
| `FleetProofs`: bot | `RebootsFollowConfirmations`, `OneFailureIsSurvived` | reboots sent plus handlers that may still send one are at most the confirmations (`ConfirmationsCounted`), while no second bot polled (`Polling`). What a handler has still to do only shrinks or is redrawn (`Continues`), and is formed so that a command is sent once and an answer is owed wherever a catch is behind it (`HandlersFormed`): an edit that becomes a message, a retry or a recovery adds no reboot (`NoneAdded`), and a command spends the one it was counted for |
| `MachineProofs`: collector | `CollectorIsTyped`, `ReadingsKeepOneName`, `GhostsAreGone`, `DarkReadingsGo`, `OutageKeepsTheFleet`, `DegradedListsAreRetried` | gauges stand under the labels of one cache, the readings of parts under those of theirs (`GaugesUnderLabels`, `Remembered`), and the two agree wherever a machine shows a gauge (`Renamed`); in a pass the labels of machines read are those of its list (`Labelled`, `Working`); whatever a machine shows, under its label or an older one, the streak counted under the label it has is at least as long as its darkness (`Counted`), and the cull takes both kinds by their own caches; a list called fresh while degraded is one the backend answered with nothing for (`ConfigInv`, `Asked`) |
| `MachineProofs`: control | `StoredPoolsFollowOneList`, `MachinesRestartWhenAsked` | what an insertion leaves, complete or refused half way, is a beginning of the list it was given (`InsertedIsAStart`), and the rows before it are gone; restarts carried out plus jobs whose task for the machine may still be carried out are at most those asked for (`RestartsCounted`) |
| `SessionProofs` | `ConfirmationOpensOneSession`, `CookiesAreOnlyTakenForAReason` | a pending login that counts as verified has a confirmation no session was opened for (`Paid`: `verify-status` takes the entry with the session, and a new request starts unverified); an answer that clears cookies belongs to a logout or to a refresh of stale cookies (`CallsInv`), and the login form's answers clear none (`FormsInv`) |
| `AlertRulesProofs` | `FormsSaveTheirRule`, `PagesShowTheirChanges` | unless loads overlapped or failed, one load at most is out and it is younger than all the page reported (`Covered`), because the load is sent with the report and versions of the table only grow |
| `PoolsProofs` | `KeysAreAlwaysTheEntered`, `DataAreOfTheSelection` | ids are unique, so the row an update reads the old key from is the row it changes (`ServerInv`); unless loads of data overlapped, the one that is out is of the selection, and without one the data are (`DataFits`) |
| `LiveChannelProofs` | `PagesAlwaysKeepTrying` | an open socket has no timer beside it (`OneChain`), and the attempts counted are at most one ahead of the failures in a row, and only while an attempt is under way (`Honest`), so that the limit on attempts is one on failures |

In each, `Init => IInv`, `IInv /\ [Next]_vars => IInv'` (one step per action, and below it one
per conjunct it can disturb) and `IInv => Property`; the last step is temporal and by PTL.

Model-checked only: liveness (`ResolvedLeavesActive`, `RecordedIsAnnounced`, `SnapshotHeals`,
`StatusesHeal`, `InventoryIsFollowed`, `CallsSettle`, `WaitEnds`, `HandlersEnd`, `PageSettles`,
`DeadConnectionsAreDropped`, `MarksHeal`, `RequestsEnd`), which needs fairness and ENABLED. The
type invariants of the modules from `LiveStats` on, and `TypeOK` and `HistoryBounded` of
`AlertPipeline`, are stated for the reader; the runs spend their properties on what could be
wrong, and the proofs carry types of their own, without the bounds TLC needs.

Proved only: `LoopPreventedWithoutFaults`, about a watchdog without the faults that lose a
charge, and `KeysAreAlwaysTheEntered`, which one update of the server decides and no order of
steps can disturb; no run repeats them.

How far the two counting theorems reach. `RebootsFollowConfirmations` says nothing once two bots
polled (`doubled`): a press delivered twice may reboot twice, and the model has that
(`DeliveredTwice`). Both count what machines carried out; a command that was not carried out is
given up, never repeated, so neither says that a restart asked for took place.
`MachinesRestartWhenAsked` holds with overlapping bulks, because each bulk asks for its own.

The refinement is proved step by step: `RecordFiring` of an alert that is not active is
`Open`, a `Notify` of a firing alert is `Announce`, `RecordResolved` of an active one is
`Close`, as is the resolution of one by hand, `Crash` is `Stop`, `InitAlertDatabase` is `Restart`,
and everything else - duplicate deliveries, manual alerts, Alertmanager - leaves the book alone.

## 5. Not modelled

* *Statistics history:* SQL over floating-point readings and wall-clock hours. One thing was
  seen on reading it: the window of 24 hours begins inside an hour, so each hour's record is
  written again from its tail (`stats.repository.ts:137`).
* *Drivers and parsers, aggregates, error codes:* what a machine says and how it is read is
  an input of `Collector`; the arithmetic is over floating-point readings.
* *Telemetry of firmware v3, rated hashrate:* a side file and caches of one job.
* *The consolidated alert message of the bot,* its disabling after failed pushes, the paging
  of its lists.
* *Administration of users, the API key, the settings table.*
* *Schema and migrations:* run once, in order, each guarded by a look at the schema.
* *Response cache:* keyed by the path whoever asked; a few seconds of staleness that every
  reader of these responses allows for.
* *Two writers by configuration:* `SIMULATION_MODE` together with `METRICS_SOURCE=push`
  (`push-receiver.ts:159` looks at the source only) is not among the deployments of `live`.
* *Validation, logging, read-only routes, dashboards, rule expressions:* no state of their own.
* *File locks, `useWebSocket.ts`:* nothing calls them.
* *Frontend rendering, texts of messages. Security of tokens and passwords:* library code.
* *Farm initialisation and maintenance scripts:* run once by hand.

## 6. Plan

1. Proofs: the type invariants that are only stated (`LiveTypeOK`, `BotTypeOK` and those of the
   other modules); for liveness, the part of it that is a safety property of one step: a tick
   that reads a fresh, whole list leaves the fleet in the snapshot (`SnapshotHeals`), a call
   that fails brings its handler nearer its end (`HandlersEnd`).
2. `StatsRollup`: raw rows, hourly and daily buckets, retention, history rows with their
   heartbeat. Abstract specification: a closed bucket is the fold of its rows.
3. The consolidated alert message composed with `AlertPipeline`.
4. `ErrorEvents` (v3 telemetry): the rotated event file and its priming after a restart.
5. `Reconcile` (`farm_init.py`): matching inventory to live machines, against a reference
   definition over small inventories.
