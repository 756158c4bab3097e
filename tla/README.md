# A TLA+ model of singbox-manager

singbox-manager (`sb`) sells metered access to a sing-box server: it keeps users
with packages in SQLite, writes the users who may connect into sing-box's
`config.json`, reads their traffic back over gRPC, and cuts them off or lets them
in again as quotas, expiry dates and the monthly reset demand. This directory
models that loop in TLA+, checks it with TLC and proves parts of it with TLAPS.

Source paths below are relative to the repository (`src/main.rs`, `README.md`).

## 1. The system

Three kinds of processes work on the same data at the same time:

- `sb daemon`: runs `traffic_supervisor`, the subscription server and, if it gets
  the lease, the Telegram bot;
- `sb` (the TUI): the same background jobs, plus what its keys start;
- `sb <command>`: one command, then it exits.

They share the SQLite database (users, traffic history, bot tables),
`config.json`, `nodes.meta.json` and the sing-box service. What orders them is
SQLite: single statements are atomic, and the *runtime lock*
(`RuntimeLock`, a `BEGIN IMMEDIATE` transaction) serialises load-change-save of
`config.json` and the booking of traffic. Everything else interleaves.

| component | state | operations | what is hard | what makes it correct |
|---|---|---|---|---|
| user lifecycle (`user_service.rs`, `user_repo.rs`, `model/user.rs`) | the `users` table: `enabled`, `auto_disabled`, usage, package, `last_reset_ym` | add, delete, toggle, on/off, reset, package; `apply_automatic_controls` | the pass works on rows read at its start, several statements per user, two processes may run it, calendar | a manual off lasts; one reset per month; over quota or expired means off; a reset gives access back |
| traffic accounting (`traffic.rs`, `runtime_service.rs`, `grpc.rs`) | `used_*`, `last_live_*`, `traffic_history`; sing-box counters | query, delta, locked commit, flush before reload, usage reset | counters restart from zero; query and commit are apart; flushes fail | no byte charged twice; counters are caught up with |
| runtime configuration (`runtime_service.rs`, `config.rs`, `singbox.rs`) | `config.json`, `.tmp`, the lock, sing-box | `mutate_config_locked`, `apply_user_runtime_changes`, `validate_and_reload`; nodes add/edit/del | several writers, one `.tmp`, failures and kills at each step, reload after the lock | no lost edit; never a rejected file in place; a disabled user is cut off |
| traffic supervisor (`main.rs`, `traffic_service.rs`) | `SyncState` (dirty flag, alerted levels), timers, back-off | reconnect loop, sync, controls each minute, cleanup | timers restart at each reconnect; retries | controls run whatever the connection does; a failed sync is retried |
| CLI (`main.rs`, `cli/`) | none of its own | one call of a service each | several steps, any of which may fail | as above |
| node grants and metadata (`user_service.rs`, `config.rs`, `node_service.rs`) | `allow_all_nodes`, `allowed_nodes`, `nodes.meta.json`, certificate files | grant, revoke, cleanup on delete, meta operations | read-modify-write of a list and of a file outside the lock | nobody stays listed at a node he may not use; the files of a node agree |
| Telegram bot lease (`tg_service.rs`, `tg_repo.rs`) | `tg_bot_lease` | acquire at start, renew, stop when lost | expiry against a paused holder | one poller per token; somebody polls |
| Telegram binding (`tg_service.rs`, `user_repo.rs`) | `tg_bind_token`, `tg_chat_id` | issue, bind, consume, unbind | four statements for one binding | a code binds once; one chat per user |
| quota alerts and schedules (`traffic_service.rs`, `tg_service.rs`) | `alerted` in memory, `tg_last_quota_level`, dates of schedules | alert, normalise, send due schedules | two stores of the same level; sending fails | one alert per level, none missed; one report a day |
| database (`db/`) | `user_version`, schema | migrations at start | several starters | each migration once |
| TUI (`tui/`) | view state, three busy marks, two bounded channels | starts the operations above in the background | results arrive in any order, tasks fail, external commands stop the loop | writes do not overlap, busy marks come down, the supervisor is heard |
| subscription server, links, statistics page | none (an address cache in `node_service.rs`) | read and format | reads two files that change one after the other | a link fits its node |
| nginx, kernel installation, backup, doctor, system information | files outside the manager | sequences of system commands by one administrator | - | - |

Calls between them: the supervisor calls the pass (user lifecycle), marks itself
dirty and calls `apply_user_runtime_changes` (runtime configuration), which calls
`validate_and_reload`, which first calls `flush_current_traffic` (traffic
accounting). Every user command is one write followed by
`apply_user_runtime_changes`; every node command is `mutate_config_locked`
followed by `validate_and_reload`. Alerts travel over a channel to the bot
(`TelegramNotices`), the supervisor's events over another one to the screen
(`TuiRunner`), which can make the supervisor wait.

## 2. Modules

| module | what it is |
|---|---|
| `UserLifecycle` | users, the automatic pass, administrators |
| `MCUserLifecycle` | its calendars for TLC, and the symmetry of the supervisors |
| `UserLifecycleProofs` | theorems about it |
| `TrafficAccounting` | counters, flushes, rows |
| `Metering` | the abstract meter it implements |
| `TrafficAccountingProofs` | theorems about it |
| `RuntimeSync` | database, `config.json` and sing-box; lock, dirty flag, nodes |
| `RuntimeSyncProofs` | theorems about it |
| `TelegramBot` | the bot's lease, heartbeat and poll loop |
| `TelegramBotProofs` | theorems about it |
| `NodeConfig` | nodes, their metadata and certificates, who may use them, a subscription that reads them |
| `NodeConfigProofs` | theorems about it |
| `TelegramBinding` | bind codes, chats and notification settings, changed by concurrent updates |
| `TelegramBindingProofs` | theorems about it |
| `TelegramNotices` | quota alerts and daily reports |
| `TelegramNoticesProofs` | theorems about it |
| `TuiRunner` | the event loop of the terminal interface, its tasks and channels |
| `TuiRunnerProofs` | theorems about it |
| `MCNodeConfig`, `MCTelegramBinding`, `MCTuiRunner` | symmetry and constants for TLC |

Operators marked "Seeded fault" are wrong versions of the definition that follows
them. No specification uses them: replacing the definition by its wrong version
must break the property named for it in `PROJECT.json`, which shows that the
property can fail.

### UserLifecycle

`row[u]` is the row of user `u` in the columns that matter here (enabled, auto,
used, quota, resetDay, expire, lastYm), `present` who exists. Usage and quota are
small numbers of one unit; dates are positions in `Calendar`, a sequence of days
with month and day, so that an expiry date compares as in `User::is_expired`.

- `ListUsers`, then per user `DisableExpired`, `MonthlyReset` and `Revive`,
  `DisableOverQuota` or `NothingDue` are `apply_automatic_controls`, one action
  per SQL statement. Decisions use `snap[s]`, the rows read at the start, as in
  the code; the day is taken once (`listed[s]`) while the stamp written by
  `ResetUsage` reads the clock again. `AbortPass` is the `?` after a failed
  statement. The users are visited in any order (the code: by name).
- `Toggle`, `BeginSet`/`EndSet` (`sb on`/`off`: read, compare, write),
  `BeginReset`/`ClearUsage`/`EndReset`, `UpdatePackage`, `AddUser`, `DeleteUser`
  are the administrators' commands, in as many actions as they have statements;
  `AbortJob` is their failure or end between two of them.
- `BookTraffic` adds usage; `NextDay` is the calendar.
- `off[u]` is history: whether the last manual command switched `u` off, and
  whether at that moment a decision taken on older data was still pending (then
  it is `"raced"`, else `"quiet"`); `"noop"` is a `sb off` that found him disabled already. `resetOn[u]` is history: the day of the last automatic reset.
- `crossed` is history too, and what `DisabledForCause` excuses: users whose automatic disabling was
  decided on a row from before a reset or an edit of the package (`Outdated`), or fell into a reset that had read
  them before and will not enable them (`ResetUnaware`); whose re-enabling broke off between the two statements of a
  reset; or whose package was edited while they were disabled. It is forgotten when
  they are disabled anew for a cause.

### TrafficAccounting and Metering

`counter` are sing-box's counters since its last restart (`epoch`), `last` and
`used` the columns, `history` what `traffic_history` adds up to, `sent` what users
really transferred. `Query` and `Commit` are the two halves of
`sync_current_traffic_with_users`: the answer of gRPC is read before the lock is
taken. `Reload` follows a flush, failed or not, as in `validate_and_reload`, and
may fail. `Crash` is a restart behind the manager's back. `Metering` is the promise: what is
billed only grows, and never beyond what was sent.

### RuntimeSync

`allowed` are the users the database lets in, `config` the file (nodes with their
users and port, and whether `sing-box check` accepts it), `tmp` the one `.tmp`
path, `running` what sing-box serves. A process `p` moves through `pc[p]`: it
`wants` the lock, is `locked` (users are read), `loaded`, has `written` and
`checked` the .tmp file, has `renamed` it, committed and is at the `reload`
(checked again, sing-box looked for), and `reloading`. While somebody holds the
lock nobody else writes the database. `Fails` is an error at any step with the
code's cleanup (only a failed check removes `.tmp`), `Kill` the end of the process
at any step, `Cancel` (only in `ShutdownSpec`) the drop of the future that holds
the lock. A supervisor keeps `dirty`; a command does not retry.

A change of `allowed` is a write to the database. A user who expires or
uses up his quota stops being listed at the next sync; the model lets that happen
with the pass that disables him, at most a minute later. Flushes inside
`validate_and_reload` are `TrafficAccounting`'s. Users may use every node;
`nodes.meta.json` is `NodeConfig`'s. The writers outside the lock (the editor the TUI opens
on `config.json`, restoring a backup) are left out: a person has the file open for minutes.

History: `edited` is what the finished node commands should have made of the node
list; `forgotten` holds while a change was dropped for good (a killed process, a
failed command, a failed pass) and no later sync has made up for it.

### TelegramBot

`owner` and `age` are the row of `tg_bot_lease`, `active` is `TgContext.active`, `got + 1` the offset
of the poll loop, `acked` what Telegram has dropped because a request's offset went
past it. `Start` is the UPSERT, `Spawn` the end of `tg_service::start`, `Renew` and `RenewFails` one
tick of the heartbeat loop, `Ask`, `Answer`, `AskFails` and `Conflict` one turn of the poll
loop. `Tick` lets time pass. A process that is awake starts within `MaxStart` and does not
let a heartbeat pass by; one that hangs (`Nap`) may miss as many as it
likes, and wakes up before it knows that its lease is gone. `Exit` releases nothing, as in the code.
The owner is `<pid>@<mode>`: the next start is another owner.

One clock serves all processes (they run on one machine, and the code compares times
in SQLite). 409 is given to one of two processes that ask at the same time;
Telegram chooses which. What the update tasks do is `TelegramBinding`, the schedule
loop and alerts are `TelegramNotices`.

History: `slept`, `misses` (hung, or heartbeats failed, since the lease was last
sure) and `copies`, how often an update was handed to a task.

### NodeConfig

A node is an inbound of `config.json` (`inbounds`: kind, key, whether its port is
reused, the users it lists), an entry of `nodes.meta.json` (`meta`) and, for kinds
with a certificate of their own, two files (`certs`). `rows` are the two columns of
the users table that say who may use it. A job is a command with a program counter.

- `AddNode`, `EditNode`, `DeleteNode` are the part under the runtime lock, in one
  step (`RuntimeSync` has its parts), with `Refused` for a check or a commit
  that fails. After it come, in the code's order, `LoadMeta`, `CutMeta`, `PutMeta`
  (`std::fs::write` truncates first, and a reader who finds no JSON takes the file as empty),
  `RemoveCerts`, then `Reload` and the clean-up of the grants (`CleanList`, `CleanRow`).
- `ReadRow`/`WriteRow` are grant, revoke and the picker of the TUI and of the bot,
  `Sync` and `SyncFails` what follows them; the supervisor syncs too.
- `EditInbound` is an edit of what is in `config.json` alone (port, name, path): no entry is written.
- `Ask`, `ReadAddress`, `ReadKey`, `Reply` are a subscription: the inbounds first,
  then the metadata, read again for the key of a reality node. `request.since` is history: which
  commands on its node, and whether a cut of the file by anybody, overlapped it.

History: `disturbed` (two node commands shared their time after the lock, or one ended in
it), `dropped` (a change whose sync failed), `overtaken` (a clean-up took a
user a node that exists again). The properties excuse just these.

### TelegramBinding

`chat` and `code` are `tg_chat_id` and `tg_bind_token`, `settings` the columns of
notifications of users and of administrators, `pending` the dialogs in memory. Every
update is a task of its own (the code allows eight, the model has `Tasks`), one
action per statement: `BeginBind`, `ClearChat`, `SetBinding`, `Consume`, `Notify` are
`bind_user`; `Flip`, `Prompt`, `Answer`, `WriteSettings`, `EndDialog` the buttons and
dialogs, `OtherCommand` any other command, which ends a dialog; `Regen`, `BeginUnbind`/`Unbind` the administrators; `StartProcess`, `FillCode`
the codes every process gives out at its start. `TaskEnds` and `FillFails` are failures,
`BotEnds` the end of the process with its dialogs.

History: `crossed` (two changes of one binding overlapped), `cut` (a binding ended
half-way), `spare` (codes made on purpose for bound users), `used` (which code bound which chat), `late`
(users bound since a starting process listed them), `stray` (codes that two bindings had looked up, that a binding which
ended had not spent, or that a start gave to a `late` user), `moved` (who lost a
user to another chat and has not been told), `wanted` (what the settings should
be) and `muddled` (two updates of one row overlapped).

### TelegramNotices

`pct` is a user's share of his quota (`Unlimited` without one), `alerted` the memory of the sync, `queue` the
channel to the bot, `alert` the one alert the bot is sending, `level` the column
`tg_last_quota_level`, `round` a turn of `schedule_loop`, `date` the day of his last
report. `ChangeUsage` stands for flushes, resets and package edits. `Sync` is the
loop of `sync_once`; `TakeAlert`, `SendAlert`, `RecordAlert` are `handle_quota_alert`;
a message Telegram refuses (`MessageFails`) is recorded all the same; `BeginRound`, `LowerLevel` are `normalize_quota_levels`; `ListReports`, `SendReport`,
`RecordReport` are `run_due_schedules`. Messages and records are apart, so `AlertFails`,
`RecordReportFails` and `Restart` can come between them.

`known` is history: the level the user knows of, which falls with his usage. `AlertOnce` and
`AlertTold` compare messages with it. They excuse a user whose alert was sent and not recorded, failed,
or was out of date when it was sent or recorded (`slipped`), and one whose usage grew again before the
sync, the loop and the alerts under way had noticed that it fell (`hasty`; `fell` says how far
the loop is). `reports` and `unrecorded` are the same for reports.

### TuiRunner

`db` and `disk` are the database and `config.json`, `users`, `nodes`, `strategy`,
the selections and `modal` what the screen shows, `opBusy`, `kernelBusy`, `nginxBusy`
the busy marks, `ui` and `traffic` the two bounded channels, `tasks` the background
tasks, `supervisor` the report the supervisor is sending.

A key (`Move`, `Open`, `Close`, `Submit`, `ToggleKey`, `LookKey`, `KernelKey`, `OutboundKey`, `NginxKey`,
`Suspend`, `Quit`) changes the screen and starts a task, whose steps are the script
of its operation (`ScriptOf`). A task that fails at a step drops its `OpGuard`, which
sends the event that takes the mark down, in a task of its own when the channel is full. `ApplyUi` and
`ApplyTraffic` are the loop's two handlers; the code's `select!` prefers keys to the tasks' events and these to
the supervisor's, the model lets it take any. "check" stands for all keys that only report how something went (check,
backup, nginx refresh), and `reset` is one write here, its statements are `UserLifecycle`'s. While an external command has the
terminal (`Suspend`, `Resume`) the loop applies nothing.

## 3. Runs

Each cfg names its constants. Bounds appear in guards only: `MaxUsed`, `MaxFaults`,
`MaxSent`, `MaxRestarts`, `MaxFails`, `MaxOps`, `LastDate`,
`MaxUpdates`, `MaxRuns`, `MaxCmds`, `MaxCodes`, `MaxStarts`, `MaxChanges`,
`LastMinute`, `MaxTasks`, `MaxSteps`.

| run | cfg | shows |
|---|---|---|
| `user_admin` | `UserLifecycle_admin` | Two supervisors and an administrator who switches, resets and edits packages, statement by statement, with one fault (1.3 million states up to the symmetry of the supervisors): `AutoImpliesDisabled` (the mark is only on disabled rows), `QuietOffSticks` (a manual off that met no pending stale decision is never undone by automation) and `DisabledForCause` (whom the system has disabled is over quota, expired or being re-enabled, with the exceptions in `crossed`). |
| `user_month` | `UserLifecycle_month` | One fair supervisor, an administrator and one fault over two months: `ResetOncePerMonth` and `CutOff` (a user over quota or expired is off, or not so any more, again and again). |
| `traffic_single` | `TrafficAccounting_single` | One flusher, two restarts, a failed flush: `NoOvercharge`, `ImplementsMetering` (refinement), `CatchesUp`. |
| `sync_apply` | `RuntimeSync_apply` | A supervisor, two administrators, one failure or kill anywhere: `MainConfigValid`, `NoLostEdit`, `ConfigCarried`, `RunningCarried`, `Enforced`. |
| `bot_lease` | `TelegramBot_lease` | Daemon and TUI, three starts, two updates, two faults (a failed heartbeat or answer, a hang, an end): `LeaseHeld`, `NoneSkipped`, `LoserStops`, `Served` (199 000 states). |
| `nodes_share` | `NodeConfig_share` | Any two commands at the same time on a node that exists and one that may come, one failure or kill, and a subscription: `GrantsCarried` (config.json lists a user where he may not be only while a sync is owed), `MetaMatches` (metadata and inbounds agree at rest), `StaysAcceptable` (the file in place passes the check, so later commands can save), `LinkFits` (a link of a subscription that any of them overlaps fits the node it was made for, but for the gaps named there) (2.3 million states up to symmetry). |
| `bind_rows` | `TelegramBinding_rows` | Three updates of two chats, two at a time, one failure, one start, codes and unbinding by an administrator: `OneUserPerChat`, `OneTimeCode` (a bound user has no valid code left over and no code binds two chats, but for the codes in `stray`), `DisplacedTold`, `NoLostSwitch` (2.3 million states up to symmetry). |
| `notices_day` | `TelegramNotices_day` | Four changes of usage and two failures or restarts over two days: `AlertOnce`, `AlertTold`, `ReportOnce` (1.7 million states). |
| `tui_keys` | `TuiRunner_keys` | Every pair of operations, two users who may be deleted, two tasks, full channels: `OneWriteAtATime`, `NoPhantomBusy`, `BusyEnds`, `SupervisorHeard` (230 000 states). |
| `user_off` | `UserLifecycle_off` | violation of `ManualOffSticks`, see findings |
| `traffic_double` | `TrafficAccounting_double` | violation of `NoOvercharge` with two flushers |
| `sync_shutdown` | `RuntimeSync_shutdown` | violation of `MainConfigValid` under `ShutdownSpec` |

Why the bounds are enough. One user suffices for the lifecycle: no action relates two rows except the
order of the pass, which the model leaves open. The lifecycle needs two supervisors for
stale decisions of one against writes of the other, expiry dates past and absent, a month's end, and the reset days 1, 3 and 32
(present in both months, a day clamped or not, last day). Accounting needs
two directions (a user is skipped when *neither* moved), a counter that restarts below and above the
stored value (three units, two restarts). The configuration needs two writers of the file besides the
supervisor, two ports so that a lost edit shows, and one failure: a second one only repeats the retry.
`sync_apply` and the runs of `RuntimeSync` turn the deadlock check off: the
administrators stop after `MaxOps` commands, and a system without commands rests. So does
`bot_lease`: with no start, update or fault left and nobody active, nothing happens.
The lease needs two processes, a third start (the first owner's row is stale, the second
one has it), and a hang longer than the lease lasts (`MaxNap = Stale`). The code's 90 s
and its heartbeat of 25 s become `Stale = 4` and `Beat = 1`: what matters is how many
heartbeats fit in before the lease is stale, and the proof covers every ratio that
satisfies `SlackAssumption`.
Nodes need two tags, one of them in use, of the kinds that have something to lose (a key in the metadata, a
certificate) and two commands, which may be a delete and an add of the same tag; one user suffices, as rows are
written one at a time. Binding needs two users and two chats so that a user moves and a chat changes
its user, and a third update between the statements of two. Alerts need a rise, a
fall, a rise and one more, shares below the first level and at two of them (100 percent takes the
same steps as 90), no quota at all, and a failure besides a restart; users do
not meet, so there is one. The TUI needs two operations that overlap
and channels of one place, which are full at once; three operations only queue behind
the same marks. These four runs turn the deadlock check off: when the commands, updates,
changes or keys of a behaviour are used up, nothing is left to do.

Fairness. `UserLifecycle`: weak fairness of each supervisor's next statement (`PassStep`). The
supervisor never returns, and it runs the pass on its minute timer while
connected and at each failed attempt otherwise; the assumption is wrong for one pattern, a connection that
is made and lost again within every minute, because each reconnect starts the
timer anew (`traffic_service.rs:76`); that timer is not modelled.
`TrafficAccounting`: weak fairness of a flusher's plain sync (`interval` never stops,
a query is answered or fails). `RuntimeSync`: weak fairness of every started
process's next step and of the supervisor's retry; none for administrators'
commands, failures or kills. `TelegramBot`: weak fairness of time, of the loops (`interval`
and the poll loop never stop by themselves, `getUpdates` has a timeout of 35 s) and of
waking up; `Served` rests on failures being finite, `MaxFaults`. `TuiRunner`: weak
fairness of the loop while it runs (it polls every 50 ms and then empties both
channels) and of every task's next step, none for keys or for the end of an external command;
`BusyEnds` and `SupervisorHeard` ask nothing while the loop is suspended.

## 4. Findings

With a run each:

1. `user_off`: `sb off` on a user the *system* has disabled is a no-op (`main.rs:896` compares
   `enabled` first), so the mark `auto_disabled` stays and the next monthly reset enables him. README.md:538
   says a manual off is not undone. A second way to the same end: the off is
   committed between a pass's read and its `set_enabled_auto(true)`.
2. `traffic_double`: two flushers (daemon and TUI, or a reload's flush) can commit their snapshots
   in the other order; the older one then looks like a restart and is charged in full. CHANGELOG.md:311 says the lock
   rules double booking out; the query is outside the lock.
3. `sync_shutdown`: on shutdown the lock is rolled back while the closure on the blocking pool goes
   on; it can rename another process's unchecked `.tmp`. `runtime_service.rs:146` and
   README.md:523 say the main path is never overwritten by a bad file.

Met while modelling, and visible in the modules as what a property excuses or a bound leaves out:

4. A user disabled for expiry is enabled on his reset day: the expiry branch asks
   for `enabled`, so he reaches the reset branch. README.md:537 says expiry goes first.
   The next pass disables him again (`CutOff`).
5. A pass that fails after its first write drops the list of changed users:
   the flag stays down and `config.json` keeps admitting them until something
   else syncs (`forgotten` in `PassFails`). `traffic_service.rs:24-35` describes the flag as ruling that out.
6. Two node commands that overlap after the lock lose an entry of `nodes.meta.json`, leave one
   behind or remove the certificate of a new node (`disturbed`). The comment at
   `config.rs:94` says the two files cannot disagree.
7. With `quota_alert_percent` below 80 nobody is told of 80 percent: the sync raises its
   first alert below 80, where the bot's level is 0 and it is ignored, and at 80 its step has not changed
   (`AlertTold` fails with `AlertPct = 70`). README.md:302 promises an alert at 80, 90 and 100 percent.
8. While an editor or a log viewer has the terminal nobody empties the bounded
   channels, and the TUI's supervisor waits in a report. The comment at `runner.rs:193` says the
   background tasks go on (`SupervisorHeard` excuses it).
9. A manual reset reads the row, clears the usage and enables the user only if the row it read was marked. A pass
   that disables him in between, or one that disables him afterwards on a row it read before, leaves him
   disabled with nothing used, until his reset day, if he has one. The comment at `user_service.rs:158-159` says a reset user is usable
   at once (`DisabledForCause` excuses both, as `ResetUnaware` and `Outdated`).
10. A monthly or manual reset that breaks off between its two statements leaves the user disabled with nothing
    used; the monthly one has stamped the month, so the next pass does not try again. A package edit that renews a disabled
    user does not enable him either. No document says otherwise (`DisabledForCause` excuses all three).
11. A bind code may bind two chats: `bind_user` looks it up and spends it three statements later, so two
    `/bind` at the same time both get through, and one that ends before it has spent the code leaves it
    valid. A process that starts gives a code to a user who was bound after it had listed him.
    `tg_service.rs:551` and README.md:140 call the code one-time (`OneTimeCode` excuses these three, as `stray`).
12. A subscription reads the metadata without a lock, while `std::fs::write` has truncated it or the entry of a
    new node is still to come: the link then lacks the public key or the port 443; a node deleted and added again
    under its tag gives it the new one's (`LinkFits` names these cases).

## 5. Proofs

All theorems hold for every value of the constants under the named assumptions of
the modules (`CalendarAssumption`: months never decrease and are positive;
`UsersAssumption`; `PackageAssumption`; `BoundsAssumption`).

`UserLifecycleProofs`:

- `TypeCorrect`: `Spec => []TypeOK`.
- `MarkCorrect`: `Spec => []AutoImpliesDisabled`. Inductive as it stands, with types: each
  statement writes both columns or neither.
- `QuietOffCorrect`: `Spec => []QuietOffSticks`. The invariant is strengthened by what pending work may
  still do: if `off[u]` is `"quiet"`, no supervisor is about to visit `u` with a row it read as
  revivable and no reset command is about to revive him.
- `DisabledForCauseCorrect`: `Spec => []DisabledForCause`, for any supervisors, administrators, commands and faults. `CauseInv`
  adds what a reset under way knows: one that will not enable a user who is marked (`Unaware`) met him enabled, so the
  disabling fell into it and is on record. With that, every disabling on a current row has its
  cause, booked traffic and the calendar take no cause away, and every step that does (a reset, a package
  edit) enables the user, is about to, or puts him into `crossed`.
- `ResetOnceCorrect`: with at most one supervisor, `Spec => ResetOncePerMonth`. `ResetInv`
  relates the last automatic reset, the stamp in the row, and the stamp in the snapshot of the running pass: what
  the pass has read is current until it visits the user. That is what a second
  supervisor breaks.

`TrafficAccountingProofs`:

- `TypeCorrect`: `Spec => []TypeOK`; `calc_delta` is never negative.
- `NoOverchargeCorrect`: with at most one flusher, `Spec => []NoOvercharge`. The invariant (`AtRest`, `InFlight`) says
  that what is charged plus what the next commit will charge is at most what was sent, at rest
  and while a snapshot is under way, for the snapshot's epoch and the current one.
- `MeteringCorrect`: with at most one flusher, `Spec => ImplementsMetering`: each step is
  a send, a bill or a stutter of `Metering`.

`RuntimeSyncProofs` (assumptions: `ProcsAssumption`, `NodesAssumption`, `BoundsAssumption`), for any
number of users, nodes, supervisors and administrators:

- `TypeCorrect`: `Spec => []TypeOK`.
- `OnlyValidConfigs` and `EditsKept`: `Spec => []MainConfigValid` and `Spec => []NoLostEdit`. Neither is inductive.
  `FileInv` adds what makes `.tmp` and the rename safe: whoever is between BEGIN IMMEDIATE and
  COMMIT *is* the lock holder (`LockInv`), what he has in memory is the file as it is now with his command
  done (`PortsInv`), and once he has written `.tmp` it holds just that, accepted by sing-box
  when he is about to rename it (`TmpInv`). `Cancel` breaks `LockInv` first, which is why
  `sync_shutdown` finds its violation.
- `ChangesCarried` and `ReloadsCarried`: `Spec => []ConfigCarried` and `Spec => []RunningCarried`.
  `CarryInv` sharpens both: a flag counts only until its sync has renamed the file
  (it is about to fall), a delete that found nothing is not going to reload, a supervisor
  works on the file only with its flag up (`JobInv`), and since a sync reads the
  users under the lock its result is not behind (`SeenInv`, `UsersInv`).

`TelegramBotProofs` (assumptions: `OwnersAssumption`, `TimesAssumption`, `SlackAssumption`, `BoundsAssumption`), for any
number of processes:

- `TypeCorrect`: `Spec => []TypeOK`.
- `LeaseHeldCorrect`: `Spec => []LeaseHeld`. `LeaseInv` bounds the age of the lease by the
  loop's clock: at most `MaxStart + misses * Beat + since`, and `since` is at most `Beat` for a
  process that is awake (or the lease was renewed at this moment, after a hang).
  `SlackAssumption` then says it is not stale, so nobody else's start may take it (`NoTakeover`).
- `NoneSkippedCorrect`: `Spec => []NoneSkipped`. `SeenInv` says the same of every offset: what lies before
  it was handed on, so an offset may be sent.

`TelegramNoticesProofs` (assumption: `NoticesAssumption`), for any number of users, days,
failures and restarts:

- `TypeCorrect`: `Spec => []TypeOK`.
- `ReportOnceCorrect`: `Spec => []ReportOnce`. Not inductive: sending adds a report whatever was sent
  before. `ReportInv` says that a turn of the loop works for a day that has come, on which none
  of those it still has to visit has a report recorded (`RoundOfTheDay`), and that a report which was sent is
  recorded or about to be (`OnceAndRecorded`). `DayFacts` (a later minute is not of an earlier
  day) carries it over a tick.
- `AlertOnceCorrect`: `Spec => []AlertOnce`. `FreshInv` says of every user the property does not excuse that
  what he knows is at most his level now and at most the column, or the alert that is about
  to be recorded; that an alert which is about to be sent is above what he knows; and that a
  column above his usage has a fall the loop has still to see, with the value it is going to write.
- `AlertToldCorrect`: if `AlertPct >= 80`, `Spec => []AlertTold`. `ToldInv` says that whatever is in the column,
  about to be recorded or about to be lowered to is *covered*: the user knows that much, or as much as his usage
  asks for; and that for a step the sync has raised, enough is known, being sent or in the queue.
  So when the bot ignores an alert because of the column, the user knew. Below 80 the theorem is false
  (finding 7), as `StepsAreLevels` fails there.

`TelegramBindingProofs` (assumption: `BindingAssumption`), for any number of users, chats, administrators
and tasks at once:

- `TypeCorrect`: `Spec => []TypeOK`.
- `OneUserPerChatCorrect`: `Spec => []OneUserPerChat`. `ChatInv` adds that the chat of a binding which has been through
  `ClearChat` has nobody left, and that no two bindings of one chat are under way,
  unless they have `crossed`.
- `OneTimeCodeCorrect`: `Spec => []OneTimeCode`. `CodesInv` says that a code belongs to one user, that two bindings which have
  looked up the same code have put it into `stray`, and that a code which has bound a chat and is not `stray` is
  held by no other binding and is still its user's only while the binding that used it is about to spend it.
- `DisplacedToldCorrect`: `Spec => []DisplacedTold`. `FormerInv`: a binding that has yet to write remembers the chat its
  user still has, and every chat that has lost its user is one some task is about to write to.
- `NoLostSwitchCorrect`: `Spec => []NoLostSwitch`. `RowInv`: a task that has read a row and not written it has the
  row as it is, and is alone with it, unless the row is `muddled`.

`NodeConfigProofs` (assumption: `NodeAssumption`), for any number of nodes, users, commands and failures:

- `TypeCorrect`: `Spec => []TypeOK`.
- `GrantsCarriedCorrect`: `Spec => []GrantsCarried`. Inductive with types: every step that takes a grant away is
  followed by a sync that is part of the same command, a failed sync is `dropped`, and a
  clean-up that works on an older read is `overtaken`.
- `StaysAcceptableCorrect`: `Spec => []StaysAcceptable`. `CertInv` adds what keeps the removal of certificates safe: the
  node of a delete that is still at its files is not in `config.json`.
- `MetaMatchesCorrect`: `Spec => []MetaMatches`. `MetaInv` says what the rest of a command will make of the metadata: one
  command at most is past the lock, and when it has done the steps it has left (`AfterSame`) the
  two files agree.
- `LinkFitsCorrect`: `Spec => []LinkFits`. `GlimpseInv` says what a reader finds of a node at any moment (`Readable`), given
  the commands on it that are past the lock and the cut of the file: the entry, none, or one that an edit is about to
  replace. `LinkInv` carries this through a subscription: what it has loaded is still in `config.json`, or its
  record `since` says what has happened to it, and what it has read is what that record allows.

`TuiRunnerProofs` (assumption: `TuiAssumption`), for any lists, number of tasks and capacity of the channels:

- `TypeCorrect`: `Spec => []TypeOK`.
- `OneWriteAtATimeCorrect`: `Spec => []OneWriteAtATime`. Inductive with types: a mark goes up
  with the task that will take it down, and comes down with its only event.
- `NoPhantomBusyCorrect`: `Spec => []NoPhantomBusy`. `AllAnswered` follows a mark through the channel: if the last word on
  it, on its way to the screen or on the screen, is "up", some task has still to
  take it down. When no task is left and nothing is on its way, every mark is down.

Every invariant and every action property that a passing run checks is a theorem, some under the
conditions stated above. Only model-checked: all liveness (`CutOff`, `CatchesUp`, `Enforced`, `LoserStops`, `Served`,
`BusyEnds`, `SupervisorHeard`; TLAPS does not handle fairness). The violations have no theorem: that the
same promise holds without what breaks it is `QuietOffCorrect` for `user_off`,
`NoOverchargeCorrect` for `traffic_double` and `OnlyValidConfigs` for `sync_shutdown`. The strengthened
invariants were model-checked on the instances of section 3 before they were proved.

## 6. Plan

In this order; each module is written with CONSTANTS and named assumptions, without
RECURSIVE, so that it can be proved about.

1. done: `UserLifecycle`, `TrafficAccounting`/`Metering`, `RuntimeSync`, `TelegramBot` and their proofs.
2. done: `NodeConfig`, `TelegramBinding`, `TelegramNotices`, `TuiRunner`.
3. done: proofs for these, and of all invariants that the runs check.
4. `SupervisorLoop`: timers, reconnects, back-off; the controls run however the
   connection behaves.
5. Starters that migrate the database at the same time.

Modules are composed only where they share state: `RuntimeSync` contains the database,
the file and the service, `NodeConfig` the rows, the files and a reader, `TuiRunner` the supervisor's
reports. The others meet in one column or one message, which the module that reads it changes
freely (`BookTraffic`, `ChangeUsage`, a change of `allowed`).

## 7. Not modelled

Formatting, the text of links, pages and drawing; tokens and rate limits of the subscription server;
key generation and the JSON of inbounds, except what the files of a node must agree on; the
supervisor's timers and back-off; migrations; nginx, kernel installation, backups, doctor, system information
(sequences of system commands run by one person; the TUI's tasks that call them are in `TuiRunner`,
what they do is not); the address cache; argument parsing. SQLite, tokio and sing-box are taken as given,
modelled from how the code uses them: atomic statements, one write transaction at a time, closures
on the blocking pool that outlive the future that awaits them, counters that start from
zero at each restart.
