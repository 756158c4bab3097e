------------------------------ MODULE TuiRunner ------------------------------
(* The terminal interface of sing-box-manager: its event loop, the dialogs,  *)
(* the operations a key starts in the background, and the traffic supervisor *)
(* of the same process, which reports to the loop through a bounded channel. *)
(*                                                                           *)
(* A key changes the screen at once and spawns a task.  The task works on    *)
(* the database, on config.json or on a service, and reports through a       *)
(* second bounded channel; the loop applies one report at a time.  Texts in  *)
(* forms, ticks, cursors and switches of a dialog are chosen where Enter     *)
(* reads them; status lines, logs and charts are left out; the page is left  *)
(* out too, because every page is one key away.                              *)
EXTENDS Integers, Sequences, FiniteSets, SequencesExt

CONSTANTS
  UserNames,   \* all user names, in the order of the list on the screen
  TagNames,    \* all node tags, in the order of the list on the screen
  StartUsers,  \* the users at the start of the interface
  StartTags,   \* the nodes at the start of the interface
  Ops,         \* the operations the person uses, a subset of those of ScriptOf
  MaxTasks,    \* background tasks that exist at the same time (bound)
  UiCap,       \* capacity of the channel from the tasks to the loop
  TrafficCap,  \* capacity of the channel from the supervisor to the loop
  MaxSteps,    \* operations of keys and reports of the supervisor (bound)
  MaxUsed      \* traffic of a user (bound)

ASSUME TuiAssumption ==
  /\ UserNames \in Seq(STRING) /\ IsInjective(UserNames)
  /\ TagNames \in Seq(STRING) /\ IsInjective(TagNames)
  /\ StartUsers \subseteq ToSet(UserNames) /\ StartTags \subseteq ToSet(TagNames)
  /\ UiCap \in Nat \ {0} /\ TrafficCap \in Nat \ {0} /\ MaxTasks \in Nat \ {0}
  /\ MaxSteps \in Nat /\ MaxUsed \in Nat

VARIABLES
  db,          \* the users table: a function from names to rows
  disk,        \* config.json: its node tags and its outbound strategy
  users, nodes, strategy,          \* AppState: what the screen shows
  userSel, nodeSel,                \* AppState: the selected lines, from 0
  modal,                           \* AppState: the dialog on top
  opBusy, kernelBusy, nginxBusy,   \* AppState: the three busy marks
  loop,        \* "runs", "suspended" (an external command has the terminal), "quit"
  ui,          \* the channel of UiEvents
  tasks,       \* the background tasks
  traffic,     \* the channel of TrafficEvents
  supervisor,  \* the report the supervisor is sending, or None
  steps        \* how many of MaxSteps are used

screen == <<users, nodes, strategy, userSel, nodeSel>>
busy == <<opBusy, kernelBusy, nginxBusy>>
background == <<traffic, supervisor>>
vars == <<db, disk, screen, modal, busy, loop, ui, tasks, background, steps>>

Slots == 1..MaxTasks
None == [ev |-> "none"]
Names == ToSet(UserNames)
Tags == ToSet(TagNames)
Strategies == {"auto", "v6"}

(* A user's row, as far as the screen and the operations tell rows apart. *)
Row == [enabled : BOOLEAN, auto : BOOLEAN, used : Nat, token : BOOLEAN]
NewRow == [enabled |-> TRUE, auto |-> FALSE, used |-> 0, token |-> TRUE]
IsTable(f) == DOMAIN f \subseteq Names /\ f \in [DOMAIN f -> Row]

Configs == [tags : SUBSET Tags, strategy : Strategies]

Without(f, n) == [m \in DOMAIN f \ {n} |-> f[m]]
Put(f, n, row) == [m \in DOMAIN f \cup {n} |-> IF m = n THEN row ELSE f[m]]

(* A list shows the members of S in order, one on each line, from line 0.    *)
OnLine(S, order, line) ==
  {n \in S : Cardinality({m \in S : \E i, k \in DOMAIN order :
                             i < k /\ order[i] = m /\ order[k] = n}) = line}

-----------------------------------------------------------------------------
(* What a task does after its key, step by step.  The names of services'     *)
(* operations are left out: "kernelOp" is any of start, enable and disable,  *)
(* "kernelFlush" any that books the traffic first (stop, restart, uninstall, *)
(* the two installations), "nginxOp" any operation of the nginx page but     *)
(* "genconf", which never sets the mark of the page it looks at, "check" any *)
(* that only tells how it went: the check of config.json, the making of a    *)
(* backup, the refresh of the nginx page.                                    *)
UserScripts ==
  [ addUser     |-> <<"write", "apply", "list">>,
    deleteUser  |-> <<"write", "apply", "list">> ]

FormScripts ==
  [ editUser    |-> <<"write", "mustApply", "list">>,
    saveNodes   |-> <<"write", "mustApply", "list">>,
    editNode    |-> <<"config", "apply", "load">> ]

SwitchScripts ==
  [ toggle      |-> <<"write", "apply", "tellEnabled">>,
    reset       |-> <<"write", "mustApply", "tellReset">>,
    regenToken  |-> <<"write", "list">>,
    revokeToken |-> <<"write", "list">> ]

NodeScripts ==
  [ addNode     |-> <<"config", "apply", "load">>,
    deleteNode  |-> <<"config", "apply", "load", "mustApply", "list">> ]

LookScripts ==
  [ export      |-> <<"apply">>,
    check       |-> <<"apply">>,
    refresh     |-> <<"list", "load">> ]

BackupScripts ==
  [ restore     |-> <<"replace">>,
    listBackups |-> <<"picker">> ]

KernelScripts ==
  [ kernelRefresh |-> <<"read">>,
    kernelOp      |-> <<"kernelTaken", "apply", "kernelFree">>,
    kernelFlush   |-> <<"kernelTaken", "flush", "apply", "kernelFree">>,
    outbound      |-> <<"kernelTaken", "setStrategy", "kernelFree", "correct">> ]

NginxScripts ==
  [ nginxOp     |-> <<"nginxTaken", "apply", "nginxFree">>,
    genconf     |-> <<"apply">> ]

Operations ==
  DOMAIN UserScripts \cup DOMAIN FormScripts \cup DOMAIN SwitchScripts \cup DOMAIN NodeScripts
    \cup DOMAIN LookScripts \cup DOMAIN BackupScripts \cup DOMAIN KernelScripts
    \cup DOMAIN NginxScripts \cup {"release"}

ScriptOf ==
  [op \in Operations |->
     CASE op \in DOMAIN UserScripts   -> UserScripts[op]
       [] op \in DOMAIN FormScripts   -> FormScripts[op]
       [] op \in DOMAIN SwitchScripts -> SwitchScripts[op]
       [] op \in DOMAIN NodeScripts   -> NodeScripts[op]
       [] op \in DOMAIN LookScripts   -> LookScripts[op]
       [] op \in DOMAIN BackupScripts -> BackupScripts[op]
       [] op \in DOMAIN KernelScripts -> KernelScripts[op]
       [] op \in DOMAIN NginxScripts  -> NginxScripts[op]
       [] op = "release"              -> <<"apply">>]

(* The operations that hold an OpGuard. *)
Guarded == {"addUser", "deleteUser", "editUser", "saveNodes", "toggle", "reset",
            "regenToken", "revokeToken", "addNode", "editNode", "deleteNode", "restore"}

Targets == Names \cup Tags \cup Strategies \cup {""}
PlainEvents ==
  {None}
    \cup [ev : {"nodes"}, to : SUBSET Tags]
    \cup [ev : {"enabled"}, on : Names, to : BOOLEAN] \cup [ev : {"zeroed"}, on : Names]
    \cup [ev : {"opBusy", "picker"}]
    \cup [ev : {"kernelBusy", "nginxBusy"}, to : BOOLEAN]
    \cup [ev : {"strategy"}, to : Strategies]
IsEvent(e) ==
  IF e.ev = "users" THEN e = [ev |-> "users", to |-> e.to] /\ IsTable(e.to) ELSE e \in PlainEvents

Idle == [op |-> "idle"]
IsTask(t) ==
  /\ t = [op |-> t.op, on |-> t.on, pc |-> t.pc, out |-> t.out, val |-> t.val]
  /\ t.op \in DOMAIN ScriptOf /\ t.on \in Targets /\ t.pc \in DOMAIN ScriptOf[t.op]
  /\ IsEvent(t.out) /\ t.val \in BOOLEAN

Live == {s \in Slots : tasks[s] # Idle}
Start(op, on) == [op |-> op, on |-> on, pc |-> 1, out |-> None, val |-> TRUE]

(* tokio::spawn of the task of an operation. *)
Spawn(op, on) ==
  /\ op \in Ops
  /\ Live # Slots
  /\ tasks' = [tasks EXCEPT ![CHOOSE s \in Slots \ Live : TRUE] = Start(op, on)]

\* Seeded fault: no guard; an early return leaves the mark up.
EndedSilently(t) == Idle

(* The drop of an OpGuard spawns a task that sends OpBusy(None). *)
Ended(t) ==
  IF t.op \in Guarded THEN [Start("release", "") EXCEPT !.out = [ev |-> "opBusy"]] ELSE Idle
After(t) == IF t.pc = Len(ScriptOf[t.op]) THEN Ended(t) ELSE [t EXCEPT !.pc = @ + 1]

NoDialog == [kind |-> "none", on |-> ""]
Dialog(kind, on) == [kind |-> kind, on |-> on]

(* What the Enter (or the letter) of a dialog submits, by its kind: the form *)
(* or the confirmation names the operation and the user, the node or the     *)
(* file it was opened for.                                                   *)
OpOf ==
  [ addUser |-> {"addUser"}, editUser |-> {"editUser"}, confirmDeleteUser |-> {"deleteUser"},
    confirmReset |-> {"reset"}, nodePicker |-> {"saveNodes"},
    tokenManage |-> {"regenToken", "revokeToken"}, tokenMissing |-> {"regenToken"},
    addNode |-> {"addNode"}, editNode |-> {"editNode"}, confirmDeleteNode |-> {"deleteNode"},
    selectRestore |-> {"restore"}, subUrl |-> {}, none |-> {} ]

(* Only the forms that add something let the person type the name. *)
Subjects(d) ==
  CASE d.kind = "addUser" -> Names
    [] d.kind = "addNode" -> Tags
    [] OTHER -> {d.on}

(* event_loop starts with a look at the kernel. *)
Init ==
  /\ db = [n \in StartUsers |-> NewRow]
  /\ disk = [tags |-> StartTags, strategy |-> "auto"]
  /\ users = db /\ nodes = disk.tags /\ strategy = "auto"
  /\ userSel = 0 /\ nodeSel = 0 /\ modal = NoDialog
  /\ opBusy = FALSE /\ kernelBusy = FALSE /\ nginxBusy = FALSE
  /\ loop = "runs" /\ ui = <<>> /\ traffic = <<>> /\ supervisor = None
  /\ tasks = [s \in Slots |-> IF s = 1 THEN Start("kernelRefresh", "") ELSE Idle]
  /\ steps = 0

-----------------------------------------------------------------------------
(* Keys.  OnPage: no dialog is open, the page takes the key.                 *)
OnPage == loop = "runs" /\ modal.kind = "none"
InDialog == loop = "runs" /\ modal.kind # "none"
Unread == <<ui, background>>    \* a key reads no channel

CanStep == steps < MaxSteps
StepTaken == steps' = steps + 1

SelectedUser == OnLine(DOMAIN users, UserNames, userSel)
SelectedNode == OnLine(nodes, TagNames, nodeSel)

(* TableState::next and prev wrap around; clamp follows a list that shrank.  *)
Moved(sel, len) == IF len = 0 THEN {sel} ELSE {(sel + 1) % len, (sel + len - 1) % len}
\* Seeded fault: the empty list is forgotten.
ClampedToLast(sel, len) == IF sel >= len THEN len - 1 ELSE sel
Clamped(sel, len) == IF len = 0 THEN 0 ELSE IF sel >= len THEN len - 1 ELSE sel

Move ==
  /\ OnPage
  /\ \/ userSel' \in Moved(userSel, Cardinality(DOMAIN users)) /\ UNCHANGED nodeSel
     \/ nodeSel' \in Moved(nodeSel, Cardinality(nodes)) /\ UNCHANGED userSel
  /\ UNCHANGED <<db, disk, users, nodes, strategy, modal, busy, loop, tasks, steps, Unread>>

(* A dialog is opened for the selected line: it keeps the name, not the line.*)
(* [u] shows a link because public_base is taken to be set.                  *)
DialogsOfUser(n) ==
  {Dialog(k, n) : k \in {"editUser", "confirmDeleteUser", "confirmReset", "nodePicker"}}
    \cup IF users[n].token THEN {Dialog("tokenManage", n), Dialog("subUrl", n)}
                           ELSE {Dialog("tokenMissing", n)}
DialogsOfNode(t) == {Dialog(k, t) : k \in {"editNode", "confirmDeleteNode"}}
Openable ==
  {Dialog("addUser", ""), Dialog("addNode", "")}
    \cup (UNION {DialogsOfUser(n) : n \in SelectedUser})
    \cup (UNION {DialogsOfNode(t) : t \in SelectedNode})

Open ==
  /\ OnPage /\ CanStep
  /\ modal' \in Openable
  /\ UNCHANGED <<db, disk, screen, busy, loop, tasks, steps, Unread>>

Close ==
  /\ InDialog
  /\ modal' = NoDialog
  /\ UNCHANGED <<db, disk, screen, busy, loop, tasks, steps, Unread>>

(* A write of a dialog: refused while another one is under way, else the     *)
(* mark is set before the task exists.                                       *)
Submit ==
  /\ InDialog /\ ~opBusy /\ CanStep
  /\ \E op \in OpOf[modal.kind], on \in Subjects(modal) : Spawn(op, on)
  /\ modal' = NoDialog /\ opBusy' = TRUE /\ StepTaken
  /\ UNCHANGED <<db, disk, screen, kernelBusy, nginxBusy, loop, Unread>>

\* Seeded fault: [t] does not look at the mark.
ToggleKeyAnyway ==
  /\ OnPage /\ CanStep
  /\ \E n \in SelectedUser : Spawn("toggle", n)
  /\ opBusy' = TRUE /\ StepTaken
  /\ UNCHANGED <<db, disk, screen, modal, kernelBusy, nginxBusy, loop, Unread>>

(* [t] writes without a dialog. *)
ToggleKey ==
  /\ OnPage /\ ~opBusy /\ CanStep
  /\ \E n \in SelectedUser : Spawn("toggle", n)
  /\ opBusy' = TRUE /\ StepTaken
  /\ UNCHANGED <<db, disk, screen, modal, kernelBusy, nginxBusy, loop, Unread>>

(* Keys that look at no mark: [s] export, [R] refresh, [r] list of backups,  *)
(* [c] check, [b] backup, and the refreshes of the kernel and nginx pages.   *)
LookKey ==
  /\ OnPage /\ CanStep
  /\ \/ \E n \in SelectedUser : Spawn("export", n)
     \/ \E op \in {"refresh", "listBackups", "kernelRefresh", "check"} : Spawn(op, "")
  /\ StepTaken
  /\ UNCHANGED <<db, disk, screen, modal, busy, loop, Unread>>

(* The kernel page and the nginx page look at their marks, but leave setting *)
(* them to the first report of the task.                                     *)
KernelKey ==
  /\ OnPage /\ ~kernelBusy /\ CanStep
  /\ \E op \in {"kernelOp", "kernelFlush"} : Spawn(op, "")
  /\ StepTaken
  /\ UNCHANGED <<db, disk, screen, modal, busy, loop, Unread>>

OtherStrategy(v) == CHOOSE w \in Strategies : w # v

(* [o] turns the strategy on the screen before it is written. *)
OutboundKey ==
  /\ OnPage /\ ~kernelBusy /\ CanStep
  /\ strategy' = OtherStrategy(strategy)
  /\ Spawn("outbound", strategy')
  /\ StepTaken
  /\ UNCHANGED <<db, disk, users, nodes, userSel, nodeSel, modal, busy, loop, Unread>>

NginxKey ==
  /\ OnPage /\ ~nginxBusy /\ CanStep
  /\ \E op \in DOMAIN NginxScripts : Spawn(op, "")
  /\ StepTaken
  /\ UNCHANGED <<db, disk, screen, modal, busy, loop, Unread>>

(* [U], [C] and [f] hand the terminal to an external command; the loop waits *)
(* for it.  The editor may leave any configuration.                          *)
Suspend ==
  /\ OnPage /\ CanStep
  /\ loop' = "suspended" /\ StepTaken
  /\ UNCHANGED <<db, disk, screen, modal, busy, tasks, Unread>>

Resume ==
  /\ loop = "suspended"
  /\ loop' = "runs"
  /\ \/ UNCHANGED <<disk, steps>>
     \/ CanStep /\ disk' \in Configs \ {disk} /\ StepTaken
  /\ UNCHANGED <<db, screen, modal, busy, tasks, ui, traffic, supervisor>>

(* [q] on a page and Ctrl-C anywhere end the process, with its tasks.        *)
Quit ==
  /\ loop = "runs"
  /\ loop' = "quit" /\ tasks' = [s \in Slots |-> Idle]
  /\ ui' = <<>> /\ traffic' = <<>> /\ supervisor' = None
  /\ UNCHANGED <<db, disk, screen, modal, busy, steps>>

Key ==
  \/ Move \/ Open \/ Close \/ Submit \/ ToggleKey \/ LookKey
  \/ KernelKey \/ OutboundKey \/ NginxKey \/ Suspend \/ Resume \/ Quit

-----------------------------------------------------------------------------
(* Tasks.  At(s, step): task s is about to do step, with nothing left to send*)
At(s, step) ==
  /\ tasks[s] # Idle /\ tasks[s].out = None
  /\ ScriptOf[tasks[s].op][tasks[s].pc] = step
Beside == <<screen, modal, busy, loop, traffic, supervisor>>

Pass(s) == tasks' = [tasks EXCEPT ![s] = After(@)]
Stop(s) == tasks' = [tasks EXCEPT ![s] = Ended(@)]
Report(s, e) == tasks' = [tasks EXCEPT ![s].out = e]
Keep(s, v) == tasks' = [tasks EXCEPT ![s] = After([@ EXCEPT !.val = v])]

(* mpsc::Sender::send: waits while the channel is full. *)
Send(s) ==
  /\ tasks[s] # Idle /\ tasks[s].out # None /\ Len(ui) < UiCap
  /\ ui' = Append(ui, tasks[s].out)
  /\ tasks' = [tasks EXCEPT ![s] = After([@ EXCEPT !.out = None])]
  /\ UNCHANGED <<db, disk, steps, Beside>>

(* The table after a user operation; each of them refuses a missing user,    *)
(* and addUser an existing one.  The three statements of reset_traffic are   *)
(* one write here; what comes between them is in UserLifecycle.              *)
Written(op, n) ==
  CASE op = "addUser"     -> Put(db, n, NewRow)
    [] op = "deleteUser"  -> Without(db, n)
    [] op = "toggle"      -> Put(db, n, [db[n] EXCEPT !.enabled = ~@, !.auto = FALSE])
    [] op = "reset"       -> Put(db, n, [db[n] EXCEPT !.used = 0, !.enabled = @ \/ db[n].auto,
                                                      !.auto = FALSE])
    [] op = "regenToken"  -> Put(db, n, [db[n] EXCEPT !.token = TRUE])
    [] op = "revokeToken" -> Put(db, n, [db[n] EXCEPT !.token = FALSE])
    [] OTHER              -> db    \* a package, a list of nodes

Write(s) ==
  LET t == tasks[s] IN
  /\ At(s, "write")
  /\ (t.op = "addUser") # (t.on \in DOMAIN db)
  /\ db' = Written(t.op, t.on)
  /\ Keep(s, t.op = "toggle" => db'[t.on].enabled)
  /\ UNCHANGED <<disk, ui, steps, Beside>>

(* apply_runtime_changes, a reload, a check, a service's command or the links*)
(* of an export: nothing of the screen depends on what they do.              *)
Apply(s) ==
  /\ \E step \in {"apply", "mustApply"} : At(s, step)
  /\ Pass(s)
  /\ UNCHANGED <<db, disk, ui, steps, Beside>>

(* A write, a synchronisation or a lookup that fails ends the operation with *)
(* a message.                                                                *)
Fail(s) ==
  /\ \E step \in {"write", "mustApply", "config", "picker"} : At(s, step)
  /\ Stop(s)
  /\ UNCHANGED <<db, disk, ui, steps, Beside>>

(* The lists are read now and sent later; a failed read sends nothing. *)
List(s) ==
  /\ At(s, "list")
  /\ Report(s, [ev |-> "users", to |-> db]) \/ Pass(s)
  /\ UNCHANGED <<db, disk, ui, steps, Beside>>

LoadConfig(s) ==
  /\ At(s, "load")
  /\ Report(s, [ev |-> "nodes", to |-> disk.tags]) \/ Pass(s)
  /\ UNCHANGED <<db, disk, ui, steps, Beside>>

(* The two operations that tell their result without reading it back. *)
Tell(s) ==
  /\ \/ /\ At(s, "tellEnabled")
        /\ Report(s, [ev |-> "enabled", on |-> tasks[s].on, to |-> tasks[s].val])
     \/ At(s, "tellReset") /\ Report(s, [ev |-> "zeroed", on |-> tasks[s].on])
     \/ At(s, "picker") /\ Report(s, [ev |-> "picker"])
  /\ UNCHANGED <<db, disk, ui, steps, Beside>>

(* mutate_config_locked with the change of a node; addNode refuses a tag that*)
(* exists, the others one that does not.                                     *)
ChangeConfig(s) ==
  LET t == tasks[s] IN
  /\ At(s, "config")
  /\ (t.op = "addNode") # (t.on \in disk.tags)
  /\ disk' = [disk EXCEPT !.tags = CASE t.op = "addNode" -> @ \cup {t.on}
                                     [] t.op = "deleteNode" -> @ \ {t.on}
                                     [] OTHER -> @]
  /\ Pass(s)
  /\ UNCHANGED <<db, ui, steps, Beside>>

(* restore_backup unpacks an archive over config.json, or fails.  This       *)
(* process keeps the database file it has open.                              *)
Replace(s) ==
  /\ At(s, "replace")
  /\ disk' \in Configs
  /\ Pass(s)
  /\ UNCHANGED <<db, ui, steps, Beside>>

(* The strategy is refused, or written and the reload fails, or all is well. *)
SetStrategy(s) ==
  /\ At(s, "setStrategy")
  /\ \/ disk' = disk /\ Keep(s, FALSE)
     \/ /\ disk' = [disk EXCEPT !.strategy = tasks[s].on]
        /\ \E reloaded \in BOOLEAN : Keep(s, reloaded)
  /\ UNCHANGED <<db, ui, steps, Beside>>

(* After a failure the screen gets what config.json says. *)
ReadStrategy(s) ==
  /\ \/ At(s, "read") /\ Report(s, [ev |-> "strategy", to |-> disk.strategy])
     \/ /\ At(s, "correct")
        /\ IF tasks[s].val THEN Pass(s)
                           ELSE Report(s, [ev |-> "strategy", to |-> disk.strategy])
  /\ UNCHANGED <<db, disk, ui, steps, Beside>>

\* Seeded fault: the mark is not taken down at the end of an operation.
MarksTaken ==
  { <<"kernelTaken", [ev |-> "kernelBusy", to |-> TRUE]>>,
    <<"kernelFree",  [ev |-> "kernelBusy", to |-> TRUE]>>,
    <<"nginxTaken",  [ev |-> "nginxBusy", to |-> TRUE]>>,
    <<"nginxFree",   [ev |-> "nginxBusy", to |-> FALSE]>> }

Marks ==
  { <<"kernelTaken", [ev |-> "kernelBusy", to |-> TRUE]>>,
    <<"kernelFree",  [ev |-> "kernelBusy", to |-> FALSE]>>,
    <<"nginxTaken",  [ev |-> "nginxBusy", to |-> TRUE]>>,
    <<"nginxFree",   [ev |-> "nginxBusy", to |-> FALSE]>> }

Mark(s) ==
  /\ \E m \in Marks : At(s, m[1]) /\ Report(s, m[2])
  /\ UNCHANGED <<db, disk, ui, steps, Beside>>

(* Traffic booked for a user, here and by the supervisor. *)
Booked(n) == Put(db, n, [db[n] EXCEPT !.used = @ + 1])
Bookable == IF CanStep THEN {n \in DOMAIN db : db[n].used < MaxUsed} ELSE {}

(* Before a restart the counters are booked, and no event tells the screen. *)
Flush(s) ==
  /\ At(s, "flush") /\ Pass(s)
  /\ \/ UNCHANGED <<db, steps>>
     \/ \E n \in Bookable : db' = Booked(n) /\ StepTaken
  /\ UNCHANGED <<disk, ui, Beside>>

TaskStep(s) ==
  \/ Send(s) \/ Write(s) \/ Apply(s) \/ Fail(s) \/ List(s) \/ LoadConfig(s) \/ Tell(s)
  \/ ChangeConfig(s) \/ Replace(s) \/ SetStrategy(s) \/ ReadStrategy(s) \/ Mark(s) \/ Flush(s)

-----------------------------------------------------------------------------
(* The supervisor of this process and the clock that shares its channel: a   *)
(* tick, booked traffic, or automatic control, which disables a user or      *)
(* resets his traffic and enables him again.  What only shows a message is   *)
(* like a tick.                                                              *)
Controlled(n) ==
  { Put(db, n, [db[n] EXCEPT !.enabled = FALSE, !.auto = @ \/ db[n].enabled]),
    Put(db, n, [db[n] EXCEPT !.used = 0, !.enabled = @ \/ db[n].auto, !.auto = FALSE]) }

Observe ==
  /\ loop # "quit" /\ supervisor = None
  /\ CanStep /\ StepTaken
  /\ \/ supervisor' = [ev |-> "tick"] /\ UNCHANGED db
     \/ \E n \in Bookable : db' = Booked(n) /\ supervisor' = [ev |-> "synced", on |-> n]
     \/ \E n \in DOMAIN db :
          db' \in Controlled(n) \ {db} /\ supervisor' = [ev |-> "control"]
  /\ UNCHANGED <<disk, screen, modal, busy, loop, ui, tasks, traffic>>

SendTraffic ==
  /\ supervisor # None /\ Len(traffic) < TrafficCap
  /\ traffic' = Append(traffic, supervisor) /\ supervisor' = None
  /\ UNCHANGED <<db, disk, screen, modal, busy, loop, ui, tasks, steps>>

-----------------------------------------------------------------------------
(* The loop applies one event of a channel at a time. *)
Changed(f, n, g(_)) == IF n \in DOMAIN f THEN [f EXCEPT ![n] = g(f[n])] ELSE f

Shown(e) ==
  CASE e.ev = "users"   -> e.to
    [] e.ev = "enabled" -> Changed(users, e.on, LAMBDA r : [r EXCEPT !.enabled = e.to])
    [] e.ev = "zeroed"  -> Changed(users, e.on, LAMBDA r : [r EXCEPT !.used = 0])
    [] e.ev = "synced"  -> Changed(users, e.on, LAMBDA r : [r EXCEPT !.used = @ + 1])
    [] OTHER            -> users

ApplyUi ==
  /\ loop = "runs" /\ ui # <<>>
  /\ LET e == Head(ui) IN
       /\ users' = Shown(e)
       /\ nodes' = IF e.ev = "nodes" THEN e.to ELSE nodes
       /\ userSel' = IF e.ev = "users" THEN Clamped(userSel, Cardinality(DOMAIN e.to)) ELSE userSel
       /\ nodeSel' = IF e.ev = "nodes" THEN Clamped(nodeSel, Cardinality(e.to)) ELSE nodeSel
       /\ strategy' = IF e.ev = "strategy" THEN e.to ELSE strategy
       /\ modal' = IF e.ev = "picker" THEN Dialog("selectRestore", "") ELSE modal
       /\ opBusy' = (opBusy /\ e.ev # "opBusy")
       /\ kernelBusy' = IF e.ev = "kernelBusy" THEN e.to ELSE kernelBusy
       /\ nginxBusy' = IF e.ev = "nginxBusy" THEN e.to ELSE nginxBusy
  /\ ui' = Tail(ui)
  /\ UNCHANGED <<db, disk, loop, tasks, background, steps>>

\* Seeded fault: reports of the supervisor are not taken under a dialog.
ApplyTrafficOnPage ==
  /\ OnPage /\ traffic # <<>>
  /\ users' = Shown(Head(traffic))
  /\ IF Head(traffic).ev = "control" THEN Spawn("refresh", "") ELSE UNCHANGED tasks
  /\ traffic' = Tail(traffic)
  /\ UNCHANGED <<db, disk, nodes, strategy, userSel, nodeSel, modal, busy, loop, ui,
                 supervisor, steps>>

(* Automatic control changed the database itself: the lists are read again.  *)
ApplyTraffic ==
  /\ loop = "runs" /\ traffic # <<>>
  /\ users' = Shown(Head(traffic))
  /\ IF Head(traffic).ev = "control" THEN Spawn("refresh", "") ELSE UNCHANGED tasks
  /\ traffic' = Tail(traffic)
  /\ UNCHANGED <<db, disk, nodes, strategy, userSel, nodeSel, modal, busy, loop, ui,
                 supervisor, steps>>

Next ==
  \/ Key \/ Observe \/ ApplyUi \/ ApplyTraffic \/ SendTraffic
  \/ \E s \in Slots : TaskStep(s)

Spec == Init /\ [][Next]_vars

(* Work goes on as long as there is any: the runtime polls a task that can   *)
(* go on, a channel serves its senders in turn, the loop takes what arrived. *)
(* Nobody has to press a key, or to leave the external command.  The select! *)
(* of the loop is biased (keys after 50 ms of rest, then ui, then traffic);  *)
(* here it may take either channel.  Fairness of Work as a whole is enough   *)
(* because tasks and reports are finitely many (MaxSteps): a screen that got *)
(* ui events without end could starve the supervisor, and is not modelled.   *)
Work == ApplyUi \/ ApplyTraffic \/ SendTraffic \/ \E s \in Slots : TaskStep(s)
FairSpec == Spec /\ WF_vars(Work)

-----------------------------------------------------------------------------
(* Type invariant: every event in the channels and every task is one of the  *)
(* program's, the channels keep their capacity, no selection is below 0.     *)
TypeOK ==
  /\ IsTable(db) /\ IsTable(users)
  /\ disk \in Configs /\ nodes \in SUBSET Tags /\ strategy \in Strategies
  /\ userSel \in Nat /\ nodeSel \in Nat
  /\ modal \in [kind : DOMAIN OpOf, on : Targets]
  /\ opBusy \in BOOLEAN /\ kernelBusy \in BOOLEAN /\ nginxBusy \in BOOLEAN
  /\ loop \in {"runs", "suspended", "quit"}
  /\ \A i \in DOMAIN ui : IsEvent(ui[i])
  /\ Len(ui) <= UiCap
  /\ DOMAIN tasks = Slots /\ \A s \in Live : IsTask(tasks[s])
  /\ Len(traffic) <= TrafficCap
  /\ steps \in 0..MaxSteps

(* Tasks of a write, the guard's last message, and that message under way.   *)
Writing == {s \in Slots : tasks[s].op \in Guarded \cup {"release"}}
Releases == {i \in DOMAIN ui : ui[i].ev = "opBusy"}

(* op_busy is up exactly while one write, or its release, is under way: two  *)
(* writes never overlap (app.rs: pressing [t] twice must not turn a user back*)
(* to where he was), and a late release never opens the door for a third.    *)
OneWriteAtATime ==
  loop # "quit" =>
    /\ \A s, t \in Writing : s = t
    /\ \A i, j \in Releases : i = j
    /\ Writing = {} \/ Releases = {}
    /\ opBusy <=> Writing # {} \/ Releases # {}

Quiet == loop = "runs" /\ Live = {} /\ ui = <<>> /\ traffic = <<>> /\ supervisor = None

(* Whatever overlapped and failed: when nothing is under way no page says    *)
(* that it is busy, and its keys work again.                                 *)
NoPhantomBusy == Quiet => ~opBusy /\ ~kernelBusy /\ ~nginxBusy

(* A write comes to its end and frees the keys, also when it fails, unless   *)
(* the loop has stopped for an external command or for good.                 *)
BusyEnds == opBusy ~> (~opBusy \/ loop # "runs")

(* The supervisor gets rid of a report while the loop runs, under a dialog   *)
(* and whatever the tasks send: it cannot be blocked for ever by the screen. *)
SupervisorHeard == supervisor # None ~> (supervisor = None \/ loop # "runs")
=============================================================================
