----------------------------- MODULE RuntimeSync -----------------------------
(***************************************************************************)
(* From the database to the running sing-box.                              *)
(*                                                                         *)
(* Which users may connect is decided in the database, written to          *)
(* config.json by sync_users, and takes effect when sing-box reloads the   *)
(* file.  Three kinds of processes work on these three copies at once:     *)
(*   - supervisors change users automatically, remember in memory that     *)
(*     config.json is behind (`dirty') and retry until a sync succeeds;    *)
(*   - administrators change a user and sync once, without a retry;        *)
(*   - administrators add and delete nodes, which rewrites the same file.  *)
(* Writers of config.json hold the runtime lock, an SQLite BEGIN IMMEDIATE *)
(* transaction, while they load, change, write .tmp, check and rename; it  *)
(* also keeps everybody else from writing users.                           *)
(*                                                                         *)
(* config.json exists throughout.  Every user may use every node; grants   *)
(* per node are left out.                                                  *)
(***************************************************************************)
EXTENDS Integers

CONSTANTS
  Users, Tags,   \* user names, node tags
  Ports,         \* what an edit of a node changes
  Supervisors,   \* daemon, TUI: processes with a SyncState
  Admins,        \* processes running one command at a time
  NoProc,        \* nobody
  NoFile,        \* a file that does not exist
  MaxOps,        \* bound: changes of users, nodes and the service
  MaxFaults      \* bound: failures and kills

Procs == Supervisors \cup Admins

ASSUME ProcsAssumption == NoProc \notin Procs /\ Supervisors \cap Admins = {}
ASSUME NodesAssumption == Tags # {} /\ Ports # {}
ASSUME BoundsAssumption == MaxOps \in Nat /\ MaxFaults \in Nat

\* config.json: the nodes, each with its users; whether sing-box accepts it.
Node == [users : SUBSET Users, port : Ports]
Nodes == UNION {[ts -> Node] : ts \in SUBSET Tags}
Ledgers == UNION {[ts -> Ports] : ts \in SUBSET Tags}
Configs == [nodes : Nodes, ok : BOOLEAN]
ASSUME FilesAssumption == NoFile \notin Configs

VARIABLES
  allowed,    \* database: enabled, not expired, not over quota
  config,     \* config.json
  tmp,        \* config.json.tmp, one path for every process
  running,    \* the nodes sing-box serves (none while it is stopped)
  up,         \* systemd: sing-box is active
  lock,       \* who holds the runtime lock
  pc,         \* pc[p]: where p is
  job,        \* job[p]: what p does to config.json
  seen,       \* seen[p]: the users p read under the lock
  work,       \* work[p]: the configuration p has in memory
  dirty,      \* SyncState.runtime_sync_dirty
  ops, faults,
  edited,     \* history: the nodes the finished commands should have left
  forgotten   \* history: a change was dropped and nobody has made up for it

files == <<config, tmp, work, seen, edited>>
vars == <<allowed, config, tmp, running, up, lock, pc, job, seen, work, dirty,
          ops, faults, edited, forgotten>>

\* ok: what sing-box says of the result of an add or an edit.
Jobs == [op : {"sync", "add", "edit", "del", "none"}, tag : Tags, port : Ports,
         ok : BOOLEAN]
AnyTag == CHOOSE t \in Tags : TRUE
AnyPort == CHOOSE q \in Ports : TRUE
Plain(op, t) == [op |-> op, tag |-> t, port |-> AnyPort, ok |-> TRUE]
SyncJob == Plain("sync", AnyTag)
NodeJobs == {j \in Jobs : j.op \in {"add", "edit"}} \cup {Plain("del", t) : t \in Tags}

NoNodes == [t \in {} |-> {}]

\* The closure mutate_config_locked or apply_user_runtime_changes runs on the
\* blocking thread pool.
Blocking == {"locked", "loaded", "written", "checked"}
\* config.json is written, sing-box does not have it yet.
After == {"renamed", "reload", "reloading"}

----------------------------------------------------------------------------
(* What is done to the configuration.                                      *)

With(f, t, x) == [s \in DOMAIN f \cup {t} |-> IF s = t THEN x ELSE f[s]]
Without(f, t) == [s \in DOMAIN f \ {t} |-> f[s]]

\* Seeded fault: named entries of earlier syncs are preserved.
SyncKeepsUsers(ns, us) == [t \in DOMAIN ns |-> [ns[t] EXCEPT !.users = @ \cup us]]

SyncUsers(ns, us) == [t \in DOMAIN ns |-> [ns[t] EXCEPT !.users = us]]

\* add_node lists no users: they come with the next sync.
AddNode(ns, t, q) == With(ns, t, [users |-> {}, port |-> q])

EditNode(ns, t, q) == With(ns, t, [ns[t] EXCEPT !.port = q])

\* Seeded fault: the entry is emptied, not removed.
RemoveNodeNulls(ns, t) == With(ns, t, NoFile)

RemoveNode(ns, t) == Without(ns, t)

\* An add needs a new tag, an edit a known one; deleting an unknown tag only
\* rewrites the file.
Applicable(j, ns) == /\ j.op = "add" => j.tag \notin DOMAIN ns
                     /\ j.op = "edit" => j.tag \in DOMAIN ns

NodesAfter(j, ns, us) == IF j.op = "add" THEN AddNode(ns, j.tag, j.port)
                         ELSE IF j.op = "edit" THEN EditNode(ns, j.tag, j.port)
                         ELSE IF j.op = "del" THEN RemoveNode(ns, j.tag)
                         ELSE IF j.op = "sync" THEN SyncUsers(ns, us)
                         ELSE ns

Result(j, c, us) == [nodes |-> NodesAfter(j, c.nodes, us), ok |-> j.ok]

\* What finished node commands make of the node list, one after the other.
PortsOf(ns) == [t \in DOMAIN ns |-> ns[t].port]

Ledger(j, l) == IF j.op \in {"add", "edit"} THEN With(l, j.tag, j.port)
                ELSE IF j.op = "del" THEN Without(l, j.tag)
                ELSE l

----------------------------------------------------------------------------
(* Where changes come from.                                                *)

Toggled(u) == allowed' = IF u \in allowed THEN allowed \ {u} ELSE allowed \cup {u}

\* Every write to the database waits for the runtime lock.
Writable == lock = NoProc /\ ops < MaxOps

\* apply_automatic_controls disables or revives one user.
PassWrite(s, u) ==
  /\ pc[s] \in {"idle", "passing"} /\ Writable
  /\ Toggled(u)
  /\ pc' = [pc EXCEPT ![s] = "passing"]
  /\ ops' = ops + 1
  /\ UNCHANGED <<files, running, up, lock, job, dirty, faults, forgotten>>

\* It returns Ok with a non-empty list: mark_dirty, then sync_if_dirty.
EndPass(s) ==
  /\ pc[s] = "passing"
  /\ dirty' = [dirty EXCEPT ![s] = TRUE]
  /\ pc' = [pc EXCEPT ![s] = "wants"]
  /\ job' = [job EXCEPT ![s] = SyncJob]
  /\ UNCHANGED <<files, allowed, running, up, lock, ops, faults, forgotten>>

\* A later statement of the pass fails: Err is logged, nothing is marked.
PassFails(s) ==
  /\ pc[s] = "passing" /\ faults < MaxFaults
  /\ faults' = faults + 1
  /\ pc' = [pc EXCEPT ![s] = "idle"]
  /\ forgotten' = TRUE
  /\ UNCHANGED <<files, allowed, running, up, lock, job, dirty, ops>>

\* The next tick of the control timer.
Retry(s) ==
  /\ pc[s] = "idle" /\ dirty[s]
  /\ pc' = [pc EXCEPT ![s] = "wants"]
  /\ job' = [job EXCEPT ![s] = SyncJob]
  /\ UNCHANGED <<files, allowed, running, up, lock, dirty, ops, faults, forgotten>>

\* A user command: one write, then apply_runtime_changes.
UserCommand(a, u) ==
  /\ pc[a] = "idle" /\ Writable
  /\ Toggled(u)
  /\ pc' = [pc EXCEPT ![a] = "wants"]
  /\ job' = [job EXCEPT ![a] = SyncJob]
  /\ ops' = ops + 1
  /\ UNCHANGED <<files, running, up, lock, dirty, faults, forgotten>>

\* A node command; sing-box may reject what it makes of the file.
NodeCommand(a) ==
  /\ pc[a] = "idle" /\ ops < MaxOps
  /\ \E j \in NodeJobs : job' = [job EXCEPT ![a] = j]
  /\ pc' = [pc EXCEPT ![a] = "wants"]
  /\ ops' = ops + 1
  /\ UNCHANGED <<files, allowed, running, up, lock, dirty, faults, forgotten>>

\* `sb reload'.
ReloadCommand(a) ==
  /\ pc[a] = "idle" /\ ops < MaxOps
  /\ job' = [job EXCEPT ![a].op = "none"]
  /\ pc' = [pc EXCEPT ![a] = "reload"]
  /\ ops' = ops + 1
  /\ UNCHANGED <<files, allowed, running, up, lock, dirty, faults, forgotten>>

----------------------------------------------------------------------------
(* mutate_config_locked and apply_user_runtime_changes.                    *)

\* Seeded fault: an ordinary BEGIN, which takes no lock until it writes.
AcquireDeferred(p) ==
  /\ pc[p] = "wants"
  /\ lock' = p
  /\ seen' = [seen EXCEPT ![p] = allowed]
  /\ pc' = [pc EXCEPT ![p] = "locked"]
  /\ UNCHANGED <<allowed, config, tmp, running, up, job, work, dirty, ops, faults,
                 edited, forgotten>>

Acquire(p) ==
  /\ pc[p] = "wants" /\ lock = NoProc
  /\ lock' = p
  /\ seen' = [seen EXCEPT ![p] = allowed]
  /\ pc' = [pc EXCEPT ![p] = "locked"]
  /\ UNCHANGED <<allowed, config, tmp, running, up, job, work, dirty, ops, faults,
                 edited, forgotten>>

\* What a command that ends with an error leaves undone for good.
Drops(p) == p \in Admins /\ (job[p].op = "sync" \/ pc[p] \in After)

\* p gives up.  A supervisor stays dirty; a command only reports the error.
\* Seeded fault: the flag is taken down before the sync has succeeded.
GiveUpClears(p) ==
  /\ pc' = [pc EXCEPT ![p] = "idle"]
  /\ lock' = IF lock = p THEN NoProc ELSE lock
  /\ dirty' = [s \in Supervisors |-> dirty[s] /\ s # p]
  /\ forgotten' = (forgotten \/ Drops(p))

GiveUp(p) ==
  /\ pc' = [pc EXCEPT ![p] = "idle"]
  /\ lock' = IF lock = p THEN NoProc ELSE lock
  /\ dirty' = dirty
  /\ forgotten' = (forgotten \/ Drops(p))

Load(p) ==
  /\ pc[p] = "locked" /\ Applicable(job[p], config.nodes)
  /\ work' = [work EXCEPT ![p] = Result(job[p], config, seen[p])]
  /\ job' = IF job[p].op = "del" /\ job[p].tag \notin DOMAIN config.nodes
            THEN [job EXCEPT ![p].op = "none"] ELSE job
  /\ pc' = [pc EXCEPT ![p] = "loaded"]
  /\ UNCHANGED <<allowed, config, tmp, running, up, lock, seen, dirty, ops,
                 faults, edited, forgotten>>

\* The tag exists already, or does not exist.
LoadFails(p) ==
  /\ pc[p] = "locked" /\ ~Applicable(job[p], config.nodes)
  /\ GiveUp(p)
  /\ UNCHANGED <<files, allowed, running, up, job, ops, faults>>

WriteTmp(p) ==
  /\ pc[p] = "loaded"
  /\ tmp' = work[p]
  /\ pc' = [pc EXCEPT ![p] = "written"]
  /\ UNCHANGED <<allowed, config, running, up, lock, job, seen, work, dirty, ops,
                 faults, edited, forgotten>>

\* Seeded fault: nothing is asked of sing-box.
AcceptsAny(f) == f # NoFile

Accepts(f) == f # NoFile /\ f.ok

Check(p) ==
  /\ pc[p] = "written" /\ Accepts(tmp)
  /\ pc' = [pc EXCEPT ![p] = "checked"]
  /\ UNCHANGED <<files, allowed, running, up, lock, job, dirty, ops, faults, forgotten>>

CheckFails(p) ==
  /\ pc[p] = "written" /\ ~Accepts(tmp)
  /\ tmp' = NoFile
  /\ GiveUp(p)
  /\ UNCHANGED <<allowed, config, running, up, job, seen, work, ops, faults, edited>>

\* Whatever .tmp holds by now becomes config.json.  A closure that outlived its
\* transaction (see Cancel) ends here.
Rename(p) ==
  /\ pc[p] = "checked" /\ tmp # NoFile
  /\ config' = tmp
  /\ tmp' = NoFile
  /\ edited' = Ledger(job[p], edited)
  /\ pc' = [pc EXCEPT ![p] = IF lock = p THEN "renamed" ELSE "idle"]
  /\ UNCHANGED <<allowed, running, up, lock, job, seen, work, dirty, ops, faults,
                 forgotten>>

RenameFails(p) ==
  /\ pc[p] = "checked" /\ tmp = NoFile
  /\ GiveUp(p)
  /\ UNCHANGED <<files, allowed, running, up, job, ops, faults>>

\* Seeded fault: the command ends when the file is written.
CommitOnly(p) ==
  /\ pc[p] = "renamed"
  /\ lock' = NoProc
  /\ pc' = [pc EXCEPT ![p] = "idle"]
  /\ UNCHANGED <<files, allowed, running, up, job, dirty, ops, faults, forgotten>>

\* A delete that found nothing ends here with an error.
Commit(p) ==
  /\ pc[p] = "renamed"
  /\ lock' = NoProc
  /\ pc' = [pc EXCEPT ![p] = IF job[p].op = "none" THEN "idle" ELSE "reload"]
  /\ UNCHANGED <<files, allowed, running, up, job, dirty, ops, faults, forgotten>>

----------------------------------------------------------------------------
(* validate_and_reload.                                                    *)

Behind(ns) == \E t \in DOMAIN ns : ~(ns[t].users \subseteq allowed)

\* The command has succeeded; a supervisor takes its flag down.
Done(p) ==
  /\ pc' = [pc EXCEPT ![p] = "idle"]
  /\ dirty' = [s \in Supervisors |-> dirty[s] /\ s # p]
  /\ forgotten' = (forgotten /\ Behind(config.nodes))

\* config.json is checked once more and pgrep looks for sing-box; a stopped one
\* is left alone.
FindRunning(p) ==
  /\ pc[p] = "reload" /\ config.ok
  /\ IF up THEN /\ pc' = [pc EXCEPT ![p] = "reloading"]
               /\ UNCHANGED <<dirty, forgotten>>
     ELSE Done(p)
  /\ UNCHANGED <<files, allowed, running, up, lock, job, ops, faults>>

\* systemctl reload, or else restart: sing-box reads config.json as it is now,
\* and runs even if it was stopped in the meantime.
Reload(p) ==
  /\ pc[p] = "reloading" /\ config.ok
  /\ running' = config.nodes
  /\ up' = TRUE
  /\ Done(p)
  /\ UNCHANGED <<files, allowed, lock, job, ops, faults>>

\* The lock is busy for too long, a statement, the disk or systemctl fails.
\* Only a failed check removes .tmp.
Fails(p) ==
  /\ pc[p] \notin {"idle", "passing"} /\ faults < MaxFaults
  /\ faults' = faults + 1
  /\ tmp' = IF pc[p] = "written" THEN NoFile ELSE tmp
  /\ GiveUp(p)
  /\ UNCHANGED <<allowed, config, running, up, job, seen, work, ops, edited>>

\* The process dies anywhere: memory and transaction are gone, files stay.
Kill(p) ==
  /\ pc[p] # "idle" \/ \E s \in Supervisors : s = p /\ dirty[s]
  /\ faults < MaxFaults
  /\ faults' = faults + 1
  /\ pc' = [pc EXCEPT ![p] = "idle"]
  /\ lock' = IF lock = p THEN NoProc ELSE lock
  /\ dirty' = [s \in Supervisors |-> dirty[s] /\ s # p]
  /\ forgotten' = TRUE
  /\ UNCHANGED <<files, allowed, running, up, job, ops>>

\* Shutdown drops the future that holds the transaction, which rolls back; the
\* closure on the blocking pool goes on.
Cancel(p) ==
  /\ lock = p /\ pc[p] \in Blocking /\ faults < MaxFaults
  /\ faults' = faults + 1
  /\ lock' = NoProc
  /\ dirty' = [s \in Supervisors |-> dirty[s] /\ s # p]
  /\ forgotten' = TRUE
  /\ UNCHANGED <<files, allowed, running, up, pc, job, ops>>

----------------------------------------------------------------------------
(* `sb stop', `sb start', TUI keys.                                        *)

StopKernel ==
  /\ up /\ ops < MaxOps
  /\ up' = FALSE
  /\ running' = NoNodes
  /\ ops' = ops + 1
  /\ UNCHANGED <<files, allowed, lock, pc, job, dirty, faults, forgotten>>

StartKernel ==
  /\ ~up /\ config.ok
  /\ up' = TRUE
  /\ running' = config.nodes
  /\ UNCHANGED <<files, allowed, lock, pc, job, dirty, ops, faults, forgotten>>

----------------------------------------------------------------------------
Init ==
  /\ allowed = Users
  /\ config = [nodes |-> [t \in {AnyTag} |-> [users |-> Users, port |-> AnyPort]],
               ok |-> TRUE]
  /\ tmp = NoFile
  /\ running = config.nodes /\ up = TRUE
  /\ lock = NoProc
  /\ pc = [p \in Procs |-> "idle"]
  /\ job = [p \in Procs |-> SyncJob]
  /\ seen = [p \in Procs |-> {}]
  /\ work = [p \in Procs |-> config]
  /\ dirty = [s \in Supervisors |-> FALSE]
  /\ ops = 0 /\ faults = 0
  /\ edited = PortsOf(config.nodes)
  /\ forgotten = FALSE

\* What p does of its own accord once it has started.
Step(p) ==
  \/ Acquire(p) \/ Load(p) \/ LoadFails(p) \/ WriteTmp(p)
  \/ Check(p) \/ CheckFails(p) \/ Rename(p)
  \/ Commit(p) \/ FindRunning(p) \/ Reload(p)

Next ==
  \/ \E s \in Supervisors : \/ \E u \in Users : PassWrite(s, u)
                            \/ EndPass(s) \/ PassFails(s) \/ Retry(s)
  \/ \E a \in Admins : \/ NodeCommand(a) \/ ReloadCommand(a)
                       \/ \E u \in Users : UserCommand(a, u)
  \/ \E p \in Procs : Step(p) \/ Fails(p) \/ Kill(p)
  \/ StopKernel \/ StartKernel

Spec == Init /\ [][Next]_vars

\* With the shutdown of a process whose closure is still running.
ShutdownSpec == Init /\ [][Next \/ \E p \in Procs : Cancel(p) \/ RenameFails(p)]_vars

\* A process that has started goes on; the control timer keeps ticking.
FairSpec ==
  /\ Spec
  /\ \A p \in Procs : WF_vars(Step(p))
  /\ \A s \in Supervisors : WF_vars(EndPass(s) \/ Retry(s))

----------------------------------------------------------------------------
(* Properties.                                                             *)

\* Every variable keeps its shape.
TypeOK ==
  /\ allowed \subseteq Users
  /\ config \in Configs /\ tmp \in Configs \cup {NoFile}
  /\ running \in Nodes /\ up \in BOOLEAN
  /\ lock \in Procs \cup {NoProc}
  /\ pc \in [Procs -> {"idle", "passing", "wants"} \cup Blocking \cup After]
  /\ job \in [Procs -> Jobs]
  /\ seen \in [Procs -> SUBSET Users] /\ work \in [Procs -> Configs]
  /\ dirty \in [Supervisors -> BOOLEAN]
  /\ ops \in 0..MaxOps /\ faults \in 0..MaxFaults
  /\ edited \in Ledgers /\ forgotten \in BOOLEAN

\* A configuration sing-box rejects never becomes config.json, whoever fails or
\* is killed at any step (save_with_optional_validate and the one .tmp path).
MainConfigValid == config.ok

\* No node command is lost to a concurrent rewrite of the file (load, change
\* and save under the runtime lock).
NoLostEdit == PortsOf(config.nodes) = edited

\* While config.json lists a user the database has disabled, somebody is bound
\* to rewrite it: the flag survives every failed sync, and a sync that is
\* under way has read the users of now.
ConfigCarried ==
  Behind(config.nodes) =>
    \/ forgotten
    \/ \E s \in Supervisors : dirty[s] \/ pc[s] = "passing"
    \/ \E p \in Procs : job[p].op = "sync" /\ pc[p] \in {"wants"} \cup Blocking

\* While sing-box serves something else than config.json, somebody is bound to
\* reload it (validate_and_reload after every rename, also in other orders).
RunningCarried ==
  up /\ running # config.nodes =>
    \/ forgotten
    \/ \E s \in Supervisors : dirty[s]
    \/ \E p \in Procs : pc[p] \in After

\* A disabled user is not served for ever: sing-box comes to agree with the
\* database unless a change was dropped by a killed process or a failed command.
Enforced == []<>(forgotten \/ ~Behind(running))
=============================================================================
