------------------------- MODULE RuntimeSyncProofs -------------------------
(***************************************************************************)
(* Types, the .tmp file, lost edits and carried changes, for any number of *)
(* users, nodes, supervisors and administrators.  FileInv: one writer at a *)
(* time, whose copy is current; CarryInv builds on it.                     *)
(***************************************************************************)
EXTENDS RuntimeSync, TLAPS

----------------------------------------------------------------------------
(* Configurations.                                                         *)

LEMMA NodesElim ==
  ASSUME NEW ns \in Nodes
  PROVE  DOMAIN ns \in SUBSET Tags /\ ns \in [DOMAIN ns -> Node]
BY DEF Nodes

LEMMA NodesIntro ==
  ASSUME NEW ts \in SUBSET Tags, NEW ns \in [ts -> Node]
  PROVE  ns \in Nodes
BY DEF Nodes

LEMMA WithType ==
  ASSUME NEW ns \in Nodes, NEW t \in Tags, NEW x \in Node
  PROVE  With(ns, t, x) \in Nodes
<1>1. DOMAIN ns \in SUBSET Tags /\ ns \in [DOMAIN ns -> Node]
  BY NodesElim
<1>2. With(ns, t, x) \in [DOMAIN ns \cup {t} -> Node]
  BY <1>1 DEF With
<1>3. QED
  BY <1>1, <1>2, NodesIntro

LEMMA WithoutType ==
  ASSUME NEW ns \in Nodes, NEW t \in Tags
  PROVE  Without(ns, t) \in Nodes
<1>1. DOMAIN ns \in SUBSET Tags /\ ns \in [DOMAIN ns -> Node]
  BY NodesElim
<1>2. Without(ns, t) \in [DOMAIN ns \ {t} -> Node]
  BY <1>1 DEF Without
<1>3. QED
  BY <1>1, <1>2, NodesIntro

LEMMA SyncUsersType ==
  ASSUME NEW ns \in Nodes, NEW us \in SUBSET Users
  PROVE  SyncUsers(ns, us) \in Nodes
<1>1. DOMAIN ns \in SUBSET Tags /\ ns \in [DOMAIN ns -> Node]
  BY NodesElim
<1>2. ASSUME NEW t \in DOMAIN ns
      PROVE  [ns[t] EXCEPT !.users = us] \in Node
  BY <1>1 DEF Node
<1>3. SyncUsers(ns, us) \in [DOMAIN ns -> Node]
  BY <1>2 DEF SyncUsers
<1>4. QED
  BY <1>1, <1>3, NodesIntro

LEMMA ResultType ==
  ASSUME NEW j \in Jobs, NEW c \in Configs, NEW us \in SUBSET Users,
         Applicable(j, c.nodes)
  PROVE  Result(j, c, us) \in Configs
<1>1. c.nodes \in Nodes /\ j.tag \in Tags /\ j.port \in Ports /\ j.ok \in BOOLEAN
  BY DEF Configs, Jobs
<1>2. NodesAfter(j, c.nodes, us) \in Nodes
  <2>1. CASE j.op = "add"
    <3>1. [users |-> {}, port |-> j.port] \in Node
      BY <1>1 DEF Node
    <3>2. QED
      BY <1>1, <2>1, <3>1, WithType DEF NodesAfter, AddNode
  <2>2. CASE j.op = "edit"
    <3>1. j.tag \in DOMAIN c.nodes
      BY <2>2 DEF Applicable
    <3>2. c.nodes[j.tag] \in Node
      BY <1>1, <3>1, NodesElim
    <3>3. [c.nodes[j.tag] EXCEPT !.port = j.port] \in Node
      BY <1>1, <3>2 DEF Node
    <3>4. QED
      BY <1>1, <2>2, <3>3, WithType DEF NodesAfter, EditNode
  <2>3. CASE j.op = "del"
    BY <1>1, <2>3, WithoutType DEF NodesAfter, RemoveNode
  <2>4. CASE j.op = "sync"
    BY <1>1, <2>4, SyncUsersType DEF NodesAfter
  <2>5. QED
    BY <1>1, <2>1, <2>2, <2>3, <2>4 DEF NodesAfter
<1>3. QED
  BY <1>1, <1>2 DEF Result, Configs

LEMMA LedgerType ==
  ASSUME NEW j \in Jobs, NEW l \in Ledgers
  PROVE  Ledger(j, l) \in Ledgers
<1>1. PICK ts \in SUBSET Tags : l \in [ts -> Ports]
  BY DEF Ledgers
<1>2. j.tag \in Tags /\ j.port \in Ports
  BY DEF Jobs
<1>3. CASE j.op \in {"add", "edit"}
  <2>1. With(l, j.tag, j.port) \in [ts \cup {j.tag} -> Ports]
    BY <1>1, <1>2 DEF With
  <2>2. QED
    BY <1>2, <1>3, <2>1 DEF Ledger, Ledgers
<1>4. CASE j.op = "del"
  <2>1. Without(l, j.tag) \in [ts \ {j.tag} -> Ports]
    BY <1>1 DEF Without
  <2>2. QED
    BY <1>4, <2>1 DEF Ledger, Ledgers
<1>5. QED
  BY <1>3, <1>4 DEF Ledger

\* A command makes of the ports what the ledger says.
LEMMA ResultPorts ==
  ASSUME NEW j \in Jobs, NEW c \in Configs, NEW us \in SUBSET Users,
         Applicable(j, c.nodes)
  PROVE  PortsOf(Result(j, c, us).nodes) = Ledger(j, PortsOf(c.nodes))
<1>1. c.nodes \in Nodes /\ j.tag \in Tags /\ j.port \in Ports
  BY DEF Configs, Jobs
<1>2. DOMAIN c.nodes \in SUBSET Tags /\ c.nodes \in [DOMAIN c.nodes -> Node]
  BY <1>1, NodesElim
<1>3. Result(j, c, us).nodes = NodesAfter(j, c.nodes, us)
  BY DEF Result
<1>4. CASE j.op = "add"
  <2>1. PortsOf(With(c.nodes, j.tag, [users |-> {}, port |-> j.port]))
          = With(PortsOf(c.nodes), j.tag, j.port)
    BY DEF PortsOf, With
  <2>2. QED
    BY <1>3, <1>4, <2>1 DEF NodesAfter, AddNode, Ledger
<1>5. CASE j.op = "edit"
  <2>1. c.nodes[j.tag] \in Node
    BY <1>2, <1>5 DEF Applicable
  <2>2. PICK x : x = [c.nodes[j.tag] EXCEPT !.port = j.port]
    OBVIOUS
  <2>3. x.port = j.port
    BY <1>1, <2>1, <2>2 DEF Node
  <2>4. PortsOf(With(c.nodes, j.tag, x)) = With(PortsOf(c.nodes), j.tag, j.port)
    BY <2>3 DEF PortsOf, With
  <2>5. NodesAfter(j, c.nodes, us) = With(c.nodes, j.tag, x)
    BY <1>5, <2>2 DEF NodesAfter, EditNode
  <2>6. QED
    BY <1>3, <1>5, <2>4, <2>5 DEF Ledger
<1>6. CASE j.op = "del"
  <2>1. PortsOf(Without(c.nodes, j.tag)) = Without(PortsOf(c.nodes), j.tag)
    BY DEF PortsOf, Without
  <2>2. QED
    BY <1>3, <1>6, <2>1 DEF NodesAfter, RemoveNode, Ledger
<1>7. CASE j.op = "sync"
  <2>1. ASSUME NEW t \in DOMAIN c.nodes
        PROVE  [c.nodes[t] EXCEPT !.users = us].port = c.nodes[t].port
    BY <1>2 DEF Node
  <2>2. /\ DOMAIN SyncUsers(c.nodes, us) = DOMAIN c.nodes
        /\ \A t \in DOMAIN c.nodes : SyncUsers(c.nodes, us)[t].port = c.nodes[t].port
    BY <2>1 DEF SyncUsers
  <2>3. PortsOf(SyncUsers(c.nodes, us)) = PortsOf(c.nodes)
    BY <2>2 DEF PortsOf
  <2>4. QED
    BY <1>3, <1>7, <2>3 DEF NodesAfter, Ledger
<1>8. CASE j.op = "none"
  BY <1>3, <1>8 DEF NodesAfter, Ledger
<1>9. QED
  BY <1>4, <1>5, <1>6, <1>7, <1>8 DEF Jobs

LEMMA DeleteMissing ==
  ASSUME NEW ns \in Nodes, NEW t, t \notin DOMAIN ns
  PROVE  Without(ns, t) = ns
<1>1. ns \in [DOMAIN ns -> Node]
  BY NodesElim
<1>2. QED
  BY <1>1 DEF Without

\* A sync lists the users it was given.
LEMMA ResultSync ==
  ASSUME NEW j \in Jobs, NEW c \in Configs, NEW us \in SUBSET Users, j.op = "sync"
  PROVE  \A t \in DOMAIN Result(j, c, us).nodes : Result(j, c, us).nodes[t].users = us
<1>1. c.nodes \in [DOMAIN c.nodes -> Node]
  BY NodesElim DEF Configs
<1>2. ASSUME NEW t \in DOMAIN c.nodes
      PROVE  [c.nodes[t] EXCEPT !.users = us].users = us
  BY <1>1 DEF Node
<1>3. QED
  BY <1>2 DEF Result, NodesAfter, SyncUsers

\* Every other command lists nobody who was not listed.
LEMMA ResultOther ==
  ASSUME NEW j \in Jobs, NEW c \in Configs, NEW us \in SUBSET Users,
         j.op # "sync", Applicable(j, c.nodes)
  PROVE  Behind(Result(j, c, us).nodes) => Behind(c.nodes)
<1>1. c.nodes \in [DOMAIN c.nodes -> Node]
  BY NodesElim DEF Configs
<1>2. Result(j, c, us).nodes = NodesAfter(j, c.nodes, us)
  BY DEF Result
<1>3. CASE j.op = "add"
  BY <1>2, <1>3 DEF NodesAfter, AddNode, With, Behind
<1>4. CASE j.op = "edit"
  <2>1. c.nodes[j.tag] \in Node /\ j.tag \in DOMAIN c.nodes
    BY <1>1, <1>4 DEF Applicable
  <2>2. PICK x : x = [c.nodes[j.tag] EXCEPT !.port = j.port]
    OBVIOUS
  <2>3. x.users = c.nodes[j.tag].users
    BY <2>1, <2>2 DEF Node
  <2>4. NodesAfter(j, c.nodes, us) = With(c.nodes, j.tag, x)
    BY <1>4, <2>2 DEF NodesAfter, EditNode
  <2>5. QED
    BY <1>2, <2>1, <2>3, <2>4 DEF With, Behind
<1>5. CASE j.op = "del"
  BY <1>2, <1>5 DEF NodesAfter, RemoveNode, Without, Behind
<1>6. CASE j.op = "none"
  BY <1>2, <1>6 DEF NodesAfter
<1>7. QED
  BY <1>3, <1>4, <1>5, <1>6 DEF Jobs

LEMMA NoneJob ==
  ASSUME NEW j \in Jobs
  PROVE  [j EXCEPT !.op = "none"] \in Jobs /\ [j EXCEPT !.op = "none"].op = "none"
BY Zenon DEF Jobs

LEMMA SyncJobType == SyncJob \in Jobs /\ SyncJob.op = "sync"
<1>1. AnyTag \in Tags /\ AnyPort \in Ports
  BY NodesAssumption DEF AnyTag, AnyPort
<1>2. QED
  BY <1>1 DEF SyncJob, Plain, Jobs

LEMMA NodeJobsType ==
  ASSUME NEW j \in NodeJobs
  PROVE  j \in Jobs /\ j.op \in {"add", "edit", "del"}
<1>1. AnyPort \in Ports
  BY NodesAssumption DEF AnyPort
<1>2. CASE j \in Jobs /\ j.op \in {"add", "edit"}
  BY <1>2
<1>3. CASE \E t \in Tags : j = Plain("del", t)
  <2>1. PICK t \in Tags : j = [op |-> "del", tag |-> t, port |-> AnyPort, ok |-> TRUE]
    BY <1>3 DEF Plain
  <2>2. QED
    BY <1>1, <2>1 DEF Jobs
<1>4. QED
  BY <1>2, <1>3 DEF NodeJobs

----------------------------------------------------------------------------
(* Types.                                                                  *)

Phases == {"idle", "passing", "wants"} \cup Blocking \cup After

LEMMA InitType == Init => TypeOK
<1> SUFFICES ASSUME Init PROVE TypeOK
  OBVIOUS
<1>1. AnyTag \in Tags /\ AnyPort \in Ports
  BY NodesAssumption DEF AnyTag, AnyPort
<1>2. [t \in {AnyTag} |-> [users |-> Users, port |-> AnyPort]] \in [{AnyTag} -> Node]
  BY <1>1 DEF Node
<1>3. config \in Configs /\ config.nodes \in Nodes
  BY <1>1, <1>2, NodesIntro DEF Init, Configs
<1>4. PortsOf(config.nodes) \in Ledgers
  <2>1. DOMAIN config.nodes \in SUBSET Tags /\ config.nodes \in [DOMAIN config.nodes -> Node]
    BY <1>3, NodesElim
  <2>2. PortsOf(config.nodes) \in [DOMAIN config.nodes -> Ports]
    BY <2>1 DEF PortsOf, Node
  <2>3. QED
    BY <2>1, <2>2 DEF Ledgers
<1>5. pc \in [Procs -> Phases] /\ job \in [Procs -> Jobs]
  BY SyncJobType DEF Init, Phases
<1>6. seen \in [Procs -> SUBSET Users] /\ work \in [Procs -> Configs]
  BY <1>3 DEF Init
<1>7. dirty \in [Supervisors -> BOOLEAN] /\ ops \in 0..MaxOps /\ faults \in 0..MaxFaults
  BY BoundsAssumption DEF Init
<1>8. QED
  BY <1>3, <1>4, <1>5, <1>6, <1>7 DEF Init, TypeOK, Phases

LEMMA GiveUpType ==
  ASSUME TypeOK, NEW p \in Procs, GiveUp(p)
  PROVE  /\ pc' \in [Procs -> Phases]
         /\ lock' \in Procs \cup {NoProc}
         /\ dirty' \in [Supervisors -> BOOLEAN]
         /\ forgotten' \in BOOLEAN
<1>1. pc' \in [Procs -> Phases] /\ lock' \in Procs \cup {NoProc}
  BY DEF GiveUp, TypeOK, Phases
<1>2. dirty' \in [Supervisors -> BOOLEAN]
  BY DEF GiveUp, TypeOK
<1>3. forgotten' \in BOOLEAN
  BY Zenon DEF GiveUp, TypeOK
<1>4. QED
  BY <1>1, <1>2, <1>3

LEMMA DoneType ==
  ASSUME TypeOK, NEW p \in Procs, Done(p)
  PROVE  /\ pc' \in [Procs -> Phases]
         /\ dirty' \in [Supervisors -> BOOLEAN]
         /\ forgotten' \in BOOLEAN
<1>1. pc' \in [Procs -> Phases]
  BY DEF Done, TypeOK, Phases
<1>2. dirty' \in [Supervisors -> BOOLEAN]
  BY Zenon DEF Done, TypeOK
<1>3. forgotten' \in BOOLEAN
  BY Zenon DEF Done, TypeOK
<1>4. QED
  BY <1>1, <1>2, <1>3

LEMMA NextType == TypeOK /\ [Next]_vars => TypeOK'
<1> SUFFICES ASSUME TypeOK, [Next]_vars PROVE TypeOK'
  OBVIOUS
<1> USE DEF TypeOK, files
<1>1. ASSUME NEW s \in Supervisors, NEW u \in Users, PassWrite(s, u)
      PROVE  TypeOK'
  BY <1>1, BoundsAssumption DEF PassWrite, Writable, Toggled, Procs
<1>2. ASSUME NEW s \in Supervisors, EndPass(s)
      PROVE  TypeOK'
  BY <1>2, SyncJobType DEF EndPass, Procs
<1>3. ASSUME NEW s \in Supervisors, PassFails(s)
      PROVE  TypeOK'
  BY <1>3, BoundsAssumption DEF PassFails, Procs
<1>4. ASSUME NEW s \in Supervisors, Retry(s)
      PROVE  TypeOK'
  BY <1>4, SyncJobType DEF Retry, Procs
<1>5. ASSUME NEW a \in Admins, NodeCommand(a)
      PROVE  TypeOK'
  BY <1>5, NodeJobsType, BoundsAssumption DEF NodeCommand, Procs
<1>6. ASSUME NEW a \in Admins, ReloadCommand(a)
      PROVE  TypeOK'
  <2>1. job' \in [Procs -> Jobs]
    BY <1>6, NoneJob DEF ReloadCommand, Procs
  <2>2. QED
    BY <1>6, <2>1, BoundsAssumption DEF ReloadCommand, Procs, After
<1>7. ASSUME NEW a \in Admins, NEW u \in Users, UserCommand(a, u)
      PROVE  TypeOK'
  BY <1>7, SyncJobType, BoundsAssumption DEF UserCommand, Writable, Toggled, Procs
<1>8. ASSUME NEW p \in Procs, Acquire(p)
      PROVE  TypeOK'
  BY <1>8 DEF Acquire, Blocking
<1>9. ASSUME NEW p \in Procs, Load(p)
      PROVE  TypeOK'
  <2>1. job' \in [Procs -> Jobs]
    BY <1>9, NoneJob DEF Load
  <2>2. work' \in [Procs -> Configs]
    <3>1. Result(job[p], config, seen[p]) \in Configs
      BY <1>9, ResultType DEF Load
    <3>2. QED
      BY <1>9, <3>1 DEF Load
  <2>3. QED
    BY <1>9, <2>1, <2>2 DEF Load, Blocking
<1>10. ASSUME NEW p \in Procs, LoadFails(p)
       PROVE  TypeOK'
  <2>1. GiveUp(p) /\ UNCHANGED <<files, allowed, running, up, job, ops, faults>>
    BY <1>10 DEF LoadFails
  <2>2. QED
    BY <2>1, GiveUpType DEF Phases
<1>11. ASSUME NEW p \in Procs, WriteTmp(p)
       PROVE  TypeOK'
  BY <1>11 DEF WriteTmp, Blocking
<1>12. ASSUME NEW p \in Procs, Check(p)
       PROVE  TypeOK'
  BY <1>12 DEF Check, Blocking
<1>13. ASSUME NEW p \in Procs, CheckFails(p)
       PROVE  TypeOK'
  <2>1. /\ GiveUp(p) /\ tmp' = NoFile
        /\ UNCHANGED <<allowed, config, running, up, job, seen, work, ops, faults, edited>>
    BY <1>13 DEF CheckFails
  <2>2. QED
    BY <2>1, GiveUpType DEF Phases
<1>14. ASSUME NEW p \in Procs, Rename(p)
       PROVE  TypeOK'
  <2>1. config' \in Configs /\ tmp' = NoFile
    BY <1>14 DEF Rename
  <2>2. edited' \in Ledgers
    BY <1>14, LedgerType DEF Rename
  <2>3. QED
    BY <1>14, <2>1, <2>2 DEF Rename, After
<1>15. ASSUME NEW p \in Procs, Commit(p)
       PROVE  TypeOK'
  BY <1>15 DEF Commit, After
<1>16. ASSUME NEW p \in Procs, FindRunning(p)
       PROVE  TypeOK'
  <2>1. UNCHANGED <<files, allowed, running, up, lock, job, ops, faults>>
    BY <1>16 DEF FindRunning
  <2>2. CASE up
    BY <1>16, <2>1, <2>2 DEF FindRunning, After
  <2>3. CASE ~up
    <3>1. Done(p)
      BY <1>16, <2>3 DEF FindRunning
    <3>2. QED
      BY <2>1, <3>1, DoneType DEF Phases
  <2>4. QED
    BY <2>2, <2>3
<1>17. ASSUME NEW p \in Procs, Reload(p)
       PROVE  TypeOK'
  <2>1. /\ Done(p) /\ running' = config.nodes /\ up' = TRUE
        /\ UNCHANGED <<files, allowed, lock, job, ops, faults>>
    BY <1>17 DEF Reload
  <2>2. running' \in Nodes
    BY <2>1 DEF Configs
  <2>3. QED
    BY <2>1, <2>2, DoneType DEF Phases
<1>18. ASSUME NEW p \in Procs, Fails(p)
       PROVE  TypeOK'
  <2>1. /\ GiveUp(p) /\ tmp' \in {tmp, NoFile}
        /\ UNCHANGED <<allowed, config, running, up, job, seen, work, ops, edited>>
    BY <1>18 DEF Fails
  <2>2. faults' \in 0..MaxFaults
    BY <1>18, BoundsAssumption DEF Fails
  <2>3. QED
    BY <2>1, <2>2, GiveUpType DEF Phases
<1>19. ASSUME NEW p \in Procs, Kill(p)
       PROVE  TypeOK'
  <2>1. dirty' \in [Supervisors -> BOOLEAN]
    BY <1>19, Zenon DEF Kill
  <2>2. faults' \in 0..MaxFaults
    BY <1>19, BoundsAssumption DEF Kill
  <2>3. QED
    BY <1>19, <2>1, <2>2 DEF Kill
<1>20. CASE StopKernel
  <2>1. NoNodes \in [{} -> Node]
    BY DEF NoNodes
  <2>2. running' \in Nodes
    <3>1. {} \in SUBSET Tags
      OBVIOUS
    <3>2. QED
      BY <1>20, <2>1, <3>1, NodesIntro DEF StopKernel
  <2>3. ops' \in 0..MaxOps
    BY <1>20, BoundsAssumption DEF StopKernel
  <2>4. QED
    BY <1>20, <2>2, <2>3 DEF StopKernel
<1>21. CASE StartKernel
  <2>1. config.nodes \in Nodes
    BY DEF Configs
  <2>2. QED
    BY <1>21, <2>1 DEF StartKernel
<1>22. CASE UNCHANGED vars
  BY <1>22 DEF vars
<1>23. QED
  BY <1>1, <1>2, <1>3, <1>4, <1>5, <1>6, <1>7, <1>8, <1>9, <1>10, <1>11, <1>12,
     <1>13, <1>14, <1>15, <1>16, <1>17, <1>18, <1>19, <1>20, <1>21, <1>22
  DEF Next, Step

\* Every variable keeps its shape, whatever the failures and kills.
THEOREM TypeCorrect == Spec => []TypeOK
<1>1. Init => TypeOK
  BY InitType
<1>2. TypeOK /\ [Next]_vars => TypeOK'
  BY NextType
<1>3. QED
  BY <1>1, <1>2, PTL DEF Spec

----------------------------------------------------------------------------
(* The file: one writer at a time.                                         *)

\* Whoever is between BEGIN IMMEDIATE and COMMIT holds the lock.
LockInv == \A p \in Procs : pc[p] \in Blocking \cup {"renamed"} => lock = p

\* The users a writer read are the users of now.
SeenInv == \A p \in Procs : pc[p] \in Blocking => seen[p] = allowed

Loaded == {"loaded", "written", "checked"}

\* What a writer has in memory is the file with its command done.
PortsInv == \A p \in Procs : pc[p] \in Loaded =>
              PortsOf(work[p].nodes) = Ledger(job[p], edited)

\* The one .tmp path holds what its writer wrote, and passed the check.
TmpInv == \A p \in Procs : pc[p] \in {"written", "checked"} =>
            tmp = work[p] /\ (pc[p] = "checked" => tmp.ok)

FileInv == LockInv /\ SeenInv /\ PortsInv /\ TmpInv /\ MainConfigValid /\ NoLostEdit

LEMMA OneWriter ==
  ASSUME LockInv, NEW p \in Procs, NEW q \in Procs,
         pc[p] \in Blocking \cup {"renamed"}, pc[q] \in Blocking \cup {"renamed"}
  PROVE  p = q
BY DEF LockInv

LEMMA NoWriter ==
  ASSUME LockInv, lock = NoProc, NEW p \in Procs
  PROVE  pc[p] \notin Blocking \cup {"renamed"}
BY ProcsAssumption DEF LockInv

LEMMA NextLock == TypeOK /\ FileInv /\ [Next]_vars => LockInv'
<1> SUFFICES ASSUME TypeOK, FileInv, [Next]_vars PROVE LockInv'
  OBVIOUS
<1> USE DEF TypeOK, FileInv, LockInv, Blocking, After, Procs
<1>1. ASSUME NEW s \in Supervisors, NEW u \in Users, PassWrite(s, u)
      PROVE  LockInv'
  BY <1>1 DEF PassWrite
<1>2. ASSUME NEW s \in Supervisors, EndPass(s)
      PROVE  LockInv'
  BY <1>2 DEF EndPass
<1>3. ASSUME NEW s \in Supervisors, PassFails(s)
      PROVE  LockInv'
  BY <1>3 DEF PassFails
<1>4. ASSUME NEW s \in Supervisors, Retry(s)
      PROVE  LockInv'
  BY <1>4 DEF Retry
<1>5. ASSUME NEW a \in Admins, NodeCommand(a)
      PROVE  LockInv'
  BY <1>5 DEF NodeCommand
<1>6. ASSUME NEW a \in Admins, ReloadCommand(a)
      PROVE  LockInv'
  BY <1>6 DEF ReloadCommand
<1>7. ASSUME NEW a \in Admins, NEW u \in Users, UserCommand(a, u)
      PROVE  LockInv'
  BY <1>7 DEF UserCommand
<1>8. ASSUME NEW p \in Procs, Acquire(p)
      PROVE  LockInv'
  BY <1>8, NoWriter DEF Acquire
<1>9. ASSUME NEW p \in Procs, Load(p)
      PROVE  LockInv'
  BY <1>9 DEF Load
<1>10. ASSUME NEW p \in Procs, LoadFails(p)
       PROVE  LockInv'
  BY <1>10 DEF LoadFails, GiveUp
<1>11. ASSUME NEW p \in Procs, WriteTmp(p)
       PROVE  LockInv'
  BY <1>11 DEF WriteTmp
<1>12. ASSUME NEW p \in Procs, Check(p)
       PROVE  LockInv'
  BY <1>12 DEF Check
<1>13. ASSUME NEW p \in Procs, CheckFails(p)
       PROVE  LockInv'
  BY <1>13 DEF CheckFails, GiveUp
<1>14. ASSUME NEW p \in Procs, Rename(p)
       PROVE  LockInv'
  BY <1>14 DEF Rename
<1>15. ASSUME NEW p \in Procs, Commit(p)
       PROVE  LockInv'
  BY <1>15 DEF Commit
<1>16. ASSUME NEW p \in Procs, FindRunning(p)
       PROVE  LockInv'
  BY <1>16 DEF FindRunning, Done
<1>17. ASSUME NEW p \in Procs, Reload(p)
       PROVE  LockInv'
  BY <1>17 DEF Reload, Done
<1>18. ASSUME NEW p \in Procs, Fails(p)
       PROVE  LockInv'
  BY <1>18 DEF Fails, GiveUp
<1>19. ASSUME NEW p \in Procs, Kill(p)
       PROVE  LockInv'
  BY <1>19 DEF Kill
<1>20. CASE StopKernel
  BY <1>20 DEF StopKernel
<1>21. CASE StartKernel
  BY <1>21 DEF StartKernel
<1>22. CASE UNCHANGED vars
  BY <1>22 DEF vars
<1>23. QED
  BY <1>1, <1>2, <1>3, <1>4, <1>5, <1>6, <1>7, <1>8, <1>9, <1>10, <1>11, <1>12,
     <1>13, <1>14, <1>15, <1>16, <1>17, <1>18, <1>19, <1>20, <1>21, <1>22
  DEF Next, Step

LEMMA NextSeen == TypeOK /\ FileInv /\ [Next]_vars => SeenInv'
<1> SUFFICES ASSUME TypeOK, FileInv, [Next]_vars PROVE SeenInv'
  OBVIOUS
<1> USE DEF TypeOK, FileInv, SeenInv, files, Blocking, After, Procs
<1>1. ASSUME NEW s \in Supervisors, NEW u \in Users, PassWrite(s, u)
      PROVE  SeenInv'
  BY <1>1, NoWriter DEF PassWrite, Writable
<1>2. ASSUME NEW s \in Supervisors, EndPass(s)
      PROVE  SeenInv'
  BY <1>2 DEF EndPass
<1>3. ASSUME NEW s \in Supervisors, PassFails(s)
      PROVE  SeenInv'
  BY <1>3 DEF PassFails
<1>4. ASSUME NEW s \in Supervisors, Retry(s)
      PROVE  SeenInv'
  BY <1>4 DEF Retry
<1>5. ASSUME NEW a \in Admins, NodeCommand(a)
      PROVE  SeenInv'
  BY <1>5 DEF NodeCommand
<1>6. ASSUME NEW a \in Admins, ReloadCommand(a)
      PROVE  SeenInv'
  BY <1>6 DEF ReloadCommand
<1>7. ASSUME NEW a \in Admins, NEW u \in Users, UserCommand(a, u)
      PROVE  SeenInv'
  BY <1>7, NoWriter DEF UserCommand, Writable
<1>8. ASSUME NEW p \in Procs, Acquire(p)
      PROVE  SeenInv'
  BY <1>8 DEF Acquire
<1>9. ASSUME NEW p \in Procs, Load(p)
      PROVE  SeenInv'
  BY <1>9 DEF Load
<1>10. ASSUME NEW p \in Procs, LoadFails(p)
       PROVE  SeenInv'
  BY <1>10 DEF LoadFails, GiveUp
<1>11. ASSUME NEW p \in Procs, WriteTmp(p)
       PROVE  SeenInv'
  BY <1>11 DEF WriteTmp
<1>12. ASSUME NEW p \in Procs, Check(p)
       PROVE  SeenInv'
  BY <1>12 DEF Check
<1>13. ASSUME NEW p \in Procs, CheckFails(p)
       PROVE  SeenInv'
  BY <1>13 DEF CheckFails, GiveUp
<1>14. ASSUME NEW p \in Procs, Rename(p)
       PROVE  SeenInv'
  BY <1>14 DEF Rename
<1>15. ASSUME NEW p \in Procs, Commit(p)
       PROVE  SeenInv'
  BY <1>15 DEF Commit
<1>16. ASSUME NEW p \in Procs, FindRunning(p)
       PROVE  SeenInv'
  BY <1>16 DEF FindRunning, Done
<1>17. ASSUME NEW p \in Procs, Reload(p)
       PROVE  SeenInv'
  BY <1>17 DEF Reload, Done
<1>18. ASSUME NEW p \in Procs, Fails(p)
       PROVE  SeenInv'
  BY <1>18 DEF Fails, GiveUp
<1>19. ASSUME NEW p \in Procs, Kill(p)
       PROVE  SeenInv'
  BY <1>19 DEF Kill
<1>20. CASE StopKernel
  BY <1>20 DEF StopKernel
<1>21. CASE StartKernel
  BY <1>21 DEF StartKernel
<1>22. CASE UNCHANGED vars
  BY <1>22 DEF vars
<1>23. QED
  BY <1>1, <1>2, <1>3, <1>4, <1>5, <1>6, <1>7, <1>8, <1>9, <1>10, <1>11, <1>12,
     <1>13, <1>14, <1>15, <1>16, <1>17, <1>18, <1>19, <1>20, <1>21, <1>22
  DEF Next, Step

LEMMA NextPorts == TypeOK /\ FileInv /\ [Next]_vars => PortsInv'
<1> SUFFICES ASSUME TypeOK, FileInv, [Next]_vars PROVE PortsInv'
  OBVIOUS
<1> USE DEF TypeOK, FileInv, PortsInv, files, Loaded, Blocking, After, Procs
<1>1. ASSUME NEW s \in Supervisors, NEW u \in Users, PassWrite(s, u)
      PROVE  PortsInv'
  BY <1>1 DEF PassWrite
<1>2. ASSUME NEW s \in Supervisors, EndPass(s)
      PROVE  PortsInv'
  BY <1>2 DEF EndPass
<1>3. ASSUME NEW s \in Supervisors, PassFails(s)
      PROVE  PortsInv'
  BY <1>3 DEF PassFails
<1>4. ASSUME NEW s \in Supervisors, Retry(s)
      PROVE  PortsInv'
  BY <1>4 DEF Retry
<1>5. ASSUME NEW a \in Admins, NodeCommand(a)
      PROVE  PortsInv'
  BY <1>5 DEF NodeCommand
<1>6. ASSUME NEW a \in Admins, ReloadCommand(a)
      PROVE  PortsInv'
  BY <1>6 DEF ReloadCommand
<1>7. ASSUME NEW a \in Admins, NEW u \in Users, UserCommand(a, u)
      PROVE  PortsInv'
  BY <1>7 DEF UserCommand
<1>8. ASSUME NEW p \in Procs, Acquire(p)
      PROVE  PortsInv'
  BY <1>8 DEF Acquire
<1>9. ASSUME NEW p \in Procs, Load(p)
      PROVE  PortsInv'
  <2>1. config \in Configs /\ job[p] \in Jobs /\ seen[p] \in SUBSET Users
    OBVIOUS
  <2>2. work'[p] = Result(job[p], config, seen[p]) /\ Applicable(job[p], config.nodes)
    BY <1>9 DEF Load
  <2>3. PortsOf(work'[p].nodes) = Ledger(job[p], edited)
    BY <2>1, <2>2, ResultPorts DEF NoLostEdit
  <2>4. CASE job[p].op = "del" /\ job[p].tag \notin DOMAIN config.nodes
    <3>1. job'[p].op = "none"
      BY <1>9, <2>1, <2>4, NoneJob DEF Load
    <3>2. job[p].tag \notin DOMAIN edited
      BY <2>4 DEF NoLostEdit, PortsOf
    <3>3. Ledger(job[p], edited) = edited /\ Ledger(job'[p], edited) = edited
      <4>1. edited = [t \in DOMAIN edited |-> edited[t]]
        BY DEF Ledgers
      <4>2. Without(edited, job[p].tag) = edited
        BY <3>2, <4>1 DEF Without
      <4>3. QED
        BY <2>4, <3>1, <4>2 DEF Ledger
    <3>4. QED
      BY <1>9, <2>3, <3>3 DEF Load
  <2>5. CASE ~(job[p].op = "del" /\ job[p].tag \notin DOMAIN config.nodes)
    <3>1. job' = job /\ edited' = edited
      BY <1>9, <2>5 DEF Load
    <3>2. QED
      BY <1>9, <2>3, <3>1 DEF Load
  <2>6. QED
    BY <2>4, <2>5
<1>10. ASSUME NEW p \in Procs, LoadFails(p)
       PROVE  PortsInv'
  BY <1>10 DEF LoadFails, GiveUp
<1>11. ASSUME NEW p \in Procs, WriteTmp(p)
       PROVE  PortsInv'
  BY <1>11 DEF WriteTmp
<1>12. ASSUME NEW p \in Procs, Check(p)
       PROVE  PortsInv'
  BY <1>12 DEF Check
<1>13. ASSUME NEW p \in Procs, CheckFails(p)
       PROVE  PortsInv'
  BY <1>13 DEF CheckFails, GiveUp
<1>14. ASSUME NEW p \in Procs, Rename(p)
       PROVE  PortsInv'
  BY <1>14, OneWriter DEF Rename
<1>15. ASSUME NEW p \in Procs, Commit(p)
       PROVE  PortsInv'
  BY <1>15 DEF Commit
<1>16. ASSUME NEW p \in Procs, FindRunning(p)
       PROVE  PortsInv'
  BY <1>16 DEF FindRunning, Done
<1>17. ASSUME NEW p \in Procs, Reload(p)
       PROVE  PortsInv'
  BY <1>17 DEF Reload, Done
<1>18. ASSUME NEW p \in Procs, Fails(p)
       PROVE  PortsInv'
  BY <1>18 DEF Fails, GiveUp
<1>19. ASSUME NEW p \in Procs, Kill(p)
       PROVE  PortsInv'
  BY <1>19 DEF Kill
<1>20. CASE StopKernel
  BY <1>20 DEF StopKernel
<1>21. CASE StartKernel
  BY <1>21 DEF StartKernel
<1>22. CASE UNCHANGED vars
  BY <1>22 DEF vars
<1>23. QED
  BY <1>1, <1>2, <1>3, <1>4, <1>5, <1>6, <1>7, <1>8, <1>9, <1>10, <1>11, <1>12,
     <1>13, <1>14, <1>15, <1>16, <1>17, <1>18, <1>19, <1>20, <1>21, <1>22
  DEF Next, Step

LEMMA NextTmp == TypeOK /\ FileInv /\ [Next]_vars => TmpInv'
<1> SUFFICES ASSUME TypeOK, FileInv, [Next]_vars PROVE TmpInv'
  OBVIOUS
<1> USE DEF TypeOK, FileInv, TmpInv, files, Blocking, After, Procs
<1>1. ASSUME NEW s \in Supervisors, NEW u \in Users, PassWrite(s, u)
      PROVE  TmpInv'
  BY <1>1 DEF PassWrite
<1>2. ASSUME NEW s \in Supervisors, EndPass(s)
      PROVE  TmpInv'
  BY <1>2 DEF EndPass
<1>3. ASSUME NEW s \in Supervisors, PassFails(s)
      PROVE  TmpInv'
  BY <1>3 DEF PassFails
<1>4. ASSUME NEW s \in Supervisors, Retry(s)
      PROVE  TmpInv'
  BY <1>4 DEF Retry
<1>5. ASSUME NEW a \in Admins, NodeCommand(a)
      PROVE  TmpInv'
  BY <1>5 DEF NodeCommand
<1>6. ASSUME NEW a \in Admins, ReloadCommand(a)
      PROVE  TmpInv'
  BY <1>6 DEF ReloadCommand
<1>7. ASSUME NEW a \in Admins, NEW u \in Users, UserCommand(a, u)
      PROVE  TmpInv'
  BY <1>7 DEF UserCommand
<1>8. ASSUME NEW p \in Procs, Acquire(p)
      PROVE  TmpInv'
  BY <1>8 DEF Acquire
<1>9. ASSUME NEW p \in Procs, Load(p)
      PROVE  TmpInv'
  BY <1>9 DEF Load
<1>10. ASSUME NEW p \in Procs, LoadFails(p)
       PROVE  TmpInv'
  BY <1>10 DEF LoadFails, GiveUp
<1>11. ASSUME NEW p \in Procs, WriteTmp(p)
       PROVE  TmpInv'
  BY <1>11, OneWriter DEF WriteTmp
<1>12. ASSUME NEW p \in Procs, Check(p)
       PROVE  TmpInv'
  BY <1>12 DEF Check, Accepts
<1>13. ASSUME NEW p \in Procs, CheckFails(p)
       PROVE  TmpInv'
  BY <1>13, OneWriter DEF CheckFails, GiveUp
<1>14. ASSUME NEW p \in Procs, Rename(p)
       PROVE  TmpInv'
  BY <1>14, OneWriter DEF Rename
<1>15. ASSUME NEW p \in Procs, Commit(p)
       PROVE  TmpInv'
  BY <1>15 DEF Commit
<1>16. ASSUME NEW p \in Procs, FindRunning(p)
       PROVE  TmpInv'
  BY <1>16 DEF FindRunning, Done
<1>17. ASSUME NEW p \in Procs, Reload(p)
       PROVE  TmpInv'
  BY <1>17 DEF Reload, Done
<1>18. ASSUME NEW p \in Procs, Fails(p)
       PROVE  TmpInv'
  BY <1>18, OneWriter DEF Fails, GiveUp
<1>19. ASSUME NEW p \in Procs, Kill(p)
       PROVE  TmpInv'
  BY <1>19 DEF Kill
<1>20. CASE StopKernel
  BY <1>20 DEF StopKernel
<1>21. CASE StartKernel
  BY <1>21 DEF StartKernel
<1>22. CASE UNCHANGED vars
  BY <1>22 DEF vars
<1>23. QED
  BY <1>1, <1>2, <1>3, <1>4, <1>5, <1>6, <1>7, <1>8, <1>9, <1>10, <1>11, <1>12,
     <1>13, <1>14, <1>15, <1>16, <1>17, <1>18, <1>19, <1>20, <1>21, <1>22
  DEF Next, Step

LEMMA NextMain == TypeOK /\ FileInv /\ [Next]_vars => MainConfigValid' /\ NoLostEdit'
<1> SUFFICES ASSUME TypeOK, FileInv, [Next]_vars PROVE MainConfigValid' /\ NoLostEdit'
  OBVIOUS
<1> USE DEF FileInv, MainConfigValid, NoLostEdit, files
<1>1. ASSUME NEW s \in Supervisors, NEW u \in Users, PassWrite(s, u)
      PROVE  MainConfigValid' /\ NoLostEdit'
  BY <1>1 DEF PassWrite
<1>2. ASSUME NEW s \in Supervisors, EndPass(s)
      PROVE  MainConfigValid' /\ NoLostEdit'
  BY <1>2 DEF EndPass
<1>3. ASSUME NEW s \in Supervisors, PassFails(s)
      PROVE  MainConfigValid' /\ NoLostEdit'
  BY <1>3 DEF PassFails
<1>4. ASSUME NEW s \in Supervisors, Retry(s)
      PROVE  MainConfigValid' /\ NoLostEdit'
  BY <1>4 DEF Retry
<1>5. ASSUME NEW a \in Admins, NodeCommand(a)
      PROVE  MainConfigValid' /\ NoLostEdit'
  BY <1>5 DEF NodeCommand
<1>6. ASSUME NEW a \in Admins, ReloadCommand(a)
      PROVE  MainConfigValid' /\ NoLostEdit'
  BY <1>6 DEF ReloadCommand
<1>7. ASSUME NEW a \in Admins, NEW u \in Users, UserCommand(a, u)
      PROVE  MainConfigValid' /\ NoLostEdit'
  BY <1>7 DEF UserCommand
<1>8. ASSUME NEW p \in Procs, Acquire(p)
      PROVE  MainConfigValid' /\ NoLostEdit'
  BY <1>8 DEF Acquire
<1>9. ASSUME NEW p \in Procs, Load(p)
      PROVE  MainConfigValid' /\ NoLostEdit'
  BY <1>9 DEF Load
<1>10. ASSUME NEW p \in Procs, LoadFails(p)
       PROVE  MainConfigValid' /\ NoLostEdit'
  BY <1>10 DEF LoadFails, GiveUp
<1>11. ASSUME NEW p \in Procs, WriteTmp(p)
       PROVE  MainConfigValid' /\ NoLostEdit'
  BY <1>11 DEF WriteTmp
<1>12. ASSUME NEW p \in Procs, Check(p)
       PROVE  MainConfigValid' /\ NoLostEdit'
  BY <1>12 DEF Check
<1>13. ASSUME NEW p \in Procs, CheckFails(p)
       PROVE  MainConfigValid' /\ NoLostEdit'
  BY <1>13 DEF CheckFails, GiveUp
<1>14. ASSUME NEW p \in Procs, Rename(p)
       PROVE  MainConfigValid' /\ NoLostEdit'
  <2>1. config' = tmp /\ edited' = Ledger(job[p], edited)
    BY <1>14 DEF Rename
  <2>2. tmp = work[p] /\ tmp.ok
    BY <1>14 DEF Rename, TmpInv
  <2>3. PortsOf(work[p].nodes) = Ledger(job[p], edited)
    BY <1>14 DEF Rename, PortsInv, Loaded
  <2>4. QED
    BY <2>1, <2>2, <2>3
<1>15. ASSUME NEW p \in Procs, Commit(p)
       PROVE  MainConfigValid' /\ NoLostEdit'
  BY <1>15 DEF Commit
<1>16. ASSUME NEW p \in Procs, FindRunning(p)
       PROVE  MainConfigValid' /\ NoLostEdit'
  BY <1>16 DEF FindRunning, Done
<1>17. ASSUME NEW p \in Procs, Reload(p)
       PROVE  MainConfigValid' /\ NoLostEdit'
  BY <1>17 DEF Reload, Done
<1>18. ASSUME NEW p \in Procs, Fails(p)
       PROVE  MainConfigValid' /\ NoLostEdit'
  BY <1>18 DEF Fails, GiveUp
<1>19. ASSUME NEW p \in Procs, Kill(p)
       PROVE  MainConfigValid' /\ NoLostEdit'
  BY <1>19 DEF Kill
<1>20. CASE StopKernel
  BY <1>20 DEF StopKernel
<1>21. CASE StartKernel
  BY <1>21 DEF StartKernel
<1>22. CASE UNCHANGED vars
  BY <1>22 DEF vars
<1>23. QED
  BY <1>1, <1>2, <1>3, <1>4, <1>5, <1>6, <1>7, <1>8, <1>9, <1>10, <1>11, <1>12,
     <1>13, <1>14, <1>15, <1>16, <1>17, <1>18, <1>19, <1>20, <1>21, <1>22
  DEF Next, Step

LEMMA InitFile == Init => FileInv
<1> SUFFICES ASSUME Init PROVE FileInv
  OBVIOUS
<1>1. \A p \in Procs : pc[p] = "idle"
  BY DEF Init
<1>2. LockInv /\ SeenInv /\ PortsInv /\ TmpInv
  BY <1>1 DEF LockInv, SeenInv, PortsInv, TmpInv, Loaded, Blocking
<1>3. MainConfigValid /\ NoLostEdit
  BY DEF Init, MainConfigValid, NoLostEdit
<1>4. QED
  BY <1>2, <1>3 DEF FileInv

LEMMA FileInvariant == Spec => [](TypeOK /\ FileInv)
<1>1. Init => TypeOK /\ FileInv
  BY InitType, InitFile
<1>2. TypeOK /\ FileInv /\ [Next]_vars => (TypeOK /\ FileInv)'
  BY NextType, NextLock, NextSeen, NextPorts, NextTmp, NextMain DEF FileInv
<1>3. QED
  BY <1>1, <1>2, PTL DEF Spec

\* A configuration sing-box rejects never becomes config.json, in whatever
\* order writers, failures and kills come: the single .tmp belongs to the
\* holder of the lock, and holds what sing-box accepted when it is renamed.
THEOREM OnlyValidConfigs == Spec => []MainConfigValid
BY FileInvariant, PTL DEF FileInv

\* config.json is what the node commands that finished make of it one after
\* the other: none of them is undone by a rewrite that loaded the file earlier.
THEOREM EditsKept == Spec => []NoLostEdit
BY FileInvariant, PTL DEF FileInv

----------------------------------------------------------------------------
(* What is carried: nothing stays undone that nobody is bound to do.       *)

\* What a writer has in memory is no further behind than the file; a sync is
\* not behind at all, a failed delete changes nothing.
UsersInv == \A p \in Procs : pc[p] \in Loaded =>
              /\ job[p].op = "sync" => ~Behind(work[p].nodes)
              /\ Behind(work[p].nodes) => Behind(config.nodes)
              /\ job[p].op = "none" => work[p].nodes = config.nodes

\* A supervisor works on the file with its flag up; commands are no passes.
JobInv ==
  /\ \A s \in Supervisors : pc[s] \in {"wants"} \cup Blocking \cup After =>
       dirty[s] /\ job[s].op = "sync"
  /\ \A a \in Admins : pc[a] # "passing"

\* A flag counts before the file is written, not after: it is about to fall.
Carrier ==
  \/ \E s \in Supervisors : (dirty[s] /\ pc[s] \notin After) \/ pc[s] = "passing"
  \/ \E p \in Procs : job[p].op = "sync" /\ pc[p] \in {"wants"} \cup Blocking

CarriedInv == Behind(config.nodes) => forgotten \/ Carrier

\* The delete that found nothing rewrites the file, and reloads nothing.
Reloader ==
  \/ \E s \in Supervisors : dirty[s]
  \/ \E p \in Procs : pc[p] \in After /\ ~(job[p].op = "none" /\ pc[p] = "renamed")

RunInv == up /\ running # config.nodes => forgotten \/ Reloader

CarryInv == UsersInv /\ JobInv /\ CarriedInv /\ RunInv

\* A supervisor that gives up keeps its flag, a command is known to be dropped.
LEMMA GiveUpCarried ==
  ASSUME TypeOK, JobInv, CarriedInv, NEW p \in Procs, GiveUp(p),
         pc[p] \notin {"idle", "passing"}, UNCHANGED <<allowed, config, job>>
  PROVE  CarriedInv'
<1> SUFFICES ASSUME Behind(config.nodes)', ~forgotten' PROVE Carrier'
  BY DEF CarriedInv
<1>1. Behind(config.nodes) /\ ~forgotten /\ ~Drops(p)
  BY DEF GiveUp, Behind
<1>2. Carrier
  BY <1>1 DEF CarriedInv
<1>3. pc' = [pc EXCEPT ![p] = "idle"] /\ dirty' = dirty /\ job' = job
  BY DEF GiveUp
<1>4. CASE p \in Supervisors
  <2>1. dirty[p]
    BY <1>4 DEF JobInv, TypeOK, Phases, Blocking, After
  <2>2. pc'[p] = "idle"
    BY <1>3 DEF TypeOK
  <2>3. QED
    BY <1>3, <1>4, <2>1, <2>2 DEF Carrier, After
<1>5. CASE p \in Admins
  <2>1. job[p].op # "sync"
    BY <1>1, <1>5 DEF Drops
  <2>2. CASE \E s \in Supervisors : (dirty[s] /\ pc[s] \notin After) \/ pc[s] = "passing"
    BY <1>3, <1>5, <2>2, ProcsAssumption DEF Carrier, TypeOK, Procs
  <2>3. CASE \E q \in Procs : job[q].op = "sync" /\ pc[q] \in {"wants"} \cup Blocking
    BY <1>3, <2>1, <2>3 DEF Carrier, TypeOK
  <2>4. QED
    BY <1>2, <2>2, <2>3 DEF Carrier
<1>6. QED
  BY <1>4, <1>5 DEF Procs

LEMMA GiveUpRun ==
  ASSUME TypeOK, JobInv, RunInv, NEW p \in Procs, GiveUp(p),
         pc[p] \notin {"idle", "passing"}, UNCHANGED <<config, running, up, job>>
  PROVE  RunInv'
<1> SUFFICES ASSUME up, running # config.nodes, ~forgotten' PROVE Reloader'
  BY DEF RunInv
<1>1. ~forgotten /\ ~Drops(p)
  BY DEF GiveUp
<1>2. Reloader
  BY <1>1 DEF RunInv
<1>3. pc' = [pc EXCEPT ![p] = "idle"] /\ dirty' = dirty /\ job' = job
  BY DEF GiveUp
<1>4. CASE \E s \in Supervisors : dirty[s]
  BY <1>3, <1>4 DEF Reloader
<1>5. CASE \E q \in Procs : pc[q] \in After /\ ~(job[q].op = "none" /\ pc[q] = "renamed")
  <2>1. PICK q \in Procs : pc[q] \in After /\ ~(job[q].op = "none" /\ pc[q] = "renamed")
    BY <1>5
  <2>2. CASE q # p
    BY <1>3, <2>1, <2>2 DEF Reloader, TypeOK
  <2>3. CASE q = p /\ p \in Supervisors
    BY <1>3, <2>1, <2>3 DEF Reloader, JobInv
  <2>4. CASE q = p /\ p \in Admins
    BY <1>1, <2>1, <2>4 DEF Drops
  <2>5. QED
    BY <2>2, <2>3, <2>4 DEF Procs
<1>6. QED
  BY <1>2, <1>4, <1>5 DEF Reloader

LEMMA NextUsers ==
  TypeOK /\ FileInv /\ CarryInv /\ [Next]_vars => UsersInv'
<1> SUFFICES ASSUME TypeOK, FileInv, CarryInv, [Next]_vars PROVE UsersInv'
  OBVIOUS
<1> USE DEF TypeOK, FileInv, CarryInv, UsersInv, Behind, files, Loaded, Blocking, After, Procs
<1>1. ASSUME NEW s \in Supervisors, NEW u \in Users, PassWrite(s, u)
      PROVE  UsersInv'
  BY <1>1, NoWriter DEF PassWrite, Writable
<1>2. ASSUME NEW s \in Supervisors, EndPass(s)
      PROVE  UsersInv'
  BY <1>2 DEF EndPass
<1>3. ASSUME NEW s \in Supervisors, PassFails(s)
      PROVE  UsersInv'
  BY <1>3 DEF PassFails
<1>4. ASSUME NEW s \in Supervisors, Retry(s)
      PROVE  UsersInv'
  BY <1>4 DEF Retry
<1>5. ASSUME NEW a \in Admins, NodeCommand(a)
      PROVE  UsersInv'
  BY <1>5 DEF NodeCommand
<1>6. ASSUME NEW a \in Admins, ReloadCommand(a)
      PROVE  UsersInv'
  BY <1>6 DEF ReloadCommand
<1>7. ASSUME NEW a \in Admins, NEW u \in Users, UserCommand(a, u)
      PROVE  UsersInv'
  BY <1>7, NoWriter DEF UserCommand, Writable
<1>8. ASSUME NEW p \in Procs, Acquire(p)
      PROVE  UsersInv'
  BY <1>8 DEF Acquire
<1>9. ASSUME NEW p \in Procs, Load(p)
      PROVE  UsersInv'
  <2>1. config \in Configs /\ job[p] \in Jobs /\ seen[p] \in SUBSET Users /\ seen[p] = allowed
    BY <1>9 DEF Load, SeenInv
  <2>2. work'[p] = Result(job[p], config, allowed) /\ Applicable(job[p], config.nodes)
    BY <1>9, <2>1 DEF Load
  <2>3. UNCHANGED <<allowed, config>>
    BY <1>9 DEF Load
  <2>4. job[p].op = "sync" => ~Behind(work'[p].nodes)
    BY <2>1, <2>2, ResultSync DEF Behind
  <2>5. Behind(work'[p].nodes) => Behind(config.nodes)
    BY <2>1, <2>2, <2>4, ResultOther
  <2>6. /\ job'[p].op = "sync" => job[p].op = "sync"
        /\ job'[p].op = "none" => work'[p].nodes = config.nodes
    <3>1. CASE job[p].op = "del" /\ job[p].tag \notin DOMAIN config.nodes
      <4>1. job'[p].op = "none"
        BY <1>9, <2>1, <3>1, NoneJob DEF Load
      <4>2. work'[p].nodes = Without(config.nodes, job[p].tag)
        BY <2>2, <3>1 DEF Result, NodesAfter, RemoveNode
      <4>3. work'[p].nodes = config.nodes
        BY <2>1, <3>1, <4>2, DeleteMissing DEF Configs
      <4>4. QED
        BY <4>1, <4>3
    <3>2. CASE ~(job[p].op = "del" /\ job[p].tag \notin DOMAIN config.nodes)
      BY <1>9, <2>2, <3>2 DEF Load, Result, NodesAfter
    <3>3. QED
      BY <3>1, <3>2
  <2>7. ASSUME NEW q \in Procs, q # p
        PROVE  pc'[q] = pc[q] /\ job'[q] = job[q] /\ work'[q] = work[q]
    BY <1>9, <2>7 DEF Load
  <2>8. QED
    BY <2>3, <2>4, <2>5, <2>6, <2>7 DEF UsersInv, Behind
<1>10. ASSUME NEW p \in Procs, LoadFails(p)
       PROVE  UsersInv'
  BY <1>10 DEF LoadFails, GiveUp
<1>11. ASSUME NEW p \in Procs, WriteTmp(p)
       PROVE  UsersInv'
  BY <1>11 DEF WriteTmp
<1>12. ASSUME NEW p \in Procs, Check(p)
       PROVE  UsersInv'
  BY <1>12 DEF Check
<1>13. ASSUME NEW p \in Procs, CheckFails(p)
       PROVE  UsersInv'
  BY <1>13 DEF CheckFails, GiveUp
<1>14. ASSUME NEW p \in Procs, Rename(p)
       PROVE  UsersInv'
  BY <1>14, OneWriter DEF Rename
<1>15. ASSUME NEW p \in Procs, Commit(p)
       PROVE  UsersInv'
  BY <1>15 DEF Commit
<1>16. ASSUME NEW p \in Procs, FindRunning(p)
       PROVE  UsersInv'
  BY <1>16 DEF FindRunning, Done
<1>17. ASSUME NEW p \in Procs, Reload(p)
       PROVE  UsersInv'
  BY <1>17 DEF Reload, Done
<1>18. ASSUME NEW p \in Procs, Fails(p)
       PROVE  UsersInv'
  BY <1>18 DEF Fails, GiveUp
<1>19. ASSUME NEW p \in Procs, Kill(p)
       PROVE  UsersInv'
  BY <1>19 DEF Kill
<1>20. CASE StopKernel
  BY <1>20 DEF StopKernel
<1>21. CASE StartKernel
  BY <1>21 DEF StartKernel
<1>22. CASE UNCHANGED vars
  BY <1>22 DEF vars
<1>23. QED
  BY <1>1, <1>2, <1>3, <1>4, <1>5, <1>6, <1>7, <1>8, <1>9, <1>10, <1>11, <1>12,
     <1>13, <1>14, <1>15, <1>16, <1>17, <1>18, <1>19, <1>20, <1>21, <1>22
  DEF Next, Step

LEMMA NextJobs ==
  TypeOK /\ FileInv /\ CarryInv /\ [Next]_vars => JobInv'
<1> SUFFICES ASSUME TypeOK, FileInv, CarryInv, [Next]_vars PROVE JobInv'
  OBVIOUS
<1> USE DEF TypeOK, CarryInv, JobInv, files, Blocking, After, Procs
<1>1. ASSUME NEW s \in Supervisors, NEW u \in Users, PassWrite(s, u)
      PROVE  JobInv'
  BY <1>1, ProcsAssumption, SyncJobType DEF PassWrite
<1>2. ASSUME NEW s \in Supervisors, EndPass(s)
      PROVE  JobInv'
  BY <1>2, ProcsAssumption, SyncJobType DEF EndPass
<1>3. ASSUME NEW s \in Supervisors, PassFails(s)
      PROVE  JobInv'
  BY <1>3 DEF PassFails
<1>4. ASSUME NEW s \in Supervisors, Retry(s)
      PROVE  JobInv'
  BY <1>4, ProcsAssumption, SyncJobType DEF Retry
<1>5. ASSUME NEW a \in Admins, NodeCommand(a)
      PROVE  JobInv'
  BY <1>5, ProcsAssumption, SyncJobType DEF NodeCommand
<1>6. ASSUME NEW a \in Admins, ReloadCommand(a)
      PROVE  JobInv'
  BY <1>6, ProcsAssumption, SyncJobType DEF ReloadCommand
<1>7. ASSUME NEW a \in Admins, NEW u \in Users, UserCommand(a, u)
      PROVE  JobInv'
  BY <1>7, ProcsAssumption, SyncJobType DEF UserCommand
<1>8. ASSUME NEW p \in Procs, Acquire(p)
      PROVE  JobInv'
  BY <1>8 DEF Acquire
<1>9. ASSUME NEW p \in Procs, Load(p)
      PROVE  JobInv'
  BY <1>9 DEF Load
<1>10. ASSUME NEW p \in Procs, LoadFails(p)
       PROVE  JobInv'
  BY <1>10 DEF LoadFails, GiveUp
<1>11. ASSUME NEW p \in Procs, WriteTmp(p)
       PROVE  JobInv'
  BY <1>11 DEF WriteTmp
<1>12. ASSUME NEW p \in Procs, Check(p)
       PROVE  JobInv'
  BY <1>12 DEF Check
<1>13. ASSUME NEW p \in Procs, CheckFails(p)
       PROVE  JobInv'
  BY <1>13 DEF CheckFails, GiveUp
<1>14. ASSUME NEW p \in Procs, Rename(p)
       PROVE  JobInv'
  BY <1>14 DEF Rename
<1>15. ASSUME NEW p \in Procs, Commit(p)
       PROVE  JobInv'
  BY <1>15 DEF Commit
<1>16. ASSUME NEW p \in Procs, FindRunning(p)
       PROVE  JobInv'
  BY <1>16 DEF FindRunning, Done
<1>17. ASSUME NEW p \in Procs, Reload(p)
       PROVE  JobInv'
  BY <1>17 DEF Reload, Done
<1>18. ASSUME NEW p \in Procs, Fails(p)
       PROVE  JobInv'
  BY <1>18 DEF Fails, GiveUp
<1>19. ASSUME NEW p \in Procs, Kill(p)
       PROVE  JobInv'
  BY <1>19 DEF Kill
<1>20. CASE StopKernel
  BY <1>20 DEF StopKernel
<1>21. CASE StartKernel
  BY <1>21 DEF StartKernel
<1>22. CASE UNCHANGED vars
  BY <1>22 DEF vars
<1>23. QED
  BY <1>1, <1>2, <1>3, <1>4, <1>5, <1>6, <1>7, <1>8, <1>9, <1>10, <1>11, <1>12,
     <1>13, <1>14, <1>15, <1>16, <1>17, <1>18, <1>19, <1>20, <1>21, <1>22
  DEF Next, Step

LEMMA NextCarried ==
  TypeOK /\ FileInv /\ CarryInv /\ [Next]_vars => CarriedInv'
<1> SUFFICES ASSUME TypeOK, FileInv, CarryInv, [Next]_vars PROVE CarriedInv'
  OBVIOUS
<1> USE DEF TypeOK, FileInv, CarryInv, JobInv, CarriedInv, Carrier, Behind, files, Blocking, After, Procs
<1>1. ASSUME NEW s \in Supervisors, NEW u \in Users, PassWrite(s, u)
      PROVE  CarriedInv'
  BY <1>1 DEF PassWrite
<1>2. ASSUME NEW s \in Supervisors, EndPass(s)
      PROVE  CarriedInv'
  BY <1>2 DEF EndPass
<1>3. ASSUME NEW s \in Supervisors, PassFails(s)
      PROVE  CarriedInv'
  BY <1>3 DEF PassFails
<1>4. ASSUME NEW s \in Supervisors, Retry(s)
      PROVE  CarriedInv'
  BY <1>4 DEF Retry
<1>5. ASSUME NEW a \in Admins, NodeCommand(a)
      PROVE  CarriedInv'
  BY <1>5 DEF NodeCommand
<1>6. ASSUME NEW a \in Admins, ReloadCommand(a)
      PROVE  CarriedInv'
  BY <1>6, NoneJob, ProcsAssumption DEF ReloadCommand
<1>7. ASSUME NEW a \in Admins, NEW u \in Users, UserCommand(a, u)
      PROVE  CarriedInv'
  BY <1>7, SyncJobType DEF UserCommand
<1>8. ASSUME NEW p \in Procs, Acquire(p)
      PROVE  CarriedInv'
  BY <1>8 DEF Acquire
<1>9. ASSUME NEW p \in Procs, Load(p)
      PROVE  CarriedInv'
  BY <1>9 DEF Load
<1>10. ASSUME NEW p \in Procs, LoadFails(p)
       PROVE  CarriedInv'
  BY <1>10, GiveUpCarried DEF LoadFails
<1>11. ASSUME NEW p \in Procs, WriteTmp(p)
       PROVE  CarriedInv'
  BY <1>11 DEF WriteTmp
<1>12. ASSUME NEW p \in Procs, Check(p)
       PROVE  CarriedInv'
  BY <1>12 DEF Check
<1>13. ASSUME NEW p \in Procs, CheckFails(p)
       PROVE  CarriedInv'
  BY <1>13, GiveUpCarried DEF CheckFails
<1>14. ASSUME NEW p \in Procs, Rename(p)
       PROVE  CarriedInv'
  <2>1. config' = tmp /\ UNCHANGED <<allowed, dirty, job, forgotten>>
    BY <1>14 DEF Rename
  <2>2. work[p] = tmp /\ pc[p] \in Loaded /\ lock = p
    BY <1>14 DEF Rename, FileInv, TmpInv, LockInv, Loaded, Blocking
  <2>3. pc' = [pc EXCEPT ![p] = "renamed"]
    BY <1>14, <2>2 DEF Rename
  <2>4. CASE job[p].op = "sync"
    BY <2>1, <2>2, <2>4 DEF UsersInv
  <2>5. CASE job[p].op # "sync"
    <3>1. p \notin Supervisors
      BY <1>14, <2>5 DEF Rename
    <3>2. Behind(config.nodes)' => Behind(config.nodes)
      BY <2>1, <2>2 DEF UsersInv
    <3>3. Carrier => Carrier'
      BY <2>1, <2>3, <2>5, <3>1
    <3>4. QED
      BY <2>1, <3>2, <3>3
  <2>6. QED
    BY <2>4, <2>5
<1>15. ASSUME NEW p \in Procs, Commit(p)
       PROVE  CarriedInv'
  BY <1>15 DEF Commit
<1>16. ASSUME NEW p \in Procs, FindRunning(p)
       PROVE  CarriedInv'
  BY <1>16 DEF FindRunning, Done
<1>17. ASSUME NEW p \in Procs, Reload(p)
       PROVE  CarriedInv'
  BY <1>17 DEF Reload, Done
<1>18. ASSUME NEW p \in Procs, Fails(p)
       PROVE  CarriedInv'
  BY <1>18, GiveUpCarried DEF Fails
<1>19. ASSUME NEW p \in Procs, Kill(p)
       PROVE  CarriedInv'
  BY <1>19 DEF Kill
<1>20. CASE StopKernel
  BY <1>20 DEF StopKernel
<1>21. CASE StartKernel
  BY <1>21 DEF StartKernel
<1>22. CASE UNCHANGED vars
  BY <1>22 DEF vars
<1>23. QED
  BY <1>1, <1>2, <1>3, <1>4, <1>5, <1>6, <1>7, <1>8, <1>9, <1>10, <1>11, <1>12,
     <1>13, <1>14, <1>15, <1>16, <1>17, <1>18, <1>19, <1>20, <1>21, <1>22
  DEF Next, Step

LEMMA NextRun ==
  TypeOK /\ FileInv /\ CarryInv /\ [Next]_vars => RunInv'
<1> SUFFICES ASSUME TypeOK, FileInv, CarryInv, [Next]_vars PROVE RunInv'
  OBVIOUS
<1> USE DEF TypeOK, CarryInv, JobInv, RunInv, Reloader, files, Blocking, After, Procs
<1>1. ASSUME NEW s \in Supervisors, NEW u \in Users, PassWrite(s, u)
      PROVE  RunInv'
  BY <1>1 DEF PassWrite
<1>2. ASSUME NEW s \in Supervisors, EndPass(s)
      PROVE  RunInv'
  BY <1>2 DEF EndPass
<1>3. ASSUME NEW s \in Supervisors, PassFails(s)
      PROVE  RunInv'
  BY <1>3 DEF PassFails
<1>4. ASSUME NEW s \in Supervisors, Retry(s)
      PROVE  RunInv'
  BY <1>4 DEF Retry
<1>5. ASSUME NEW a \in Admins, NodeCommand(a)
      PROVE  RunInv'
  BY <1>5 DEF NodeCommand
<1>6. ASSUME NEW a \in Admins, ReloadCommand(a)
      PROVE  RunInv'
  BY <1>6 DEF ReloadCommand
<1>7. ASSUME NEW a \in Admins, NEW u \in Users, UserCommand(a, u)
      PROVE  RunInv'
  BY <1>7 DEF UserCommand
<1>8. ASSUME NEW p \in Procs, Acquire(p)
      PROVE  RunInv'
  BY <1>8 DEF Acquire
<1>9. ASSUME NEW p \in Procs, Load(p)
      PROVE  RunInv'
  BY <1>9 DEF Load
<1>10. ASSUME NEW p \in Procs, LoadFails(p)
       PROVE  RunInv'
  BY <1>10, GiveUpRun DEF LoadFails
<1>11. ASSUME NEW p \in Procs, WriteTmp(p)
       PROVE  RunInv'
  BY <1>11 DEF WriteTmp
<1>12. ASSUME NEW p \in Procs, Check(p)
       PROVE  RunInv'
  BY <1>12 DEF Check
<1>13. ASSUME NEW p \in Procs, CheckFails(p)
       PROVE  RunInv'
  BY <1>13, GiveUpRun DEF CheckFails
<1>14. ASSUME NEW p \in Procs, Rename(p)
       PROVE  RunInv'
  <2>1. config' = tmp /\ UNCHANGED <<up, running, dirty, job, forgotten>>
    BY <1>14 DEF Rename
  <2>2. work[p] = tmp /\ pc[p] \in Loaded /\ lock = p
    BY <1>14 DEF Rename, FileInv, TmpInv, LockInv, Loaded, Blocking
  <2>3. pc' = [pc EXCEPT ![p] = "renamed"]
    BY <1>14, <2>2 DEF Rename
  <2>4. CASE job[p].op = "none"
    <3>1. config'.nodes = config.nodes
      BY <2>1, <2>2, <2>4 DEF UsersInv
    <3>2. Reloader => Reloader'
      BY <1>14, <2>1, <2>3, <2>4 DEF Rename
    <3>3. QED
      BY <2>1, <3>1, <3>2
  <2>5. CASE job[p].op # "none"
    BY <2>1, <2>3, <2>5
  <2>6. QED
    BY <2>4, <2>5
<1>15. ASSUME NEW p \in Procs, Commit(p)
       PROVE  RunInv'
  BY <1>15 DEF Commit
<1>16. ASSUME NEW p \in Procs, FindRunning(p)
       PROVE  RunInv'
  BY <1>16 DEF FindRunning, Done
<1>17. ASSUME NEW p \in Procs, Reload(p)
       PROVE  RunInv'
  BY <1>17 DEF Reload, Done
<1>18. ASSUME NEW p \in Procs, Fails(p)
       PROVE  RunInv'
  BY <1>18, GiveUpRun DEF Fails
<1>19. ASSUME NEW p \in Procs, Kill(p)
       PROVE  RunInv'
  BY <1>19 DEF Kill
<1>20. CASE StopKernel
  BY <1>20 DEF StopKernel
<1>21. CASE StartKernel
  BY <1>21 DEF StartKernel
<1>22. CASE UNCHANGED vars
  BY <1>22 DEF vars
<1>23. QED
  BY <1>1, <1>2, <1>3, <1>4, <1>5, <1>6, <1>7, <1>8, <1>9, <1>10, <1>11, <1>12,
     <1>13, <1>14, <1>15, <1>16, <1>17, <1>18, <1>19, <1>20, <1>21, <1>22
  DEF Next, Step

LEMMA InitCarry == Init => CarryInv
<1> SUFFICES ASSUME Init PROVE CarryInv
  OBVIOUS
<1>1. \A p \in Procs : pc[p] = "idle"
  BY DEF Init
<1>2. UsersInv /\ JobInv
  BY <1>1 DEF UsersInv, JobInv, Loaded, Blocking, After, Procs
<1>3. CarriedInv /\ RunInv
  BY DEF Init, CarriedInv, RunInv, Behind
<1>4. QED
  BY <1>2, <1>3 DEF CarryInv

LEMMA CarryInvariant == Spec => [](TypeOK /\ FileInv /\ CarryInv)
<1>1. Init => TypeOK /\ FileInv /\ CarryInv
  BY InitType, InitFile, InitCarry
<1>2. TypeOK /\ FileInv /\ CarryInv /\ [Next]_vars => (TypeOK /\ FileInv /\ CarryInv)'
  <2> SUFFICES ASSUME TypeOK, FileInv, CarryInv, [Next]_vars
               PROVE  (TypeOK /\ FileInv /\ CarryInv)'
    OBVIOUS
  <2>1. TypeOK' /\ FileInv'
    BY NextType, NextLock, NextSeen, NextPorts, NextTmp, NextMain DEF FileInv
  <2>2. CarryInv'
    BY NextUsers, NextJobs, NextCarried, NextRun DEF CarryInv
  <2>3. QED
    BY <2>1, <2>2
<1>3. QED
  BY <1>1, <1>2, PTL DEF Spec

\* While config.json lists a disabled user, a supervisor still has its flag up
\* or a sync that read the users of now is under way, unless a change was
\* dropped: no order of passes, commands, failed syncs and retries loses one.
THEOREM ChangesCarried == Spec => []ConfigCarried
<1>1. CarryInv => ConfigCarried
  BY DEF CarryInv, CarriedInv, Carrier, ConfigCarried
<1>2. QED
  BY <1>1, CarryInvariant, PTL

\* While sing-box serves something else than config.json, a reload is under
\* way or a flag is up, unless a change was dropped: the reloads of two
\* processes may come in any order.
THEOREM ReloadsCarried == Spec => []RunningCarried
<1>1. CarryInv => RunningCarried
  BY DEF CarryInv, RunInv, Reloader, RunningCarried
<1>2. QED
  BY <1>1, CarryInvariant, PTL

============================================================================
