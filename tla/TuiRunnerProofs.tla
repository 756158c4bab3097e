--------------------------- MODULE TuiRunnerProofs ---------------------------
(***************************************************************************)
(* What the loop of the terminal interface keeps, for any number of users, *)
(* nodes and tasks, any capacity of the channels and any number of keys.   *)
(***************************************************************************)
EXTENDS TuiRunner, FiniteSetTheorems, TLAPS

-----------------------------------------------------------------------------
(* The scripts of the tasks.                                                 *)

UserWrites == {"addUser", "deleteUser", "editUser", "saveNodes", "toggle", "reset",
               "regenToken", "revokeToken"}
NodeWrites == {"addNode", "editNode", "deleteNode"}
Others == {"export", "check", "refresh", "restore", "listBackups", "kernelRefresh", "kernelOp",
           "kernelFlush", "outbound", "nginxOp", "genconf", "release"}

LEMMA OperationsAre == Operations = UserWrites \cup NodeWrites \cup Others
  BY DEF Operations, UserScripts, FormScripts, SwitchScripts, NodeScripts, LookScripts,
         BackupScripts, KernelScripts, NginxScripts, UserWrites, NodeWrites, Others

\* Every script, by what it is a script of.
LEMMA ScriptsAre ==
  /\ \A op \in {"addUser", "deleteUser"} : ScriptOf[op] = <<"write", "apply", "list">>
  /\ \A op \in {"editUser", "saveNodes"} : ScriptOf[op] = <<"write", "mustApply", "list">>
  /\ \A op \in {"editNode", "addNode"} : ScriptOf[op] = <<"config", "apply", "load">>
  /\ \A op \in {"toggle"} : ScriptOf[op] = <<"write", "apply", "tellEnabled">>
  /\ \A op \in {"reset"} : ScriptOf[op] = <<"write", "mustApply", "tellReset">>
  /\ \A op \in {"regenToken", "revokeToken"} : ScriptOf[op] = <<"write", "list">>
  /\ \A op \in {"deleteNode"} : ScriptOf[op] = <<"config", "apply", "load", "mustApply", "list">>
  /\ \A op \in {"export", "check", "genconf", "release"} : ScriptOf[op] = <<"apply">>
  /\ \A op \in {"refresh"} : ScriptOf[op] = <<"list", "load">>
  /\ \A op \in {"restore"} : ScriptOf[op] = <<"replace">>
  /\ \A op \in {"listBackups"} : ScriptOf[op] = <<"picker">>
  /\ \A op \in {"kernelRefresh"} : ScriptOf[op] = <<"read">>
  /\ \A op \in {"kernelOp"} : ScriptOf[op] = <<"kernelTaken", "apply", "kernelFree">>
  /\ \A op \in {"kernelFlush"} : ScriptOf[op] = <<"kernelTaken", "flush", "apply", "kernelFree">>
  /\ \A op \in {"outbound"} : ScriptOf[op] = <<"kernelTaken", "setStrategy", "kernelFree", "correct">>
  /\ \A op \in {"nginxOp"} : ScriptOf[op] = <<"nginxTaken", "apply", "nginxFree">>
<1> USE DEF ScriptOf, Operations, UserScripts, FormScripts, SwitchScripts, NodeScripts,
            LookScripts, BackupScripts, KernelScripts, NginxScripts
<1>1. \A op \in {"addUser", "deleteUser"} : ScriptOf[op] = <<"write", "apply", "list">>
  OBVIOUS
<1>2. \A op \in {"editUser", "saveNodes"} : ScriptOf[op] = <<"write", "mustApply", "list">>
  OBVIOUS
<1>3. \A op \in {"editNode", "addNode"} : ScriptOf[op] = <<"config", "apply", "load">>
  OBVIOUS
<1>4. \A op \in {"toggle"} : ScriptOf[op] = <<"write", "apply", "tellEnabled">>
  OBVIOUS
<1>5. \A op \in {"reset"} : ScriptOf[op] = <<"write", "mustApply", "tellReset">>
  OBVIOUS
<1>6. \A op \in {"regenToken", "revokeToken"} : ScriptOf[op] = <<"write", "list">>
  OBVIOUS
<1>7. \A op \in {"deleteNode"} : ScriptOf[op] = <<"config", "apply", "load", "mustApply", "list">>
  OBVIOUS
<1>8. \A op \in {"export", "check", "genconf", "release"} : ScriptOf[op] = <<"apply">>
  OBVIOUS
<1>9. \A op \in {"refresh"} : ScriptOf[op] = <<"list", "load">>
  OBVIOUS
<1>10. \A op \in {"restore"} : ScriptOf[op] = <<"replace">>
  OBVIOUS
<1>11. \A op \in {"listBackups"} : ScriptOf[op] = <<"picker">>
  OBVIOUS
<1>12. \A op \in {"kernelRefresh"} : ScriptOf[op] = <<"read">>
  OBVIOUS
<1>13. \A op \in {"kernelOp"} : ScriptOf[op] = <<"kernelTaken", "apply", "kernelFree">>
  OBVIOUS
<1>14. \A op \in {"kernelFlush"} : ScriptOf[op] = <<"kernelTaken", "flush", "apply", "kernelFree">>
  OBVIOUS
<1>15. \A op \in {"outbound"} : ScriptOf[op] = <<"kernelTaken", "setStrategy", "kernelFree", "correct">>
  OBVIOUS
<1>16. \A op \in {"nginxOp"} : ScriptOf[op] = <<"nginxTaken", "apply", "nginxFree">>
  OBVIOUS
<1>17. QED
  BY <1>1, <1>2, <1>3, <1>4, <1>5, <1>6, <1>7, <1>8, <1>9, <1>10,
     <1>11, <1>12, <1>13, <1>14, <1>15, <1>16

MarkEvents == {"kernelBusy", "nginxBusy"}
Taken(ev) == IF ev = "kernelBusy" THEN "kernelTaken" ELSE "nginxTaken"
Free(ev) == IF ev = "kernelBusy" THEN "kernelFree" ELSE "nginxFree"
FailSteps == {"write", "mustApply", "config", "picker"}

\* What the steps of a script say of its operation.  A mark that is set is
\* taken down later, and no step in between may end the task.
ScriptOk(op, script) ==
  /\ Len(script) \in Nat \ {0} /\ DOMAIN script = 1..Len(script)
  /\ \A i \in 1..Len(script) :
       /\ script[i] \in {"write", "tellEnabled", "tellReset"} => op \in UserWrites
       /\ script[i] = "config" => op \in NodeWrites
       /\ script[i] = "setStrategy" => op = "outbound"
  /\ \A ev \in MarkEvents : \A i \in 1..Len(script) :
       /\ script[i] = Taken(ev) => \E k \in 1..Len(script) : i < k /\ script[k] = Free(ev)
       /\ script[i] \in FailSteps => \A k \in 1..Len(script) : script[k] # Free(ev)

LEMMA ScriptFacts ==
  ASSUME NEW op \in Operations
  PROVE  ScriptOk(op, ScriptOf[op])
<1>1. CASE op \in {"addUser", "deleteUser"}
  <2>1. ScriptOf[op] = <<"write", "apply", "list">>
    BY <1>1, ScriptsAre
  <2>2. /\ Len(ScriptOf[op]) = 3 /\ DOMAIN ScriptOf[op] = 1..3
        /\ ScriptOf[op][1] = "write" /\ ScriptOf[op][2] = "apply"
        /\ ScriptOf[op][3] = "list"
    BY <2>1
  <2>3. QED
    BY <1>1, <2>2 DEF ScriptOk, UserWrites, NodeWrites, MarkEvents, Taken, Free, FailSteps
<1>2. CASE op \in {"editUser", "saveNodes"}
  <2>1. ScriptOf[op] = <<"write", "mustApply", "list">>
    BY <1>2, ScriptsAre
  <2>2. /\ Len(ScriptOf[op]) = 3 /\ DOMAIN ScriptOf[op] = 1..3
        /\ ScriptOf[op][1] = "write" /\ ScriptOf[op][2] = "mustApply"
        /\ ScriptOf[op][3] = "list"
    BY <2>1
  <2>3. QED
    BY <1>2, <2>2 DEF ScriptOk, UserWrites, NodeWrites, MarkEvents, Taken, Free, FailSteps
<1>3. CASE op \in {"editNode", "addNode"}
  <2>1. ScriptOf[op] = <<"config", "apply", "load">>
    BY <1>3, ScriptsAre
  <2>2. /\ Len(ScriptOf[op]) = 3 /\ DOMAIN ScriptOf[op] = 1..3
        /\ ScriptOf[op][1] = "config" /\ ScriptOf[op][2] = "apply"
        /\ ScriptOf[op][3] = "load"
    BY <2>1
  <2>3. QED
    BY <1>3, <2>2 DEF ScriptOk, UserWrites, NodeWrites, MarkEvents, Taken, Free, FailSteps
<1>4. CASE op \in {"toggle"}
  <2>1. ScriptOf[op] = <<"write", "apply", "tellEnabled">>
    BY <1>4, ScriptsAre
  <2>2. /\ Len(ScriptOf[op]) = 3 /\ DOMAIN ScriptOf[op] = 1..3
        /\ ScriptOf[op][1] = "write" /\ ScriptOf[op][2] = "apply"
        /\ ScriptOf[op][3] = "tellEnabled"
    BY <2>1
  <2>3. QED
    BY <1>4, <2>2 DEF ScriptOk, UserWrites, NodeWrites, MarkEvents, Taken, Free, FailSteps
<1>5. CASE op \in {"reset"}
  <2>1. ScriptOf[op] = <<"write", "mustApply", "tellReset">>
    BY <1>5, ScriptsAre
  <2>2. /\ Len(ScriptOf[op]) = 3 /\ DOMAIN ScriptOf[op] = 1..3
        /\ ScriptOf[op][1] = "write" /\ ScriptOf[op][2] = "mustApply"
        /\ ScriptOf[op][3] = "tellReset"
    BY <2>1
  <2>3. QED
    BY <1>5, <2>2 DEF ScriptOk, UserWrites, NodeWrites, MarkEvents, Taken, Free, FailSteps
<1>6. CASE op \in {"regenToken", "revokeToken"}
  <2>1. ScriptOf[op] = <<"write", "list">>
    BY <1>6, ScriptsAre
  <2>2. /\ Len(ScriptOf[op]) = 2 /\ DOMAIN ScriptOf[op] = 1..2
        /\ ScriptOf[op][1] = "write" /\ ScriptOf[op][2] = "list"
    BY <2>1
  <2>3. QED
    BY <1>6, <2>2 DEF ScriptOk, UserWrites, NodeWrites, MarkEvents, Taken, Free, FailSteps
<1>7. CASE op \in {"deleteNode"}
  <2>1. ScriptOf[op] = <<"config", "apply", "load", "mustApply", "list">>
    BY <1>7, ScriptsAre
  <2>2. /\ Len(ScriptOf[op]) = 5 /\ DOMAIN ScriptOf[op] = 1..5
        /\ ScriptOf[op][1] = "config" /\ ScriptOf[op][2] = "apply"
        /\ ScriptOf[op][3] = "load" /\ ScriptOf[op][4] = "mustApply"
        /\ ScriptOf[op][5] = "list"
    BY <2>1
  <2>3. QED
    BY <1>7, <2>2 DEF ScriptOk, UserWrites, NodeWrites, MarkEvents, Taken, Free, FailSteps
<1>8. CASE op \in {"export", "check", "genconf", "release"}
  <2>1. ScriptOf[op] = <<"apply">>
    BY <1>8, ScriptsAre
  <2>2. /\ Len(ScriptOf[op]) = 1 /\ DOMAIN ScriptOf[op] = 1..1
        /\ ScriptOf[op][1] = "apply"
    BY <2>1
  <2>3. QED
    BY <1>8, <2>2 DEF ScriptOk, UserWrites, NodeWrites, MarkEvents, Taken, Free, FailSteps
<1>9. CASE op \in {"refresh"}
  <2>1. ScriptOf[op] = <<"list", "load">>
    BY <1>9, ScriptsAre
  <2>2. /\ Len(ScriptOf[op]) = 2 /\ DOMAIN ScriptOf[op] = 1..2
        /\ ScriptOf[op][1] = "list" /\ ScriptOf[op][2] = "load"
    BY <2>1
  <2>3. QED
    BY <1>9, <2>2 DEF ScriptOk, UserWrites, NodeWrites, MarkEvents, Taken, Free, FailSteps
<1>10. CASE op \in {"restore"}
  <2>1. ScriptOf[op] = <<"replace">>
    BY <1>10, ScriptsAre
  <2>2. /\ Len(ScriptOf[op]) = 1 /\ DOMAIN ScriptOf[op] = 1..1
        /\ ScriptOf[op][1] = "replace"
    BY <2>1
  <2>3. QED
    BY <1>10, <2>2 DEF ScriptOk, UserWrites, NodeWrites, MarkEvents, Taken, Free, FailSteps
<1>11. CASE op \in {"listBackups"}
  <2>1. ScriptOf[op] = <<"picker">>
    BY <1>11, ScriptsAre
  <2>2. /\ Len(ScriptOf[op]) = 1 /\ DOMAIN ScriptOf[op] = 1..1
        /\ ScriptOf[op][1] = "picker"
    BY <2>1
  <2>3. QED
    BY <1>11, <2>2 DEF ScriptOk, UserWrites, NodeWrites, MarkEvents, Taken, Free, FailSteps
<1>12. CASE op \in {"kernelRefresh"}
  <2>1. ScriptOf[op] = <<"read">>
    BY <1>12, ScriptsAre
  <2>2. /\ Len(ScriptOf[op]) = 1 /\ DOMAIN ScriptOf[op] = 1..1
        /\ ScriptOf[op][1] = "read"
    BY <2>1
  <2>3. QED
    BY <1>12, <2>2 DEF ScriptOk, UserWrites, NodeWrites, MarkEvents, Taken, Free, FailSteps
<1>13. CASE op \in {"kernelOp"}
  <2>1. ScriptOf[op] = <<"kernelTaken", "apply", "kernelFree">>
    BY <1>13, ScriptsAre
  <2>2. /\ Len(ScriptOf[op]) = 3 /\ DOMAIN ScriptOf[op] = 1..3
        /\ ScriptOf[op][1] = "kernelTaken" /\ ScriptOf[op][2] = "apply"
        /\ ScriptOf[op][3] = "kernelFree"
    BY <2>1
  <2>3. QED
    BY <1>13, <2>2 DEF ScriptOk, UserWrites, NodeWrites, MarkEvents, Taken, Free, FailSteps
<1>14. CASE op \in {"kernelFlush"}
  <2>1. ScriptOf[op] = <<"kernelTaken", "flush", "apply", "kernelFree">>
    BY <1>14, ScriptsAre
  <2>2. /\ Len(ScriptOf[op]) = 4 /\ DOMAIN ScriptOf[op] = 1..4
        /\ ScriptOf[op][1] = "kernelTaken" /\ ScriptOf[op][2] = "flush"
        /\ ScriptOf[op][3] = "apply" /\ ScriptOf[op][4] = "kernelFree"
    BY <2>1
  <2>3. QED
    BY <1>14, <2>2 DEF ScriptOk, UserWrites, NodeWrites, MarkEvents, Taken, Free, FailSteps
<1>15. CASE op \in {"outbound"}
  <2>1. ScriptOf[op] = <<"kernelTaken", "setStrategy", "kernelFree", "correct">>
    BY <1>15, ScriptsAre
  <2>2. /\ Len(ScriptOf[op]) = 4 /\ DOMAIN ScriptOf[op] = 1..4
        /\ ScriptOf[op][1] = "kernelTaken" /\ ScriptOf[op][2] = "setStrategy"
        /\ ScriptOf[op][3] = "kernelFree" /\ ScriptOf[op][4] = "correct"
    BY <2>1
  <2>3. QED
    BY <1>15, <2>2 DEF ScriptOk, UserWrites, NodeWrites, MarkEvents, Taken, Free, FailSteps
<1>16. CASE op \in {"nginxOp"}
  <2>1. ScriptOf[op] = <<"nginxTaken", "apply", "nginxFree">>
    BY <1>16, ScriptsAre
  <2>2. /\ Len(ScriptOf[op]) = 3 /\ DOMAIN ScriptOf[op] = 1..3
        /\ ScriptOf[op][1] = "nginxTaken" /\ ScriptOf[op][2] = "apply"
        /\ ScriptOf[op][3] = "nginxFree"
    BY <2>1
  <2>3. QED
    BY <1>16, <2>2 DEF ScriptOk, UserWrites, NodeWrites, MarkEvents, Taken, Free, FailSteps
<1>17. QED
  BY OperationsAre, <1>1, <1>2, <1>3, <1>4, <1>5, <1>6, <1>7, <1>8, <1>9,
     <1>10, <1>11, <1>12, <1>13, <1>14, <1>15, <1>16 DEF Others, UserWrites, NodeWrites

-----------------------------------------------------------------------------
(* Tables, events, tasks and dialogs.                                        *)

Table == UNION {[E -> Row] : E \in SUBSET Names}

LEMMA TableMeans == \A f : f \in Table <=> IsTable(f)
  BY DEF Table, IsTable

LEMMA TableFacts ==
  ASSUME NEW f \in Table
  PROVE  /\ DOMAIN f \subseteq Names /\ f \in [DOMAIN f -> Row]
         /\ \A n \in DOMAIN f : f[n] \in Row /\ n \in Names
  BY DEF Table

LEMMA PutTyped ==
  ASSUME NEW f \in Table, NEW n \in Names, NEW row \in Row
  PROVE  Put(f, n, row) \in Table
<1>1. DOMAIN f \subseteq Names /\ f \in [DOMAIN f -> Row]
  BY TableFacts
<1>2. Put(f, n, row) \in [DOMAIN f \cup {n} -> Row] /\ DOMAIN f \cup {n} \in SUBSET Names
  BY <1>1 DEF Put
<1>3. QED
  BY <1>2 DEF Table

LEMMA WithoutTyped ==
  ASSUME NEW f \in Table, NEW n
  PROVE  Without(f, n) \in Table
<1>1. DOMAIN f \subseteq Names /\ f \in [DOMAIN f -> Row]
  BY TableFacts
<1>2. Without(f, n) \in [DOMAIN f \ {n} -> Row] /\ DOMAIN f \ {n} \in SUBSET Names
  BY <1>1 DEF Without
<1>3. QED
  BY <1>2 DEF Table

LEMMA NamesFinite == IsFiniteSet(Names) /\ IsFiniteSet(Tags)
<1>1. ASSUME NEW order, NEW S, order \in Seq(S)
      PROVE  IsFiniteSet(ToSet(order))
  <2>1. order \in Surjection(1..Len(order), ToSet(order)) /\ Len(order) \in Nat
    <3>1. DOMAIN order = 1..Len(order) /\ Len(order) \in Nat /\ order \in [1..Len(order) -> S]
      BY <1>1
    <3>2. order \in [1..Len(order) -> ToSet(order)]
      BY <3>1 DEF ToSet
    <3>3. \A n \in ToSet(order) : \E i \in 1..Len(order) : order[i] = n
      BY <3>1 DEF ToSet
    <3>4. QED
      BY <3>1, <3>2, <3>3 DEF Surjection
  <2>2. IsFiniteSet(1..Len(order))
    BY <2>1, FS_Interval
  <2>3. QED
    BY <2>1, <2>2, FS_Surjection
<1>2. QED
  BY <1>1, TuiAssumption DEF Names, Tags

UsersEvent == [ev : {"users"}, to : Table]
Event == PlainEvents \cup UsersEvent
TrafficEvent == {[ev |-> "tick"], [ev |-> "control"]} \cup [ev : {"synced"}, on : Names]

LEMMA EventMeans == \A e \in Event : IsEvent(e)
<1> SUFFICES ASSUME NEW e \in Event PROVE IsEvent(e)
  OBVIOUS
<1>1. CASE e \in UsersEvent
  BY <1>1, TableMeans DEF UsersEvent, IsEvent
<1>2. CASE e \in PlainEvents
  <2>1. e.ev # "users"
    BY <1>2 DEF PlainEvents, None
  <2>2. QED
    BY <1>2, <2>1 DEF IsEvent
<1>3. QED
  BY <1>1, <1>2 DEF Event

\* What a task may say at a step.
Says(step) ==
  CASE step = "list" -> UsersEvent
    [] step = "load" -> [ev : {"nodes"}, to : SUBSET Tags]
    [] step = "tellEnabled" -> [ev : {"enabled"}, on : Names, to : BOOLEAN]
    [] step = "tellReset" -> [ev : {"zeroed"}, on : Names]
    [] step = "picker" -> {[ev |-> "picker"]}
    [] step \in {"read", "correct"} -> [ev : {"strategy"}, to : Strategies]
    [] step = "kernelTaken" -> {[ev |-> "kernelBusy", to |-> TRUE]}
    [] step = "kernelFree" -> {[ev |-> "kernelBusy", to |-> FALSE]}
    [] step = "nginxTaken" -> {[ev |-> "nginxBusy", to |-> TRUE]}
    [] step = "nginxFree" -> {[ev |-> "nginxBusy", to |-> FALSE]}
    [] OTHER -> {}

\* What an operation is applied to.
TargetsOf(op) ==
  CASE op \in UserWrites -> Names
    [] op \in NodeWrites -> Tags
    [] op = "outbound" -> Strategies
    [] OTHER -> Targets

Task ==
  {t \in [op : Operations, on : Targets, pc : Nat, out : Event, val : BOOLEAN] :
     /\ t.pc \in 1..Len(ScriptOf[t.op]) /\ t.on \in TargetsOf(t.op)
     /\ IF t.op = "release" THEN t.out = [ev |-> "opBusy"]
        ELSE t.out = None \/ t.out \in Says(ScriptOf[t.op][t.pc])}

UserDialogs == {"editUser", "confirmDeleteUser", "confirmReset", "nodePicker", "tokenManage",
                "tokenMissing", "subUrl"}
NodeDialogs == {"editNode", "confirmDeleteNode"}
Modal ==
  {d \in [kind : DOMAIN OpOf, on : Targets] :
     /\ d.kind \in UserDialogs => d.on \in Names
     /\ d.kind \in NodeDialogs => d.on \in Tags}

(* The type invariant, with sets for the shapes of events, tasks and dialogs.*)
Types ==
  /\ db \in Table /\ users \in Table
  /\ disk \in Configs /\ nodes \in SUBSET Tags /\ strategy \in Strategies
  /\ userSel \in Nat /\ nodeSel \in Nat /\ modal \in Modal
  /\ opBusy \in BOOLEAN /\ kernelBusy \in BOOLEAN /\ nginxBusy \in BOOLEAN
  /\ loop \in {"runs", "suspended", "quit"}
  /\ ui \in Seq(Event) /\ Len(ui) <= UiCap
  /\ tasks \in [Slots -> Task \cup {Idle}]
  /\ traffic \in Seq(TrafficEvent) /\ Len(traffic) <= TrafficCap
  /\ supervisor \in TrafficEvent \cup {None}
  /\ steps \in 0..MaxSteps

LEMMA TaskFacts ==
  ASSUME NEW t \in Task
  PROVE  /\ t = [op |-> t.op, on |-> t.on, pc |-> t.pc, out |-> t.out, val |-> t.val]
         /\ t.op \in Operations /\ t.on \in Targets /\ t.on \in TargetsOf(t.op)
         /\ t.pc \in Nat /\ t.pc \in 1..Len(ScriptOf[t.op])
         /\ t.out \in Event /\ t.val \in BOOLEAN /\ t # Idle
         /\ t.op = "release" => t.out = [ev |-> "opBusy"]
         /\ t.op # "release" => t.out = None \/ t.out \in Says(ScriptOf[t.op][t.pc])
<1>1. t.op \in Operations
  BY DEF Task
<1>2. t # Idle
  BY <1>1, OperationsAre DEF Idle, UserWrites, NodeWrites, Others
<1>3. QED
  BY <1>1, <1>2 DEF Task

LEMMA TypesMean == Types => TypeOK
<1> SUFFICES ASSUME Types PROVE TypeOK
  OBVIOUS
<1>1. IsTable(db) /\ IsTable(users)
  BY TableMeans DEF Types
<1>2. modal \in [kind : DOMAIN OpOf, on : Targets]
  BY DEF Types, Modal
<1>3. \A i \in DOMAIN ui : IsEvent(ui[i])
  <2>1. \A i \in DOMAIN ui : ui[i] \in Event
    BY DEF Types
  <2>2. QED
    BY <2>1, EventMeans
<1>4. DOMAIN tasks = Slots /\ \A s \in Live : IsTask(tasks[s])
  <2>1. ASSUME NEW s \in Live PROVE IsTask(tasks[s])
    <3>1. tasks[s] \in Task
      BY DEF Live, Types
    <3>2. /\ tasks[s] = [op |-> tasks[s].op, on |-> tasks[s].on, pc |-> tasks[s].pc,
                         out |-> tasks[s].out, val |-> tasks[s].val]
          /\ tasks[s].op \in Operations /\ tasks[s].on \in Targets
          /\ tasks[s].pc \in 1..Len(ScriptOf[tasks[s].op])
          /\ tasks[s].out \in Event /\ tasks[s].val \in BOOLEAN
      BY <3>1, TaskFacts
    <3>3. /\ DOMAIN ScriptOf = Operations
          /\ DOMAIN ScriptOf[tasks[s].op] = 1..Len(ScriptOf[tasks[s].op])
      BY <3>2, ScriptFacts DEF ScriptOf, ScriptOk
    <3>4. IsEvent(tasks[s].out)
      BY <3>2, EventMeans
    <3>5. QED
      BY <3>2, <3>3, <3>4 DEF IsTask
  <2>2. QED
    BY <2>1 DEF Types
<1>5. QED
  BY <1>1, <1>2, <1>3, <1>4 DEF Types, TypeOK

-----------------------------------------------------------------------------
(* Tasks begin, go on and end.                                               *)

LEMMA SaysFacts ==
  ASSUME NEW step, NEW e \in Says(step)
  PROVE  /\ e \in Event /\ e # None /\ e.ev # "opBusy"
         /\ \A ev \in MarkEvents : e.ev = ev =>
              \/ step = Taken(ev) /\ e = [ev |-> ev, to |-> TRUE]
              \/ step = Free(ev) /\ e = [ev |-> ev, to |-> FALSE]
<1> USE DEF Says, Event, PlainEvents, None, MarkEvents, Taken, Free
<1>1. CASE step = "list"
  BY <1>1 DEF UsersEvent
<1>2. CASE step = "load"
  BY <1>2
<1>3. CASE step = "tellEnabled"
  BY <1>3
<1>4. CASE step = "tellReset"
  BY <1>4
<1>5. CASE step = "picker"
  BY <1>5
<1>6. CASE step \in {"read", "correct"}
  BY <1>6
<1>7. CASE step = "kernelTaken"
  <2>1. e = [ev |-> "kernelBusy", to |-> TRUE]
    BY <1>7
  <2>2. e \in Event /\ e # None /\ e.ev = "kernelBusy"
    BY <2>1
  <2>3. QED
    BY <1>7, <2>1, <2>2
<1>8. CASE step = "kernelFree"
  <2>1. e = [ev |-> "kernelBusy", to |-> FALSE]
    BY <1>8
  <2>2. e \in Event /\ e # None /\ e.ev = "kernelBusy"
    BY <2>1
  <2>3. QED
    BY <1>8, <2>1, <2>2
<1>9. CASE step = "nginxTaken"
  <2>1. e = [ev |-> "nginxBusy", to |-> TRUE]
    BY <1>9
  <2>2. e \in Event /\ e # None /\ e.ev = "nginxBusy"
    BY <2>1
  <2>3. QED
    BY <1>9, <2>1, <2>2
<1>10. CASE step = "nginxFree"
  <2>1. e = [ev |-> "nginxBusy", to |-> FALSE]
    BY <1>10
  <2>2. e \in Event /\ e # None /\ e.ev = "nginxBusy"
    BY <2>1
  <2>3. QED
    BY <1>10, <2>1, <2>2
<1>11. QED
  BY <1>1, <1>2, <1>3, <1>4, <1>5, <1>6, <1>7, <1>8, <1>9, <1>10

\* A task with nothing left to send.
Bare ==
  {t \in [op : Operations, on : Targets, pc : Nat, out : {None}, val : BOOLEAN] :
     t.pc \in 1..Len(ScriptOf[t.op]) /\ t.on \in TargetsOf(t.op)}

LEMMA BareTask ==
  ASSUME NEW t \in Bare
  PROVE  /\ t.op \in Operations /\ t.out = None /\ t # Idle
         /\ t.op # "release" => t \in Task
<1>1. t.op \in Operations /\ t.out = None
  BY DEF Bare
<1>2. t # Idle
  BY <1>1, OperationsAre DEF Idle, UserWrites, NodeWrites, Others
<1>3. None \in Event
  BY DEF Event, PlainEvents
<1>4. t.op # "release" => t \in Task
  BY <1>1, <1>3 DEF Bare, Task
<1>5. QED
  BY <1>1, <1>2, <1>4

LEMMA StartTyped ==
  ASSUME NEW op \in Operations, NEW on \in Targets, on \in TargetsOf(op)
  PROVE  Start(op, on) \in Bare
  BY ScriptFacts DEF ScriptOk, Start, Bare

LEMMA ReleaseScript == Len(ScriptOf["release"]) = 1
<1>1. ScriptOf["release"] = <<"apply">>
  BY ScriptsAre
<1>2. QED
  BY <1>1

LEMMA EndedFacts ==
  ASSUME NEW t
  PROVE  /\ Ended(t) \in Task \cup {Idle}
         /\ t.op \in Guarded => Ended(t) \in Task /\ Ended(t).op = "release"
         /\ t.op \notin Guarded => Ended(t) = Idle
<1> DEFINE first == Start("release", "")
           last == [first EXCEPT !.out = [ev |-> "opBusy"]]
<1>1. [ev |-> "opBusy"] \in Event
  BY DEF Event, PlainEvents
<1>2. "release" \in Operations /\ "" \in Targets /\ "" \in TargetsOf("release")
  BY OperationsAre DEF Others, TargetsOf, Targets, UserWrites, NodeWrites
<1>3. first \in Bare /\ first.op = "release" /\ first.pc = 1 /\ first.on = ""
  BY <1>2, StartTyped DEF Start
<1> HIDE DEF first
<1>4. /\ last \in [op : Operations, on : Targets, pc : Nat, out : Event, val : BOOLEAN]
      /\ last.op = "release" /\ last.pc = 1 /\ last.on = "" /\ last.out = [ev |-> "opBusy"]
  BY <1>1, <1>3 DEF Bare
<1> HIDE DEF last
<1>5. last \in Task
  <2>1. last.pc \in 1..Len(ScriptOf[last.op])
    <3>1. Len(ScriptOf[last.op]) = 1
      BY <1>4, ReleaseScript
    <3>2. 1 \in 1..1
      OBVIOUS
    <3>3. last.pc = 1
      BY <1>4
    <3>4. QED
      BY <3>1, <3>2, <3>3
  <2>2. last.on \in TargetsOf(last.op)
    BY <1>2, <1>4
  <2>3. QED
    BY <1>4, <2>1, <2>2 DEF Task
<1>6. Ended(t) = IF t.op \in Guarded THEN last ELSE Idle
  BY DEF Ended, first, last
<1>7. QED
  BY <1>4, <1>5, <1>6

LEMMA AfterFacts ==
  ASSUME NEW t \in Bare
  PROVE  /\ After(t) \in Task \cup {Idle}
         /\ \/ t.pc = Len(ScriptOf[t.op]) /\ After(t) = Ended(t)
            \/ /\ t.pc < Len(ScriptOf[t.op]) /\ t.op # "release" /\ After(t) \in Task
               /\ After(t).op = t.op /\ After(t).pc = t.pc + 1 /\ After(t).out = None
<1>1. Len(ScriptOf[t.op]) \in Nat /\ t.pc \in 1..Len(ScriptOf[t.op])
  BY ScriptFacts DEF Bare, ScriptOk
<1>2. CASE t.pc = Len(ScriptOf[t.op])
  BY <1>2, EndedFacts DEF After
<1>3. CASE t.pc # Len(ScriptOf[t.op])
  <2>1. After(t) = [op |-> t.op, on |-> t.on, pc |-> t.pc + 1, out |-> None, val |-> t.val]
    BY <1>3 DEF After, Bare
  <2>2. t.op # "release"
    BY <1>1, <1>3, ReleaseScript
  <2>3. After(t) \in Bare
    BY <1>1, <1>3, <2>1 DEF Bare
  <2>4. /\ After(t).op = t.op /\ After(t).pc = t.pc + 1 /\ After(t).out = None
    BY <2>1
  <2>5. QED
    BY <1>1, <1>3, <2>2, <2>3, <2>4, BareTask
<1>4. QED
  BY <1>2, <1>3

LEMMA AtFacts ==
  ASSUME Types, NEW s \in Slots, NEW step, At(s, step)
  PROVE  /\ tasks[s] \in Task /\ tasks[s] \in Bare /\ tasks[s].op # "release"
         /\ ScriptOf[tasks[s].op][tasks[s].pc] = step
         /\ \A v \in BOOLEAN : [tasks[s] EXCEPT !.val = v] \in Bare
         /\ [tasks[s] EXCEPT !.val = tasks[s].val] = tasks[s]
<1>1. tasks[s] \in Task /\ tasks[s].out = None /\ ScriptOf[tasks[s].op][tasks[s].pc] = step
  BY DEF Types, At
<1>2. tasks[s].op # "release"
  BY <1>1 DEF Task, None
<1>3. tasks[s] \in Bare
  BY <1>1 DEF Task, Bare
<1>4. \A v \in BOOLEAN : [tasks[s] EXCEPT !.val = v] \in Bare
  BY <1>3 DEF Bare
<1>5. [tasks[s] EXCEPT !.val = tasks[s].val] = tasks[s]
  BY <1>3 DEF Bare
<1>6. QED
  BY <1>1, <1>2, <1>3, <1>4, <1>5

\* One task changes, to t.
Moves(s, t) ==
  /\ tasks' \in [Slots -> Task \cup {Idle}] /\ tasks'[s] = t
  /\ \A r \in Slots \ {s} : tasks'[r] = tasks[r]

LEMMA MovesMade ==
  ASSUME Types, NEW s \in Slots, NEW t \in Task \cup {Idle}, tasks' = [tasks EXCEPT ![s] = t]
  PROVE  Moves(s, t)
  BY DEF Types, Moves

LEMMA SpawnMoves ==
  ASSUME Types, NEW op \in Operations \ {"release"}, NEW on \in Targets, on \in TargetsOf(op),
         Spawn(op, on)
  PROVE  \E s \in Slots : tasks[s] = Idle /\ Moves(s, Start(op, on)) /\ Start(op, on) \in Task
<1>1. Start(op, on) \in Task
  BY StartTyped, BareTask DEF Start
<1> DEFINE s == CHOOSE r \in Slots \ Live : TRUE
<1>2. s \in Slots \ Live
  BY DEF Spawn, Live
<1>3. tasks[s] = Idle
  BY <1>2 DEF Live
<1>4. tasks' = [tasks EXCEPT ![s] = Start(op, on)]
  BY DEF Spawn
<1> HIDE DEF s
<1>5. Moves(s, Start(op, on))
  BY <1>1, <1>2, <1>4, MovesMade
<1>6. QED
  BY <1>2, <1>3, <1>5, <1>1

-----------------------------------------------------------------------------
(* What a step of a task is to the task: it says something, goes on, stops,  *)
(* or sends what it said.                                                    *)

StepOf(s) == ScriptOf[tasks[s].op][tasks[s].pc]
Ready(s) == tasks[s] \in Task /\ tasks[s] \in Bare /\ tasks[s].op # "release"
Tells(s) == Ready(s) /\ \E e \in Says(StepOf(s)) : Moves(s, [tasks[s] EXCEPT !.out = e])
OnWith(s) ==
  \E b \in Bare : b.op = tasks[s].op /\ b.pc = tasks[s].pc /\ Moves(s, After(b))
Goes(s) == Ready(s) /\ StepOf(s) \notin {"kernelFree", "nginxFree"} /\ OnWith(s)
Stops(s) == Ready(s) /\ StepOf(s) \in FailSteps /\ Moves(s, Ended(tasks[s]))
Sends(s) ==
  /\ tasks[s] \in Task /\ tasks[s].out # None /\ Len(ui) < UiCap
  /\ ui' = Append(ui, tasks[s].out) /\ OnWith(s)

LEMMA KeepGoes ==
  ASSUME Types, NEW s \in Slots, NEW step, At(s, step), step \notin {"kernelFree", "nginxFree"},
         NEW v \in BOOLEAN, Keep(s, v)
  PROVE  Goes(s)
<1> DEFINE b == [tasks[s] EXCEPT !.val = v]
<1>1. b \in Bare /\ b.op = tasks[s].op /\ b.pc = tasks[s].pc
  <2>1. b \in Bare /\ tasks[s] \in Bare
    BY AtFacts
  <2>2. QED
    BY <2>1 DEF Bare
<1>2. tasks' = [tasks EXCEPT ![s] = After(b)]
  BY DEF Keep
<1> HIDE DEF b
<1>3. Moves(s, After(b))
  BY <1>1, <1>2, AfterFacts, MovesMade
<1>4. Ready(s) /\ StepOf(s) = step
  BY AtFacts DEF Ready, StepOf
<1>5. QED
  BY <1>1, <1>3, <1>4 DEF Goes, OnWith

LEMMA PassGoes ==
  ASSUME Types, NEW s \in Slots, NEW step, At(s, step), step \notin {"kernelFree", "nginxFree"},
         Pass(s)
  PROVE  Goes(s)
<1>1. tasks[s] \in Bare
  BY AtFacts
<1>2. tasks' = [tasks EXCEPT ![s] = After(tasks[s])]
  BY DEF Pass
<1>3. Moves(s, After(tasks[s]))
  BY <1>1, <1>2, AfterFacts, MovesMade
<1>4. Ready(s) /\ StepOf(s) = step
  BY AtFacts DEF Ready, StepOf
<1>5. QED
  BY <1>1, <1>3, <1>4 DEF Goes, OnWith

LEMMA ReportTells ==
  ASSUME Types, NEW s \in Slots, NEW step, At(s, step), NEW e \in Says(step), Report(s, e)
  PROVE  Tells(s)
<1> DEFINE u == [tasks[s] EXCEPT !.out = e]
<1>1. tasks[s] \in Bare /\ tasks[s].op # "release" /\ step = StepOf(s)
  BY AtFacts DEF StepOf
<1>2. u \in Task
  <2>1. e \in Event
    BY SaysFacts
  <2>2. u \in [op : Operations, on : Targets, pc : Nat, out : Event, val : BOOLEAN]
        /\ u.op = tasks[s].op /\ u.pc = tasks[s].pc /\ u.on = tasks[s].on /\ u.out = e
    BY <1>1, <2>1 DEF Bare
  <2> HIDE DEF u
  <2>3. u.pc \in 1..Len(ScriptOf[u.op]) /\ u.on \in TargetsOf(u.op)
    BY <1>1, <2>2 DEF Bare
  <2>4. u.op # "release" /\ u.out \in Says(ScriptOf[u.op][u.pc])
    BY <1>1, <2>2 DEF StepOf
  <2>5. QED
    BY <2>2, <2>3, <2>4 DEF Task
<1>3. tasks' = [tasks EXCEPT ![s] = u]
  BY DEF Report
<1>4. Moves(s, u)
  <2> HIDE DEF u
  <2>1. QED
    BY <1>2, <1>3, MovesMade
<1>5. Ready(s)
  BY AtFacts DEF Ready
<1>6. QED
  BY <1>1, <1>4, <1>5 DEF Tells

LEMMA StopStops ==
  ASSUME Types, NEW s \in Slots, NEW step \in FailSteps, At(s, step), Stop(s)
  PROVE  Stops(s)
<1>1. Ready(s) /\ StepOf(s) = step
  BY AtFacts DEF Ready, StepOf
<1>2. tasks' = [tasks EXCEPT ![s] = Ended(tasks[s])]
  BY DEF Stop
<1>3. Moves(s, Ended(tasks[s]))
  BY <1>2, EndedFacts, MovesMade
<1>4. QED
  BY <1>1, <1>3 DEF Stops

LEMMA SendSends ==
  ASSUME Types, NEW s \in Slots, Send(s)
  PROVE  Sends(s)
<1> DEFINE b == [tasks[s] EXCEPT !.out = None]
<1>1. tasks[s] \in Task /\ tasks[s].out # None
  BY DEF Types, Send
<1>2. b \in Bare /\ b.op = tasks[s].op /\ b.pc = tasks[s].pc
  BY <1>1 DEF Task, Bare
<1>3. tasks' = [tasks EXCEPT ![s] = After(b)]
  BY DEF Send
<1> HIDE DEF b
<1>4. Moves(s, After(b))
  BY <1>2, <1>3, AfterFacts, MovesMade
<1>5. QED
  BY <1>1, <1>2, <1>4 DEF Send, Sends, OnWith

LEMMA OfScript ==
  ASSUME Types, NEW s \in Slots, NEW step, At(s, step)
  PROVE  /\ step \in {"write", "tellEnabled", "tellReset"} => tasks[s].on \in Names
         /\ step = "config" => tasks[s].on \in Tags
         /\ step = "setStrategy" => tasks[s].on \in Strategies
         /\ tasks[s].val \in BOOLEAN
<1>1. tasks[s] \in Task /\ ScriptOf[tasks[s].op][tasks[s].pc] = step
  BY AtFacts
<1> DEFINE op == tasks[s].op
           i == tasks[s].pc
<1>2. /\ op \in Operations /\ i \in 1..Len(ScriptOf[op])
      /\ tasks[s].on \in TargetsOf(op) /\ tasks[s].val \in BOOLEAN
  BY <1>1, TaskFacts
<1>3. ScriptOf[op][i] = step
  BY <1>1
<1> HIDE DEF op, i
<1>4. ScriptOk(op, ScriptOf[op])
  BY <1>2, ScriptFacts
<1>5. /\ step \in {"write", "tellEnabled", "tellReset"} => op \in UserWrites
      /\ step = "config" => op \in NodeWrites
      /\ step = "setStrategy" => op = "outbound"
  BY <1>2, <1>3, <1>4 DEF ScriptOk
<1>6. QED
  BY <1>2, <1>5 DEF TargetsOf, UserWrites, NodeWrites

LEMMA WrittenTyped ==
  ASSUME Types, NEW op, NEW n \in Names, (op = "addUser") # (n \in DOMAIN db)
  PROVE  Written(op, n) \in Table
<1>1. db \in Table /\ NewRow \in Row
  BY DEF Types, NewRow, Row
<1>2. op # "addUser" => db[n] \in Row
  BY <1>1, TableFacts
<1>3. CASE op = "addUser"
  BY <1>1, <1>3, PutTyped DEF Written
<1>4. CASE op = "deleteUser"
  BY <1>1, <1>4, WithoutTyped DEF Written
<1>5. CASE op = "toggle"
  <2> DEFINE row == [db[n] EXCEPT !.enabled = ~@, !.auto = FALSE]
  <2>1. row \in Row
    BY <1>2, <1>5 DEF Row
  <2>2. Written(op, n) = Put(db, n, row)
    BY <1>5 DEF Written
  <2> HIDE DEF row
  <2>3. QED
    BY <1>1, <2>1, <2>2, PutTyped
<1>6. CASE op = "reset"
  <2> DEFINE row == [db[n] EXCEPT !.used = 0, !.enabled = @ \/ db[n].auto, !.auto = FALSE]
  <2>1. row \in Row
    BY <1>2, <1>6 DEF Row
  <2>2. Written(op, n) = Put(db, n, row)
    BY <1>6 DEF Written
  <2> HIDE DEF row
  <2>3. QED
    BY <1>1, <2>1, <2>2, PutTyped
<1>7. CASE op = "regenToken"
  <2> DEFINE row == [db[n] EXCEPT !.token = TRUE]
  <2>1. row \in Row
    BY <1>2, <1>7 DEF Row
  <2>2. Written(op, n) = Put(db, n, row)
    BY <1>7 DEF Written
  <2> HIDE DEF row
  <2>3. QED
    BY <1>1, <2>1, <2>2, PutTyped
<1>8. CASE op = "revokeToken"
  <2> DEFINE row == [db[n] EXCEPT !.token = FALSE]
  <2>1. row \in Row
    BY <1>2, <1>8 DEF Row
  <2>2. Written(op, n) = Put(db, n, row)
    BY <1>8 DEF Written
  <2> HIDE DEF row
  <2>3. QED
    BY <1>1, <2>1, <2>2, PutTyped
<1>9. CASE op \notin {"addUser", "deleteUser", "toggle", "reset", "regenToken", "revokeToken"}
  BY <1>1, <1>9 DEF Written
<1>10. QED
  BY <1>3, <1>4, <1>5, <1>6, <1>7, <1>8, <1>9

LEMMA BookedTyped ==
  ASSUME Types, NEW n \in Bookable
  PROVE  n \in Names /\ Booked(n) \in Table /\ CanStep
<1>1. db \in Table /\ n \in DOMAIN db /\ CanStep
  BY DEF Types, Bookable
<1>2. n \in Names /\ db[n] \in Row
  BY <1>1, TableFacts
<1>3. [db[n] EXCEPT !.used = @ + 1] \in Row
  BY <1>2 DEF Row
<1>4. QED
  BY <1>1, <1>2, <1>3, PutTyped DEF Booked

LEMMA ControlledTyped ==
  ASSUME Types, NEW n \in DOMAIN db, NEW f \in Controlled(n)
  PROVE  f \in Table
<1>1. db \in Table /\ n \in Names /\ db[n] \in Row
  BY TableFacts DEF Types
<1>2. [db[n] EXCEPT !.enabled = FALSE, !.auto = @ \/ db[n].enabled] \in Row
  BY <1>1 DEF Row
<1>3. [db[n] EXCEPT !.used = 0, !.enabled = @ \/ db[n].auto, !.auto = FALSE] \in Row
  BY <1>1 DEF Row
<1>4. QED
  BY <1>1, <1>2, <1>3, PutTyped DEF Controlled

LEMMA StepsTyped ==
  ASSUME Types, CanStep, StepTaken
  PROVE  steps' \in 0..MaxSteps
<1>1. steps \in Nat /\ MaxSteps \in Nat /\ steps < MaxSteps
  BY TuiAssumption DEF Types, CanStep
<1>2. QED
  BY <1>1 DEF StepTaken

\* What a step of a task leaves to the database, config.json and the rest.
Kinds(s) ==
  \/ Sends(s) /\ UNCHANGED Beside
  \/ UNCHANGED <<ui, Beside>> /\ (Tells(s) \/ Goes(s) \/ Stops(s))
Kept == db' \in Table /\ disk' \in Configs /\ steps' \in 0..MaxSteps

LEMMA StepKinds ==
  ASSUME Types, NEW s \in Slots, TaskStep(s)
  PROVE  Kinds(s) /\ Kept
<1>0. db \in Table /\ disk \in Configs /\ steps \in 0..MaxSteps
  BY DEF Types
<1>1. CASE Send(s)
  BY <1>0, <1>1, SendSends DEF Send, Kinds, Kept
<1>2. CASE Write(s)
  <2>1. At(s, "write") /\ (tasks[s].op = "addUser") # (tasks[s].on \in DOMAIN db)
    BY <1>2 DEF Write
  <2>2. db' = Written(tasks[s].op, tasks[s].on) /\ UNCHANGED <<disk, ui, steps, Beside>>
    BY <1>2 DEF Write
  <2>3. Goes(s)
    <3>1. \E v \in BOOLEAN : Keep(s, v)
      BY <1>2 DEF Write
    <3>2. QED
      BY <2>1, <3>1, KeepGoes
  <2>4. Written(tasks[s].op, tasks[s].on) \in Table
    BY <2>1, OfScript, WrittenTyped
  <2>5. QED
    BY <1>0, <2>2, <2>3, <2>4 DEF Kinds, Kept
<1>3. CASE Apply(s)
  BY <1>0, <1>3, PassGoes DEF Apply, Kinds, Kept
<1>4. CASE Fail(s)
  BY <1>0, <1>4, StopStops DEF Fail, FailSteps, Kinds, Kept
<1>5. CASE List(s)
  <2>1. At(s, "list") /\ UNCHANGED <<db, disk, ui, steps, Beside>>
    BY <1>5 DEF List
  <2>2. Tells(s) \/ Goes(s)
    <3>1. [ev |-> "users", to |-> db] \in Says("list")
      BY <1>0 DEF Says, UsersEvent
    <3>2. QED
      BY <1>5, <2>1, <3>1, ReportTells, PassGoes DEF List
  <2>3. QED
    BY <1>0, <2>1, <2>2 DEF Kinds, Kept
<1>6. CASE LoadConfig(s)
  <2>1. At(s, "load") /\ UNCHANGED <<db, disk, ui, steps, Beside>>
    BY <1>6 DEF LoadConfig
  <2>2. Tells(s) \/ Goes(s)
    <3>1. [ev |-> "nodes", to |-> disk.tags] \in Says("load")
      BY <1>0 DEF Says, Configs
    <3>2. QED
      BY <1>6, <2>1, <3>1, ReportTells, PassGoes DEF LoadConfig
  <2>3. QED
    BY <1>0, <2>1, <2>2 DEF Kinds, Kept
<1>7. CASE Tell(s)
  <2>1. UNCHANGED <<db, disk, ui, steps, Beside>>
    BY <1>7 DEF Tell
  <2>2. Tells(s)
    <3>1. CASE At(s, "tellEnabled")
              /\ Report(s, [ev |-> "enabled", on |-> tasks[s].on, to |-> tasks[s].val])
      <4>1. tasks[s].on \in Names /\ tasks[s].val \in BOOLEAN
        BY <3>1, OfScript
      <4>2. [ev |-> "enabled", on |-> tasks[s].on, to |-> tasks[s].val] \in Says("tellEnabled")
        BY <4>1 DEF Says
      <4>3. QED
        BY <3>1, <4>2, ReportTells
    <3>2. CASE At(s, "tellReset") /\ Report(s, [ev |-> "zeroed", on |-> tasks[s].on])
      <4>1. tasks[s].on \in Names
        BY <3>2, OfScript
      <4>2. [ev |-> "zeroed", on |-> tasks[s].on] \in Says("tellReset")
        BY <4>1 DEF Says
      <4>3. QED
        BY <3>2, <4>2, ReportTells
    <3>3. CASE At(s, "picker") /\ Report(s, [ev |-> "picker"])
      <4>1. [ev |-> "picker"] \in Says("picker")
        BY DEF Says
      <4>2. QED
        BY <3>3, <4>1, ReportTells
    <3>4. QED
      BY <1>7, <3>1, <3>2, <3>3 DEF Tell
  <2>3. QED
    BY <1>0, <2>1, <2>2 DEF Kinds, Kept
<1>8. CASE ChangeConfig(s)
  <2>1. /\ At(s, "config") /\ Pass(s) /\ UNCHANGED <<db, ui, steps, Beside>>
        /\ disk' = [disk EXCEPT !.tags = CASE tasks[s].op = "addNode" -> @ \cup {tasks[s].on}
                                           [] tasks[s].op = "deleteNode" -> @ \ {tasks[s].on}
                                           [] OTHER -> @]
    BY <1>8 DEF ChangeConfig
  <2>2. Goes(s)
    BY <2>1, PassGoes
  <2>3. tasks[s].on \in Tags
    BY <2>1, OfScript
  <2>4. disk' \in Configs
    BY <1>0, <2>1, <2>3 DEF Configs
  <2>5. QED
    BY <1>0, <2>1, <2>2, <2>4 DEF Kinds, Kept
<1>9. CASE Replace(s)
  BY <1>0, <1>9, PassGoes DEF Replace, Kinds, Kept
<1>10. CASE SetStrategy(s)
  <2>1. At(s, "setStrategy") /\ UNCHANGED <<db, ui, steps, Beside>>
    BY <1>10 DEF SetStrategy
  <2>2. Goes(s)
    <3>1. \E v \in BOOLEAN : Keep(s, v)
      BY <1>10 DEF SetStrategy
    <3>2. QED
      BY <2>1, <3>1, KeepGoes
  <2>3. disk' = disk \/ disk' = [disk EXCEPT !.strategy = tasks[s].on]
    BY <1>10 DEF SetStrategy
  <2>4. tasks[s].on \in Strategies
    BY <2>1, OfScript
  <2>5. disk' \in Configs
    BY <1>0, <2>3, <2>4 DEF Configs
  <2>6. QED
    BY <1>0, <2>1, <2>2, <2>5 DEF Kinds, Kept
<1>11. CASE ReadStrategy(s)
  <2>1. UNCHANGED <<db, disk, ui, steps, Beside>>
    BY <1>11 DEF ReadStrategy
  <2>2. [ev |-> "strategy", to |-> disk.strategy] \in Says("read") \cap Says("correct")
    BY <1>0 DEF Says, Configs
  <2>3. Tells(s) \/ Goes(s)
    BY <1>11, <2>2, ReportTells, PassGoes DEF ReadStrategy
  <2>4. QED
    BY <1>0, <2>1, <2>3 DEF Kinds, Kept
<1>12. CASE Mark(s)
  <2>1. UNCHANGED <<db, disk, ui, steps, Beside>>
    BY <1>12 DEF Mark
  <2>2. \A m \in Marks : m[2] \in Says(m[1])
    BY DEF Marks, Says
  <2>3. Tells(s)
    BY <1>12, <2>2, ReportTells DEF Mark
  <2>4. QED
    BY <1>0, <2>1, <2>3 DEF Kinds, Kept
<1>13. CASE Flush(s)
  <2>1. At(s, "flush") /\ Pass(s) /\ UNCHANGED <<disk, ui, Beside>>
    BY <1>13 DEF Flush
  <2>2. Goes(s)
    BY <2>1, PassGoes
  <2>3. db' \in Table /\ steps' \in 0..MaxSteps
    BY <1>0, <1>13, BookedTyped, StepsTyped DEF Flush
  <2>4. QED
    BY <1>0, <2>1, <2>2, <2>3 DEF Kinds, Kept
<1>14. QED
  BY <1>1, <1>2, <1>3, <1>4, <1>5, <1>6, <1>7, <1>8, <1>9, <1>10, <1>11, <1>12, <1>13
     DEF TaskStep

-----------------------------------------------------------------------------
(* What the loop shows.                                                      *)

LEMMA TableWith ==
  ASSUME NEW f \in Table, NEW n \in DOMAIN f, NEW row \in Row
  PROVE  [f EXCEPT ![n] = row] \in Table
<1>1. DOMAIN f \in SUBSET Names /\ f \in [DOMAIN f -> Row]
  BY TableFacts
<1>2. [f EXCEPT ![n] = row] \in [DOMAIN f -> Row]
  BY <1>1
<1>3. QED
  BY <1>1, <1>2 DEF Table

LEMMA ShownTyped ==
  ASSUME Types, NEW e \in Event \cup TrafficEvent
  PROVE  Shown(e) \in Table
<1>1. users \in Table
  BY DEF Types
<1>2. CASE e.ev = "users"
  <2>1. e.to \in Table
    BY <1>2 DEF Event, UsersEvent, PlainEvents, None, TrafficEvent
  <2>2. QED
    BY <1>2, <2>1 DEF Shown
<1>3. CASE e.ev = "enabled"
  <2> DEFINE row == [users[e.on] EXCEPT !.enabled = e.to]
  <2>1. e.to \in BOOLEAN
    BY <1>3 DEF Event, UsersEvent, PlainEvents, None, TrafficEvent
  <2>2. e.on \in DOMAIN users => row \in Row
    BY <1>1, <2>1, TableFacts DEF Row
  <2>3. Shown(e) = IF e.on \in DOMAIN users THEN [users EXCEPT ![e.on] = row] ELSE users
    BY <1>3 DEF Shown, Changed
  <2> HIDE DEF row
  <2>4. QED
    BY <1>1, <2>2, <2>3, TableWith
<1>4. CASE e.ev = "zeroed"
  <2> DEFINE row == [users[e.on] EXCEPT !.used = 0]
  <2>1. e.on \in DOMAIN users => row \in Row
    BY <1>1, TableFacts DEF Row
  <2>2. Shown(e) = IF e.on \in DOMAIN users THEN [users EXCEPT ![e.on] = row] ELSE users
    BY <1>4 DEF Shown, Changed
  <2> HIDE DEF row
  <2>3. QED
    BY <1>1, <2>1, <2>2, TableWith
<1>5. CASE e.ev = "synced"
  <2> DEFINE row == [users[e.on] EXCEPT !.used = @ + 1]
  <2>1. e.on \in DOMAIN users => row \in Row
    BY <1>1, TableFacts DEF Row
  <2>2. Shown(e) = IF e.on \in DOMAIN users THEN [users EXCEPT ![e.on] = row] ELSE users
    BY <1>5 DEF Shown, Changed
  <2> HIDE DEF row
  <2>3. QED
    BY <1>1, <2>1, <2>2, TableWith
<1>6. CASE e.ev \notin {"users", "enabled", "zeroed", "synced"}
  BY <1>1, <1>6 DEF Shown
<1>7. QED
  BY <1>2, <1>3, <1>4, <1>5, <1>6

LEMMA Lengths ==
  /\ \A f \in Table : Cardinality(DOMAIN f) \in Nat
  /\ \A S \in SUBSET Tags : Cardinality(S) \in Nat
<1>1. \A S \in SUBSET Names : Cardinality(S) \in Nat
  BY NamesFinite, FS_Subset, FS_CardinalityType
<1>2. \A S \in SUBSET Tags : Cardinality(S) \in Nat
  BY NamesFinite, FS_Subset, FS_CardinalityType
<1>3. QED
  BY <1>1, <1>2, TableFacts

LEMMA LinesTyped ==
  ASSUME NEW sel \in Nat, NEW len \in Nat
  PROVE  Clamped(sel, len) \in Nat /\ Moved(sel, len) \subseteq Nat
<1>1. Clamped(sel, len) \in Nat
  BY DEF Clamped
<1>2. CASE len = 0
  BY <1>1, <1>2 DEF Moved
<1>3. CASE len # 0
  <2>1. \A a \in Nat : a % len \in Nat
    BY <1>3
  <2>2. sel + 1 \in Nat /\ sel + len - 1 \in Nat
    BY <1>3
  <2>3. QED
    BY <1>1, <1>3, <2>1, <2>2 DEF Moved
<1>4. QED
  BY <1>2, <1>3

LEMMA ListSound ==
  ASSUME NEW S, NEW order, NEW line
  PROVE  OnLine(S, order, line) \subseteq S
  BY DEF OnLine

LEMMA Selections ==
  ASSUME Types
  PROVE  SelectedUser \subseteq Names /\ SelectedNode \subseteq Tags
<1>1. DOMAIN users \subseteq Names /\ nodes \subseteq Tags
  BY TableFacts DEF Types
<1>2. QED
  BY <1>1, ListSound DEF SelectedUser, SelectedNode

LEMMA OpOfIs ==
  /\ DOMAIN OpOf = UserDialogs \cup NodeDialogs \cup {"addUser", "addNode", "selectRestore", "none"}
  /\ \A k \in DOMAIN OpOf : \A op \in OpOf[k] :
       /\ op \in Guarded
       /\ k \in UserDialogs \cup {"addUser"} => op \in UserWrites
       /\ k \in NodeDialogs \cup {"addNode"} => op \in NodeWrites
       /\ k \in {"selectRestore", "none"} => op = "restore"
<1>1. DOMAIN OpOf = UserDialogs \cup NodeDialogs \cup {"addUser", "addNode", "selectRestore", "none"}
  BY DEF OpOf, UserDialogs, NodeDialogs
<1>2. ASSUME NEW k \in UserDialogs \cup {"addUser"}, NEW op \in OpOf[k]
      PROVE  op \in Guarded /\ op \in UserWrites
  BY DEF OpOf, UserDialogs, UserWrites, Guarded
<1>3. ASSUME NEW k \in NodeDialogs \cup {"addNode"}, NEW op \in OpOf[k]
      PROVE  op \in Guarded /\ op \in NodeWrites
  BY DEF OpOf, NodeDialogs, NodeWrites, Guarded
<1>4. ASSUME NEW k \in {"selectRestore", "none"}, NEW op \in OpOf[k]
      PROVE  op \in Guarded /\ op = "restore"
  BY DEF OpOf, Guarded
<1>5. \A k \in {"selectRestore", "none"} :
        k \notin UserDialogs \cup NodeDialogs \cup {"addUser", "addNode"}
  BY DEF UserDialogs, NodeDialogs
<1>6. /\ \A k \in UserDialogs \cup {"addUser"} : k \notin NodeDialogs \cup {"addNode"}
      /\ \A k \in UserDialogs \cup NodeDialogs \cup {"addUser", "addNode"} :
           k \notin {"selectRestore", "none"}
  BY DEF UserDialogs, NodeDialogs
<1>7. QED
  BY <1>1, <1>2, <1>3, <1>4, <1>5, <1>6

LEMMA GuardedAre ==
  /\ Guarded = UserWrites \cup NodeWrites \cup {"restore"}
  /\ "release" \notin Guarded /\ "idle" \notin Guarded
  BY DEF Guarded, UserWrites, NodeWrites

-----------------------------------------------------------------------------
(* What a step of the interface is to the tasks, the channel and the marks.  *)

Spawned(op) == \E s \in Slots, u \in Task : tasks[s] = Idle /\ u.op = op /\ Moves(s, u)

LEMMA SpawnSpawned ==
  ASSUME Types, NEW op \in Operations \ {"release"}, NEW on \in Targets, on \in TargetsOf(op),
         Spawn(op, on)
  PROVE  Spawned(op)
<1>1. PICK s \in Slots : tasks[s] = Idle /\ Moves(s, Start(op, on)) /\ Start(op, on) \in Task
  BY SpawnMoves
<1>2. Start(op, on).op = op
  BY DEF Start
<1>3. QED
  BY <1>1, <1>2 DEF Spawned

\* The operations that need neither a user nor a node.
Plain == {"export", "check", "refresh", "listBackups", "kernelRefresh", "kernelOp",
          "kernelFlush", "nginxOp", "genconf"}

LEMMA PlainAre ==
  /\ \A op \in Plain : /\ op \in Operations \ (Guarded \cup {"release"})
                       /\ TargetsOf(op) = Targets
  /\ "outbound" \in Operations \ (Guarded \cup {"release"})
  /\ TargetsOf("outbound") = Strategies
  /\ \A op \in Guarded : op \in Operations \ {"release"}
  /\ \A op \in UserWrites : TargetsOf(op) = Names
  /\ \A op \in NodeWrites : TargetsOf(op) = Tags
  /\ TargetsOf("restore") = Targets
  /\ Names \subseteq Targets /\ Tags \subseteq Targets /\ Strategies \subseteq Targets
  /\ "" \in Targets
<1>1. ASSUME NEW op \in Plain
      PROVE  op \in Operations \ (Guarded \cup {"release"}) /\ TargetsOf(op) = Targets
  BY OperationsAre, GuardedAre DEF Plain, Others, UserWrites, NodeWrites, TargetsOf
<1>2. /\ "outbound" \in Operations \ (Guarded \cup {"release"})
      /\ TargetsOf("outbound") = Strategies
  BY OperationsAre, GuardedAre DEF Others, UserWrites, NodeWrites, TargetsOf
<1>3. \A op \in Guarded : op \in Operations \ {"release"}
  BY OperationsAre, GuardedAre DEF Others
<1>4. /\ \A op \in UserWrites : TargetsOf(op) = Names
      /\ \A op \in NodeWrites : TargetsOf(op) = Tags
      /\ TargetsOf("restore") = Targets
  BY DEF TargetsOf, UserWrites, NodeWrites
<1>5. QED
  BY <1>1, <1>2, <1>3, <1>4 DEF Targets

\* A write begins: the mark was down, and goes up.
Claims(op) ==
  Spawned(op) /\ ~opBusy /\ opBusy' = TRUE /\ UNCHANGED <<ui, kernelBusy, nginxBusy>>

LEMMA SubmitClaims ==
  ASSUME Types, Submit
  PROVE  \E op \in Guarded : Claims(op)
<1>1. PICK op \in OpOf[modal.kind], on \in Subjects(modal) : Spawn(op, on)
  BY DEF Submit
<1>2. modal \in Modal /\ modal.kind \in DOMAIN OpOf /\ modal.on \in Targets
  BY DEF Types, Modal
<1>3. op \in Guarded
  BY <1>1, <1>2, OpOfIs
<1>4. on \in Targets /\ on \in TargetsOf(op)
  <2>1. CASE modal.kind = "addUser"
    BY <1>1, <1>2, <2>1, OpOfIs, PlainAre DEF Subjects
  <2>2. CASE modal.kind = "addNode"
    BY <1>1, <1>2, <2>2, OpOfIs, PlainAre DEF Subjects
  <2>3. CASE modal.kind \notin {"addUser", "addNode"}
    <3>1. on = modal.on
      BY <1>1, <2>3 DEF Subjects
    <3>2. CASE modal.kind \in UserDialogs
      BY <1>1, <1>2, <3>1, <3>2, OpOfIs, PlainAre DEF Modal
    <3>3. CASE modal.kind \in NodeDialogs
      BY <1>1, <1>2, <3>1, <3>3, OpOfIs, PlainAre DEF Modal
    <3>4. CASE modal.kind \in {"selectRestore", "none"}
      BY <1>1, <1>2, <3>1, <3>4, OpOfIs, PlainAre
    <3>5. QED
      BY <1>2, <2>3, <3>2, <3>3, <3>4, OpOfIs
  <2>4. QED
    BY <2>1, <2>2, <2>3
<1>5. op \in Operations \ {"release"}
  BY <1>3, PlainAre
<1>6. Spawned(op)
  BY <1>1, <1>4, <1>5, SpawnSpawned
<1>7. QED
  BY <1>3, <1>6 DEF Submit, Claims, Unread

LEMMA ToggleClaims ==
  ASSUME Types, ToggleKey
  PROVE  \E op \in Guarded : Claims(op)
<1>1. PICK n \in SelectedUser : Spawn("toggle", n)
  BY DEF ToggleKey
<1>2. n \in Names /\ "toggle" \in Guarded /\ "toggle" \in UserWrites
  BY Selections DEF Guarded, UserWrites
<1>3. "toggle" \in Operations \ {"release"} /\ n \in Targets /\ n \in TargetsOf("toggle")
  BY <1>2, PlainAre
<1>4. Spawned("toggle")
  BY <1>1, <1>3, SpawnSpawned
<1>5. QED
  BY <1>2, <1>4 DEF ToggleKey, Claims, Unread

\* An operation begins that is not a write.
Begins ==
  /\ \E op \in Operations \ (Guarded \cup {"release"}) : Spawned(op)
  /\ UNCHANGED <<ui, busy>>

LEMMA LookBegins ==
  ASSUME Types, LookKey \/ KernelKey \/ OutboundKey \/ NginxKey
  PROVE  Begins
<1>1. UNCHANGED <<ui, busy>>
  BY DEF LookKey, KernelKey, OutboundKey, NginxKey, Unread
<1>2. ASSUME NEW op \in Plain, NEW on \in Targets, Spawn(op, on)
      PROVE  Begins
  BY <1>1, <1>2, SpawnSpawned, PlainAre DEF Begins
<1>3. CASE LookKey
  <2>1. SelectedUser \subseteq Targets
    BY Selections, PlainAre
  <2>2. \E op \in Plain, on \in Targets : Spawn(op, on)
    BY <1>3, <2>1, PlainAre DEF LookKey, Plain
  <2>3. QED
    BY <1>2, <2>2
<1>4. CASE KernelKey
  <2>1. \E op \in Plain, on \in Targets : Spawn(op, on)
    BY <1>4, PlainAre DEF KernelKey, Plain
  <2>2. QED
    BY <1>2, <2>1
<1>5. CASE OutboundKey
  <2>1. strategy' \in Strategies
    BY <1>5 DEF OutboundKey, OtherStrategy, Strategies, Types
  <2>2. PICK on \in Strategies : Spawn("outbound", on)
    BY <1>5, <2>1 DEF OutboundKey
  <2>3. Spawned("outbound")
    BY <2>2, SpawnSpawned, PlainAre
  <2>4. QED
    BY <1>1, <2>3, PlainAre DEF Begins
<1>6. CASE NginxKey
  <2>1. \E op \in Plain, on \in Targets : Spawn(op, on)
    BY <1>6, PlainAre DEF NginxKey, NginxScripts, Plain
  <2>2. QED
    BY <1>2, <2>1
<1>7. QED
  BY <1>3, <1>4, <1>5, <1>6

LEMMA ControlBegins ==
  ASSUME Types, ApplyTraffic
  PROVE  UNCHANGED <<tasks, ui, busy>> \/ Begins
<1>1. UNCHANGED <<ui, busy>> /\ (UNCHANGED tasks \/ Spawn("refresh", ""))
  BY DEF ApplyTraffic
<1>2. "refresh" \in Plain
  BY DEF Plain
<1>3. ASSUME Spawn("refresh", "") PROVE Begins
  BY <1>1, <1>2, <1>3, SpawnSpawned, PlainAre DEF Begins
<1>4. QED
  BY <1>1, <1>3

Reaction ==
  \/ UNCHANGED <<tasks, ui, busy>>
  \/ \E op \in Guarded : Claims(op)
  \/ Begins
  \/ \E s \in Slots : Kinds(s)
  \/ ApplyUi

LEMMA KeyReacts ==
  ASSUME Types, Key, ~Quit
  PROVE  loop # "quit" /\ Reaction
<1>1. CASE Move \/ Open \/ Close \/ Suspend \/ Resume
  BY <1>1 DEF Move, Open, Close, Suspend, Resume, Unread, OnPage, InDialog, Reaction
<1>2. CASE Submit
  BY <1>2, SubmitClaims DEF Submit, InDialog, Reaction
<1>3. CASE ToggleKey
  BY <1>3, ToggleClaims DEF ToggleKey, OnPage, Reaction
<1>4. CASE LookKey \/ KernelKey \/ OutboundKey \/ NginxKey
  <2>1. loop # "quit"
    BY <1>4 DEF LookKey, KernelKey, OutboundKey, NginxKey, OnPage
  <2>2. QED
    BY <1>4, <2>1, LookBegins DEF Reaction
<1>5. QED
  BY <1>1, <1>2, <1>3, <1>4 DEF Key

LEMMA StepIs ==
  ASSUME Types, [Next]_vars
  PROVE  loop' = "quit" \/ (loop # "quit" /\ Reaction)
<1>1. CASE Key /\ ~Quit
  BY <1>1, KeyReacts
<1>2. CASE Quit
  BY <1>2 DEF Quit
<1>3. CASE Observe \/ SendTraffic \/ UNCHANGED vars
  BY <1>3 DEF Observe, SendTraffic, vars, Reaction
<1>4. CASE ApplyUi
  BY <1>4 DEF ApplyUi, Reaction
<1>5. CASE ApplyTraffic
  BY <1>5, ControlBegins DEF ApplyTraffic, Reaction
<1>6. ASSUME NEW s \in Slots, TaskStep(s) PROVE loop' = loop /\ Reaction
  BY <1>6, StepKinds DEF Kinds, Beside, Reaction
<1>7. QED
  BY <1>1, <1>2, <1>3, <1>4, <1>5, <1>6 DEF Next

-----------------------------------------------------------------------------
(* The type invariant.                                                       *)

LEMMA Bounds ==
  UiCap \in Nat /\ UiCap > 0 /\ TrafficCap \in Nat /\ TrafficCap > 0 /\ MaxSteps \in Nat
  BY TuiAssumption

LEMMA TypesInit == Init => Types
<1> SUFFICES ASSUME Init PROVE Types
  OBVIOUS
<1>1. db \in Table /\ users \in Table
  <2>1. StartUsers \in SUBSET Names /\ NewRow \in Row
    BY TuiAssumption DEF Names, NewRow, Row
  <2>2. db \in [StartUsers -> Row] /\ users = db
    BY <2>1 DEF Init
  <2>3. QED
    BY <2>1, <2>2 DEF Table
<1>2. /\ disk \in Configs /\ nodes \in SUBSET Tags /\ strategy \in Strategies
  BY TuiAssumption DEF Init, Configs, Tags, Strategies
<1>3. modal \in Modal
  <2>1. "none" \in DOMAIN OpOf /\ "none" \notin UserDialogs \cup NodeDialogs
    BY OpOfIs DEF UserDialogs, NodeDialogs
  <2>2. QED
    BY <2>1, PlainAre DEF Init, NoDialog, Modal
<1>4. tasks \in [Slots -> Task \cup {Idle}]
  <2>1. Start("kernelRefresh", "") \in Task
    <3>1. "kernelRefresh" \in Operations \ {"release"} /\ "" \in Targets
          /\ "" \in TargetsOf("kernelRefresh")
      BY PlainAre DEF Plain
    <3>2. Start("kernelRefresh", "") \in Bare /\ Start("kernelRefresh", "").op = "kernelRefresh"
      BY <3>1, StartTyped DEF Start
    <3>3. QED
      BY <3>1, <3>2, BareTask
  <2>2. QED
    BY <2>1 DEF Init
<1>5. /\ ui \in Seq(Event) /\ Len(ui) <= UiCap
      /\ traffic \in Seq(TrafficEvent) /\ Len(traffic) <= TrafficCap
  <2>1. ui = <<>> /\ traffic = <<>> /\ UiCap \in Nat /\ TrafficCap \in Nat
    BY TuiAssumption DEF Init
  <2>2. QED
    BY <2>1
<1>6. steps \in 0..MaxSteps
  <2>1. steps = 0
    BY DEF Init
  <2>2. QED
    BY <2>1, Bounds
<1>7. QED
  BY <1>1, <1>2, <1>3, <1>4, <1>5, <1>6 DEF Init, Types

LEMMA QueueFacts ==
  ASSUME NEW S, NEW q \in Seq(S), q # <<>>
  PROVE  Head(q) \in S /\ Tail(q) \in Seq(S) /\ Len(Tail(q)) = Len(q) - 1 /\ Len(q) \in Nat
         /\ \A i \in 1..Len(q) - 1 : Tail(q)[i] = q[i + 1]
  OBVIOUS

\* The tasks after a step.
LEMMA TasksTyped ==
  ASSUME Types, Reaction
  PROVE  tasks' \in [Slots -> Task \cup {Idle}]
<1>0. tasks \in [Slots -> Task \cup {Idle}]
  BY DEF Types
<1>1. \A op : Spawned(op) => tasks' \in [Slots -> Task \cup {Idle}]
  BY DEF Spawned, Moves
<1>2. \A s \in Slots : Kinds(s) => tasks' \in [Slots -> Task \cup {Idle}]
  BY DEF Kinds, Sends, Tells, Goes, Stops, OnWith, Moves
<1>3. ApplyUi => tasks' = tasks
  BY DEF ApplyUi
<1>4. QED
  BY <1>0, <1>1, <1>2, <1>3 DEF Reaction, Claims, Begins

\* What the keys and the supervisor leave alone, and the loop writes.
Apart ==
  /\ users' \in Table /\ nodes' \in SUBSET Tags /\ strategy' \in Strategies
  /\ userSel' \in Nat /\ nodeSel' \in Nat /\ modal' \in Modal
  /\ opBusy' \in BOOLEAN /\ kernelBusy' \in BOOLEAN /\ nginxBusy' \in BOOLEAN
  /\ loop' \in {"runs", "suspended", "quit"}
Channels ==
  /\ ui' \in Seq(Event) /\ Len(ui') <= UiCap
  /\ traffic' \in Seq(TrafficEvent) /\ Len(traffic') <= TrafficCap
  /\ supervisor' \in TrafficEvent \cup {None}

LEMMA ApplyUiApart ==
  ASSUME Types, ApplyUi
  PROVE  Apart /\ Channels
<1>1. PICK e \in Event : e = Head(ui)
  BY QueueFacts DEF Types, ApplyUi
<1>2. /\ users' = Shown(e)
      /\ nodes' = IF e.ev = "nodes" THEN e.to ELSE nodes
      /\ userSel' = IF e.ev = "users" THEN Clamped(userSel, Cardinality(DOMAIN e.to)) ELSE userSel
      /\ nodeSel' = IF e.ev = "nodes" THEN Clamped(nodeSel, Cardinality(e.to)) ELSE nodeSel
      /\ strategy' = IF e.ev = "strategy" THEN e.to ELSE strategy
      /\ modal' = IF e.ev = "picker" THEN Dialog("selectRestore", "") ELSE modal
      /\ opBusy' = (opBusy /\ e.ev # "opBusy")
      /\ kernelBusy' = IF e.ev = "kernelBusy" THEN e.to ELSE kernelBusy
      /\ nginxBusy' = IF e.ev = "nginxBusy" THEN e.to ELSE nginxBusy
      /\ ui' = Tail(ui) /\ ui # <<>> /\ UNCHANGED <<loop, background>>
  BY <1>1 DEF ApplyUi
<1>3. /\ e.ev = "users" => e.to \in Table
      /\ e.ev = "nodes" => e.to \in SUBSET Tags
      /\ e.ev = "strategy" => e.to \in Strategies
      /\ e.ev \in {"kernelBusy", "nginxBusy"} => e.to \in BOOLEAN
  BY DEF Event, UsersEvent, PlainEvents, None
<1>4. users' \in Table /\ nodes' \in SUBSET Tags /\ strategy' \in Strategies
  BY <1>2, <1>3, ShownTyped DEF Types
<1>5. userSel' \in Nat /\ nodeSel' \in Nat
  BY <1>2, <1>3, Lengths, LinesTyped DEF Types
<1>6. modal' \in Modal
  <2>1. Dialog("selectRestore", "") \in Modal
    <3>1. "selectRestore" \in DOMAIN OpOf /\ "selectRestore" \notin UserDialogs \cup NodeDialogs
      BY OpOfIs DEF UserDialogs, NodeDialogs
    <3>2. QED
      BY <3>1, PlainAre DEF Dialog, Modal
  <2>2. QED
    BY <1>2, <2>1 DEF Types
<1>7. opBusy' \in BOOLEAN /\ kernelBusy' \in BOOLEAN /\ nginxBusy' \in BOOLEAN
  BY <1>2, <1>3 DEF Types
<1>8. ui' \in Seq(Event) /\ Len(ui') <= UiCap
  <2>1. ui \in Seq(Event) /\ ui # <<>> /\ Len(ui) <= UiCap
    BY <1>2 DEF Types
  <2>2. Tail(ui) \in Seq(Event) /\ Len(Tail(ui)) = Len(ui) - 1 /\ Len(ui) \in Nat
    BY <2>1, QueueFacts
  <2>3. ui' = Tail(ui)
    BY <1>2
  <2>4. QED
    BY <2>1, <2>2, <2>3, Bounds
<1>9. QED
  BY <1>2, <1>4, <1>5, <1>6, <1>7, <1>8 DEF Types, Apart, Channels, background

LEMMA OpenTyped ==
  ASSUME Types, NEW d \in Openable
  PROVE  d \in Modal
<1>1. SelectedUser \subseteq Names /\ SelectedNode \subseteq Tags
  BY Selections
<1> DEFINE ForUser == {"editUser", "confirmDeleteUser", "confirmReset", "nodePicker",
                       "tokenManage", "tokenMissing", "subUrl"}
           ForNode == {"editNode", "confirmDeleteNode"}
<1>2. \/ d \in {Dialog("addUser", ""), Dialog("addNode", "")}
      \/ \E k \in ForUser, n \in SelectedUser : d = Dialog(k, n)
      \/ \E k \in ForNode, n \in SelectedNode : d = Dialog(k, n)
  <2>1. \A n : d \in DialogsOfUser(n) => \E k \in ForUser : d = Dialog(k, n)
    BY DEF DialogsOfUser
  <2>2. \A t : d \in DialogsOfNode(t) => \E k \in ForNode : d = Dialog(k, t)
    BY DEF DialogsOfNode
  <2>3. \/ d \in {Dialog("addUser", ""), Dialog("addNode", "")}
        \/ \E n \in SelectedUser : d \in DialogsOfUser(n)
        \/ \E t \in SelectedNode : d \in DialogsOfNode(t)
    BY DEF Openable
  <2>4. CASE \E n \in SelectedUser : d \in DialogsOfUser(n)
    BY <2>1, <2>4
  <2>5. CASE \E t \in SelectedNode : d \in DialogsOfNode(t)
    BY <2>2, <2>5
  <2>6. QED
    BY <2>3, <2>4, <2>5
<1>3. CASE d \in {Dialog("addUser", ""), Dialog("addNode", "")}
  <2>1. \A k \in {"addUser", "addNode"} : k \in DOMAIN OpOf /\ k \notin UserDialogs \cup NodeDialogs
    BY OpOfIs DEF UserDialogs, NodeDialogs
  <2>2. PICK k \in {"addUser", "addNode"} : d = [kind |-> k, on |-> ""]
    BY <1>3 DEF Dialog
  <2>3. QED
    BY <2>1, <2>2, PlainAre DEF Modal
<1>4. ASSUME NEW k \in ForUser, NEW n \in SelectedUser, d = Dialog(k, n)
      PROVE  d \in Modal
  <2>1. k \in DOMAIN OpOf /\ k \notin NodeDialogs
    BY OpOfIs DEF UserDialogs, NodeDialogs
  <2>2. QED
    BY <1>1, <1>4, <2>1, PlainAre DEF Dialog, Modal
<1>5. ASSUME NEW k \in ForNode, NEW n \in SelectedNode, d = Dialog(k, n)
      PROVE  d \in Modal
  <2>1. k \in DOMAIN OpOf /\ k \notin UserDialogs
    BY OpOfIs DEF UserDialogs, NodeDialogs
  <2>2. QED
    BY <1>1, <1>5, <2>1, PlainAre DEF Dialog, Modal
<1>6. QED
  BY <1>2, <1>3, <1>4, <1>5

LEMMA KeyApart ==
  ASSUME Types, Key, ~Quit
  PROVE  Apart /\ db' \in Table /\ disk' \in Configs /\ steps' \in 0..MaxSteps
         /\ UNCHANGED Unread
<1>0. /\ Types /\ steps \in 0..MaxSteps
      /\ Dialog("none", "") \in Modal
  <2>1. "none" \in DOMAIN OpOf /\ "none" \notin UserDialogs \cup NodeDialogs
    BY OpOfIs DEF UserDialogs, NodeDialogs
  <2>2. QED
    BY <2>1, PlainAre DEF Types, Dialog, Modal
<1> USE DEF Apart, Unread, screen, busy, background
<1>1. CASE Move
  <2>1. Cardinality(DOMAIN users) \in Nat /\ Cardinality(nodes) \in Nat
    BY Lengths DEF Types
  <2>2. userSel' \in Nat /\ nodeSel' \in Nat
    BY <1>1, <2>1, LinesTyped DEF Move, Types
  <2>3. QED
    BY <1>1, <2>2 DEF Move, Types
<1>2. CASE Open
  <2>1. modal' \in Modal
    BY <1>2, OpenTyped DEF Open
  <2>2. QED
    BY <1>2, <2>1 DEF Open, Types
<1>3. CASE Close
  BY <1>0, <1>3 DEF Close, Types, Dialog, NoDialog
<1>4. CASE Submit
  BY <1>0, <1>4, StepsTyped DEF Submit, Types, Dialog, NoDialog
<1>5. CASE ToggleKey
  BY <1>5, StepsTyped DEF ToggleKey, Types
<1>6. CASE LookKey \/ KernelKey \/ NginxKey
  BY <1>6, StepsTyped DEF LookKey, KernelKey, NginxKey, Types
<1>7. CASE OutboundKey
  <2>1. strategy' \in Strategies
    BY <1>7 DEF OutboundKey, OtherStrategy, Strategies, Types
  <2>2. QED
    BY <1>7, <2>1, StepsTyped DEF OutboundKey, Types
<1>8. CASE Suspend
  BY <1>8, StepsTyped DEF Suspend, Types
<1>9. CASE Resume
  BY <1>9, StepsTyped DEF Resume, Types
<1>10. QED
  BY <1>1, <1>2, <1>3, <1>4, <1>5, <1>6, <1>7, <1>8, <1>9 DEF Key

LEMMA TypesNext == Types /\ [Next]_vars => Types'
<1> SUFFICES ASSUME Types, [Next]_vars PROVE Types'
  OBVIOUS
<1>1. CASE Quit
  <2>1. tasks' \in [Slots -> Task \cup {Idle}]
    BY <1>1 DEF Quit
  <2>2. QED
    BY <1>1, <2>1, TuiAssumption DEF Quit, Types, screen, busy
<1>2. CASE ~Quit
  <2>1. ASSUME Reaction, Apart, Channels, db' \in Table, disk' \in Configs, steps' \in 0..MaxSteps
        PROVE  Types'
    BY <2>1, TasksTyped DEF Types, Apart, Channels
  <2>2. CASE Key
    <3>1. Reaction
      BY <1>2, <2>2, KeyReacts
    <3>2. Channels
      BY <1>2, <2>2, KeyApart DEF Channels, Types, Unread, background
    <3>3. QED
      BY <1>2, <2>1, <2>2, <3>1, <3>2, KeyApart
  <2>3. CASE Observe
    <3>1. db' \in Table /\ supervisor' \in TrafficEvent
      BY <2>3, BookedTyped, ControlledTyped DEF Observe, TrafficEvent, Types
    <3>2. steps' \in 0..MaxSteps
      BY <2>3, StepsTyped DEF Observe
    <3>3. QED
      BY <2>3, <3>1, <3>2 DEF Observe, Types, screen, busy
  <2>4. CASE SendTraffic
    <3>1. traffic' \in Seq(TrafficEvent) /\ Len(traffic') <= TrafficCap
      BY <2>4, TuiAssumption DEF SendTraffic, Types
    <3>2. QED
      BY <2>4, <3>1 DEF SendTraffic, Types, screen, busy
  <2>5. CASE ApplyUi
    BY <2>1, <2>5, ApplyUiApart DEF Reaction, ApplyUi, Types
  <2>6. CASE ApplyTraffic
    <3>1. Reaction
      BY <2>6, ControlBegins DEF Reaction
    <3>2. users' \in Table
      <4>1. PICK e \in TrafficEvent : e = Head(traffic)
        BY <2>6, QueueFacts DEF ApplyTraffic, Types
      <4>2. users' = Shown(e)
        BY <2>6, <4>1 DEF ApplyTraffic
      <4>3. QED
        BY <4>2, ShownTyped
    <3>3. traffic' \in Seq(TrafficEvent) /\ Len(traffic') <= TrafficCap
      <4>1. traffic \in Seq(TrafficEvent) /\ traffic # <<>> /\ Len(traffic) <= TrafficCap
        BY <2>6 DEF ApplyTraffic, Types
      <4>2. /\ Tail(traffic) \in Seq(TrafficEvent)
            /\ Len(Tail(traffic)) = Len(traffic) - 1 /\ Len(traffic) \in Nat
        BY <4>1, QueueFacts
      <4>3. traffic' = Tail(traffic)
        BY <2>6 DEF ApplyTraffic
      <4>4. QED
        BY <4>1, <4>2, <4>3, Bounds
    <3>4. QED
      BY <2>1, <2>6, <3>1, <3>2, <3>3 DEF ApplyTraffic, Types, Apart, Channels, busy
  <2>7. ASSUME NEW s \in Slots, TaskStep(s) PROVE Types'
    <3>1. Kinds(s) /\ Kept
      BY <2>7, StepKinds
    <3>2. ui' \in Seq(Event) /\ Len(ui') <= UiCap
      <4>1. CASE Sends(s)
        BY <4>1, TaskFacts, TuiAssumption DEF Sends, Types
      <4>2. CASE ui' = ui
        BY <4>2 DEF Types
      <4>3. QED
        BY <3>1, <4>1, <4>2 DEF Kinds
    <3>3. Reaction
      BY <3>1 DEF Reaction
    <3>4. UNCHANGED Beside
      BY <3>1 DEF Kinds
    <3>5. QED
      BY <2>1, <3>1, <3>2, <3>3, <3>4
         DEF Kept, Types, Apart, Channels, Beside, screen, busy
  <2>8. CASE UNCHANGED vars
    BY <2>8 DEF vars, Types, screen, busy, background
  <2>9. QED
    BY <1>2, <2>2, <2>3, <2>4, <2>5, <2>6, <2>7, <2>8 DEF Next
<1>3. QED
  BY <1>1, <1>2

(* Type correctness: whatever the person presses and the tasks report, every *)
(* event and task is one of the program's and no selection falls below 0.    *)
THEOREM TypeCorrect == Spec => []TypeOK
<1>1. Spec => []Types
  BY TypesInit, TypesNext, PTL DEF Spec
<1>2. QED
  BY <1>1, TypesMean, PTL

-----------------------------------------------------------------------------
(* One write at a time.                                                      *)

LEMMA OnWithFacts ==
  ASSUME Types, NEW s \in Slots, tasks[s] \in Task, OnWith(s)
  PROVE  /\ \A r \in Slots \ {s} : tasks'[r] = tasks[r]
         /\ tasks[s].op \in Guarded => tasks'[s].op \in {tasks[s].op, "release"}
         /\ tasks[s].op \notin Guarded => tasks'[s] = Idle \/ tasks'[s].op = tasks[s].op
         /\ tasks[s].op = "release" => tasks'[s] = Idle
         /\ tasks[s].pc < Len(ScriptOf[tasks[s].op]) =>
              tasks'[s] \in Task /\ tasks'[s].op = tasks[s].op /\ tasks'[s].pc = tasks[s].pc + 1
<1>1. PICK b \in Bare : b.op = tasks[s].op /\ b.pc = tasks[s].pc /\ Moves(s, After(b))
  BY DEF OnWith
<1>2. tasks'[s] = After(b) /\ \A r \in Slots \ {s} : tasks'[r] = tasks[r]
  BY <1>1 DEF Moves
<1>3. Len(ScriptOf[b.op]) \in Nat /\ b.pc \in 1..Len(ScriptOf[b.op])
  BY ScriptFacts DEF Bare, ScriptOk
<1>4. CASE b.pc = Len(ScriptOf[b.op]) /\ After(b) = Ended(b)
  <2>1. /\ b.op \in Guarded => After(b).op = "release"
        /\ b.op \notin Guarded => After(b) = Idle
    BY <1>4, EndedFacts
  <2>2. ~(b.pc < Len(ScriptOf[b.op]))
    BY <1>3, <1>4
  <2>3. QED
    BY <1>1, <1>2, <2>1, <2>2, GuardedAre
<1>5. CASE /\ b.pc < Len(ScriptOf[b.op]) /\ b.op # "release" /\ After(b) \in Task
           /\ After(b).op = b.op /\ After(b).pc = b.pc + 1
  BY <1>1, <1>2, <1>5
<1>6. QED
  BY <1>4, <1>5, AfterFacts

Writes == Guarded \cup {"release"}

LEMMA IdleWritesNot == Idle.op \notin Writes
  BY GuardedAre DEF Idle, Writes

LEMMA WritingIs == \A s \in Slots : s \in Writing <=> tasks[s].op \in Writes
  BY DEF Writing, Writes

\* A step of a task makes a write of no other operation and loses none, but
\* for the release, which ends when its message is sent.
LEMMA WritesStay ==
  ASSUME Types, NEW s \in Slots,
         Tells(s) \/ Goes(s) \/ Stops(s) \/ (Sends(s) /\ tasks[s].op # "release")
  PROVE  Writing' = Writing
<1>1. tasks[s] \in Task /\ tasks[s].op # "release"
  BY DEF Tells, Goes, Stops, Ready, Sends
<1>2. \A r \in Slots \ {s} : tasks'[r] = tasks[r]
  BY <1>1, OnWithFacts DEF Tells, Goes, Stops, Sends, Moves
<1>3. tasks'[s].op \in Writes <=> tasks[s].op \in Writes
  <2>1. CASE Tells(s)
    <3>1. PICK e \in Says(StepOf(s)) : tasks'[s] = [tasks[s] EXCEPT !.out = e]
      BY <2>1 DEF Tells, Moves
    <3>2. tasks'[s].op = tasks[s].op
      BY <1>1, <3>1 DEF Task
    <3>3. QED
      BY <3>2
  <2>2. CASE OnWith(s)
    BY <1>1, <2>2, OnWithFacts, IdleWritesNot DEF Writes
  <2>3. CASE Stops(s)
    <3>1. tasks'[s] = Ended(tasks[s])
      BY <2>3 DEF Stops, Moves
    <3>2. /\ tasks[s].op \in Guarded => Ended(tasks[s]).op = "release"
          /\ tasks[s].op \notin Guarded => Ended(tasks[s]) = Idle
      BY EndedFacts
    <3>3. QED
      BY <1>1, <3>1, <3>2, IdleWritesNot DEF Writes
  <2>4. QED
    BY <2>1, <2>2, <2>3 DEF Goes, Sends
<1>4. QED
  BY <1>2, <1>3 DEF Writing, Writes

LEMMA BeginsWrites ==
  ASSUME Types, NEW s \in Slots, NEW u \in Task, tasks[s] = Idle, Moves(s, u)
  PROVE  Writing' = IF u.op \in Writes THEN Writing \cup {s} ELSE Writing
<1>1. tasks'[s] = u /\ \A r \in Slots \ {s} : tasks'[r] = tasks[r]
  BY DEF Moves
<1>2. s \notin Writing
  BY IdleWritesNot, WritingIs
<1>3. Writing' = {r \in Slots : tasks'[r].op \in Writes}
  BY DEF Writing, Writes
<1>4. Writing = {r \in Slots : tasks[r].op \in Writes}
  BY DEF Writing, Writes
<1>5. QED
  BY <1>1, <1>2, <1>3, <1>4

Alone ==
  /\ \A s, t \in Writing : s = t
  /\ \A i, j \in Releases : i = j
  /\ Writing = {} \/ Releases = {}
  /\ opBusy <=> Writing # {} \/ Releases # {}

LEMMA ReleasesAppend ==
  ASSUME Types, NEW e \in Event, ui' = Append(ui, e)
  PROVE  Releases' = IF e.ev = "opBusy" THEN Releases \cup {Len(ui) + 1} ELSE Releases
<1>1. /\ Len(ui) \in Nat /\ DOMAIN ui = 1..Len(ui) /\ DOMAIN ui' = 1..Len(ui) + 1
      /\ ui'[Len(ui) + 1] = e /\ \A i \in 1..Len(ui) : ui'[i] = ui[i]
  BY DEF Types
<1>2. QED
  BY <1>1 DEF Releases

LEMMA ReleasesTail ==
  ASSUME Types, ui # <<>>, ui' = Tail(ui)
  PROVE  /\ Releases' = {i \in 1..Len(ui) - 1 : i + 1 \in Releases}
         /\ 1 \in Releases <=> Head(ui).ev = "opBusy"
         /\ Releases \subseteq 1..Len(ui) /\ Len(ui) \in Nat
<1>1. /\ Len(ui) \in Nat /\ DOMAIN ui = 1..Len(ui) /\ Len(ui) > 0
      /\ DOMAIN ui' = 1..Len(ui) - 1 /\ \A i \in 1..Len(ui) - 1 : ui'[i] = ui[i + 1]
      /\ Head(ui) = ui[1]
  BY DEF Types
<1>2. QED
  BY <1>1 DEF Releases

LEMMA AloneKept ==
  ASSUME Types, Alone, Reaction
  PROVE  Alone'
<1>1. CASE UNCHANGED <<tasks, ui, busy>>
  BY <1>1 DEF Alone, Writing, Releases, busy
<1>2. ASSUME NEW op \in Guarded, Claims(op) PROVE Alone'
  <2>1. PICK s \in Slots, u \in Task : tasks[s] = Idle /\ u.op = op /\ Moves(s, u)
    BY <1>2 DEF Claims, Spawned
  <2>2. Writing = {} /\ Releases = {}
    BY <1>2 DEF Claims, Alone
  <2>3. Writing' = {s}
    BY <2>1, <2>2, BeginsWrites DEF Writes
  <2>4. Releases' = {} /\ opBusy' = TRUE
    BY <1>2, <2>2 DEF Claims, Releases
  <2>5. QED
    BY <2>3, <2>4 DEF Alone
<1>3. CASE Begins
  <2>1. PICK op \in Operations \ (Guarded \cup {"release"}), s \in Slots, u \in Task :
           tasks[s] = Idle /\ u.op = op /\ Moves(s, u)
    BY <1>3 DEF Begins, Spawned
  <2>2. Writing' = Writing
    BY <2>1, BeginsWrites DEF Writes
  <2>3. Releases' = Releases /\ opBusy' = opBusy
    BY <1>3 DEF Begins, Releases, busy
  <2>4. QED
    BY <2>2, <2>3 DEF Alone
<1>4. ASSUME NEW s \in Slots, Kinds(s) PROVE Alone'
  <2>0. opBusy' = opBusy
    BY <1>4 DEF Kinds, Beside, busy
  <2>1. CASE UNCHANGED ui /\ (Tells(s) \/ Goes(s) \/ Stops(s))
    <3>1. Writing' = Writing /\ Releases' = Releases
      BY <2>1, WritesStay DEF Releases
    <3>2. QED
      BY <2>0, <3>1 DEF Alone
  <2>2. CASE Sends(s) /\ tasks[s].op # "release"
    <3>1. Writing' = Writing
      BY <2>2, WritesStay
    <3>2. tasks[s].out \in Event /\ tasks[s].out.ev # "opBusy" /\ ui' = Append(ui, tasks[s].out)
      <4>1. tasks[s] \in Task /\ tasks[s].out # None
        BY <2>2 DEF Sends
      <4>2. tasks[s].out \in Says(StepOf(s))
        BY <2>2, <4>1, TaskFacts DEF StepOf
      <4>3. QED
        BY <2>2, <4>2, SaysFacts DEF Sends
    <3>3. Releases' = Releases
      BY <3>2, ReleasesAppend
    <3>4. QED
      BY <2>0, <3>1, <3>3 DEF Alone
  <2>3. CASE Sends(s) /\ tasks[s].op = "release"
    <3>1. tasks[s] \in Task /\ tasks[s].out = [ev |-> "opBusy"]
      BY <2>3, TaskFacts DEF Sends
    <3>2. tasks[s].out \in Event /\ tasks[s].out.ev = "opBusy"
      BY <3>1, TaskFacts
    <3>3. s \in Writing
      BY <2>3, WritingIs DEF Writes
    <3>4. Writing = {s} /\ Releases = {} /\ opBusy
      BY <3>3 DEF Alone
    <3>5. Writing' = {}
      <4>1. tasks'[s] = Idle /\ \A r \in Slots \ {s} : tasks'[r] = tasks[r]
        BY <2>3, <3>1, OnWithFacts DEF Sends
      <4>2. \A r \in Slots \ {s} : tasks[r].op \notin Writes
        BY <3>4, WritingIs
      <4>3. QED
        BY <4>1, <4>2, IdleWritesNot DEF Writing, Writes
    <3>6. Releases' = {Len(ui) + 1}
      BY <2>3, <3>2, <3>4, ReleasesAppend DEF Sends
    <3>7. QED
      BY <2>0, <3>4, <3>5, <3>6 DEF Alone
  <2>4. QED
    BY <1>4, <2>1, <2>2, <2>3 DEF Kinds
<1>5. CASE ApplyUi
  <2>1. ui # <<>> /\ ui' = Tail(ui) /\ opBusy' = (opBusy /\ Head(ui).ev # "opBusy")
    BY <1>5 DEF ApplyUi
  <2>2. Writing' = Writing
    BY <1>5 DEF ApplyUi, Writing
  <2>3. CASE Head(ui).ev = "opBusy"
    <3>1. 1 \in Releases
      BY <2>1, <2>3, ReleasesTail
    <3>2. Writing = {} /\ \A i \in Releases : i = 1
      BY <3>1 DEF Alone
    <3>3. Len(ui) \in Nat /\ Releases' = {i \in 1..Len(ui) - 1 : i + 1 \in Releases}
      BY <2>1, ReleasesTail
    <3>4. \A i \in 1..Len(ui) - 1 : i + 1 \notin Releases
      BY <3>2, <3>3
    <3>5. Releases' = {} /\ opBusy' = FALSE
      BY <2>1, <2>3, <3>3, <3>4
    <3>6. QED
      BY <2>2, <3>2, <3>5 DEF Alone
  <2>4. CASE Head(ui).ev # "opBusy"
    <3>1. /\ 1 \notin Releases /\ Releases \subseteq 1..Len(ui) /\ Len(ui) \in Nat
          /\ Releases' = {i \in 1..Len(ui) - 1 : i + 1 \in Releases}
      BY <2>1, <2>4, ReleasesTail
    <3>2. opBusy' = opBusy
      BY <2>1, <2>4 DEF Types
    <3>3. \A i \in Releases : i \in Nat /\ i - 1 \in Releases'
      BY <3>1
    <3>4. \A i, j \in Releases' : i = j
      BY <3>1 DEF Alone
    <3>5. Releases' = {} <=> Releases = {}
      BY <3>1, <3>3
    <3>6. QED
      BY <2>2, <3>2, <3>4, <3>5 DEF Alone
  <2>5. QED
    BY <2>3, <2>4
<1>6. QED
  BY <1>1, <1>2, <1>3, <1>4, <1>5 DEF Reaction

LEMMA AloneInit == Init => Alone
<1> SUFFICES ASSUME Init PROVE Alone
  OBVIOUS
<1>1. \A s \in Slots : tasks[s].op \in {"kernelRefresh", "idle"}
  BY DEF Init, Start, Idle
<1>2. Writing = {}
  BY <1>1 DEF Writing, Guarded
<1>3. Releases = {} /\ opBusy = FALSE
  <2>1. ui = <<>> /\ opBusy = FALSE
    BY DEF Init
  <2>2. DOMAIN ui = {}
    BY <2>1
  <2>3. QED
    BY <2>1, <2>2 DEF Releases
<1>4. QED
  BY <1>2, <1>3 DEF Alone

(* One write at a time: op_busy is up exactly while one write, or the        *)
(* message that it is over, is under way, for any number of tasks, any       *)
(* capacity of the channel, and whatever fails on the way.                   *)
THEOREM OneWriteAtATimeCorrect == Spec => []OneWriteAtATime
<1>1. Init => OneWriteAtATime
  BY AloneInit DEF OneWriteAtATime, Alone
<1>2. Types /\ OneWriteAtATime /\ [Next]_vars => OneWriteAtATime'
  BY StepIs, AloneKept DEF OneWriteAtATime, Alone
<1>3. QED
  BY <1>1, <1>2, TypesInit, TypesNext, PTL DEF Spec

-----------------------------------------------------------------------------
(* The marks of the kernel page and of the nginx page.  The last thing said  *)
(* of a mark, in the channel or on the screen, is what will be shown: if it  *)
(* is that the mark is up, some task has yet to take it down.                *)

MarkUp(ev) == IF ev = "kernelBusy" THEN kernelBusy ELSE nginxBusy
StaysUp(ev) ==
  \/ MarkUp(ev) /\ \A i \in DOMAIN ui : ui[i].ev # ev
  \/ \E i \in DOMAIN ui : /\ ui[i].ev = ev /\ ui[i].to = TRUE
                          /\ \A k \in DOMAIN ui : k > i => ui[k].ev # ev
WillFree(t, ev) ==
  t # Idle /\ \E k \in t.pc..Len(ScriptOf[t.op]) : ScriptOf[t.op][k] = Free(ev)
Answered(ev) == StaysUp(ev) => \E s \in Slots : WillFree(tasks[s], ev)

\* A task that has a mark to take down still has it after its step, unless
\* it sends exactly that.
LEMMA StillFrees ==
  ASSUME Types, NEW s \in Slots, NEW ev \in MarkEvents, WillFree(tasks[s], ev),
         \/ Tells(s) \/ Goes(s) \/ Stops(s)
         \/ Sends(s) /\ tasks[s].out.ev # ev
  PROVE  WillFree(tasks'[s], ev)
<1> DEFINE t == tasks[s]
<1>1. t \in Task
  BY DEF Tells, Goes, Stops, Ready, Sends
<1>2. /\ t.op \in Operations /\ t.pc \in Nat /\ t.pc \in 1..Len(ScriptOf[t.op])
      /\ ScriptOk(t.op, ScriptOf[t.op]) /\ Len(ScriptOf[t.op]) \in Nat
  BY <1>1, TaskFacts, ScriptFacts DEF ScriptOk
<1>3. PICK k \in t.pc..Len(ScriptOf[t.op]) : ScriptOf[t.op][k] = Free(ev)
  BY DEF WillFree
<1>4. CASE Tells(s)
  <2>1. PICK e : tasks'[s] = [t EXCEPT !.out = e]
    BY <1>4 DEF Tells, Moves
  <2>2. tasks'[s].op = t.op /\ tasks'[s].pc = t.pc
    BY <1>1, <2>1 DEF Task
  <2>3. tasks'[s] # Idle
    BY <1>2, <2>2, OperationsAre DEF Idle, UserWrites, NodeWrites, Others
  <2>4. QED
    BY <1>3, <2>2, <2>3 DEF WillFree
<1>5. CASE Stops(s)
  <2>1. ScriptOf[t.op][t.pc] \in FailSteps
    BY <1>5 DEF Stops, StepOf
  <2>2. k \in 1..Len(ScriptOf[t.op])
    BY <1>2, <1>3
  <2>3. QED
    BY <1>2, <1>3, <2>1, <2>2 DEF ScriptOk
<1>6. CASE OnWith(s) /\ k # t.pc
  <2>1. t.pc < Len(ScriptOf[t.op]) /\ k \in t.pc + 1..Len(ScriptOf[t.op])
    BY <1>2, <1>3, <1>6
  <2>2. tasks'[s] \in Task /\ tasks'[s].op = t.op /\ tasks'[s].pc = t.pc + 1
    BY <1>1, <1>6, <2>1, OnWithFacts
  <2>3. tasks'[s] # Idle
    BY <2>2, TaskFacts
  <2>4. QED
    BY <1>3, <2>1, <2>2, <2>3 DEF WillFree
<1>7. CASE Goes(s)
  <2>1. k # t.pc
    BY <1>3, <1>7 DEF Goes, StepOf, Free
  <2>2. QED
    BY <1>6, <1>7, <2>1 DEF Goes
<1>8. CASE Sends(s) /\ t.out.ev # ev
  <2>1. k # t.pc
    <3>1. SUFFICES ASSUME k = t.pc PROVE FALSE
      OBVIOUS
    <3>2. StepOf(s) = Free(ev)
      BY <1>3, <3>1 DEF StepOf
    <3>3. t.op # "release"
      <4>1. SUFFICES ASSUME t.op = "release" PROVE FALSE
        OBVIOUS
      <4>2. ScriptOf[t.op] = <<"apply">>
        BY <4>1, ScriptsAre
      <4>3. t.pc = 1
        BY <1>2, <4>1, ReleaseScript
      <4>4. ScriptOf[t.op][t.pc] = "apply"
        BY <4>2, <4>3
      <4>5. QED
        BY <3>2, <4>4 DEF StepOf, Free
    <3>4. t.out \in Says(Free(ev))
      BY <1>1, <1>8, <3>2, <3>3, TaskFacts DEF Sends, StepOf
    <3>5. t.out.ev = ev
      BY <3>4 DEF Says, Free, MarkEvents
    <3>6. QED
      BY <1>8, <3>5
  <2>2. QED
    BY <1>6, <1>8, <2>1 DEF Sends
<1>9. QED
  BY <1>4, <1>5, <1>7, <1>8

LEMMA StaysUpAppend ==
  ASSUME Types, NEW ev \in MarkEvents, NEW e \in Event, ui' = Append(ui, e),
         UNCHANGED <<kernelBusy, nginxBusy>>, StaysUp(ev)'
  PROVE  IF e.ev = ev THEN e.to = TRUE ELSE StaysUp(ev)
<1>1. /\ Len(ui) \in Nat /\ DOMAIN ui = 1..Len(ui) /\ DOMAIN ui' = 1..Len(ui) + 1
      /\ ui'[Len(ui) + 1] = e /\ \A i \in 1..Len(ui) : ui'[i] = ui[i]
  BY DEF Types
<1>2. MarkUp(ev)' = MarkUp(ev)
  BY DEF MarkUp
<1>3. CASE MarkUp(ev)' /\ \A i \in DOMAIN ui' : ui'[i].ev # ev
  BY <1>1, <1>2, <1>3 DEF StaysUp
<1>4. CASE \E i \in DOMAIN ui' : /\ ui'[i].ev = ev /\ ui'[i].to = TRUE
                                 /\ \A k \in DOMAIN ui' : k > i => ui'[k].ev # ev
  <2>1. PICK i \in DOMAIN ui' : /\ ui'[i].ev = ev /\ ui'[i].to = TRUE
                                /\ \A k \in DOMAIN ui' : k > i => ui'[k].ev # ev
    BY <1>4
  <2>2. CASE i = Len(ui) + 1
    BY <1>1, <2>1, <2>2
  <2>3. CASE i # Len(ui) + 1
    <3>1. i \in DOMAIN ui /\ e.ev # ev
      BY <1>1, <2>1, <2>3
    <3>2. ui[i].ev = ev /\ ui[i].to = TRUE /\ \A k \in DOMAIN ui : k > i => ui[k].ev # ev
      BY <1>1, <2>1, <3>1
    <3>3. QED
      BY <3>1, <3>2 DEF StaysUp
  <2>4. QED
    BY <2>2, <2>3
<1>5. QED
  BY <1>3, <1>4 DEF StaysUp

LEMMA StaysUpTail ==
  ASSUME Types, NEW ev \in MarkEvents, ApplyUi, StaysUp(ev)'
  PROVE  StaysUp(ev)
<1>1. /\ ui # <<>> /\ ui' = Tail(ui)
      /\ kernelBusy' = IF Head(ui).ev = "kernelBusy" THEN Head(ui).to ELSE kernelBusy
      /\ nginxBusy' = IF Head(ui).ev = "nginxBusy" THEN Head(ui).to ELSE nginxBusy
  BY DEF ApplyUi
<1>2. /\ Len(ui) \in Nat /\ DOMAIN ui = 1..Len(ui) /\ Len(ui) > 0
      /\ DOMAIN ui' = 1..Len(ui) - 1 /\ \A i \in 1..Len(ui) - 1 : ui'[i] = ui[i + 1]
      /\ Head(ui) = ui[1] /\ ui[1] \in Event
  BY <1>1 DEF Types
<1>3. MarkUp(ev)' = IF ui[1].ev = ev THEN ui[1].to ELSE MarkUp(ev)
  BY <1>1, <1>2 DEF MarkUp, MarkEvents
<1>4. CASE MarkUp(ev)' /\ \A i \in DOMAIN ui' : ui'[i].ev # ev
  <2>1. \A k \in DOMAIN ui : k > 1 => ui[k].ev # ev
    <3>1. SUFFICES ASSUME NEW k \in DOMAIN ui, k > 1 PROVE ui[k].ev # ev
      OBVIOUS
    <3>2. k - 1 \in 1..Len(ui) - 1 /\ ui'[k - 1] = ui[k]
      BY <1>2, <3>1
    <3>3. QED
      BY <1>2, <1>4, <3>2
  <2>2. CASE ui[1].ev = ev
    <3>1. ui[1].to \in BOOLEAN
      BY <1>2, <2>2 DEF MarkEvents, Event, UsersEvent, PlainEvents, None
    <3>2. ui[1].to = TRUE
      BY <1>3, <1>4, <2>2, <3>1
    <3>3. QED
      BY <1>2, <2>1, <2>2, <3>2 DEF StaysUp
  <2>3. CASE ui[1].ev # ev
    <3>1. MarkUp(ev)
      BY <1>3, <1>4, <2>3
    <3>2. \A k \in DOMAIN ui : ui[k].ev # ev
      BY <1>2, <2>1, <2>3
    <3>3. QED
      BY <3>1, <3>2 DEF StaysUp
  <2>4. QED
    BY <2>2, <2>3
<1>5. CASE \E i \in DOMAIN ui' : /\ ui'[i].ev = ev /\ ui'[i].to = TRUE
                                 /\ \A k \in DOMAIN ui' : k > i => ui'[k].ev # ev
  <2>1. PICK i \in DOMAIN ui' : /\ ui'[i].ev = ev /\ ui'[i].to = TRUE
                                /\ \A k \in DOMAIN ui' : k > i => ui'[k].ev # ev
    BY <1>5
  <2>2. i + 1 \in DOMAIN ui /\ ui[i + 1].ev = ev /\ ui[i + 1].to = TRUE
    BY <1>2, <2>1
  <2>3. \A k \in DOMAIN ui : k > i + 1 => ui[k].ev # ev
    <3>1. SUFFICES ASSUME NEW k \in DOMAIN ui, k > i + 1 PROVE ui[k].ev # ev
      OBVIOUS
    <3>2. k - 1 \in 1..Len(ui) - 1 /\ k - 1 > i /\ ui'[k - 1] = ui[k]
      BY <1>2, <2>1, <3>1
    <3>3. QED
      BY <1>2, <2>1, <3>2
  <2>4. QED
    BY <2>2, <2>3 DEF StaysUp
<1>6. QED
  BY <1>4, <1>5 DEF StaysUp

\* Nothing new of the mark, and whoever had it to take down still has it.
LEMMA AnsweredStays ==
  ASSUME NEW ev \in MarkEvents, Answered(ev), StaysUp(ev)' => StaysUp(ev),
         \A r \in Slots : WillFree(tasks[r], ev) => WillFree(tasks'[r], ev)
  PROVE  Answered(ev)'
  BY DEF Answered, WillFree

LEMMA AnsweredKept ==
  ASSUME Types, NEW ev \in MarkEvents, Answered(ev), Reaction
  PROVE  Answered(ev)'
<1>1. CASE UNCHANGED <<tasks, ui, busy>>
  <2>1. StaysUp(ev)' => StaysUp(ev)
    BY <1>1 DEF StaysUp, MarkUp, busy
  <2>2. QED
    BY <1>1, <2>1, AnsweredStays
<1>2. ASSUME UNCHANGED <<ui, kernelBusy, nginxBusy>>, NEW op, Spawned(op) PROVE Answered(ev)'
  <2>1. StaysUp(ev)' => StaysUp(ev)
    BY <1>2 DEF StaysUp, MarkUp
  <2>2. \A r \in Slots : WillFree(tasks[r], ev) => WillFree(tasks'[r], ev)
    <3>1. PICK s \in Slots : tasks[s] = Idle /\ \A r \in Slots \ {s} : tasks'[r] = tasks[r]
      BY <1>2 DEF Spawned, Moves
    <3>2. ~WillFree(tasks[s], ev)
      BY <3>1 DEF WillFree
    <3>3. QED
      BY <3>1, <3>2
  <2>3. QED
    BY <2>1, <2>2, AnsweredStays
<1>3. ASSUME NEW s \in Slots, Kinds(s) PROVE Answered(ev)'
  <2>1. UNCHANGED <<kernelBusy, nginxBusy>>
    BY <1>3 DEF Kinds, Beside, busy
  <2>2. \A r \in Slots \ {s} : tasks'[r] = tasks[r]
    BY <1>3, OnWithFacts DEF Kinds, Sends, Tells, Goes, Stops, Ready, Moves
  <2>3. CASE UNCHANGED ui /\ (Tells(s) \/ Goes(s) \/ Stops(s))
    <3>1. StaysUp(ev)' => StaysUp(ev)
      BY <2>1, <2>3 DEF StaysUp, MarkUp
    <3>2. QED
      BY <2>2, <2>3, <3>1, StillFrees, AnsweredStays
  <2>4. CASE Sends(s) /\ tasks[s].out.ev # ev
    <3>1. tasks[s].out \in Event /\ ui' = Append(ui, tasks[s].out)
      BY <2>4, TaskFacts DEF Sends
    <3>2. StaysUp(ev)' => StaysUp(ev)
      BY <2>1, <2>4, <3>1, StaysUpAppend
    <3>3. QED
      BY <2>2, <2>4, <3>2, StillFrees, AnsweredStays
  <2>5. CASE Sends(s) /\ tasks[s].out.ev = ev
    <3>1. tasks[s].out \in Event /\ ui' = Append(ui, tasks[s].out) /\ tasks[s] \in Task
          /\ tasks[s].out # None
      BY <2>5, TaskFacts DEF Sends
    <3>2. tasks[s].op # "release"
      BY <2>5, <3>1, TaskFacts DEF MarkEvents
    <3>3. tasks[s].out \in Says(StepOf(s))
      BY <3>1, <3>2, TaskFacts DEF StepOf
    <3>4. \/ StepOf(s) = Taken(ev) /\ tasks[s].out = [ev |-> ev, to |-> TRUE]
          \/ StepOf(s) = Free(ev) /\ tasks[s].out = [ev |-> ev, to |-> FALSE]
      BY <2>5, <3>3, SaysFacts
    <3>5. CASE StepOf(s) = Taken(ev)
      <4>1. PICK k \in 1..Len(ScriptOf[tasks[s].op]) :
               tasks[s].pc < k /\ ScriptOf[tasks[s].op][k] = Free(ev)
        BY <3>1, <3>5, TaskFacts, ScriptFacts DEF ScriptOk, StepOf
      <4>2. tasks[s].pc \in Nat /\ Len(ScriptOf[tasks[s].op]) \in Nat
        BY <3>1, TaskFacts, ScriptFacts DEF ScriptOk
      <4>3. tasks[s].pc < Len(ScriptOf[tasks[s].op])
            /\ k \in tasks[s].pc + 1..Len(ScriptOf[tasks[s].op])
        BY <4>1, <4>2
      <4>4. /\ tasks'[s] \in Task /\ tasks'[s].op = tasks[s].op
            /\ tasks'[s].pc = tasks[s].pc + 1
        BY <2>5, <3>1, <4>3, OnWithFacts DEF Sends
      <4>5. tasks'[s] # Idle
        BY <4>4, TaskFacts
      <4>6. WillFree(tasks'[s], ev)
        BY <4>1, <4>3, <4>4, <4>5 DEF WillFree
      <4>7. QED
        BY <4>6 DEF Answered, WillFree
    <3>6. CASE tasks[s].out = [ev |-> ev, to |-> FALSE]
      <4>1. tasks[s].out.to = FALSE
        BY <3>6
      <4>2. ~StaysUp(ev)'
        BY <2>1, <2>5, <3>1, <4>1, StaysUpAppend
      <4>3. QED
        BY <4>2 DEF Answered
    <3>7. QED
      BY <3>4, <3>5, <3>6
  <2>6. QED
    BY <1>3, <2>3, <2>4, <2>5 DEF Kinds
<1>4. CASE ApplyUi
  <2>1. tasks' = tasks
    BY <1>4 DEF ApplyUi
  <2>2. StaysUp(ev)' => StaysUp(ev)
    BY <1>4, StaysUpTail
  <2>3. QED
    BY <2>1, <2>2, AnsweredStays
<1>5. QED
  BY <1>1, <1>2, <1>3, <1>4 DEF Reaction, Claims, Begins, busy

AllAnswered == loop # "quit" => \A ev \in MarkEvents : Answered(ev)

LEMMA AllAnsweredInit == Init => AllAnswered
<1> SUFFICES ASSUME Init PROVE \A ev \in MarkEvents : ~StaysUp(ev)
  BY DEF AllAnswered, Answered
<1>1. ui = <<>> /\ kernelBusy = FALSE /\ nginxBusy = FALSE
  BY DEF Init
<1>2. DOMAIN ui = {}
  BY <1>1
<1>3. QED
  BY <1>1, <1>2 DEF StaysUp, MarkUp

(* No phantom: when no task is left and both channels are empty, none of the *)
(* three marks is up, however the operations overlapped, failed or ended.    *)
THEOREM NoPhantomBusyCorrect == Spec => []NoPhantomBusy
<1>1. Types /\ AllAnswered /\ [Next]_vars => AllAnswered'
  BY StepIs, AnsweredKept DEF AllAnswered
<1>2. Types /\ OneWriteAtATime /\ AllAnswered => NoPhantomBusy
  <2> SUFFICES ASSUME Types, OneWriteAtATime, AllAnswered, Quiet
               PROVE  ~opBusy /\ ~kernelBusy /\ ~nginxBusy
    BY DEF NoPhantomBusy
  <2>1. loop # "quit" /\ ui = <<>> /\ \A s \in Slots : tasks[s] = Idle
    BY DEF Quiet, Live
  <2>2. DOMAIN ui = {}
    BY <2>1
  <2>3. Writing = {} /\ Releases = {}
    BY <2>1, <2>2, IdleWritesNot, WritingIs DEF Releases, Writing
  <2>4. ~opBusy
    BY <2>1, <2>3 DEF OneWriteAtATime
  <2>5. \A ev \in MarkEvents : ~StaysUp(ev)
    BY <2>1 DEF AllAnswered, Answered, WillFree
  <2>6. \A ev \in MarkEvents : ~MarkUp(ev)
    BY <2>2, <2>5 DEF StaysUp
  <2>7. MarkUp("kernelBusy") = kernelBusy /\ MarkUp("nginxBusy") = nginxBusy
    BY DEF MarkUp
  <2>8. QED
    BY <2>4, <2>6, <2>7 DEF MarkEvents
<1>3. QED
  BY <1>1, <1>2, AllAnsweredInit, TypesInit, TypesNext, OneWriteAtATimeCorrect, PTL DEF Spec
=============================================================================
