----------------------- MODULE TelegramBindingProofs -----------------------
(***************************************************************************)
(* What bindings and notification settings promise when several updates    *)
(* are handled at once, for any number of users, chats, tasks and codes.   *)
(***************************************************************************)
EXTENDS TelegramBinding, FiniteSetTheorems, TLAPS

-----------------------------------------------------------------------------
(* The jobs of a task.                                                       *)

BindJob == [cmd : {"bind"}, pc : {"clear", "set", "consume", "notice"}, chat : Chats,
            user : Users, code : 1..MaxCodes, former : Chats \cup {NoChat}]
SettingJob == [cmd : {"flip"}, pc : {"write"}, chat : Chats,
               who : Users \cup Admins, row : Row, what : {"quota", "schedule"}]
              \cup [cmd : {"answer"}, pc : {"write", "remove"}, chat : Chats,
                    who : Users \cup Admins, row : Row, what : {"times"}]

\* A task at a step of a binding is a binding, one that writes is a setting.
LEMMA JobKinds ==
  ASSUME task \in [Tasks -> Job], NEW t \in Tasks
  PROVE  /\ task[t] = Idle \/ task[t] \in BindJob \/ task[t] \in SettingJob
         /\ Binds(t) <=> task[t] \in BindJob
         /\ Binds(t) => task[t] # Idle
         /\ \A pc \in {"clear", "set", "consume", "notice"} : At(t, pc) => Binds(t)
         /\ \A pc \in {"write", "remove"} : At(t, pc) => task[t] \in SettingJob
<1>1. task[t] = Idle \/ task[t] \in BindJob \/ task[t] \in SettingJob
  BY DEF Job, BindJob, SettingJob
<1>2. CASE task[t] = Idle
  BY <1>2 DEF Idle, Binds, At, BindJob
<1>3. CASE task[t] \in BindJob
  BY <1>3 DEF Idle, Binds, At, BindJob
<1>4. CASE task[t] \in SettingJob
  BY <1>4 DEF Idle, Binds, At, BindJob, SettingJob
<1>5. QED
  BY <1>1, <1>2, <1>3, <1>4

LEMMA JobsAreJobs == BindJob \subseteq Job /\ SettingJob \subseteq Job /\ Idle \in Job
  BY DEF Job, BindJob, SettingJob

\* What Go and End do to the tasks.
LEMMA GoBind ==
  ASSUME task \in [Tasks -> Job], NEW t \in Tasks, task[t] \in BindJob,
         NEW pc \in {"clear", "set", "consume", "notice"}, Go(t, pc)
  PROVE  /\ task' \in [Tasks -> Job]
         /\ task'[t] = [cmd |-> "bind", pc |-> pc, chat |-> task[t].chat,
                        user |-> task[t].user, code |-> task[t].code, former |-> task[t].former]
         /\ task'[t] \in BindJob
         /\ \A w \in Tasks \ {t} : task'[w] = task[w]
<1>1. task[t] = [cmd |-> "bind", pc |-> task[t].pc, chat |-> task[t].chat,
                 user |-> task[t].user, code |-> task[t].code, former |-> task[t].former]
  BY DEF BindJob
<1>2. [task[t] EXCEPT !.pc = pc] = [cmd |-> "bind", pc |-> pc, chat |-> task[t].chat,
                                    user |-> task[t].user, code |-> task[t].code, former |-> task[t].former]
  BY <1>1
<1>3. task' = [task EXCEPT ![t] = [task[t] EXCEPT !.pc = pc]]
  BY DEF Go
<1>4. /\ task[t].chat \in Chats /\ task[t].user \in Users /\ task[t].code \in 1..MaxCodes
      /\ task[t].former \in Chats \cup {NoChat}
  BY DEF BindJob
<1>5. [task[t] EXCEPT !.pc = pc] \in BindJob
  BY <1>2, <1>4 DEF BindJob
<1>6. QED
  BY <1>2, <1>3, <1>5, JobsAreJobs

LEMMA GoSetting ==
  ASSUME task \in [Tasks -> Job], NEW t \in Tasks, task[t] \in SettingJob,
         task[t].cmd = "answer", Go(t, "remove")
  PROVE  /\ task' \in [Tasks -> Job]
         /\ task'[t] \in SettingJob /\ task'[t].pc = "remove"
         /\ \A w \in Tasks \ {t} : task'[w] = task[w]
<1>1. [task[t] EXCEPT !.pc = "remove"] \in SettingJob /\ [task[t] EXCEPT !.pc = "remove"].pc = "remove"
  BY DEF SettingJob
<1>2. task' = [task EXCEPT ![t] = [task[t] EXCEPT !.pc = "remove"]]
  BY DEF Go
<1>3. QED
  BY <1>1, <1>2, JobsAreJobs

LEMMA EndTask ==
  ASSUME task \in [Tasks -> Job], NEW t \in Tasks, End(t)
  PROVE  /\ task' \in [Tasks -> Job] /\ task'[t] = Idle
         /\ \A w \in Tasks \ {t} : task'[w] = task[w]
  BY JobsAreJobs DEF End

LEMMA NewTask ==
  ASSUME task \in [Tasks -> Job], NEW t \in Tasks, NEW job \in Job,
         task' = [task EXCEPT ![t] = job]
  PROVE  /\ task' \in [Tasks -> Job] /\ task'[t] = job
         /\ \A w \in Tasks \ {t} : task'[w] = task[w]
  OBVIOUS

-----------------------------------------------------------------------------
(* Types.                                                                    *)

LEMMA TypeInit == Init => TypeOK
<1> SUFFICES ASSUME Init PROVE TypeOK
  OBVIOUS
<1>1. Cardinality(Users) \in 0..MaxCodes /\ MaxUpdates \in Nat /\ MaxStarts \in Nat /\ MaxFaults \in Nat
  BY BindingAssumption, FS_CardinalityType
<1>2. made \in 0..MaxCodes /\ code \in [Users -> 0..made]
  BY <1>1 DEF Init
<1>3. [quota |-> TRUE, schedule |-> TRUE, times |-> "default"] \in Row
  BY DEF Row
<1>4. settings \in [Users \cup Admins -> Row] /\ wanted \in [Users \cup Admins -> Row]
  BY <1>3 DEF Init
<1>5. task \in [Tasks -> Job]
  BY JobsAreJobs DEF Init
<1>6. QED
  BY <1>1, <1>2, <1>4, <1>5 DEF Init, TypeOK

\* What a setting asks for is a row, when a job sets what it is for.
LEMMA WantedRow ==
  ASSUME NEW row \in Row, NEW job \in SettingJob
  PROVE  [row EXCEPT ![job.what] = IF job.cmd = "flip" THEN ~@ ELSE job.row.times] \in Row
<1>1. CASE job.cmd = "flip"
  <2>1. job.what \in {"quota", "schedule"} /\ job.what \in {"quota", "schedule", "times"}
    BY <1>1 DEF SettingJob
  <2>2. row[job.what] \in BOOLEAN
    BY <2>1 DEF Row
  <2>3. QED
    BY <1>1, <2>1, <2>2 DEF Row
<1>2. CASE job.cmd = "answer"
  <2>1. job.what = "times" /\ job.row.times \in {"own", "default"}
    BY <1>2 DEF SettingJob, Row
  <2>2. QED
    BY <1>2, <2>1 DEF Row
<1>3. QED
  BY <1>1, <1>2 DEF SettingJob

\* A code that is one, and those that an ended binding leaves.
LEMMA CodeNumbers ==
  ASSUME TypeOK
  PROVE  /\ \A u \in Users : code[u] # NoCode => code[u] \in 1..MaxCodes
         /\ \A t \in Tasks : Unspent(t) \subseteq 1..MaxCodes
<1>1. \A u \in Users : code[u] # NoCode => code[u] \in 1..MaxCodes
  <2>1. made \in Nat /\ MaxCodes \in Nat /\ made <= MaxCodes
    BY BindingAssumption DEF TypeOK
  <2>2. ASSUME NEW u \in Users, code[u] # NoCode PROVE code[u] \in 1..MaxCodes
    <3>1. code[u] \in 0..made
      BY DEF TypeOK
    <3>2. QED
      BY <2>1, <2>2, <3>1 DEF NoCode
  <2>3. QED
    BY <2>2
<1>2. ASSUME NEW t \in Tasks, Binds(t) PROVE Unspent(t) \subseteq 1..MaxCodes
  <2>1. task[t].user \in Users /\ task[t].code \in 1..MaxCodes
    BY <1>2, JobKinds DEF TypeOK, BindJob
  <2>2. QED
    BY <1>1, <2>1 DEF Unspent
<1>3. QED
  BY <1>1, <1>2 DEF Unspent

LEMMA TypeNext == TypeOK /\ [Next]_vars => TypeOK'
<1> SUFFICES ASSUME TypeOK, [Next]_vars PROVE TypeOK'
  OBVIOUS
<1>0. /\ MaxCodes \in Nat /\ MaxUpdates \in Nat /\ MaxStarts \in Nat /\ MaxFaults \in Nat
      /\ Admins \subseteq Chats /\ NoChat \notin Chats /\ task \in [Tasks -> Job]
  BY BindingAssumption DEF TypeOK
<1> USE <1>0 DEF bounds, history, codes
<1>1. ASSUME NEW t \in Tasks, BeginBind(t) PROVE TypeOK'
  <2>1. PICK c \in Chats, u \in Users :
          /\ task' = [task EXCEPT ![t] = [cmd |-> "bind", pc |-> "clear", chat |-> c, user |-> u,
                                          code |-> code[u], former |-> chat[u]]]
          /\ pending' = [pending EXCEPT ![c] = NoUser]
          /\ crossed' = crossed \cup {x \in {u} : Handled(u)} \cup {x \in {c} : Binding(c)}
          /\ code[u] # NoCode
          /\ stray' = stray \cup {k \in {code[u]} : \E p \in Tasks : Holds(p, k)}
    BY <1>1 DEF BeginBind
  <2>0. code[u] \in 1..MaxCodes
    BY <2>1, CodeNumbers
  <2>2. [cmd |-> "bind", pc |-> "clear", chat |-> c, user |-> u, code |-> code[u],
         former |-> chat[u]] \in Job
    BY <2>0 DEF TypeOK, Job
  <2>3. task' \in [Tasks -> Job]
    BY <2>1, <2>2, NewTask
  <2>4. pending' \in [Chats -> Users \cup Admins \cup {NoUser}] /\ crossed' \subseteq Users \cup Chats
        /\ stray' \subseteq 1..MaxCodes
    BY <2>0, <2>1 DEF TypeOK
  <2>5. QED
    BY <1>1, <2>3, <2>4 DEF BeginBind, Update, TypeOK
<1>2. ASSUME NEW t \in Tasks, ClearChat(t) PROVE TypeOK'
  <2>1. task' \in [Tasks -> Job]
    BY <1>2, JobKinds, GoBind DEF ClearChat
  <2>2. chat' \in [Users -> Chats \cup {NoChat}]
    BY <1>2 DEF ClearChat, TypeOK
  <2>3. QED
    BY <1>2, <2>1, <2>2 DEF ClearChat, TypeOK
<1>3. ASSUME NEW t \in Tasks, SetBinding(t) PROVE TypeOK'
  <2>1. task[t] \in BindJob
    BY <1>3, JobKinds DEF SetBinding
  <2>2. task' \in [Tasks -> Job]
    BY <1>3, <2>1, GoBind DEF SetBinding
  <2>3. task[t].user \in Users /\ task[t].chat \in Chats /\ task[t].code \in 1..MaxCodes
    BY <2>1 DEF BindJob
  <2>6. used' \subseteq (1..MaxCodes) \X Chats /\ late' \subseteq Users
    BY <1>3, <2>3 DEF SetBinding, TypeOK
  <2>4. chat' \in [Users -> Chats \cup {NoChat}] /\ moved' \subseteq Users \X Chats
    BY <1>3, <2>3 DEF SetBinding, TypeOK
  <2>5. QED
    BY <1>3, <2>2, <2>4, <2>6 DEF SetBinding, TypeOK
<1>4. ASSUME NEW t \in Tasks, Consume(t) PROVE TypeOK'
  <2>1. task[t] \in BindJob
    BY <1>4, JobKinds DEF Consume
  <2>2. task' \in [Tasks -> Job]
    BY <1>4, <2>1, GoBind, EndTask DEF Consume
  <2>3. code' \in [Users -> 0..made]
    <3>1. code \in [Users -> 0..made] /\ made \in Nat /\ 0 \in 0..made
      BY DEF TypeOK
    <3>2. code' = [code EXCEPT ![task[t].user] = 0]
      BY <1>4 DEF Consume, Spent, NoCode
    <3>3. QED
      BY <3>1, <3>2
  <2>4. QED
    BY <1>4, <2>2, <2>3 DEF Consume, TypeOK
<1>5. ASSUME NEW t \in Tasks, Notify(t) PROVE TypeOK'
  <2>1. task' \in [Tasks -> Job]
    BY <1>5, EndTask DEF Notify
  <2>2. QED
    BY <1>5, <2>1 DEF Notify, TypeOK
<1>6. ASSUME NEW t \in Tasks, TaskEnds(t) PROVE TypeOK'
  <2>1. task' \in [Tasks -> Job]
    BY <1>6, EndTask DEF TaskEnds
  <2>2. cut' \subseteq Users /\ stray' \subseteq 1..MaxCodes
    <3>1. cut' \subseteq Users
      BY <1>6, JobKinds DEF TaskEnds, TypeOK, BindJob
    <3>2. stray' \subseteq 1..MaxCodes
      BY <1>6, CodeNumbers DEF TaskEnds, TypeOK
    <3>3. QED
      BY <3>1, <3>2
  <2>3. QED
    BY <1>6, <2>1, <2>2 DEF TaskEnds, Fault, TypeOK
<1>7. ASSUME NEW t \in Tasks, NEW job \in SettingJob, BeginSetting(t, job) PROVE TypeOK'
  <2>1. task' \in [Tasks -> Job]
    BY <1>7, JobsAreJobs, NewTask DEF BeginSetting
  <2>2. muddled' \subseteq Users \cup Admins
    BY <1>7 DEF BeginSetting, SettingJob, TypeOK
  <2>3. QED
    BY <1>7, <2>1, <2>2 DEF BeginSetting, Update, TypeOK
<1>8. ASSUME NEW t \in Tasks, Flip(t) PROVE TypeOK'
  <2>1. PICK c \in Chats, k \in {"quota", "schedule"}, s \in Users \cup Admins :
          BeginSetting(t, [cmd |-> "flip", pc |-> "write", chat |-> c, who |-> s,
                           row |-> [settings[s] EXCEPT ![k] = ~@], what |-> k])
    BY <1>8 DEF Flip, Subjects
  <2>3. settings[s] \in Row
    BY DEF TypeOK
  <2>4. [settings[s] EXCEPT ![k] = ~@] \in Row
    BY <2>3 DEF Row
  <2>5. [cmd |-> "flip", pc |-> "write", chat |-> c, who |-> s,
         row |-> [settings[s] EXCEPT ![k] = ~@], what |-> k] \in SettingJob
    BY <2>4 DEF SettingJob
  <2>6. QED
    BY <1>7, <2>1, <2>5
<1>9. ASSUME NEW t \in Tasks, Prompt(t) PROVE TypeOK'
  <2>1. PICK c \in Chats, s \in Users \cup Admins : pending' = [pending EXCEPT ![c] = s]
    BY <1>9 DEF Prompt, Subjects
  <2>2. pending' \in [Chats -> Users \cup Admins \cup {NoUser}]
    BY <2>1 DEF TypeOK
  <2>3. QED
    BY <1>9, <2>2 DEF Prompt, Update, TypeOK
<1>10. ASSUME NEW t \in Tasks, Answer(t) PROVE TypeOK'
  <2>1. PICK c \in Chats, times \in {"own", "default"} :
          /\ pending[c] # NoUser
          /\ BeginSetting(t, [cmd |-> "answer", pc |-> "write", chat |-> c, who |-> pending[c],
                              row |-> [settings[pending[c]] EXCEPT !.times = times],
                              what |-> "times"])
    BY <1>10 DEF Answer
  <2>2. pending[c] \in Users \cup Admins
    BY <2>1 DEF TypeOK
  <2>3. settings[pending[c]] \in Row
    BY <2>2 DEF TypeOK
  <2>4. [settings[pending[c]] EXCEPT !.times = times] \in Row
    BY <2>3 DEF Row
  <2>5. [cmd |-> "answer", pc |-> "write", chat |-> c, who |-> pending[c],
         row |-> [settings[pending[c]] EXCEPT !.times = times], what |-> "times"] \in SettingJob
    BY <2>2, <2>4 DEF SettingJob
  <2>6. QED
    BY <1>7, <2>1, <2>5
<1>11. ASSUME NEW t \in Tasks, WriteSettings(t) PROVE TypeOK'
  <2>1. task[t] \in SettingJob
    BY <1>11, JobKinds DEF WriteSettings
  <2>2. task' \in [Tasks -> Job]
    BY <1>11, <2>1, GoSetting, EndTask DEF WriteSettings
  <2>3. /\ task[t].who \in Users \cup Admins /\ task[t].row \in Row
        /\ task[t].cmd \in {"flip", "answer"}
    BY <2>1 DEF SettingJob
  <2>4. settings[task[t].who] \in Row /\ wanted[task[t].who] \in Row
    BY <2>3 DEF TypeOK
  <2>5. Written(task[t]) \in Row
    <3>1. [settings[task[t].who] EXCEPT !.quota = task[t].row.quota] \in Row
      BY <2>3, <2>4 DEF Row
    <3>2. [task[t].row EXCEPT !.quota = settings[task[t].who].quota] \in Row
      BY <2>3, <2>4 DEF Row
    <3>3. Users \cap Admins = {}
      BY BindingAssumption
    <3>4. CASE task[t].who \in Users
      BY <2>3, <3>3, <3>4 DEF Written
    <3>5. CASE task[t].who \in Admins
      BY <2>3, <3>1, <3>2, <3>3, <3>5 DEF Written
    <3>6. QED
      BY <2>3, <3>4, <3>5
  <2>6. settings' \in [Users \cup Admins -> Row]
    BY <1>11, <2>5 DEF WriteSettings, TypeOK
  <2>7. wanted' \in [Users \cup Admins -> Row]
    BY <1>11, <2>1, <2>4, WantedRow DEF WriteSettings, TypeOK
  <2>8. QED
    BY <1>11, <2>2, <2>6, <2>7 DEF WriteSettings, TypeOK
<1>12. ASSUME NEW t \in Tasks, EndDialog(t) PROVE TypeOK'
  <2>1. task' \in [Tasks -> Job]
    BY <1>12, EndTask DEF EndDialog
  <2>2. pending' \in [Chats -> Users \cup Admins \cup {NoUser}]
    BY <1>12 DEF EndDialog, TypeOK
  <2>3. QED
    BY <1>12, <2>1, <2>2 DEF EndDialog, TypeOK
<1>13. ASSUME NEW u \in Users, MakeCode(u)
       PROVE  code' \in [Users -> 0..made'] /\ made' \in 0..MaxCodes /\ made + 1 \in 1..MaxCodes
  <2>1. made \in Nat /\ made < MaxCodes /\ made' = made + 1
    BY <1>13 DEF MakeCode, TypeOK
  <2>2. 0..made \subseteq 0..made' /\ made + 1 \in 0..made'
    BY <2>1
  <2>3. QED
    BY <1>13, <2>1, <2>2 DEF MakeCode, TypeOK
<1>14. ASSUME NEW u \in Users, Regen(u) PROVE TypeOK'
  <2>1. code' \in [Users -> 0..made'] /\ made' \in 0..MaxCodes /\ made + 1 \in 1..MaxCodes
    BY <1>13, <1>14 DEF Regen
  <2>2. spare' \subseteq 1..MaxCodes /\ crossed' \subseteq Users \cup Chats
    BY <1>14, <2>1 DEF Regen, TypeOK
  <2>3. QED
    BY <1>14, <2>1, <2>2 DEF Regen, TypeOK
<1>15. ASSUME NEW u \in Users, BeginUnbind(u) PROVE TypeOK'
  BY <1>15 DEF BeginUnbind, TypeOK
<1>16. ASSUME NEW u \in Users, FillCode(u) PROVE TypeOK'
  <2>1. code' \in [Users -> 0..made'] /\ made' \in 0..MaxCodes /\ made + 1 \in 1..MaxCodes
    BY <1>13, <1>16 DEF FillCode
  <2>2. stray' \subseteq 1..MaxCodes
    BY <1>16, <2>1 DEF FillCode, TypeOK
  <2>3. QED
    BY <1>16, <2>1, <2>2 DEF FillCode, TypeOK
<1>17. ASSUME Unbind PROVE TypeOK'
  BY <1>17 DEF Unbind, TypeOK
<1>18. ASSUME StartProcess PROVE TypeOK'
  BY <1>18 DEF StartProcess, TypeOK
<1>19. ASSUME FillFails PROVE TypeOK'
  BY <1>19 DEF FillFails, Fault, TypeOK
<1>20. ASSUME BotEnds PROVE TypeOK'
  <2>1. stray' \subseteq 1..MaxCodes
    <3>1. stray \subseteq 1..MaxCodes /\ stray' = stray \cup UNION {Unspent(t) : t \in Tasks}
      BY <1>20 DEF BotEnds, TypeOK
    <3>2. \A t \in Tasks : Unspent(t) \subseteq 1..MaxCodes
      BY CodeNumbers
    <3>3. QED
      BY <3>1, <3>2
  <2>2. cut' \subseteq Users /\ task' \in [Tasks -> Job]
    BY <1>20, JobsAreJobs DEF BotEnds, TypeOK
  <2>3. QED
    BY <1>20, <2>1, <2>2 DEF BotEnds, Fault, TypeOK
<1>23. ASSUME NEW t \in Tasks, OtherCommand(t) PROVE TypeOK'
  <2>1. pending' \in [Chats -> Users \cup Admins \cup {NoUser}]
    BY <1>23 DEF OtherCommand, TypeOK
  <2>2. QED
    BY <1>23, <2>1 DEF OtherCommand, Update, TypeOK
<1>21. CASE UNCHANGED vars
  BY <1>21 DEF vars, TypeOK
<1>22. QED
  BY <1>1, <1>2, <1>3, <1>4, <1>5, <1>6, <1>8, <1>9, <1>10, <1>11, <1>12, <1>14, <1>15,
     <1>16, <1>17, <1>18, <1>19, <1>20, <1>21, <1>23 DEF Next, TaskStep

\* Type correctness of bindings and settings.
THEOREM TypeCorrect == Spec => []TypeOK
<1>1. QED
  BY TypeInit, TypeNext, PTL DEF Spec

-----------------------------------------------------------------------------
(* What steps do to bindings under way: most leave them alone or end them.   *)

BindsKept == \A w \in Tasks : task'[w] = task[w] \/ task'[w] \notin BindJob

LEMMA BindsKeptFacts ==
  ASSUME TypeOK, [Next]_vars, BindsKept
  PROVE  \A w \in Tasks : task'[w] = task[w] \/ ~Binds(w)'
<1>1. \A job \in Job : job.cmd = "bind" => job \in BindJob
  BY DEF Job, BindJob, Idle
<1>2. \A w \in Tasks : task'[w] \in Job
  BY TypeNext DEF TypeOK
<1>3. QED
  BY <1>1, <1>2 DEF BindsKept, Binds

SettingStep(t) ==
  \/ Flip(t) \/ OtherCommand(t) \/ Prompt(t) \/ Answer(t) \/ WriteSettings(t) \/ EndDialog(t)
RowStep ==
  \/ \E u \in Users : Regen(u) \/ BeginUnbind(u) \/ FillCode(u)
  \/ Unbind \/ StartProcess \/ FillFails

LEMMA SettingKeepsBinds ==
  ASSUME TypeOK, NEW t \in Tasks, SettingStep(t)
  PROVE  /\ BindsKept
         /\ UNCHANGED <<chat, code, unbinding, todo, made, starts, crossed, cut, codes, moved>>
<1> USE DEF history, bounds, codes, BindsKept
<1>0. task \in [Tasks -> Job]
  BY DEF TypeOK
<1>1. ASSUME NEW job, job.cmd \in {"flip", "answer"}, BeginSetting(t, job)
      PROVE  BindsKept /\ UNCHANGED <<chat, code, unbinding, todo, made, starts, crossed, cut, codes, moved>>
  BY <1>0, <1>1 DEF BeginSetting, BindJob
<1>2. CASE Flip(t)
  BY <1>1, <1>2 DEF Flip
<1>3. CASE Prompt(t) \/ OtherCommand(t)
  BY <1>3 DEF Prompt, OtherCommand
<1>4. CASE Answer(t)
  BY <1>1, <1>4 DEF Answer
<1>5. CASE WriteSettings(t)
  <2>1. task[t] \in SettingJob
    BY <1>0, <1>5, JobKinds DEF WriteSettings
  <2>2. \A w \in Tasks : w # t => task'[w] = task[w]
    BY <1>0, <1>5 DEF WriteSettings, Go, End
  <2>3. task'[t] \notin BindJob
    <3>1. Idle \notin BindJob
      BY DEF Idle, BindJob
    <3>2. \A job \in SettingJob : job \notin BindJob
      BY DEF SettingJob, BindJob
    <3>3. QED
      BY <1>0, <1>5, <2>1, <3>1, <3>2, GoSetting, EndTask DEF WriteSettings
  <2>4. QED
    BY <1>5, <2>2, <2>3 DEF WriteSettings
<1>6. CASE EndDialog(t)
  <2>1. Idle \notin BindJob
    BY DEF Idle, BindJob
  <2>2. QED
    BY <1>0, <1>6, <2>1, EndTask DEF EndDialog
<1>7. QED
  BY <1>2, <1>3, <1>4, <1>5, <1>6 DEF SettingStep

\* A setting is the work of a task that was idle or is at a setting itself.
LEMMA SettingKeepsBusy ==
  ASSUME TypeOK, NEW t \in Tasks, SettingStep(t)
  PROVE  \A w \in Tasks : Binds(w) => task'[w] = task[w]
<1>0. task \in [Tasks -> Job]
  BY DEF TypeOK
<1>1. CASE Prompt(t) \/ OtherCommand(t)
  BY <1>1 DEF Prompt, OtherCommand
<1>2. CASE Flip(t) \/ Answer(t)
  <2>1. task[t] = Idle /\ \A w \in Tasks : w # t => task'[w] = task[w]
    BY <1>0, <1>2 DEF Flip, Answer, BeginSetting
  <2>2. QED
    BY <2>1 DEF Binds, Idle
<1>3. CASE WriteSettings(t) \/ EndDialog(t)
  <2>1. task[t] \in SettingJob
    BY <1>0, <1>3, JobKinds DEF WriteSettings, EndDialog
  <2>2. ~Binds(t)
    BY <2>1 DEF Binds, SettingJob
  <2>3. \A w \in Tasks : w # t => task'[w] = task[w]
    BY <1>0, <1>3 DEF WriteSettings, EndDialog, Go, End
  <2>4. QED
    BY <2>2, <2>3
<1>4. QED
  BY <1>1, <1>2, <1>3 DEF SettingStep

LEMMA EndKeepsBinds ==
  ASSUME TypeOK, (\E t \in Tasks : TaskEnds(t)) \/ BotEnds
  PROVE  /\ BindsKept
         /\ \A w \in Tasks : task'[w] # task[w] /\ Binds(w) => task[w].user \in cut'
         /\ \A w \in Tasks : task'[w] # task[w] => Unspent(w) \subseteq stray'
         /\ cut \subseteq cut' /\ stray \subseteq stray'
         /\ UNCHANGED <<chat, code, settings, unbinding, todo, made, crossed, spare, used, late,
                         moved, muddled, wanted>>
<1>0. task \in [Tasks -> Job] /\ Idle \notin BindJob
  BY DEF TypeOK, Idle, BindJob
<1>1. CASE BotEnds
  BY <1>0, <1>1, JobKinds DEF BotEnds, BindsKept, BindJob
<1>2. ASSUME NEW t \in Tasks, TaskEnds(t)
      PROVE  /\ BindsKept
             /\ \A w \in Tasks : task'[w] # task[w] /\ Binds(w) => task[w].user \in cut'
             /\ \A w \in Tasks : task'[w] # task[w] => Unspent(w) \subseteq stray'
             /\ cut \subseteq cut' /\ stray \subseteq stray'
             /\ UNCHANGED <<chat, code, settings, unbinding, todo, made, crossed, spare, used, late,
                         moved, muddled, wanted>>
  BY <1>0, <1>2, EndTask DEF TaskEnds, BindsKept
<1>3. QED
  BY <1>1, <1>2

LEMMA BindFacts ==
  ASSUME TypeOK, NEW t \in Tasks, Binds(t)
  PROVE  /\ task[t].user \in Users /\ task[t].chat \in Chats /\ task[t].chat # NoChat
         /\ task[t].former \in Chats \cup {NoChat} /\ task[t].code \in 1..MaxCodes
         /\ task[t].pc \in {"clear", "set", "consume", "notice"}
         /\ task[t] # Idle
<1>1. task[t] \in BindJob /\ task[t] # Idle
  BY JobKinds DEF TypeOK
<1>2. QED
  BY <1>1, BindingAssumption DEF BindJob

LEMMA NextCases ==
  ASSUME [Next]_vars
  PROVE  \/ \E t \in Tasks : \/ BeginBind(t) \/ ClearChat(t) \/ SetBinding(t) \/ Consume(t)
                             \/ Notify(t) \/ SettingStep(t)
         \/ (\E t \in Tasks : TaskEnds(t)) \/ BotEnds
         \/ RowStep
         \/ UNCHANGED vars
  BY DEF Next, TaskStep, RowStep, SettingStep

-----------------------------------------------------------------------------
(* One user per chat: two bindings of a chat at the same time are on record, *)
(* and a binding that is not has the chat to itself once it has cleared it.  *)

ChatClear ==
  /\ \A t, w \in Tasks : t # w /\ Binds(t) /\ Binds(w) /\ task[t].chat = task[w].chat
                           => task[t].chat \in crossed
  /\ \A t \in Tasks : Binds(t) /\ task[t].pc = "set" /\ task[t].chat \notin crossed =>
       \A u \in Users : chat[u] # task[t].chat

ChatInv == OneUserPerChat /\ ChatClear

\* Bindings that go on elsewhere and users who lose their chat disturb nothing.
LEMMA ChatFrame ==
  ASSUME TypeOK, ChatInv, crossed \subseteq crossed',
         \A u \in Users : chat'[u] \in {chat[u], NoChat},
         \A w \in Tasks : \/ task'[w] = task[w] \/ ~Binds(w)'
                          \/ Binds(w) /\ task'[w].chat = task[w].chat /\ task'[w].pc # "set"
  PROVE  ChatInv'
<1>1. OneUserPerChat'
  BY DEF ChatInv, OneUserPerChat, Bound
<1>2. \A w \in Tasks : Binds(w)' => Binds(w) /\ task'[w].chat = task[w].chat
  BY DEF Binds
<1>3. \A t, w \in Tasks : t # w /\ Binds(t)' /\ Binds(w)' /\ task'[t].chat = task'[w].chat
                            => task'[t].chat \in crossed'
  BY <1>2 DEF ChatInv, ChatClear
<1>4. ASSUME NEW t \in Tasks, Binds(t)', task'[t].pc = "set", task'[t].chat \notin crossed',
             NEW u \in Users, chat'[u] = task'[t].chat
      PROVE  FALSE
  <2>1. task'[t] = task[t] /\ Binds(t) /\ task[t].chat \notin crossed
    BY <1>2, <1>4
  <2>2. chat[u] # task[t].chat
    BY <1>4, <2>1 DEF ChatInv, ChatClear
  <2>3. chat'[u] = NoChat /\ task[t].chat = NoChat
    BY <1>4, <2>1, <2>2
  <2>4. QED
    BY <2>1, <2>3, BindFacts
<1>5. QED
  BY <1>1, <1>3, <1>4 DEF ChatInv, ChatClear

\* The fields of the tasks after a step of a binding.
LEMMA BindStep ==
  ASSUME TypeOK, NEW t \in Tasks, NEW from, NEW pc \in {"set", "consume", "notice"},
         from \in {"clear", "set", "consume"}, At(t, from), Go(t, pc)
  PROVE  /\ Binds(t) /\ Binds(t)' /\ task[t].pc = from /\ task'[t].pc = pc
         /\ task'[t].chat = task[t].chat /\ task'[t].user = task[t].user
         /\ task'[t].former = task[t].former /\ task'[t].code = task[t].code
         /\ \A w \in Tasks \ {t} : task'[w] = task[w]
<1>1. task \in [Tasks -> Job] /\ Binds(t) /\ task[t] \in BindJob
  BY JobKinds DEF TypeOK
<1>2. /\ task'[t] = [cmd |-> "bind", pc |-> pc, chat |-> task[t].chat,
                     user |-> task[t].user, code |-> task[t].code, former |-> task[t].former]
      /\ \A w \in Tasks \ {t} : task'[w] = task[w]
  BY <1>1, GoBind
<1>3. Binds(t)'
  BY <1>2 DEF Binds
<1>4. task[t].pc = from
  BY DEF At
<1>5. QED
  BY <1>1, <1>2, <1>3, <1>4

LEMMA BeginBindStep ==
  ASSUME TypeOK, NEW t \in Tasks, BeginBind(t)
  PROVE  \E c \in Chats, u \in Users :
           /\ ~Binds(t) /\ Binds(t)' /\ task'[t].pc = "clear"
           /\ task'[t].chat = c /\ task'[t].user = u /\ task'[t].former = chat[u]
           /\ task'[t].code = code[u] /\ code[u] # NoCode
           /\ stray' = stray \cup {k \in {code[u]} : \E p \in Tasks : Holds(p, k)}
           /\ \A w \in Tasks \ {t} : task'[w] = task[w]
           /\ crossed \subseteq crossed' /\ (Handled(u) => u \in crossed')
           /\ Binding(c) => c \in crossed'
<1>1. PICK c \in Chats, u \in Users :
        /\ task' = [task EXCEPT ![t] = [cmd |-> "bind", pc |-> "clear", chat |-> c, user |-> u,
                                        code |-> code[u], former |-> chat[u]]]
        /\ code[u] # NoCode
        /\ stray' = stray \cup {k \in {code[u]} : \E p \in Tasks : Holds(p, k)}
        /\ crossed' = crossed \cup {x \in {u} : Handled(u)} \cup {x \in {c} : Binding(c)}
  BY DEF BeginBind
<1>2. task[t] = Idle /\ task \in [Tasks -> Job]
  BY DEF BeginBind, TypeOK
<1>3. ~Binds(t)
  BY <1>2 DEF Binds, Idle
<1>4. QED
  BY <1>1, <1>2, <1>3 DEF Binds

LEMMA ChatNext ==
  ASSUME TypeOK, ChatInv, [Next]_vars
  PROVE  ChatInv'
<1> USE DEF history, bounds, codes
<1>1. ASSUME NEW t \in Tasks, BeginBind(t) PROVE ChatInv'
  <2>1. PICK c \in Chats, u \in Users :
           /\ Binds(t)' /\ task'[t].pc = "clear" /\ task'[t].chat = c
           /\ \A w \in Tasks \ {t} : task'[w] = task[w]
           /\ crossed \subseteq crossed' /\ (Binding(c) => c \in crossed')
    BY <1>1, BeginBindStep
  <2>2. chat' = chat
    BY <1>1 DEF BeginBind
  <2>3. OneUserPerChat'
    BY <2>1, <2>2 DEF ChatInv, OneUserPerChat, Bound
  <2>4. ASSUME NEW v \in Tasks, NEW w \in Tasks, v # w, Binds(v)', Binds(w)',
               task'[v].chat = task'[w].chat
        PROVE  task'[v].chat \in crossed'
    <3>1. CASE v = t \/ w = t
      BY <2>1, <2>4, <3>1 DEF Binding, Binds
    <3>2. CASE v # t /\ w # t
      BY <2>1, <2>4, <3>2 DEF Binds, ChatInv, ChatClear
    <3>3. QED
      BY <3>1, <3>2
  <2>5. \A w \in Tasks : Binds(w)' /\ task'[w].pc = "set" /\ task'[w].chat \notin crossed' =>
          \A v \in Users : chat'[v] # task'[w].chat
    BY <2>1, <2>2 DEF Binds, ChatInv, ChatClear
  <2>6. QED
    BY <2>3, <2>4, <2>5 DEF ChatInv, ChatClear
<1>2. ASSUME NEW t \in Tasks, ClearChat(t) PROVE ChatInv'
  <2>1. /\ Binds(t) /\ Binds(t)' /\ task'[t].chat = task[t].chat
        /\ \A w \in Tasks \ {t} : task'[w] = task[w]
    BY <1>2, BindStep DEF ClearChat
  <2>2. /\ \A u \in Users : chat'[u] \in {chat[u], NoChat}
        /\ \A u \in Users : chat'[u] # task[t].chat /\ NoChat # task[t].chat
    BY <1>2, <2>1, BindFacts DEF ClearChat
  <2>3. UNCHANGED crossed
    BY <1>2 DEF ClearChat
  <2>4. OneUserPerChat'
    BY <2>2, <2>3 DEF ChatInv, OneUserPerChat, Bound
  <2>5. \A v, w \in Tasks : v # w /\ Binds(v)' /\ Binds(w)' /\ task'[v].chat = task'[w].chat
                              => task'[v].chat \in crossed'
    BY <2>1, <2>3 DEF ChatInv, ChatClear, Binds
  <2>6. ASSUME NEW w \in Tasks \ {t}, Binds(w)', task'[w].pc = "set", task'[w].chat \notin crossed',
               NEW u \in Users
        PROVE  chat'[u] # task'[w].chat
    <3>1. Binds(w) /\ task'[w] = task[w] /\ chat[u] # task[w].chat
      BY <2>1, <2>3, <2>6 DEF ChatInv, ChatClear, Binds
    <3>2. task[w].chat # NoChat
      BY <3>1, BindFacts
    <3>3. QED
      BY <2>2, <3>1, <3>2
  <2>7. QED
    BY <2>1, <2>2, <2>4, <2>5, <2>6 DEF ChatInv, ChatClear
<1>3. ASSUME NEW t \in Tasks, SetBinding(t) PROVE ChatInv'
  <2>1. /\ Binds(t) /\ Binds(t)' /\ task'[t].chat = task[t].chat /\ task[t].pc = "set"
        /\ task'[t].pc = "consume" /\ \A w \in Tasks \ {t} : task'[w] = task[w]
    BY <1>3, BindStep DEF SetBinding
  <2>2. task[t].user \in Users
    BY <2>1, BindFacts
  <2>3. \A u \in Users : chat'[u] = IF u = task[t].user THEN task[t].chat ELSE chat[u]
    BY <1>3, <2>2 DEF SetBinding, TypeOK
  <2>4. UNCHANGED crossed
    BY <1>3 DEF SetBinding
  <2>5. task[t].chat \in crossed \/ \A u \in Users : chat[u] # task[t].chat
    BY <2>1 DEF ChatInv, ChatClear
  <2>6. OneUserPerChat'
    BY <2>3, <2>4, <2>5 DEF ChatInv, OneUserPerChat, Bound
  <2>7. \A v, w \in Tasks : v # w /\ Binds(v)' /\ Binds(w)' /\ task'[v].chat = task'[w].chat
                              => task'[v].chat \in crossed'
    BY <2>1, <2>4 DEF ChatInv, ChatClear, Binds
  <2>8. ASSUME NEW w \in Tasks \ {t}, Binds(w)', task'[w].pc = "set", task'[w].chat \notin crossed',
               NEW u \in Users
        PROVE  chat'[u] # task'[w].chat
    <3>1. Binds(w) /\ task'[w] = task[w] /\ chat[u] # task[w].chat
      BY <2>1, <2>4, <2>8 DEF ChatInv, ChatClear, Binds
    <3>2. task[w].chat # task[t].chat
      BY <2>1, <2>4, <2>8, <3>1 DEF ChatInv, ChatClear
    <3>3. QED
      BY <2>3, <3>1, <3>2
  <2>9. QED
    BY <2>1, <2>6, <2>7, <2>8 DEF ChatInv, ChatClear
<1>4. ASSUME NEW t \in Tasks, Consume(t) \/ Notify(t) PROVE ChatInv'
  <2>1. \A w \in Tasks : \/ task'[w] = task[w] \/ ~Binds(w)'
                         \/ Binds(w) /\ task'[w].chat = task[w].chat /\ task'[w].pc # "set"
    <3>1. CASE End(t)
      BY <3>1, EndTask DEF TypeOK, Binds, Idle
    <3>2. CASE Consume(t) /\ Go(t, "notice")
      BY <3>2, BindStep DEF Consume
    <3>3. QED
      BY <1>4, <3>1, <3>2 DEF Consume, Notify
  <2>2. UNCHANGED <<chat, crossed>>
    BY <1>4 DEF Consume, Notify
  <2>3. QED
    BY <2>1, <2>2, ChatFrame
<1>5. ASSUME BindsKept, crossed \subseteq crossed',
             \A u \in Users : chat'[u] \in {chat[u], NoChat}
      PROVE  ChatInv'
  <2>1. \A w \in Tasks : task'[w] = task[w] \/ ~Binds(w)'
    BY <1>5, BindsKeptFacts
  <2>2. QED
    BY <1>5, <2>1, ChatFrame
<1>6. ASSUME NEW t \in Tasks, SettingStep(t) PROVE ChatInv'
  BY <1>5, <1>6, SettingKeepsBinds
<1>7. CASE (\E t \in Tasks : TaskEnds(t)) \/ BotEnds
  BY <1>5, <1>7, EndKeepsBinds
<1>8. CASE RowStep
  <2>1. BindsKept /\ crossed \subseteq crossed'
    BY <1>8 DEF RowStep, Regen, BeginUnbind, FillCode, Unbind, StartProcess, FillFails, BindsKept
  <2>2. \A u \in Users : chat'[u] \in {chat[u], NoChat}
    BY <1>8 DEF RowStep, Regen, BeginUnbind, FillCode, Unbind, StartProcess, FillFails, TypeOK
  <2>3. QED
    BY <1>5, <2>1, <2>2
<1>9. CASE UNCHANGED vars
  BY <1>5, <1>9 DEF vars, BindsKept
<1>10. QED
  BY <1>1, <1>2, <1>3, <1>4, <1>6, <1>7, <1>8, <1>9, NextCases

\* find_by_tg_chat_id: no chat has two users, unless two of its messages were
\* handled at the same time.
THEOREM OneUserPerChatCorrect == Spec => []OneUserPerChat
<1>1. Init => ChatInv
  BY DEF Init, ChatInv, OneUserPerChat, ChatClear, Bound, Binds, Idle
<1>2. TypeOK /\ ChatInv /\ [Next]_vars => ChatInv'
  BY ChatNext
<1>3. ChatInv => OneUserPerChat
  BY DEF ChatInv
<1>4. QED
  BY <1>1, <1>2, <1>3, TypeCorrect, PTL DEF Spec

-----------------------------------------------------------------------------
(* One-time codes: every code is of one user, two bindings that have looked  *)
(* one up are on record, and a code that has bound a chat is waiting to be   *)
(* spent by the very binding that used it, or it is on record.               *)

Consuming(u) == \E t \in Tasks : Binds(t) /\ task[t].pc = "consume" /\ task[t].user = u
Before(t) == Binds(t) /\ task[t].pc \in {"clear", "set"}
Spending(t) == Binds(t) /\ task[t].pc = "consume"

KeyKept ==
  /\ \A u \in Users : Bound(u) /\ code[u] # NoCode => code[u] \in spare \cup stray \/ Consuming(u)
  /\ \A u \in todo : Bound(u) => u \in late

OwnCodes ==
  /\ \A u, v \in Users : code[u] = code[v] /\ code[u] # NoCode => u = v
  /\ \A t \in Tasks : Binds(t) => task[t].code \in 1..made
  /\ \A t \in Tasks, v \in Users : Binds(t) /\ code[v] = task[t].code => v = task[t].user

OneHolder ==
  \A t, w \in Tasks : /\ t # w /\ (Before(t) \/ Spending(t)) /\ (Before(w) \/ Spending(w))
                      /\ task[t].code = task[w].code
                   => task[t].code \in stray

Awaits(k) ==
  /\ \A t \in Tasks : Before(t) => task[t].code # k
  /\ \A u \in Users : code[u] = k =>
       \E t \in Tasks : Spending(t) /\ task[t].code = k /\ task[t].user = u

UsedOnce ==
  /\ \A p \in used : p[1] \in 1..made /\ (p[1] \notin stray => Awaits(p[1]))
  /\ \A p, q \in used : p[1] = q[1] /\ p[1] \notin stray => p[2] = q[2]

CodesInv == KeyKept /\ OwnCodes /\ OneHolder /\ UsedOnce

LEMMA OneTimeMeans == TypeOK /\ CodesInv => OneTimeCode
<1> SUFFICES ASSUME TypeOK, CodesInv PROVE OneTimeCode
  OBVIOUS
<1>1. \A t \in Tasks : Binds(t) => (At(t, "consume") <=> task[t].pc = "consume")
  BY BindFacts DEF At
<1>2. QED
  BY <1>1 DEF OneTimeCode, CodesInv, KeyKept, UsedOnce, Consuming

LEMMA HoldsMeans ==
  ASSUME TypeOK, NEW t \in Tasks, NEW k
  PROVE  Holds(t, k) <=> (Before(t) \/ Spending(t)) /\ task[t].code = k
<1>1. Binds(t) => task[t] # Idle
  BY BindFacts
<1>2. QED
  BY <1>1 DEF Holds, At, Before, Spending

\* Bindings that go on to set the chat or end, and codes that stay.
LEMMA CodesFrame ==
  ASSUME TypeOK, CodesInv, UNCHANGED <<code, spare, used, made>>, todo' \subseteq todo,
         late \subseteq late', stray \subseteq stray',
         \A u \in Users : chat'[u] \in {chat[u], NoChat},
         \A w \in Tasks : \/ task'[w] = task[w] \/ ~Binds(w)'
                          \/ /\ Before(w) /\ Before(w)'
                             /\ task'[w].user = task[w].user /\ task'[w].code = task[w].code,
         \A w \in Tasks : Spending(w) =>
                            \/ task'[w] = task[w]
                            \/ /\ task[w].code \in stray'
                               /\ code[task[w].user] \in stray' \cup {NoCode}
  PROVE  CodesInv'
<1>0. todo \subseteq Users
  BY DEF TypeOK
<1>1. \A w \in Tasks : Spending(w) => \/ Spending(w)' /\ task'[w] = task[w]
                                      \/ /\ task[w].code \in stray'
                                         /\ code[task[w].user] \in stray' \cup {NoCode}
  BY DEF Spending, Binds
<1>2. \A w \in Tasks : Binds(w)' => /\ Binds(w) /\ task'[w].user = task[w].user
                                    /\ task'[w].code = task[w].code
                                    /\ (Before(w)' => Before(w)) /\ (Spending(w)' => Spending(w))
  BY DEF Before, Spending, Binds
<1>3. KeyKept'
  <2>1. ASSUME NEW u \in Users, Bound(u)', code'[u] # NoCode
        PROVE  code'[u] \in spare' \cup stray' \/ Consuming(u)'
    <3>1. Bound(u) /\ (code[u] \in spare \cup stray \/ Consuming(u))
      BY <2>1 DEF Bound, CodesInv, KeyKept
    <3>2. CASE Consuming(u)
      <4>1. PICK w \in Tasks : Spending(w) /\ task[w].user = u
        BY <3>2 DEF Consuming, Spending
      <4>2. QED
        BY <1>1, <2>1, <4>1 DEF Consuming, Spending
    <3>3. QED
      BY <3>1, <3>2
  <2>2. \A u \in todo' : Bound(u)' => u \in late'
    BY <1>0 DEF Bound, CodesInv, KeyKept
  <2>3. QED
    BY <2>1, <2>2 DEF KeyKept
<1>4. OwnCodes'
  BY <1>2 DEF CodesInv, OwnCodes
<1>5. OneHolder'
  <2>1. ASSUME NEW t \in Tasks, NEW w \in Tasks, t # w, Before(t)' \/ Spending(t)',
               Before(w)' \/ Spending(w)', task'[t].code = task'[w].code
        PROVE  task'[t].code \in stray'
    <3>1. Binds(t)' /\ Binds(w)'
      BY <2>1 DEF Before, Spending
    <3>2. task[t].code \in stray
      BY <1>2, <2>1, <3>1 DEF CodesInv, OneHolder
    <3>3. QED
      BY <1>2, <3>1, <3>2
  <2>2. QED
    BY <2>1 DEF OneHolder
<1>6. UsedOnce'
  <2>1. ASSUME NEW p \in used, p[1] \notin stray' PROVE Awaits(p[1])'
    <3>1. Awaits(p[1])
      BY <2>1 DEF CodesInv, UsedOnce
    <3>2. \A t \in Tasks : Before(t)' => task'[t].code # p[1]
      BY <1>2, <3>1 DEF Awaits, Before
    <3>3. ASSUME NEW u \in Users, code[u] = p[1]
          PROVE  \E t \in Tasks : Spending(t)' /\ task'[t].code = p[1] /\ task'[t].user = u
      <4>1. PICK t \in Tasks : Spending(t) /\ task[t].code = p[1] /\ task[t].user = u
        BY <3>1, <3>3 DEF Awaits
      <4>2. QED
        BY <1>1, <2>1, <4>1
    <3>4. QED
      BY <3>2, <3>3 DEF Awaits
  <2>2. QED
    BY <2>1 DEF CodesInv, UsedOnce
<1>7. QED
  BY <1>3, <1>4, <1>5, <1>6 DEF CodesInv

LEMMA CodesNext ==
  ASSUME TypeOK, CodesInv, [Next]_vars
  PROVE  CodesInv'
<1> USE DEF history, bounds, codes
<1>0. /\ todo \subseteq Users /\ task \in [Tasks -> Job] /\ code \in [Users -> 0..made]
      /\ made \in Nat
  BY DEF TypeOK
<1>1. ASSUME NEW t \in Tasks, BeginBind(t) PROVE CodesInv'
  <2>1. PICK c \in Chats, u \in Users :
           /\ ~Binds(t) /\ Binds(t)' /\ task'[t].pc = "clear" /\ task'[t].user = u
           /\ task'[t].code = code[u] /\ code[u] # NoCode
           /\ stray' = stray \cup {k \in {code[u]} : \E p \in Tasks : Holds(p, k)}
           /\ \A w \in Tasks \ {t} : task'[w] = task[w]
    BY <1>1, BeginBindStep
  <2>2. UNCHANGED <<chat, code, made, spare, used, late, todo>>
    BY <1>1 DEF BeginBind
  <2>3. \A w \in Tasks \ {t} : /\ (Binds(w)' <=> Binds(w)) /\ (Before(w)' <=> Before(w))
                               /\ (Spending(w)' <=> Spending(w))
    BY <2>1 DEF Binds, Before, Spending
  <2>4. Before(t)' /\ ~Spending(t)' /\ ~Before(t) /\ ~Spending(t)
    BY <2>1 DEF Before, Spending
  <2>5. \A w \in Tasks : (Before(w) \/ Spending(w)) /\ task[w].code = code[u] => code[u] \in stray'
    BY <2>1, HoldsMeans
  <2>6. KeyKept'
    BY <2>1, <2>2 DEF CodesInv, KeyKept, Consuming, Bound, Binds
  <2>7. OwnCodes'
    <3>1. code[u] \in 1..made
      BY <1>0, <2>1 DEF NoCode
    <3>2. \A w \in Tasks : Binds(w)' => task'[w].code \in 1..made'
      BY <2>1, <2>2, <2>3, <3>1 DEF CodesInv, OwnCodes
    <3>3. \A w \in Tasks, v \in Users : Binds(w)' /\ code'[v] = task'[w].code => v = task'[w].user
      BY <2>1, <2>2, <2>3 DEF CodesInv, OwnCodes
    <3>4. QED
      BY <2>2, <3>2, <3>3 DEF CodesInv, OwnCodes
  <2>8. OneHolder'
    <3>1. ASSUME NEW v \in Tasks, NEW w \in Tasks, v # w, Before(v)' \/ Spending(v)',
                 Before(w)' \/ Spending(w)', task'[v].code = task'[w].code
          PROVE  task'[v].code \in stray'
      <4>1. CASE v = t \/ w = t
        BY <2>1, <2>3, <2>5, <3>1, <4>1
      <4>2. CASE v # t /\ w # t
        BY <2>1, <2>3, <3>1, <4>2 DEF CodesInv, OneHolder
      <4>3. QED
        BY <4>1, <4>2
    <3>2. QED
      BY <3>1 DEF OneHolder
  <2>9. UsedOnce'
    <3>1. ASSUME NEW p \in used, p[1] \notin stray' PROVE Awaits(p[1])'
      <4>1. Awaits(p[1])
        BY <2>1, <3>1 DEF CodesInv, UsedOnce
      <4>2. code[u] # p[1]
        BY <2>5, <3>1, <4>1 DEF Awaits
      <4>3. \A w \in Tasks : Before(w)' => task'[w].code # p[1]
        BY <2>1, <2>3, <4>1, <4>2 DEF Awaits
      <4>4. \A w \in Tasks : Spending(w) => Spending(w)' /\ task'[w] = task[w]
        BY <2>1, <2>3, <2>4
      <4>5. QED
        BY <2>2, <4>1, <4>3, <4>4 DEF Awaits
    <3>2. QED
      BY <2>1, <2>2, <3>1 DEF CodesInv, UsedOnce
  <2>10. QED
    BY <2>6, <2>7, <2>8, <2>9 DEF CodesInv
<1>2. ASSUME NEW t \in Tasks, ClearChat(t) PROVE CodesInv'
  <2>1. /\ Before(t) /\ Before(t)' /\ task'[t].user = task[t].user /\ task'[t].code = task[t].code
        /\ \A w \in Tasks \ {t} : task'[w] = task[w]
    BY <1>2, BindStep DEF ClearChat, Before
  <2>2. \A u \in Users : chat'[u] \in {chat[u], NoChat}
    BY <1>2 DEF ClearChat
  <2>3. UNCHANGED <<code, made, spare, used, late, stray, todo>>
    BY <1>2 DEF ClearChat
  <2>4. \A w \in Tasks : Spending(w) => task'[w] = task[w]
    BY <2>1 DEF Before, Spending
  <2>5. QED
    BY <2>1, <2>2, <2>3, <2>4, CodesFrame
<1>3. ASSUME NEW t \in Tasks, SetBinding(t) PROVE CodesInv'
  <2>1. /\ Before(t) /\ Spending(t)' /\ ~Before(t)' /\ ~Spending(t) /\ Binds(t) /\ Binds(t)'
        /\ task'[t].user = task[t].user /\ task'[t].code = task[t].code
        /\ \A w \in Tasks \ {t} : task'[w] = task[w]
    BY <1>3, BindStep DEF SetBinding, Before, Spending
  <2>2. UNCHANGED <<code, made, spare, stray, todo>>
    BY <1>3 DEF SetBinding
  <2>3. task[t].user \in Users
    BY <2>1, BindFacts
  <2>4. \A u \in Users : u # task[t].user => chat'[u] = chat[u]
    BY <1>3, <2>3 DEF SetBinding, TypeOK
  <2>5. \A w \in Tasks \ {t} : /\ (Binds(w)' <=> Binds(w)) /\ (Before(w)' <=> Before(w))
                               /\ (Spending(w)' <=> Spending(w))
    BY <2>1 DEF Binds, Before, Spending
  <2>6. late' = late \cup ({task[t].user} \cap todo)
    BY <1>3 DEF SetBinding
  <2>7. KeyKept'
    <3>1. ASSUME NEW u \in Users, Bound(u)', code'[u] # NoCode
          PROVE  code'[u] \in spare' \cup stray' \/ Consuming(u)'
      <4>1. CASE u = task[t].user
        BY <2>1, <4>1 DEF Consuming, Spending
      <4>2. CASE u # task[t].user
        <5>1. code[u] \in spare \cup stray \/ Consuming(u)
          BY <2>2, <2>4, <3>1, <4>2 DEF Bound, CodesInv, KeyKept
        <5>2. Consuming(u) => Consuming(u)'
          BY <2>1, <4>2 DEF Consuming, Binds
        <5>3. QED
          BY <2>2, <5>1, <5>2
      <4>3. QED
        BY <4>1, <4>2
    <3>2. \A u \in todo' : Bound(u)' => u \in late'
      BY <1>0, <2>2, <2>4, <2>6 DEF Bound, CodesInv, KeyKept
    <3>3. QED
      BY <3>1, <3>2 DEF KeyKept
  <2>8. OwnCodes'
    BY <2>1, <2>2, <2>5 DEF CodesInv, OwnCodes
  <2>9. OneHolder'
    BY <2>1, <2>2, <2>5 DEF CodesInv, OneHolder
  <2>10. used' = used \cup {<<task[t].code, task[t].chat>>}
    BY <1>3 DEF SetBinding
  <2>11. \A p \in used : p[1] \notin stray => p[1] # task[t].code
    BY <2>1 DEF CodesInv, UsedOnce, Awaits
  <2>12. ASSUME NEW k, k = task[t].code, k \notin stray PROVE Awaits(k)'
    <3>1. \A w \in Tasks : Before(w)' => task'[w].code # k
      BY <2>1, <2>5, <2>12 DEF CodesInv, OneHolder
    <3>2. \A u \in Users : code'[u] = k => u = task[t].user
      BY <2>1, <2>2, <2>12 DEF CodesInv, OwnCodes
    <3>3. QED
      BY <2>1, <2>12, <3>1, <3>2 DEF Awaits
  <2>13. ASSUME NEW p \in used, p[1] \notin stray PROVE Awaits(p[1])'
    <3>1. Awaits(p[1])
      BY <2>13 DEF CodesInv, UsedOnce
    <3>2. \A w \in Tasks : Before(w)' => task'[w].code # p[1]
      BY <2>1, <2>5, <3>1 DEF Awaits
    <3>3. \A w \in Tasks : Spending(w) => Spending(w)' /\ task'[w] = task[w]
      BY <2>1, <2>5
    <3>4. QED
      BY <2>2, <3>1, <3>2, <3>3 DEF Awaits
  <2>14. UsedOnce'
    <3>1. \A p \in used' : p[1] \in 1..made'
      BY <2>1, <2>2, <2>10 DEF CodesInv, UsedOnce, OwnCodes
    <3>2. ASSUME NEW p \in used', p[1] \notin stray' PROVE Awaits(p[1])'
      <4>1. CASE p \in used
        BY <2>2, <2>13, <3>2, <4>1
      <4>2. CASE p = <<task[t].code, task[t].chat>>
        BY <2>2, <2>12, <3>2, <4>2
      <4>3. QED
        BY <2>10, <3>2, <4>1, <4>2
    <3>3. \A p, q \in used' : p[1] = q[1] /\ p[1] \notin stray' => p[2] = q[2]
      BY <2>2, <2>10, <2>11 DEF CodesInv, UsedOnce
    <3>4. QED
      BY <3>1, <3>2, <3>3 DEF UsedOnce
  <2>15. QED
    BY <2>7, <2>8, <2>9, <2>14 DEF CodesInv
<1>4. ASSUME NEW t \in Tasks, Consume(t) PROVE CodesInv'
  <2>1. Spending(t) /\ Binds(t) /\ task[t].user \in Users
    BY <1>0, <1>4, JobKinds, BindFacts DEF Consume, At, Spending
  <2>2. /\ \A w \in Tasks \ {t} : task'[w] = task[w]
        /\ Binds(t)' => task'[t].user = task[t].user /\ task'[t].code = task[t].code
        /\ ~Before(t)' /\ ~Spending(t)'
    <3>1. CASE End(t)
      BY <1>0, <3>1, EndTask DEF Binds, Before, Spending, Idle
    <3>2. CASE Go(t, "notice")
      BY <1>4, <3>2, BindStep DEF Consume, Before, Spending
    <3>3. QED
      BY <1>4, <3>1, <3>2 DEF Consume
  <2>3. UNCHANGED <<chat, made, spare, used, late, stray, todo>>
    BY <1>4 DEF Consume
  <2>4. \A u \in Users : code'[u] = IF u = task[t].user THEN NoCode ELSE code[u]
    BY <1>0, <1>4 DEF Consume, Spent
  <2>5. \A w \in Tasks \ {t} : /\ (Binds(w)' <=> Binds(w)) /\ (Before(w)' <=> Before(w))
                               /\ (Spending(w)' <=> Spending(w))
    BY <2>2 DEF Binds, Before, Spending
  <2>6. KeyKept'
    <3>1. ASSUME NEW u \in Users, u # task[t].user, Bound(u)', code'[u] # NoCode
          PROVE  code'[u] \in spare' \cup stray' \/ Consuming(u)'
      <4>1. code[u] \in spare \cup stray \/ Consuming(u)
        BY <2>3, <2>4, <3>1 DEF Bound, CodesInv, KeyKept
      <4>2. Consuming(u) => Consuming(u)'
        BY <2>2, <3>1 DEF Consuming, Binds
      <4>3. QED
        BY <2>3, <2>4, <3>1, <4>1, <4>2
    <3>2. \A u \in todo' : Bound(u)' => u \in late'
      BY <2>3 DEF Bound, CodesInv, KeyKept
    <3>3. QED
      BY <2>4, <3>1, <3>2 DEF KeyKept
  <2>7. OwnCodes'
    <3>1. \A w \in Tasks : Binds(w)' => Binds(w) /\ task'[w].code = task[w].code
                                                 /\ task'[w].user = task[w].user
      BY <2>1, <2>2, <2>5
    <3>2. \A w \in Tasks : Binds(w) => task[w].code # NoCode
      BY <1>0 DEF CodesInv, OwnCodes, NoCode
    <3>3. QED
      BY <2>3, <2>4, <3>1, <3>2 DEF CodesInv, OwnCodes
  <2>8. OneHolder'
    BY <2>2, <2>3, <2>5 DEF CodesInv, OneHolder
  <2>9. UsedOnce'
    <3>1. ASSUME NEW p \in used, p[1] \notin stray PROVE Awaits(p[1])'
      <4>1. Awaits(p[1]) /\ p[1] # NoCode
        BY <1>0, <3>1 DEF CodesInv, UsedOnce, NoCode
      <4>2. \A w \in Tasks : Before(w)' => task'[w].code # p[1]
        BY <2>2, <2>5, <4>1 DEF Awaits
      <4>3. ASSUME NEW u \in Users, code'[u] = p[1]
            PROVE  \E w \in Tasks : Spending(w)' /\ task'[w].code = p[1] /\ task'[w].user = u
        <5>1. u # task[t].user /\ code[u] = p[1]
          BY <2>4, <4>1, <4>3
        <5>2. PICK w \in Tasks : Spending(w) /\ task[w].code = p[1] /\ task[w].user = u
          BY <4>1, <5>1 DEF Awaits
        <5>3. QED
          BY <2>2, <2>5, <5>1, <5>2
      <4>4. QED
        BY <4>2, <4>3 DEF Awaits
    <3>2. QED
      BY <2>3, <3>1 DEF CodesInv, UsedOnce
  <2>10. QED
    BY <2>6, <2>7, <2>8, <2>9 DEF CodesInv
<1>5. ASSUME NEW t \in Tasks, Notify(t) PROVE CodesInv'
  <2>1. /\ ~Spending(t) /\ ~Binds(t)'
        /\ \A w \in Tasks \ {t} : task'[w] = task[w]
    BY <1>0, <1>5, EndTask DEF Notify, Binds, Idle, At, Spending
  <2>2. UNCHANGED <<chat, code, made, spare, used, late, stray, todo>>
    BY <1>5 DEF Notify
  <2>3. QED
    BY <2>1, <2>2, CodesFrame
<1>6. ASSUME NEW t \in Tasks, SettingStep(t) PROVE CodesInv'
  <2>1. \A w \in Tasks : task'[w] = task[w] \/ ~Binds(w)'
    BY <1>6, SettingKeepsBinds, BindsKeptFacts
  <2>2. \A w \in Tasks : Spending(w) => task'[w] = task[w]
    BY <1>6, SettingKeepsBusy DEF Spending
  <2>3. UNCHANGED <<chat, code, made, spare, used, late, stray, todo>>
    BY <1>6, SettingKeepsBinds
  <2>4. QED
    BY <2>1, <2>2, <2>3, CodesFrame
<1>7. CASE (\E t \in Tasks : TaskEnds(t)) \/ BotEnds
  <2>1. \A w \in Tasks : task'[w] = task[w] \/ ~Binds(w)'
    BY <1>7, EndKeepsBinds, BindsKeptFacts
  <2>2. \A w \in Tasks : Spending(w) =>
          \/ task'[w] = task[w]
          \/ /\ task[w].code \in stray'
             /\ code[task[w].user] \in stray' \cup {NoCode}
    <3>1. ASSUME NEW w \in Tasks, Spending(w)
          PROVE  Unspent(w) = {task[w].code, code[task[w].user]} \ {NoCode} /\ task[w].code # NoCode
      BY <1>0, <3>1, BindFacts DEF Spending, Unspent, At, NoCode
    <3>2. \A w \in Tasks : task'[w] # task[w] => Unspent(w) \subseteq stray'
      BY <1>7, EndKeepsBinds
    <3>3. QED
      BY <3>1, <3>2
  <2>3. QED
    BY <1>7, <2>1, <2>2, EndKeepsBinds, CodesFrame
<1>8. ASSUME NEW u \in Users, MakeCode(u), UNCHANGED <<chat, task, used, late>>,
             Bound(u) => made + 1 \in spare' \cup stray',
             spare \subseteq spare', stray \subseteq stray', todo' \subseteq todo
      PROVE  CodesInv'
  <2>1. \A v \in Users : code'[v] = IF v = u THEN made + 1 ELSE code[v]
    BY <1>0, <1>8 DEF MakeCode
  <2>2. made' = made + 1 /\ (\A v \in Users : code[v] # made + 1) /\ made + 1 \notin 1..made
    BY <1>0, <1>8 DEF MakeCode
  <2>3. KeyKept'
    BY <1>0, <1>8, <2>1, <2>2 DEF CodesInv, KeyKept, Consuming, Bound, Binds
  <2>4. OwnCodes'
    <3>1. 1..made \subseteq 1..made'
      BY <1>0, <2>2
    <3>2. \A w \in Tasks, v \in Users : Binds(w) /\ code'[v] = task[w].code => v = task[w].user
      BY <2>1, <2>2 DEF CodesInv, OwnCodes
    <3>3. \A v, w \in Users : code'[v] = code'[w] /\ code'[v] # NoCode => v = w
      BY <2>1, <2>2 DEF CodesInv, OwnCodes
    <3>4. QED
      BY <1>8, <3>1, <3>2, <3>3 DEF CodesInv, OwnCodes, Binds
  <2>5. OneHolder'
    BY <1>8 DEF CodesInv, OneHolder, Before, Spending, Binds
  <2>6. UsedOnce'
    <3>1. \A p \in used : p[1] \in 1..made /\ p[1] # made + 1
      BY <2>2 DEF CodesInv, UsedOnce
    <3>2. \A p \in used : p[1] \notin stray' => Awaits(p[1])'
      BY <1>8, <2>1, <3>1 DEF CodesInv, UsedOnce, Awaits, Before, Spending, Binds
    <3>3. \A p \in used : p[1] \in 1..made'
      BY <1>0, <2>2, <3>1
    <3>4. QED
      BY <1>8, <3>2, <3>3 DEF CodesInv, UsedOnce
  <2>7. QED
    BY <2>3, <2>4, <2>5, <2>6 DEF CodesInv
<1>9. ASSUME NEW u \in Users, Regen(u) PROVE CodesInv'
  BY <1>8, <1>9 DEF Regen
<1>10. ASSUME NEW u \in Users, FillCode(u) PROVE CodesInv'
  <2>1. Bound(u) => u \in late
    BY <1>10 DEF FillCode, CodesInv, KeyKept
  <2>2. QED
    BY <1>8, <1>10, <2>1 DEF FillCode
<1>11. ASSUME NEW u \in Users, BeginUnbind(u) PROVE CodesInv'
  BY <1>11, CodesFrame DEF BeginUnbind
<1>12. CASE Unbind
  <2>1. \A u \in Users : chat'[u] \in {chat[u], NoChat}
    BY <1>12 DEF Unbind, TypeOK
  <2>2. QED
    BY <1>12, <2>1, CodesFrame DEF Unbind
<1>13. CASE StartProcess
  <2>1. UNCHANGED <<chat, code, made, spare, used, stray, task>>
    BY <1>13 DEF StartProcess
  <2>2. \A u \in todo' : ~Bound(u)
    BY <1>13 DEF StartProcess, NeedsCode
  <2>3. KeyKept'
    BY <2>1, <2>2 DEF CodesInv, KeyKept, Consuming, Bound, Binds
  <2>4. OwnCodes' /\ OneHolder' /\ UsedOnce'
    BY <2>1 DEF CodesInv, OwnCodes, OneHolder, UsedOnce, Awaits, Before, Spending, Binds
  <2>5. QED
    BY <2>3, <2>4 DEF CodesInv
<1>14. CASE FillFails
  BY <1>14, CodesFrame DEF FillFails
<1>15. CASE UNCHANGED vars
  BY <1>15, CodesFrame DEF vars
<1>16. QED
  BY <1>1, <1>2, <1>3, <1>4, <1>5, <1>6, <1>7, <1>9, <1>10, <1>11, <1>12, <1>13, <1>14, <1>15,
     NextCases DEF RowStep

\* bind_user, ensure_tg_bind_tokens: a bound user has a code only if an
\* administrator made it since or his binding is about to spend it, and no code
\* binds two chats.  Excused is a code that two bindings had looked up before
\* one of them spent it, one whose binding ended before it spent it, and one
\* that a starting process gave to a user bound since it listed him.
THEOREM OneTimeCodeCorrect == Spec => []OneTimeCode
<1>1. Init => CodesInv
  <2> SUFFICES ASSUME Init PROVE CodesInv
    OBVIOUS
  <2>1. \A t \in Tasks : ~Binds(t)
    BY DEF Init, Binds, Idle
  <2>2. QED
    <3>1. KeyKept
      BY DEF Init, KeyKept, Bound
    <3>2. OwnCodes
      BY <2>1 DEF Init, OwnCodes
    <3>3. OneHolder /\ UsedOnce
      BY <2>1 DEF Init, OneHolder, UsedOnce, Before, Spending
    <3>4. QED
      BY <3>1, <3>2, <3>3 DEF CodesInv
<1>2. TypeOK /\ CodesInv /\ [Next]_vars => CodesInv'
  BY CodesNext
<1>3. TypeOK /\ CodesInv => OneTimeCode
  BY OneTimeMeans
<1>4. QED
  BY <1>1, <1>2, <1>3, TypeCorrect, PTL DEF Spec

-----------------------------------------------------------------------------
(* Whoever is displaced is told: the binding that took the user away has the *)
(* chat in hand as the former one.                                           *)

Telling(t, m) ==
  /\ Binds(t) /\ task[t].user = m[1] /\ task[t].former = m[2]
  /\ task[t].pc \in {"consume", "notice"} /\ m[2] # task[t].chat

FormerInv ==
  /\ \A t, w \in Tasks : t # w /\ Binds(t) /\ Binds(w) /\ task[t].user = task[w].user
                           => task[t].user \in crossed
  /\ \A t \in Tasks : Binds(t) /\ task[t].user \notin crossed /\ task[t].pc \in {"clear", "set"}
                        => chat[task[t].user] \in {task[t].former, NoChat}
  /\ \A m \in moved : m[1] \in crossed \cup cut \/ \E t \in Tasks : Telling(t, m)

LEMMA MovedFacts ==
  ASSUME TypeOK, NEW m \in moved
  PROVE  m[1] \in Users /\ m[2] \in Chats /\ m[2] # NoChat /\ m = <<m[1], m[2]>>
<1>1. m \in Users \X Chats
  BY DEF TypeOK
<1>2. QED
  BY <1>1, BindingAssumption

\* Bindings that end on record, and chats that are lost.
LEMMA FormerFrame ==
  ASSUME TypeOK, FormerInv, moved' \subseteq moved, crossed \subseteq crossed', cut \subseteq cut',
         \A u \in Users : chat'[u] \in {chat[u], NoChat},
         \A w \in Tasks : task'[w] = task[w] \/ ~Binds(w)',
         \A w \in Tasks, m \in moved' : Telling(w, m) => task'[w] = task[w] \/ m[1] \in cut'
  PROVE  FormerInv'
<1>1. \A w \in Tasks : Binds(w)' => task'[w] = task[w] /\ Binds(w) /\ task[w].user \in Users
  BY BindFacts DEF Binds
<1>2. \A t, w \in Tasks : t # w /\ Binds(t)' /\ Binds(w)' /\ task'[t].user = task'[w].user
                            => task'[t].user \in crossed'
  BY <1>1 DEF FormerInv
<1>3. \A t \in Tasks : /\ Binds(t)' /\ task'[t].user \notin crossed' /\ task'[t].pc \in {"clear", "set"}
                         => chat'[task'[t].user] \in {task'[t].former, NoChat}
  BY <1>1 DEF FormerInv
<1>4. ASSUME NEW m \in moved', m[1] \notin crossed' \cup cut'
      PROVE  \E t \in Tasks : Telling(t, m)'
  <2>1. PICK t \in Tasks : Telling(t, m)
    BY <1>4 DEF FormerInv
  <2>2. task'[t] = task[t]
    BY <1>4, <2>1
  <2>3. QED
    BY <2>1, <2>2 DEF Telling, Binds
<1>5. QED
  BY <1>2, <1>3, <1>4 DEF FormerInv

LEMMA FormerNext ==
  ASSUME TypeOK, FormerInv, [Next]_vars
  PROVE  FormerInv'
<1> USE DEF history, bounds, codes
<1>0. task \in [Tasks -> Job] /\ chat \in [Users -> Chats \cup {NoChat}]
  BY DEF TypeOK
<1>1. ASSUME NEW t \in Tasks, BeginBind(t) PROVE FormerInv'
  <2>1. PICK u \in Users :
           /\ ~Binds(t) /\ Binds(t)' /\ task'[t].user = u /\ task'[t].former = chat[u]
           /\ \A w \in Tasks \ {t} : task'[w] = task[w]
           /\ crossed \subseteq crossed' /\ (Handled(u) => u \in crossed')
    BY <1>1, BeginBindStep
  <2>2. UNCHANGED <<chat, cut, moved>>
    BY <1>1 DEF BeginBind
  <2>3. \A w \in Tasks \ {t} : Binds(w) /\ task[w].user = u => u \in crossed'
    BY <2>1 DEF Handled
  <2>4. \A v, w \in Tasks : v # w /\ Binds(v)' /\ Binds(w)' /\ task'[v].user = task'[w].user
                              => task'[v].user \in crossed'
    BY <2>1, <2>3 DEF FormerInv, Binds
  <2>5. \A v \in Tasks : Binds(v)' /\ task'[v].user \notin crossed' /\ task'[v].pc \in {"clear", "set"}
                           => chat'[task'[v].user] \in {task'[v].former, NoChat}
    BY <2>1, <2>2 DEF FormerInv, Binds
  <2>6. \A m \in moved' : m[1] \in crossed' \cup cut' \/ \E v \in Tasks : Telling(v, m)'
    BY <2>1, <2>2 DEF FormerInv, Telling, Binds
  <2>7. QED
    BY <2>4, <2>5, <2>6 DEF FormerInv
<1>2. ASSUME NEW t \in Tasks, NEW from \in {"clear", "set", "consume"},
             NEW pc \in {"set", "consume", "notice"},
             At(t, from), Go(t, pc), UNCHANGED <<crossed, cut>>,
             pc = "set" => \A v \in Users : chat'[v] \in {chat[v], NoChat},
             \A v \in Users : v # task[t].user => chat'[v] \in {chat[v], NoChat},
             \A m \in moved' : \/ m \in moved
                               \/ m[1] \in crossed \/ Telling(t, m)',
             from \in {"clear", "set"} \/ pc = "notice"
      PROVE  FormerInv'
  <2>1. /\ Binds(t) /\ Binds(t)' /\ task[t].pc = from /\ task'[t].pc = pc
        /\ task'[t].chat = task[t].chat /\ task'[t].user = task[t].user
        /\ task'[t].former = task[t].former
        /\ \A w \in Tasks \ {t} : task'[w] = task[w]
    BY <1>2, BindStep
  <2>2. \A v, w \in Tasks : v # w /\ Binds(v)' /\ Binds(w)' /\ task'[v].user = task'[w].user
                              => task'[v].user \in crossed'
    BY <1>2, <2>1 DEF FormerInv, Binds
  <2>3. ASSUME NEW w \in Tasks, Binds(w)', task'[w].user \notin crossed', task'[w].pc \in {"clear", "set"}
        PROVE  chat'[task'[w].user] \in {task'[w].former, NoChat}
    <3>1. Binds(w) /\ task'[w].user = task[w].user /\ task'[w].former = task[w].former
      BY <2>1, <2>3 DEF Binds
    <3>2. task[w].user \in Users
      BY <3>1, BindFacts
    <3>3. task[w].pc \in {"clear", "set"}
      <4>1. CASE w = t
        BY <1>2, <2>1, <2>3, <4>1
      <4>2. CASE w # t
        BY <2>1, <2>3, <4>2
      <4>3. QED
        BY <4>1, <4>2
    <3>4. chat[task[w].user] \in {task[w].former, NoChat}
      BY <1>2, <2>3, <3>1, <3>3 DEF FormerInv
    <3>5. chat'[task[w].user] \in {chat[task[w].user], NoChat}
      <4>1. CASE w = t
        BY <1>2, <2>1, <2>3, <3>2, <4>1
      <4>2. CASE w # t
        <5>1. task[w].user # task[t].user
          BY <1>2, <2>1, <2>3, <3>1, <4>2 DEF FormerInv
        <5>2. QED
          BY <1>2, <3>2, <5>1
      <4>3. QED
        BY <4>1, <4>2
    <3>6. QED
      BY <3>1, <3>4, <3>5
  <2>4. ASSUME NEW m \in moved', m[1] \notin crossed' \cup cut'
        PROVE  \E v \in Tasks : Telling(v, m)'
    <3>1. CASE Telling(t, m)'
      BY <3>1
    <3>2. CASE m \in moved
      <4>1. PICK v \in Tasks : Telling(v, m)
        BY <1>2, <2>4, <3>2 DEF FormerInv
      <4>2. Telling(v, m)'
        <5>1. CASE v = t
          BY <1>2, <2>1, <4>1, <5>1 DEF Telling
        <5>2. CASE v # t
          BY <2>1, <4>1, <5>2 DEF Telling, Binds
        <5>3. QED
          BY <5>1, <5>2
      <4>3. QED
        BY <4>2
    <3>3. QED
      BY <1>2, <2>4, <3>1, <3>2
  <2>5. QED
    BY <2>2, <2>3, <2>4 DEF FormerInv
<1>3. ASSUME NEW t \in Tasks, ClearChat(t) PROVE FormerInv'
  <2>1. \A u \in Users : chat'[u] \in {chat[u], NoChat}
    BY <1>3 DEF ClearChat
  <2>2. QED
    BY <1>2, <1>3, <2>1 DEF ClearChat
<1>4. ASSUME NEW t \in Tasks, SetBinding(t) PROVE FormerInv'
  <2>1. /\ Binds(t) /\ Binds(t)' /\ task[t].pc = "set" /\ task'[t].pc = "consume"
        /\ task'[t].chat = task[t].chat /\ task'[t].user = task[t].user
        /\ task'[t].former = task[t].former
    BY <1>4, BindStep DEF SetBinding
  <2>2. task[t].user \in Users
    BY <2>1, BindFacts
  <2>3. \A v \in Users : v # task[t].user => chat'[v] = chat[v]
    BY <1>0, <1>4 DEF SetBinding
  <2>4. ASSUME NEW m \in moved', m \notin moved, m[1] \notin crossed
        PROVE  Telling(t, m)'
    <3>1. m = <<task[t].user, chat[task[t].user]>> /\ chat[task[t].user] \notin {NoChat, task[t].chat}
      BY <1>4, <2>4 DEF SetBinding
    <3>2. m[1] = task[t].user /\ m[2] = chat[task[t].user]
      BY <3>1
    <3>3. m[2] = task[t].former /\ m[2] # task[t].chat
      BY <2>1, <2>4, <3>1, <3>2 DEF FormerInv
    <3>4. QED
      BY <2>1, <3>2, <3>3 DEF Telling
  <2>5. UNCHANGED <<crossed, cut>> /\ At(t, "set") /\ Go(t, "consume")
    BY <1>4 DEF SetBinding
  <2>6. QED
    BY <1>2, <2>3, <2>4, <2>5
<1>5. ASSUME NEW t \in Tasks, Consume(t) PROVE FormerInv'
  <2>1. UNCHANGED <<chat, crossed, cut, moved>> /\ At(t, "consume")
    BY <1>5 DEF Consume
  <2>2. CASE Go(t, "notice")
    BY <1>2, <2>1, <2>2
  <2>3. CASE Former(t) \in {NoChat, task[t].chat} /\ End(t)
    <3>1. ~Binds(t)' /\ \A w \in Tasks \ {t} : task'[w] = task[w]
      BY <1>0, <2>3, EndTask DEF Binds, Idle
    <3>2. \A m \in moved : ~Telling(t, m)
      BY <2>3, MovedFacts DEF Telling, Former
    <3>3. QED
      BY <2>1, <3>1, <3>2, FormerFrame
  <2>4. QED
    BY <1>5, <2>2, <2>3 DEF Consume
<1>6. ASSUME NEW t \in Tasks, Notify(t) PROVE FormerInv'
  <2>1. ~Binds(t)' /\ \A w \in Tasks \ {t} : task'[w] = task[w]
    BY <1>0, <1>6, EndTask DEF Notify, Binds, Idle
  <2>2. moved' = moved \ {<<task[t].user, task[t].former>>}
    BY <1>6 DEF Notify, Former
  <2>3. \A m \in moved' : ~Telling(t, m)
    BY <2>2, MovedFacts DEF Telling
  <2>4. UNCHANGED <<chat, crossed, cut>> /\ moved' \subseteq moved
    BY <1>6, <2>2 DEF Notify
  <2>5. QED
    BY <2>1, <2>3, <2>4, FormerFrame
<1>7. ASSUME NEW t \in Tasks, SettingStep(t) PROVE FormerInv'
  <2>1. \A w \in Tasks : task'[w] = task[w] \/ ~Binds(w)'
    BY <1>7, SettingKeepsBinds, BindsKeptFacts
  <2>2. \A w \in Tasks : Binds(w) => task'[w] = task[w]
    BY <1>7, SettingKeepsBusy
  <2>3. UNCHANGED <<chat, cut, moved, crossed>>
    BY <1>7, SettingKeepsBinds
  <2>4. QED
    BY <2>1, <2>2, <2>3, FormerFrame DEF Telling
<1>8. CASE (\E t \in Tasks : TaskEnds(t)) \/ BotEnds
  <2>1. \A w \in Tasks : task'[w] = task[w] \/ ~Binds(w)'
    BY <1>8, EndKeepsBinds, BindsKeptFacts
  <2>2. \A w \in Tasks, m \in moved' : Telling(w, m) => task'[w] = task[w] \/ m[1] \in cut'
    BY <1>8, EndKeepsBinds DEF Telling
  <2>3. UNCHANGED <<chat, moved, crossed>> /\ cut \subseteq cut'
    BY <1>8, EndKeepsBinds
  <2>4. QED
    BY <2>1, <2>2, <2>3, FormerFrame
<1>9. CASE RowStep
  <2>1. /\ UNCHANGED <<task, cut, moved>> /\ crossed \subseteq crossed'
    BY <1>9 DEF RowStep, Regen, BeginUnbind, FillCode, Unbind, StartProcess, FillFails
  <2>2. \A u \in Users : chat'[u] \in {chat[u], NoChat}
    BY <1>0, <1>9 DEF RowStep, Regen, BeginUnbind, FillCode, Unbind, StartProcess, FillFails
  <2>3. QED
    BY <2>1, <2>2, FormerFrame
<1>10. CASE UNCHANGED vars
  BY <1>10, FormerFrame DEF vars
<1>11. QED
  BY <1>1, <1>3, <1>4, <1>5, <1>6, <1>7, <1>8, <1>9, <1>10, NextCases

\* bind_user: a chat that loses its user to another one is told, unless that
\* binding failed half-way or overlapped another change.
THEOREM DisplacedToldCorrect == Spec => []DisplacedTold
<1>1. Init => FormerInv
  BY DEF Init, FormerInv, Binds, Idle
<1>2. TypeOK /\ FormerInv /\ [Next]_vars => FormerInv'
  BY FormerNext
<1>3. TypeOK /\ FormerInv => DisplacedTold
  <2> SUFFICES ASSUME TypeOK, FormerInv PROVE DisplacedTold
    OBVIOUS
  <2>1. \A t \in Tasks : Binds(t) => task[t] # Idle
    BY BindFacts
  <2>2. QED
    BY <2>1 DEF FormerInv, DisplacedTold, Telling, At
<1>4. QED
  BY <1>1, <1>2, <1>3, TypeCorrect, PTL DEF Spec

-----------------------------------------------------------------------------
(* No lost switch: the row a task is about to write is the one in the table  *)
(* with its own change, or two tasks have the row.                           *)

Writes(t) == task[t] \in SettingJob /\ task[t].pc = "write"
RowOf(t) ==
  [settings[task[t].who] EXCEPT ![task[t].what] =
     IF task[t].cmd = "flip" THEN ~@ ELSE task[t].row.times]

RowInv ==
  /\ NoLostSwitch
  /\ \A t, w \in Tasks : t # w /\ Writes(t) /\ Writes(w) /\ task[t].who = task[w].who
                           => task[t].who \in muddled
  /\ \A t \in Tasks : Writes(t) /\ task[t].who \notin muddled => task[t].row = RowOf(t)

LEMMA WriterFacts ==
  ASSUME NEW t \in Tasks, Writes(t)
  PROVE  /\ task[t].who \in Users \cup Admins /\ task[t].row \in Row
         /\ \/ task[t].cmd = "flip" /\ task[t].what \in {"quota", "schedule"}
            \/ task[t].cmd = "answer" /\ task[t].what = "times"
  BY DEF Writes, SettingJob

\* Steps that write no row.
LEMMA RowFrame ==
  ASSUME RowInv, UNCHANGED <<settings, wanted, muddled>>,
         \A w \in Tasks : task'[w] = task[w] \/ ~Writes(w)'
  PROVE  RowInv'
<1>1. \A w \in Tasks : Writes(w)' => Writes(w) /\ task'[w] = task[w]
  BY DEF Writes
<1>2. NoLostSwitch'
  BY DEF RowInv, NoLostSwitch
<1>3. \A t, w \in Tasks : t # w /\ Writes(t)' /\ Writes(w)' /\ task'[t].who = task'[w].who
                            => task'[t].who \in muddled'
  BY <1>1 DEF RowInv
<1>4. \A t \in Tasks : Writes(t)' /\ task'[t].who \notin muddled' => task'[t].row = RowOf(t)'
  BY <1>1 DEF RowInv, RowOf
<1>5. QED
  BY <1>2, <1>3, <1>4 DEF RowInv

\* A button or a message that starts to change the settings of somebody.
LEMMA RowBegins ==
  ASSUME TypeOK, RowInv, NEW t \in Tasks, NEW job \in SettingJob, BeginSetting(t, job),
         job.row = [settings[job.who] EXCEPT ![job.what] =
                      IF job.cmd = "flip" THEN ~@ ELSE job.row.times]
  PROVE  RowInv'
<1>0. task \in [Tasks -> Job]
  BY DEF TypeOK
<1>1. task'[t] = job /\ \A w \in Tasks \ {t} : task'[w] = task[w]
  BY <1>0 DEF BeginSetting
<1>2. UNCHANGED <<settings, wanted>> /\ muddled' = muddled \cup {s \in {job.who} : Setting(s)}
  BY DEF BeginSetting
<1>3. NoLostSwitch'
  BY <1>2 DEF RowInv, NoLostSwitch
<1>4. \A w \in Tasks : Writes(w) /\ task[w].who = job.who => job.who \in muddled'
  BY <1>2, WriterFacts DEF Setting
<1>5. \A v, w \in Tasks : v # w /\ Writes(v)' /\ Writes(w)' /\ task'[v].who = task'[w].who
                            => task'[v].who \in muddled'
  BY <1>1, <1>2, <1>4 DEF RowInv, Writes
<1>6. ASSUME NEW w \in Tasks, Writes(w)', task'[w].who \notin muddled'
      PROVE  task'[w].row = RowOf(w)'
  <2>1. CASE w = t
    BY <1>1, <1>2, <2>1 DEF RowOf
  <2>2. CASE w # t
    BY <1>1, <1>2, <1>6, <2>2 DEF RowInv, RowOf, Writes
  <2>3. QED
    BY <2>1, <2>2
<1>7. QED
  BY <1>3, <1>5, <1>6 DEF RowInv

\* What is written is the row of the table with the one change, also where the
\* statement leaves a column out.
LEMMA WrittenRow ==
  ASSUME TypeOK, NEW t \in Tasks, Writes(t), task[t].row = RowOf(t)
  PROVE  Written(task[t]) = RowOf(t)
<1>1. settings[task[t].who] \in Row /\ Users \cap Admins = {}
  BY WriterFacts, BindingAssumption DEF TypeOK
<1>2. CASE task[t].who \in Users
  BY <1>1, <1>2 DEF Written
<1>3. CASE task[t].who \in Admins /\ task[t].what = "quota"
  <2>1. task[t].cmd = "flip"
    BY <1>3, WriterFacts
  <2>2. RowOf(t) = [settings[task[t].who] EXCEPT !.quota = ~@]
    BY <1>3, <2>1 DEF RowOf
  <2>3. task[t].row.quota = ~settings[task[t].who].quota
    BY <1>1, <2>2 DEF Row
  <2>4. Written(task[t]) = [settings[task[t].who] EXCEPT !.quota = task[t].row.quota]
    BY <1>1, <1>3 DEF Written
  <2>5. QED
    BY <2>2, <2>3, <2>4
<1>4. CASE task[t].who \in Admins /\ task[t].what # "quota"
  <2>1. task[t].row.quota = settings[task[t].who].quota
    BY <1>1, <1>4 DEF RowOf, Row
  <2>2. [task[t].row EXCEPT !.quota = settings[task[t].who].quota] = task[t].row
    BY <2>1, WriterFacts DEF Row
  <2>3. QED
    BY <1>1, <1>4, <2>2 DEF Written
<1>5. QED
  BY <1>2, <1>3, <1>4, WriterFacts

LEMMA RowNext ==
  ASSUME TypeOK, RowInv, [Next]_vars
  PROVE  RowInv'
<1> USE DEF history, bounds, codes
<1>0. task \in [Tasks -> Job]
  BY DEF TypeOK
<1>1. ASSUME NEW t \in Tasks, Flip(t) PROVE RowInv'
  <2>1. PICK c \in Chats, k \in {"quota", "schedule"}, s \in Users \cup Admins :
          BeginSetting(t, [cmd |-> "flip", pc |-> "write", chat |-> c, who |-> s,
                           row |-> [settings[s] EXCEPT ![k] = ~@], what |-> k])
    BY <1>1 DEF Flip, Subjects
  <2> DEFINE job == [cmd |-> "flip", pc |-> "write", chat |-> c, who |-> s,
                     row |-> [settings[s] EXCEPT ![k] = ~@], what |-> k]
  <2>2. [settings[s] EXCEPT ![k] = ~@] \in Row
    BY DEF TypeOK, Row
  <2>3. job \in SettingJob
    BY <2>2 DEF SettingJob
  <2>4. job.row = [settings[job.who] EXCEPT ![job.what] =
                      IF job.cmd = "flip" THEN ~@ ELSE job.row.times]
    OBVIOUS
  <2>5. BeginSetting(t, job)
    BY <2>1
  <2> HIDE DEF job
  <2>6. QED
    BY <2>3, <2>4, <2>5, RowBegins
<1>2. ASSUME NEW t \in Tasks, Answer(t) PROVE RowInv'
  <2>1. PICK c \in Chats, times \in {"own", "default"} :
          /\ pending[c] # NoUser
          /\ BeginSetting(t, [cmd |-> "answer", pc |-> "write", chat |-> c, who |-> pending[c],
                              row |-> [settings[pending[c]] EXCEPT !.times = times],
                              what |-> "times"])
    BY <1>2 DEF Answer
  <2> DEFINE job == [cmd |-> "answer", pc |-> "write", chat |-> c, who |-> pending[c],
                     row |-> [settings[pending[c]] EXCEPT !.times = times], what |-> "times"]
  <2>2. settings[pending[c]] \in Row /\ pending[c] \in Users \cup Admins
    BY <2>1 DEF TypeOK
  <2>3. [settings[pending[c]] EXCEPT !.times = times] \in Row
        /\ [settings[pending[c]] EXCEPT !.times = times].times = times
    BY <2>2 DEF Row
  <2>4. job \in SettingJob
    BY <2>2, <2>3 DEF SettingJob
  <2>5. job.row = [settings[job.who] EXCEPT ![job.what] =
                      IF job.cmd = "flip" THEN ~@ ELSE job.row.times]
    BY <2>3
  <2>6. BeginSetting(t, job)
    BY <2>1
  <2> HIDE DEF job
  <2>7. QED
    BY <2>4, <2>5, <2>6, RowBegins
<1>3. ASSUME NEW t \in Tasks, WriteSettings(t) PROVE RowInv'
  <2>1. Writes(t)
    BY <1>0, <1>3, JobKinds DEF WriteSettings, Writes, At
  <2>2. ~Writes(t)' /\ \A w \in Tasks \ {t} : task'[w] = task[w]
    <3>1. CASE End(t)
      BY <1>0, <3>1, EndTask DEF Writes, SettingJob, Idle
    <3>2. CASE Go(t, "remove") /\ task[t].cmd = "answer"
      BY <1>0, <2>1, <3>2, GoSetting DEF Writes
    <3>3. QED
      BY <1>3, <3>1, <3>2 DEF WriteSettings
  <2>3. task[t].who \in Users \cup Admins
    BY <2>1, WriterFacts
  <2>4. UNCHANGED muddled
    BY <1>3 DEF WriteSettings
  <2>5. \A s \in Users \cup Admins : s # task[t].who => settings'[s] = settings[s] /\ wanted'[s] = wanted[s]
    BY <1>3, <2>3 DEF WriteSettings, TypeOK
  <2>6. task[t].who \notin muddled => settings'[task[t].who] = wanted'[task[t].who]
    <3> SUFFICES ASSUME task[t].who \notin muddled
                 PROVE  settings'[task[t].who] = wanted'[task[t].who]
      OBVIOUS
    <3>1. settings[task[t].who] = wanted[task[t].who] /\ task[t].row = RowOf(t)
      BY <2>1, <2>3 DEF RowInv, NoLostSwitch
    <3>2. Written(task[t]) = RowOf(t)
      BY <2>1, <3>1, WrittenRow
    <3>3. settings'[task[t].who] = Written(task[t])
      BY <1>3, <2>3 DEF WriteSettings, TypeOK
    <3>4. wanted'[task[t].who] = [wanted[task[t].who] EXCEPT ![task[t].what] =
                                    IF task[t].cmd = "flip" THEN ~@ ELSE task[t].row.times]
      BY <1>3, <2>3 DEF WriteSettings, TypeOK
    <3>5. QED
      BY <3>1, <3>2, <3>3, <3>4 DEF RowOf
  <2>7. NoLostSwitch'
    BY <2>3, <2>4, <2>5, <2>6 DEF RowInv, NoLostSwitch
  <2>8. \A v, w \in Tasks : v # w /\ Writes(v)' /\ Writes(w)' /\ task'[v].who = task'[w].who
                              => task'[v].who \in muddled'
    BY <2>2, <2>4 DEF RowInv, Writes
  <2>9. ASSUME NEW w \in Tasks, Writes(w)', task'[w].who \notin muddled'
        PROVE  task'[w].row = RowOf(w)'
    <3>1. Writes(w) /\ task'[w] = task[w] /\ w # t
      BY <2>2, <2>9 DEF Writes
    <3>2. task[w].who # task[t].who /\ task[w].row = RowOf(w)
      BY <2>1, <2>4, <2>9, <3>1 DEF RowInv
    <3>3. settings'[task[w].who] = settings[task[w].who]
      BY <2>5, <3>1, <3>2, WriterFacts
    <3>4. QED
      BY <3>1, <3>2, <3>3 DEF RowOf
  <2>10. QED
    BY <2>7, <2>8, <2>9 DEF RowInv
<1>4. \A w \in Tasks : task'[w] = Idle => ~Writes(w)'
  BY DEF Writes, SettingJob, Idle
<1>5. \A w \in Tasks : task'[w] \in BindJob => ~Writes(w)'
  BY DEF Writes, SettingJob, BindJob
<1>6. ASSUME NEW t \in Tasks,
             BeginBind(t) \/ ClearChat(t) \/ SetBinding(t) \/ Consume(t) \/ Notify(t) \/ EndDialog(t)
      PROVE  RowInv'
  <2>1. task'[t] = Idle \/ task'[t] \in BindJob
    <3>1. CASE BeginBind(t)
      <4>1. task'[t] \in Job /\ Binds(t)'
        BY <3>1, BeginBindStep, TypeNext DEF TypeOK
      <4>2. QED
        BY <4>1 DEF Binds, Job, BindJob, Idle
    <3>2. CASE ClearChat(t) \/ SetBinding(t)
      BY <1>0, <3>2, JobKinds, GoBind DEF ClearChat, SetBinding
    <3>3. CASE Consume(t)
      BY <1>0, <3>3, JobKinds, GoBind, EndTask DEF Consume
    <3>4. CASE Notify(t) \/ EndDialog(t)
      BY <1>0, <3>4, EndTask DEF Notify, EndDialog
    <3>5. QED
      BY <1>6, <3>1, <3>2, <3>3, <3>4
  <2>2. \A w \in Tasks \ {t} : task'[w] = task[w]
    BY <1>0, <1>6 DEF BeginBind, ClearChat, SetBinding, Consume, Notify, EndDialog, Go, End
  <2>3. UNCHANGED <<settings, wanted, muddled>>
    BY <1>6 DEF BeginBind, ClearChat, SetBinding, Consume, Notify, EndDialog
  <2>4. QED
    BY <1>4, <1>5, <2>1, <2>2, <2>3, RowFrame
<1>7. ASSUME NEW t \in Tasks, Prompt(t) \/ OtherCommand(t) PROVE RowInv'
  BY <1>7, RowFrame DEF Prompt, OtherCommand
<1>8. CASE (\E t \in Tasks : TaskEnds(t)) \/ BotEnds
  <2>1. \A w \in Tasks : task'[w] = task[w] \/ task'[w] = Idle
    BY <1>0, <1>8 DEF TaskEnds, BotEnds, End
  <2>2. QED
    BY <1>4, <1>8, <2>1, EndKeepsBinds, RowFrame
<1>9. CASE RowStep
  BY <1>9, RowFrame DEF RowStep, Regen, BeginUnbind, FillCode, Unbind, StartProcess, FillFails
<1>10. CASE UNCHANGED vars
  BY <1>10, RowFrame DEF vars
<1>11. QED
  BY <1>1, <1>2, <1>3, <1>6, <1>7, <1>8, <1>9, <1>10, NextCases DEF SettingStep

\* Switches and times that people have asked for are what the table says,
\* unless two tasks changed one row at once.
THEOREM NoLostSwitchCorrect == Spec => []NoLostSwitch
<1>1. Init => RowInv
  BY DEF Init, RowInv, NoLostSwitch, Writes, SettingJob, Idle
<1>2. TypeOK /\ RowInv /\ [Next]_vars => RowInv'
  BY RowNext
<1>3. RowInv => NoLostSwitch
  BY DEF RowInv
<1>4. QED
  BY <1>1, <1>2, <1>3, TypeCorrect, PTL DEF Spec
=============================================================================
