-------------------------- MODULE TelegramBinding --------------------------
(* What people and administrators do to the Telegram columns of the users    *)
(* table: one-time codes, which chat belongs to which user, and the settings *)
(* of notifications.  Every update of Telegram is handled by a task of its   *)
(* own, up to eight at a time; an action is one of its statements.  The      *)
(* command line and the administrators' buttons change the same rows, and so *)
(* does every process that starts.                                           *)
(*                                                                           *)
(* What is shown to people is left out, as is the polling for updates        *)
(* (TelegramBot).  The three thresholds of a user are one switch here.       *)
EXTENDS Integers, FiniteSets

CONSTANTS
  Users, Chats,
  Admins,       \* the chats of administrators, with settings of their own
  NoUser, NoChat,
  Tasks,        \* updates handled at the same time
  MaxCodes,     \* codes made in a behaviour, those of the start included (bound)
  MaxUpdates,   \* updates in a behaviour (bound)
  MaxStarts,    \* starts of a process (bound)
  MaxFaults     \* failures and ends of tasks (bound)

ASSUME BindingAssumption ==
  /\ Admins \subseteq Chats /\ NoChat \notin Chats
  /\ Users \cap Chats = {} /\ NoUser \notin Users \cup Chats
  /\ IsFiniteSet(Users) /\ MaxCodes \in Nat /\ Cardinality(Users) <= MaxCodes
  /\ MaxUpdates \in Nat /\ MaxStarts \in Nat /\ MaxFaults \in Nat

VARIABLES
  chat, code,   \* tg_chat_id and tg_bind_token of every user
  settings,     \* his columns of notifications, and those of tg_admin_prefs
  pending,      \* per chat, in memory: whose times the next message sets
  task,
  unbinding,    \* the user an unbind has read as bound
  todo,         \* users a starting process has still to give a code to
  made,         \* codes made so far
  updates, starts, faults,
  crossed,      \* history: users, and chats, two of whose changes overlapped
  cut,          \* history: users one of whose bindings ended half-way
  spare,        \* history: codes an administrator made for a bound user
  used,         \* history: which code has bound which chat
  late,         \* history: users bound since the starting process listed them
  stray,        \* history: codes looked up by two bindings at once, left by a
                \* binding that ended unspent, or given to one of `late'
  moved,        \* history: who lost a user to another chat and has not been told
  muddled,      \* history: whose settings were changed by two tasks at once
  wanted        \* history: the settings that people have asked for

codes == <<spare, used, late, stray>>
history == <<crossed, cut, codes, moved, muddled, wanted>>
bounds == <<made, updates, starts, faults>>
vars == <<chat, code, settings, pending, task, unbinding, todo, bounds, history>>

NoCode == 0
\* times of his own, or the ones of the configuration
Row == [quota : BOOLEAN, schedule : BOOLEAN, times : {"own", "default"}]
Idle == [cmd |-> "idle"]
Job == [cmd : {"bind"}, pc : {"clear", "set", "consume", "notice"}, chat : Chats,
        user : Users, code : 1..MaxCodes, former : Chats \cup {NoChat}]
       \cup [cmd : {"flip"}, pc : {"write"}, chat : Chats,
             who : Users \cup Admins, row : Row, what : {"quota", "schedule"}]
       \cup [cmd : {"answer"}, pc : {"write", "remove"}, chat : Chats,
             who : Users \cup Admins, row : Row, what : {"times"}]
       \cup {Idle}

Bound(u) == chat[u] # NoChat
Binds(t) == task[t].cmd = "bind"
At(t, pc) == task[t] # Idle /\ task[t].pc = pc
Go(t, pc) == task' = [task EXCEPT ![t].pc = pc]
End(t) == task' = [task EXCEPT ![t] = Idle]
Fault == faults < MaxFaults /\ faults' = faults + 1

(* Somebody is changing the binding of u, or binding c, or the settings of s.*)
Handled(u) == u = unbinding \/ u \in todo \/ \E t \in Tasks : Binds(t) /\ task[t].user = u
Binding(c) == \E t \in Tasks : Binds(t) /\ task[t].chat = c
\* A binding by the code k that has not spent it yet.
Holds(t, k) == /\ Binds(t) /\ task[t].code = k
               /\ At(t, "clear") \/ At(t, "set") \/ At(t, "consume")
Setting(s) == \E t \in Tasks : task[t].cmd \in {"flip", "answer"} /\ task[t].who = s

(* add_user gives every user a code of his own. *)
Init ==
  /\ chat = [u \in Users |-> NoChat]
  /\ made = Cardinality(Users)
  /\ code \in {f \in [Users -> 1..made] : \A u, v \in Users : f[u] = f[v] => u = v}
  /\ settings = [s \in Users \cup Admins |->
                   [quota |-> TRUE, schedule |-> TRUE, times |-> "default"]]
  /\ pending = [c \in Chats |-> NoUser]
  /\ task = [t \in Tasks |-> Idle]
  /\ unbinding = NoUser /\ todo = {}
  /\ updates = 0 /\ starts = 0 /\ faults = 0
  /\ crossed = {} /\ cut = {} /\ moved = {} /\ muddled = {}
  /\ spare = {} /\ used = {} /\ late = {} /\ stray = {}
  /\ wanted = settings

Update == updates < MaxUpdates /\ updates' = updates + 1

-----------------------------------------------------------------------------
(* /bind: the code is looked up, the chat leaves the user it had, the user   *)
(* gets the chat, the code is spent; the chat he had before is told.  A      *)
(* command ends a dialog.                                                    *)
BeginBind(t) ==
  /\ task[t] = Idle /\ Update
  /\ \E c \in Chats, u \in Users :
       /\ code[u] # NoCode
       /\ task' = [task EXCEPT ![t] = [cmd |-> "bind", pc |-> "clear", chat |-> c, user |-> u,
                                       code |-> code[u], former |-> chat[u]]]
       /\ pending' = [pending EXCEPT ![c] = NoUser]
       /\ crossed' = crossed \cup {x \in {u} : Handled(u)} \cup {x \in {c} : Binding(c)}
       /\ stray' = stray \cup {k \in {code[u]} : \E p \in Tasks : Holds(p, k)}
  /\ UNCHANGED <<chat, code, settings, unbinding, todo, made, starts, faults,
                 cut, spare, used, late, moved, muddled, wanted>>

\* Seeded fault: the chat keeps the user it had.
ClearNothing(t) ==
  /\ At(t, "clear") /\ Go(t, "set")
  /\ UNCHANGED <<chat, code, settings, pending, unbinding, todo, bounds, history>>
ClearChat(t) ==
  /\ At(t, "clear") /\ Go(t, "set")
  /\ chat' = [u \in Users |-> IF chat[u] = task[t].chat THEN NoChat ELSE chat[u]]
  /\ UNCHANGED <<code, settings, pending, unbinding, todo, bounds, history>>

SetBinding(t) ==
  LET u == task[t].user
      c == task[t].chat IN
  /\ At(t, "set") /\ Go(t, "consume")
  /\ chat' = [chat EXCEPT ![u] = c]
  /\ moved' = IF chat[u] \notin {NoChat, c} THEN moved \cup {<<u, chat[u]>>} ELSE moved
  /\ used' = used \cup {<<task[t].code, c>>}
  /\ late' = late \cup ({u} \cap todo)
  /\ UNCHANGED <<code, settings, pending, unbinding, todo, bounds,
                 crossed, cut, spare, stray, muddled, wanted>>

\* Seeded fault: the former chat is read after the binding.
FormerNow(t) == chat[task[t].user]
Former(t) == task[t].former

\* Seeded fault: a spent code is null.
SpentNull == -1
Spent == NoCode

Consume(t) ==
  /\ At(t, "consume")
  /\ code' = [code EXCEPT ![task[t].user] = Spent]
  /\ IF Former(t) \notin {NoChat, task[t].chat} THEN Go(t, "notice") ELSE End(t)
  /\ UNCHANGED <<chat, settings, pending, unbinding, todo, bounds, history>>

Notify(t) ==
  /\ At(t, "notice") /\ End(t)
  /\ moved' = moved \ {<<task[t].user, Former(t)>>}
  /\ UNCHANGED <<chat, code, settings, pending, unbinding, todo, bounds,
                 crossed, cut, codes, muddled, wanted>>

(* What a binding that ends between its second and third statement leaves.   *)
Unspent(t) == IF Binds(t) /\ At(t, "consume")
              THEN {task[t].code, code[task[t].user]} \ {NoCode} ELSE {}

(* A statement or a message fails, the task is out of time, or its process   *)
(* ends.                                                                     *)
TaskEnds(t) ==
  /\ task[t] # Idle /\ Fault /\ End(t)
  /\ cut' = IF Binds(t) THEN cut \cup {task[t].user} ELSE cut
  /\ stray' = stray \cup Unspent(t)
  /\ UNCHANGED <<chat, code, settings, pending, unbinding, todo, made, updates, starts,
                 crossed, spare, used, late, moved, muddled, wanted>>

-----------------------------------------------------------------------------
(* Whose settings a chat changes: those of the user bound to it, and an      *)
(* administrator his own.                                                    *)
Subjects(c) == {u \in Users : chat[u] = c} \cup ({c} \cap Admins)

BeginSetting(t, job) ==
  /\ task[t] = Idle /\ Update
  /\ task' = [task EXCEPT ![t] = job]
  /\ muddled' = muddled \cup {s \in {job.who} : Setting(s)}
  /\ UNCHANGED <<chat, code, settings, pending, unbinding, todo, made, starts, faults,
                 crossed, cut, codes, moved, wanted>>

(* A button flips a switch of the row as it was read. *)
Flip(t) ==
  \E c \in Chats, k \in {"quota", "schedule"} : \E s \in Subjects(c) :
    BeginSetting(t, [cmd |-> "flip", pc |-> "write", chat |-> c, who |-> s,
                     row |-> [settings[s] EXCEPT ![k] = ~@], what |-> k])

(* Any other command ends a dialog, too; all else it does is to answer.      *)
OtherCommand(t) ==
  /\ task[t] = Idle /\ Update
  /\ \E c \in Chats : pending[c] # NoUser /\ pending' = [pending EXCEPT ![c] = NoUser]
  /\ UNCHANGED <<chat, code, settings, task, unbinding, todo, made, starts, faults, history>>

(* Another button asks for times ... *)
Prompt(t) ==
  /\ task[t] = Idle /\ Update
  /\ \E c \in Chats : \E s \in Subjects(c) : pending' = [pending EXCEPT ![c] = s]
  /\ UNCHANGED <<chat, code, settings, task, unbinding, todo, made, starts, faults, history>>

(* ... and the next message sets them.  Words that are no times leave an     *)
(* empty list, which means the ones of the configuration.                    *)
Answer(t) ==
  \E c \in Chats, times \in {"own", "default"} :
    /\ pending[c] # NoUser
    /\ BeginSetting(t, [cmd |-> "answer", pc |-> "write", chat |-> c, who |-> pending[c],
                        row |-> [settings[pending[c]] EXCEPT !.times = times],
                        what |-> "times"])

\* Seeded fault: every statement writes the whole row of times and switches,
\* and the times as they are in effect.
WrittenAll(job) == [job.row EXCEPT !.times = IF job.what = "times" THEN @ ELSE "default"]
(* A user's columns are written all at once; of an administrator's the       *)
(* switch of alerts by itself, the others together.                          *)
Written(job) ==
  CASE job.who \in Users -> job.row
    [] job.who \in Admins /\ job.what = "quota" ->
         [settings[job.who] EXCEPT !.quota = job.row.quota]
    [] job.who \in Admins /\ job.what # "quota" ->
         [job.row EXCEPT !.quota = settings[job.who].quota]

WriteSettings(t) ==
  LET job == task[t] IN
  /\ At(t, "write")
  /\ settings' = [settings EXCEPT ![job.who] = Written(job)]
  /\ wanted' = [wanted EXCEPT ![job.who][job.what] =
                  IF job.cmd = "flip" THEN ~@ ELSE job.row.times]
  /\ IF job.cmd = "answer" THEN Go(t, "remove") ELSE End(t)
  /\ UNCHANGED <<chat, code, pending, unbinding, todo, bounds,
                 crossed, cut, codes, moved, muddled>>

EndDialog(t) ==
  /\ At(t, "remove") /\ End(t)
  /\ pending' = [pending EXCEPT ![task[t].chat] = NoUser]
  /\ UNCHANGED <<chat, code, settings, unbinding, todo, bounds, history>>

-----------------------------------------------------------------------------
(* sb bind regen and unbind, and the buttons of the administrators. *)
MakeCode(u) ==
  /\ made < MaxCodes
  /\ made' = made + 1 /\ code' = [code EXCEPT ![u] = made + 1]

Regen(u) ==
  /\ MakeCode(u)
  /\ spare' = IF Bound(u) THEN spare \cup {made + 1} ELSE spare
  /\ crossed' = crossed \cup {x \in {u} : Handled(u)}
  /\ UNCHANGED <<chat, settings, pending, task, unbinding, todo, updates, starts, faults,
                 cut, used, late, stray, moved, muddled, wanted>>

BeginUnbind(u) ==
  /\ unbinding = NoUser /\ Bound(u) /\ unbinding' = u
  /\ crossed' = crossed \cup {x \in {u} : Handled(u)}
  /\ UNCHANGED <<chat, code, settings, pending, task, todo, bounds,
                 cut, codes, moved, muddled, wanted>>

Unbind ==
  /\ unbinding # NoUser /\ unbinding' = NoUser
  /\ chat' = [chat EXCEPT ![unbinding] = NoChat]
  /\ UNCHANGED <<code, settings, pending, task, todo, bounds, history>>

(* Every process that starts gives a code to whoever has none and is not     *)
(* bound, from one reading of the table.                                     *)
\* Seeded fault: bound users get a code again.
NeedsCodeAlways(u) == code[u] = NoCode
NeedsCode(u) == code[u] = NoCode /\ ~Bound(u)

StartProcess ==
  /\ starts < MaxStarts /\ todo = {}
  /\ starts' = starts + 1 /\ todo' = {u \in Users : NeedsCode(u)}
  /\ crossed' = crossed \cup {u \in todo' : Handled(u)}
  /\ late' = {}
  /\ UNCHANGED <<chat, code, settings, pending, task, unbinding, made, updates, faults,
                 cut, spare, used, stray, moved, muddled, wanted>>

FillCode(u) ==
  /\ u \in todo /\ todo' = todo \ {u}
  /\ MakeCode(u)
  /\ stray' = IF Bound(u) /\ u \in late THEN stray \cup {made + 1} ELSE stray
  /\ UNCHANGED <<chat, settings, pending, task, unbinding, updates, starts, faults,
                 crossed, cut, spare, used, late, moved, muddled, wanted>>

FillFails ==
  /\ todo # {} /\ Fault /\ todo' = {}
  /\ UNCHANGED <<chat, code, settings, pending, task, unbinding, made, updates, starts, history>>

(* The process of the bot ends, and what it had in memory with it. *)
BotEnds ==
  /\ Fault
  /\ task' = [t \in Tasks |-> Idle]
  /\ pending' = [c \in Chats |-> NoUser]
  /\ cut' = cut \cup {u \in Users : \E t \in Tasks : Binds(t) /\ task[t].user = u}
  /\ stray' = stray \cup UNION {Unspent(t) : t \in Tasks}
  /\ UNCHANGED <<chat, code, settings, unbinding, todo, made, updates, starts,
                 crossed, spare, used, late, moved, muddled, wanted>>

TaskStep(t) ==
  \/ BeginBind(t) \/ ClearChat(t) \/ SetBinding(t) \/ Consume(t) \/ Notify(t)
  \/ Flip(t) \/ OtherCommand(t) \/ Prompt(t) \/ Answer(t) \/ WriteSettings(t) \/ EndDialog(t)
  \/ TaskEnds(t)

Next ==
  \/ \E t \in Tasks : TaskStep(t)
  \/ \E u \in Users : Regen(u) \/ BeginUnbind(u) \/ FillCode(u)
  \/ Unbind \/ StartProcess \/ FillFails \/ BotEnds

Spec == Init /\ [][Next]_vars

-----------------------------------------------------------------------------
(* Type invariant. *)
TypeOK ==
  /\ chat \in [Users -> Chats \cup {NoChat}]
  /\ code \in [Users -> 0..made] /\ made \in 0..MaxCodes
  /\ settings \in [Users \cup Admins -> Row] /\ wanted \in [Users \cup Admins -> Row]
  /\ pending \in [Chats -> Users \cup Admins \cup {NoUser}]
  /\ task \in [Tasks -> Job]
  /\ unbinding \in Users \cup {NoUser} /\ todo \subseteq Users
  /\ updates \in 0..MaxUpdates /\ starts \in 0..MaxStarts /\ faults \in 0..MaxFaults
  /\ crossed \subseteq Users \cup Chats /\ cut \subseteq Users
  /\ spare \subseteq 1..MaxCodes /\ stray \subseteq 1..MaxCodes
  /\ used \subseteq (1..MaxCodes) \X Chats /\ late \subseteq Users
  /\ muddled \subseteq Users \cup Admins
  /\ moved \subseteq Users \X Chats

(* find_by_tg_chat_id takes the one user of a chat: bind_user leaves no chat *)
(* with two, unless two messages of the chat were handled at the same time.  *)
OneUserPerChat ==
  \A u, v \in Users : u # v /\ Bound(u) /\ chat[u] = chat[v] => chat[u] \in crossed

(* A code is good for one binding (bind_user, ensure_tg_bind_tokens): a user *)
(* who is bound keeps one only if an administrator made it since or his      *)
(* binding is about to spend it, and no code binds two chats.  Three cases   *)
(* break it and are excused code by code: two bindings had looked the code   *)
(* up before one spent it; a binding ended after it had set the chat and     *)
(* before it spent the code; a starting process gave it to somebody bound    *)
(* since it listed him.                                                      *)
OneTimeCode ==
  /\ \A u \in Users : Bound(u) /\ code[u] # NoCode =>
       \/ code[u] \in spare \cup stray
       \/ \E t \in Tasks : Binds(t) /\ At(t, "consume") /\ task[t].user = u
  /\ \A p, q \in used : p[1] = q[1] => p[2] = q[2] \/ p[1] \in stray

(* bind_user: a chat that loses its user to another one is told, or about to *)
(* be, unless that binding failed half-way or overlapped another change.     *)
DisplacedTold ==
  \A m \in moved :
    \/ \E t \in Tasks : /\ Binds(t) /\ task[t].user = m[1]
                        /\ At(t, "consume") \/ At(t, "notice")
    \/ m[1] \in crossed \cup cut

(* Switches and times are written back as whole rows: what people have asked *)
(* for is what the table says, unless two tasks changed one row at once.     *)
NoLostSwitch ==
  \A s \in Users \cup Admins : s \notin muddled => settings[s] = wanted[s]
=============================================================================
