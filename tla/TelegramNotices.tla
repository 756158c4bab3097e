-------------------------- MODULE TelegramNotices --------------------------
(* What the bot sends by itself: an alert when a user's share of his quota   *)
(* reaches 80, 90 and 100 percent, and a report at a set time of the day.    *)
(* The traffic sync keeps in memory for which step it has raised an alert;   *)
(* the task that sends them keeps the level it has told in the users table,  *)
(* and the loop of reports lowers that level when usage has fallen.          *)
(*                                                                           *)
(* One process has the bot (TelegramBot); another one may change the usage.  *)
(* Who listens (the user if he is bound and wants that alert, the            *)
(* administrators who want alerts) is left out; the reports of               *)
(* administrators take the same steps on rows of their own.                  *)
EXTENDS Integers, Sequences

CONSTANTS
  Users,
  Percents,    \* the shares of quota that occur
  AlertPct,    \* quota_alert_percent of the configuration
  DayLen,      \* minutes of a day; everybody's report is set for the first one
  LastMinute,  \* minutes in a behaviour (bound)
  MaxChanges,  \* changes of usage (bound)
  MaxFaults    \* failures and restarts (bound)

ASSUME NoticesAssumption ==
  /\ 0 \in Percents /\ Percents \subseteq 0..100 /\ AlertPct \in 1..100
  /\ DayLen \in Nat \ {0} /\ LastMinute \in Nat /\ MaxChanges \in Nat /\ MaxFaults \in Nat

VARIABLES
  pct,         \* used share of the quota, or Unlimited
  alerted,     \* memory of the sync: the step it has raised an alert for
  queue,       \* alerts on their way to the bot
  alert,       \* the alert that is being sent
  level,       \* tg_last_quota_level
  round,       \* a turn of the loop of reports
  date,        \* tg_last_schedule_dates: the day of the last report
  minute,
  changes, faults,
  known,       \* history: the level the user knows of, lowered with his usage
  repeated,    \* history: users told a level they knew already
  slipped,     \* history: users whose alert was sent and not recorded, or was
               \* not delivered or out of date
  fell,        \* history: whether a turn of the loop has seen the last fall
  hasty,       \* history: users whose usage grew before a fall was noticed
  reports,     \* history: reports of a user on a day
  unrecorded   \* history: users whose report was sent and not recorded

alerts == <<alerted, queue, alert, level>>
history == <<known, repeated, slipped, fell, hasty, reports, unrecorded>>
vars == <<pct, alerts, round, date, minute, changes, faults, history>>

(* alert_bucket of the sync. *)
Step(p) == IF p >= 100 THEN 100 ELSE IF p >= 90 /\ AlertPct <= 90 THEN 90
           ELSE IF p >= AlertPct THEN AlertPct ELSE 0
\* Seeded fault: the levels of an earlier version.
LevelOld(p) == IF p >= 100 THEN 100 ELSE IF p >= 95 THEN 95 ELSE IF p >= 80 THEN 80 ELSE 0
(* quota_level of the bot. *)
Level(p) == IF p >= 100 THEN 100 ELSE IF p >= 90 THEN 90 ELSE IF p >= 80 THEN 80 ELSE 0

Levels == {0, 80, 90, 100}
Unlimited == -1
Shares == Percents \cup {Unlimited}
Day(m) == m \div DayLen
Days == 0..Day(LastMinute)
NoDay == -1
Nobody == [pc |-> "idle"]
Lower(a, b) == IF a < b THEN a ELSE b
Fault == faults < MaxFaults /\ faults' = faults + 1

Init ==
  /\ pct = [u \in Users |-> 0]
  /\ alerted = [u \in Users |-> 0] /\ queue = <<>> /\ alert = Nobody
  /\ level = [u \in Users |-> 0]
  /\ round = Nobody /\ date = [u \in Users |-> NoDay] /\ minute = 0
  /\ changes = 0 /\ faults = 0
  /\ known = [u \in Users |-> 0] /\ repeated = {} /\ slipped = {} /\ hasty = {}
  /\ fell = [u \in Users |-> "seen"]
  /\ reports = [u \in Users |-> [d \in Days |-> 0]] /\ unrecorded = {}

-----------------------------------------------------------------------------
(* The usage of u has fallen, and the loop, the sync or an alert that is on  *)
(* its way does not know yet.                                                *)
FallUnseen(u) ==
  \/ fell[u] # "seen" \/ alerted[u] > Step(pct[u])
  \/ alert # Nobody /\ alert.user = u /\ alert.level > Level(pct[u])
  \/ \E i \in DOMAIN queue : queue[i].user = u /\ queue[i].pct > pct[u]

(* Usage grows with every flush, of this process or another one; it falls    *)
(* with a reset, and its share of the quota with a new package, which may be *)
(* one without a quota.                                                      *)
ChangeUsage(u) ==
  /\ changes < MaxChanges /\ changes' = changes + 1
  /\ \E p \in Shares \ {pct[u]} :
       /\ pct' = [pct EXCEPT ![u] = p]
       /\ known' = [known EXCEPT ![u] = Lower(@, Level(p))]
       /\ fell' = IF p < pct[u] THEN [fell EXCEPT ![u] = "unseen"] ELSE fell
       /\ hasty' = IF p > pct[u] /\ FallUnseen(u) THEN hasty \cup {u} ELSE hasty
  /\ UNCHANGED <<alerts, round, date, minute, faults, repeated, slipped, reports, unrecorded>>

(* sync_once looks at everybody after every sync, and raises an alert when   *)
(* the step has changed.  Users without a quota are passed over, and keep the*)
(* step of the time when they had one.                                       *)
Sync(u) ==
  LET step == Step(pct[u]) IN
  /\ pct[u] # Unlimited /\ alerted[u] # step
  /\ alerted' = [alerted EXCEPT ![u] = step]
  /\ queue' = IF step = 0 THEN queue ELSE Append(queue, [user |-> u, pct |-> pct[u]])
  /\ UNCHANGED <<pct, alert, level, round, date, minute, changes, faults, history>>

(* handle_quota_alert: nothing to tell below the first level or at a level   *)
(* that has been told; else messages, then the record.                       *)
\* Seeded fault: the level of the last alert is not looked at.
NewsAlways(event) == Level(event.pct) > 0
News(event) == Level(event.pct) > 0 /\ Level(event.pct) > level[event.user]

TakeAlert ==
  /\ queue # <<>> /\ alert = Nobody
  /\ queue' = Tail(queue)
  /\ alert' = IF News(Head(queue))
              THEN [pc |-> "send", user |-> Head(queue).user, level |-> Level(Head(queue).pct)]
              ELSE Nobody
  /\ UNCHANGED <<pct, alerted, level, round, date, minute, changes, faults, history>>

SendAlert ==
  LET u == alert.user IN
  /\ alert # Nobody /\ alert.pc = "send"
  /\ alert' = [alert EXCEPT !.pc = "record"]
  /\ repeated' = IF alert.level <= known[u] THEN repeated \cup {u} ELSE repeated
  /\ slipped' = IF alert.level > Level(pct[u]) THEN slipped \cup {u} ELSE slipped
  /\ known' = [known EXCEPT ![u] = IF alert.level > @ THEN alert.level ELSE @]
  /\ UNCHANGED <<pct, alerted, queue, level, round, date, minute, changes, faults,
                 fell, hasty, reports, unrecorded>>

(* Telegram refuses the message: a warning, and the level is recorded.       *)
MessageFails ==
  /\ alert # Nobody /\ alert.pc = "send" /\ Fault
  /\ alert' = [alert EXCEPT !.pc = "record"]
  /\ slipped' = slipped \cup {alert.user}
  /\ UNCHANGED <<pct, alerted, queue, level, round, date, minute, changes,
                 known, repeated, fell, hasty, reports, unrecorded>>

RecordAlert ==
  /\ alert # Nobody /\ alert.pc = "record"
  /\ alert' = Nobody
  /\ level' = [level EXCEPT ![alert.user] = alert.level]
  /\ slipped' = IF alert.level > Level(pct[alert.user]) THEN slipped \cup {alert.user} ELSE slipped
  /\ UNCHANGED <<pct, alerted, queue, round, date, minute, changes, faults,
                 known, repeated, fell, hasty, reports, unrecorded>>

(* A statement fails before the messages or after them. *)
AlertFails ==
  /\ alert # Nobody /\ Fault
  /\ alert' = Nobody
  /\ slipped' = slipped \cup {alert.user}
  /\ UNCHANGED <<pct, alerted, queue, level, round, date, minute, changes,
                 known, repeated, fell, hasty, reports, unrecorded>>

-----------------------------------------------------------------------------
(* Every half minute: normalize_quota_levels lists the users and lowers the  *)
(* levels of those whose usage has fallen; then the reports that are due.    *)
\* Seeded fault: a level is never lowered.
FallenNever == {}
Fallen == {u \in Users : Level(pct[u]) < level[u]}

Looks(from, to) == fell' = [u \in Users |-> IF fell[u] = from THEN to ELSE fell[u]]

BeginRound ==
  /\ round = Nobody
  /\ round' = [pc |-> "lower", todo |-> [u \in Fallen |-> Level(pct[u])]]
  /\ Looks("unseen", "listed")
  /\ UNCHANGED <<pct, alerts, date, minute, changes, faults,
                 known, repeated, slipped, hasty, reports, unrecorded>>

LowerLevel ==
  /\ round # Nobody /\ round.pc = "lower"
  /\ \E u \in DOMAIN round.todo :
       /\ level' = [level EXCEPT ![u] = round.todo[u]]
       /\ round' = [round EXCEPT !.todo = [v \in DOMAIN @ \ {u} |-> @[v]]]
  /\ UNCHANGED <<pct, alerted, queue, alert, date, minute, changes, faults, history>>

LowerFails ==
  /\ round # Nobody /\ round.pc = "lower" /\ DOMAIN round.todo # {} /\ Fault
  /\ round' = [round EXCEPT !.todo = [v \in {} |-> 0]]
  /\ Looks("listed", "unseen")
  /\ UNCHANGED <<pct, alerts, date, minute, changes,
                 known, repeated, slipped, hasty, reports, unrecorded>>

(* run_due_schedules: the time is read once; due is whose minute it is and   *)
(* who has no report of the day.                                             *)
\* Seeded fault: the day of the last report is not looked at.
DueAlways(m) == IF m % DayLen = 0 THEN Users ELSE {}
Due(m) == IF m % DayLen = 0 THEN {u \in Users : date[u] # Day(m)} ELSE {}

ListReports ==
  /\ round # Nobody /\ round.pc = "lower" /\ DOMAIN round.todo = {}
  /\ round' = IF Due(minute) = {} THEN Nobody
              ELSE [pc |-> "send", todo |-> Due(minute), day |-> Day(minute)]
  /\ Looks("listed", "seen")
  /\ UNCHANGED <<pct, alerts, date, minute, changes, faults,
                 known, repeated, slipped, hasty, reports, unrecorded>>

NextReport(u) ==
  LET left == round.todo \ {u} IN
  round' = IF left = {} THEN Nobody ELSE [pc |-> "send", todo |-> left, day |-> round.day]

SendReport(u) ==
  /\ round # Nobody /\ round.pc = "send" /\ u \in round.todo
  /\ round' = [pc |-> "record", todo |-> round.todo, day |-> round.day, user |-> u]
  /\ reports' = [reports EXCEPT ![u][round.day] = @ + 1]
  /\ UNCHANGED <<pct, alerts, date, minute, changes, faults,
                 known, repeated, slipped, fell, hasty, unrecorded>>

(* One whose message fails is left for the next round, and so are not the    *)
(* others.  It may have arrived all the same, when only the answer is lost.  *)
SendReportFails(u) ==
  /\ round # Nobody /\ round.pc = "send" /\ u \in round.todo /\ Fault
  /\ NextReport(u)
  /\ \/ UNCHANGED <<reports, unrecorded>>
     \/ /\ reports' = [reports EXCEPT ![u][round.day] = @ + 1]
        /\ unrecorded' = unrecorded \cup {u}
  /\ UNCHANGED <<pct, alerts, date, minute, changes, known, repeated, slipped, fell, hasty>>

RecordReport ==
  /\ round # Nobody /\ round.pc = "record"
  /\ date' = [date EXCEPT ![round.user] = round.day]
  /\ NextReport(round.user)
  /\ UNCHANGED <<pct, alerts, minute, changes, faults, history>>

RecordReportFails ==
  /\ round # Nobody /\ round.pc = "record" /\ Fault
  /\ NextReport(round.user)
  /\ unrecorded' = unrecorded \cup {round.user}
  /\ UNCHANGED <<pct, alerts, date, minute, changes, known, repeated, slipped, fell, hasty, reports>>

-----------------------------------------------------------------------------
Tick ==
  /\ minute < LastMinute /\ minute' = minute + 1
  /\ UNCHANGED <<pct, alerts, round, date, changes, faults, history>>

(* The process starts again, with nothing in memory. *)
Restart ==
  /\ Fault
  /\ alerted' = [u \in Users |-> 0] /\ queue' = <<>> /\ alert' = Nobody /\ round' = Nobody
  /\ slipped' = IF alert # Nobody /\ alert.pc = "record"
                THEN slipped \cup {alert.user} ELSE slipped
  /\ unrecorded' = IF round # Nobody /\ round.pc = "record"
                   THEN unrecorded \cup {round.user} ELSE unrecorded
  /\ Looks("listed", "unseen")
  /\ UNCHANGED <<pct, level, date, minute, changes, known, repeated, hasty, reports>>

Next ==
  \/ \E u \in Users : ChangeUsage(u) \/ Sync(u) \/ SendReport(u) \/ SendReportFails(u)
  \/ TakeAlert \/ SendAlert \/ MessageFails \/ RecordAlert \/ AlertFails
  \/ BeginRound \/ LowerLevel \/ LowerFails \/ ListReports
  \/ RecordReport \/ RecordReportFails
  \/ Tick \/ Restart

Spec == Init /\ [][Next]_vars

-----------------------------------------------------------------------------
Round ==
  {Nobody}
  \cup [pc : {"lower"}, todo : UNION {[D -> Levels] : D \in SUBSET Users}]
  \cup [pc : {"send"}, todo : SUBSET Users, day : Days]
  \cup [pc : {"record"}, todo : SUBSET Users, day : Days, user : Users]

(* Type invariant. *)
TypeOK ==
  /\ pct \in [Users -> Shares]
  /\ alerted \in [Users -> {0, AlertPct, 90, 100}]
  /\ queue \in Seq([user : Users, pct : Percents])
  /\ alert \in [pc : {"send", "record"}, user : Users, level : Levels] \cup {Nobody}
  /\ level \in [Users -> Levels] /\ known \in [Users -> Levels]
  /\ round \in Round
  /\ date \in [Users -> Days \cup {NoDay}] /\ minute \in 0..LastMinute
  /\ changes \in 0..MaxChanges /\ faults \in 0..MaxFaults
  /\ repeated \cup slipped \cup hasty \cup unrecorded \subseteq Users
  /\ fell \in [Users -> {"seen", "listed", "unseen"}]
  /\ reports \in [Users -> [Days -> Nat]]

(* README: an alert is sent once per level, and again only after usage has   *)
(* fallen; the level in the table says so across restarts, although the sync *)
(* forgets.  Excused are alerts that were sent and not recorded, refused or  *)
(* out of date, and usage that grows again before the fall is noticed.       *)
AlertOnce == repeated \subseteq slipped \cup hasty

(* README: a user whose usage has reached a level is told, once the sync has *)
(* seen it and the bot has nothing more to send about him.                   *)
AtRest(u) ==
  /\ alerted[u] = Step(pct[u])
  /\ alert # Nobody => alert.user # u
  /\ \A i \in DOMAIN queue : queue[i].user # u
AlertTold ==
  \A u \in Users :
    AtRest(u) /\ pct[u] >= AlertPct /\ u \notin slipped \cup hasty => known[u] >= Level(pct[u])

(* run_due_schedules: one report a day, however often the process starts     *)
(* within its minute, unless one was sent and could not be recorded.         *)
ReportOnce ==
  \A u \in Users : u \notin unrecorded => \A d \in Days : reports[u][d] <= 1
=============================================================================
