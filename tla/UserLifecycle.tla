--------------------------- MODULE UserLifecycle ---------------------------
(***************************************************************************)
(* Who may switch a user on and off, and when.                             *)
(*                                                                         *)
(* Each row of the table `users' is written by two kinds of processes:     *)
(*   - supervisors (the daemon, and the TUI while it is open) run          *)
(*     apply_automatic_controls every minute: expiry, monthly reset,       *)
(*     quota;                                                              *)
(*   - administrators run CLI commands and TUI keys.                       *)
(* None of them holds a lock here.  A supervisor reads the whole table     *)
(* once and then writes user by user, one autocommitted statement at a     *)
(* time, so every statement is an action of its own.                       *)
(*                                                                         *)
(* Time is a day number; Calendar gives its month and its day in the       *)
(* month.  Bytes are abstracted to small numbers (traffic_multiplier is    *)
(* folded into them); a quota of 0 means "unlimited", as in the code.      *)
(***************************************************************************)
EXTENDS Integers

CONSTANTS
  Users,        \* user names
  Supervisors,  \* processes running apply_automatic_controls
  Admins,       \* processes running one administrator command at a time
  Commands,     \* the commands administrators use in this instance
  Calendar,     \* Calendar[t]: [ym, day, last] of day number t
  LastDate,     \* bound: the last day number explored
  Quotas, ResetDays, Expiries,   \* values a package may have
  MaxUsed,      \* bound: largest usage recorded
  MaxFaults     \* bound: failed statements and killed processes

ASSUME CalendarAssumption ==
  /\ LastDate \in Nat \ {0}
  /\ Calendar \in [1..LastDate -> [ym : Nat \ {0}, day : Nat, last : Nat]]
  /\ \A s, t \in 1..LastDate : s <= t => Calendar[s].ym <= Calendar[t].ym

ASSUME UsersAssumption == Users # {}

ASSUME PackageAssumption ==
  /\ Quotas \subseteq Nat /\ ResetDays \subseteq Nat /\ Expiries \subseteq Nat
  /\ MaxUsed \in Nat /\ MaxFaults \in Nat

VARIABLES
  today,        \* the day Local::now() falls on
  present,      \* users with a row
  row,          \* the rows
  todo,         \* todo[s]: users the running pass of s has still to visit
  snap,         \* snap[s]: the rows that pass read
  listed,       \* listed[s]: the day on which it read them
  reviving,     \* reviving[s]: users reset by s, to be re-enabled next
  job,          \* job[a]: the command administrator a is in the middle of
  faults,       \* faults so far
  off,          \* history: how the last manual "off" of a user went
  resetOn,      \* history: the day of a user's last monthly reset (0: none)
  crossed       \* history: users whose disabling crossed a reset or an edit,
                \* or whose revival was cut short

db == <<present, row>>
pass == <<todo, snap, listed, reviving>>
vars == <<today, present, row, todo, snap, listed, reviving, job, faults,
          off, resetOn, crossed>>

Rows == [enabled : BOOLEAN, auto : BOOLEAN, used : Nat, quota : Nat,
         resetDay : Nat, lastYm : Nat, expire : Nat]

\* What add_user inserts; lastYm = 0 stands for the empty last_reset_ym.
NewRow(q, d, e) == [enabled |-> TRUE, auto |-> FALSE, used |-> 0, quota |-> q,
                    resetDay |-> d, lastYm |-> 0, expire |-> e]
NoRow == [NewRow(0, 0, 0) EXCEPT !.enabled = FALSE]
NoSnap == [u \in Users |-> NoRow]

Jobs == [op : {"none", "set", "reset", "revive"}, user : Users, val : BOOLEAN]
NoJob == [op |-> "none", user |-> CHOOSE u \in Users : TRUE, val |-> FALSE]
Idle(a) == job[a].op = "none"

----------------------------------------------------------------------------
(* Predicates of model/user.rs and the calendar arithmetic.                *)

IsExpired(r, t) == r.expire > 0 /\ t > r.expire

IsOverQuota(r) == r.quota > 0 /\ r.used >= r.quota

\* reset_day 32 is the last day of the month; 1..31 are capped by it.
EffectiveDay(d, last) ==
  CASE d = 32 -> last
    [] d \in 1..31 -> IF d <= last THEN d ELSE last
    [] OTHER -> 0

IsResetDay(r, t) ==
  LET eff == EffectiveDay(r.resetDay, Calendar[t].last)
  IN  eff > 0 /\ Calendar[t].day = eff

ResetDue(r, t) == IsResetDay(r, t) /\ r.lastYm # Calendar[t].ym

\* Seeded faults: the mark is not looked at, or looked at the wrong way round.
AnyDisabled(r) == ~r.enabled
MarkedButEnabled(r) == r.enabled /\ r.auto

\* Who a reset brings back: disabled, and by the system.
AutoDisabled(r) == ~r.enabled /\ r.auto

----------------------------------------------------------------------------
(* One SQL statement each: UPDATE users SET ... WHERE name = u, which      *)
(* touches nothing when the row is gone.                                   *)

Update(u, r) == row' = IF u \in present THEN [row EXCEPT ![u] = r] ELSE row

\* Seeded fault: the manual switch forgets auto_disabled.
SetEnabledKeepsMark(u, v) == Update(u, [row[u] EXCEPT !.enabled = v])

SetEnabled(u, v) == Update(u, [row[u] EXCEPT !.enabled = v, !.auto = FALSE])

\* Seeded fault: the automatic switch writes only its mark.
SetEnabledAutoMarkOnly(u, v) == Update(u, [row[u] EXCEPT !.auto = ~v])

SetEnabledAuto(u, v) == Update(u, [row[u] EXCEPT !.enabled = v, !.auto = ~v])

\* Seeded fault: the monthly reset forgets last_reset_ym.
ResetUsageNoStamp(u) ==
  /\ Update(u, [row[u] EXCEPT !.used = 0])
  /\ resetOn' = [resetOn EXCEPT ![u] = IF u \in present THEN today ELSE @]

\* reset_usage asks the clock for the month it stamps.
ResetUsage(u) ==
  /\ Update(u, [row[u] EXCEPT !.used = 0, !.lastYm = Calendar[today].ym])
  /\ resetOn' = [resetOn EXCEPT ![u] = IF u \in present THEN today ELSE @]

\* Seeded fault: the reset takes one quota off instead of starting from zero.
ResetUsageManualDeducts(u) == Update(u, [row[u] EXCEPT !.used = @ - row[u].quota])

ResetUsageManual(u) == Update(u, [row[u] EXCEPT !.used = 0])

\* No automatic decision about u, taken from an earlier read, is in flight.
Quiet(u) ==
  /\ \A s \in Supervisors : u \notin todo[s]
  /\ \A a \in Admins : job[a].op \in {"reset", "revive"} => job[a].user # u

\* History of a manual switch that reaches the row.
RecordManual(u, v) ==
  off' = [off EXCEPT ![u] = IF u \notin present THEN @
                            ELSE IF v THEN "no"
                            ELSE IF Quiet(u) THEN "quiet" ELSE "raced"]

----------------------------------------------------------------------------
(* apply_automatic_controls, run by a supervisor s.                        *)

ListUsers(s) ==
  /\ todo[s] = {} /\ present # {}
  /\ todo' = [todo EXCEPT ![s] = present]
  /\ snap' = [snap EXCEPT ![s] = row]
  /\ listed' = [listed EXCEPT ![s] = today]
  /\ UNCHANGED <<today, db, reviving, job, faults, off, resetOn, crossed>>

\* The pass of s is at user u, whose row it read as snap[s][u].
At(s, u) == u \in todo[s] /\ reviving[s] = {}

\* The loop body for u is over.
Visited(s, u) ==
  /\ todo' = [todo EXCEPT ![s] = @ \ {u}]
  /\ snap' = [snap EXCEPT ![s][u] = NoRow]
  /\ listed' = [listed EXCEPT ![s] = IF todo[s] = {u} THEN 0 ELSE @]
  /\ reviving' = [reviving EXCEPT ![s] = {}]

\* What s read of u was better than the row is now: used up since reset, or
\* with another package.
Outdated(s, u) ==
  LET old == snap[s][u]
  IN  \/ row[u].used < old.used
      \/ <<row[u].quota, row[u].expire>> # <<old.quota, old.expire>>

\* A reset under way has read u as somebody it need not re-enable.
ResetUnaware(s, u) ==
  \/ \E a \in Admins : job[a] = [op |-> "reset", user |-> u, val |-> FALSE]
  \/ \E p \in Supervisors \ {s} :
       /\ u \in todo[p] /\ ResetDue(snap[p][u], listed[p])
       /\ ~AutoDisabled(snap[p][u])

\* History of an automatic disable.
RecordDisable(s, u) ==
  crossed' = IF Outdated(s, u) \/ ResetUnaware(s, u)
             THEN crossed \cup {u} ELSE crossed \ {u}

ExpiryApplies(s, u) == IsExpired(snap[s][u], today) /\ snap[s][u].enabled

DisableExpired(s, u) ==
  /\ At(s, u) /\ ExpiryApplies(s, u)
  /\ SetEnabledAuto(u, FALSE)
  /\ Visited(s, u)
  /\ RecordDisable(s, u)
  /\ UNCHANGED <<today, present, job, faults, off, resetOn>>

MonthlyReset(s, u) ==
  /\ At(s, u) /\ ~ExpiryApplies(s, u) /\ ResetDue(snap[s][u], listed[s])
  /\ ResetUsage(u)
  /\ IF AutoDisabled(snap[s][u])
       THEN /\ reviving' = [reviving EXCEPT ![s] = {u}]
            /\ UNCHANGED <<todo, snap, listed>>
       ELSE Visited(s, u)
  /\ UNCHANGED <<today, present, job, faults, off, crossed>>

\* The second statement of the reset branch.
Revive(s, u) ==
  /\ u \in reviving[s]
  /\ SetEnabledAuto(u, TRUE)
  /\ Visited(s, u)
  /\ UNCHANGED <<today, present, job, faults, off, resetOn, crossed>>

DisableOverQuota(s, u) ==
  /\ At(s, u) /\ ~ExpiryApplies(s, u) /\ ~ResetDue(snap[s][u], listed[s])
  /\ IsOverQuota(snap[s][u]) /\ snap[s][u].enabled
  /\ SetEnabledAuto(u, FALSE)
  /\ Visited(s, u)
  /\ RecordDisable(s, u)
  /\ UNCHANGED <<today, present, job, faults, off, resetOn>>

NothingDue(s, u) ==
  /\ At(s, u) /\ ~ExpiryApplies(s, u) /\ ~ResetDue(snap[s][u], listed[s])
  /\ ~(IsOverQuota(snap[s][u]) /\ snap[s][u].enabled)
  /\ Visited(s, u)
  /\ UNCHANGED <<today, db, job, faults, off, resetOn, crossed>>

\* A statement fails and `?' leaves the loop, or the process dies.
AbortPass(s) ==
  /\ todo[s] # {} /\ faults < MaxFaults
  /\ faults' = faults + 1
  /\ todo' = [todo EXCEPT ![s] = {}]
  /\ snap' = [snap EXCEPT ![s] = NoSnap]
  /\ listed' = [listed EXCEPT ![s] = 0]
  /\ reviving' = [reviving EXCEPT ![s] = {}]
  /\ crossed' = crossed \cup reviving[s]
  /\ UNCHANGED <<today, db, job, off, resetOn>>

PassStep(s) ==
  \/ ListUsers(s)
  \/ \E u \in Users : \/ DisableExpired(s, u) \/ MonthlyReset(s, u)
                      \/ Revive(s, u) \/ DisableOverQuota(s, u)
                      \/ NothingDue(s, u)

----------------------------------------------------------------------------
(* Administrator commands.                                                 *)

\* `sb toggle', TUI key t: one read-modify-write transaction.
Toggle(u) ==
  /\ "toggle" \in Commands /\ u \in present
  /\ SetEnabled(u, ~row[u].enabled)
  /\ RecordManual(u, ~row[u].enabled)
  /\ UNCHANGED <<today, present, pass, job, faults, resetOn, crossed>>

\* `sb on', `sb off' read first; nothing is written when nothing would change.
BeginSet(a, u, v) ==
  /\ "set" \in Commands /\ Idle(a) /\ u \in present
  /\ IF row[u].enabled # v
       THEN /\ job' = [job EXCEPT ![a] = [op |-> "set", user |-> u, val |-> v]]
            /\ UNCHANGED off
       ELSE /\ off' = [off EXCEPT ![u] = IF ~v /\ @ = "no" THEN "noop" ELSE @]
            /\ UNCHANGED job
  /\ UNCHANGED <<today, db, pass, faults, resetOn, crossed>>

EndSet(a) ==
  /\ job[a].op = "set"
  /\ SetEnabled(job[a].user, job[a].val)
  /\ RecordManual(job[a].user, job[a].val)
  /\ job' = [job EXCEPT ![a] = NoJob]
  /\ UNCHANGED <<today, present, pass, faults, resetOn, crossed>>

\* `sb reset', TUI key r: a read and up to two statements.
BeginReset(a, u) ==
  /\ "reset" \in Commands /\ Idle(a) /\ u \in present
  /\ job' = [job EXCEPT ![a] = [op |-> "reset", user |-> u,
                                val |-> AutoDisabled(row[u])]]
  /\ UNCHANGED <<today, db, pass, faults, off, resetOn, crossed>>

ClearUsage(a) ==
  /\ job[a].op = "reset"
  /\ ResetUsageManual(job[a].user)
  /\ job' = [job EXCEPT ![a] = IF @.val THEN [@ EXCEPT !.op = "revive"]
                                       ELSE NoJob]
  /\ UNCHANGED <<today, present, pass, faults, off, resetOn, crossed>>

EndReset(a) ==
  /\ job[a].op = "revive"
  /\ SetEnabledAuto(job[a].user, TRUE)
  /\ job' = [job EXCEPT ![a] = NoJob]
  /\ UNCHANGED <<today, present, pass, faults, off, resetOn, crossed>>

\* The command fails or is killed between two statements.
AbortJob(a) ==
  /\ ~Idle(a) /\ faults < MaxFaults
  /\ faults' = faults + 1
  /\ job' = [job EXCEPT ![a] = NoJob]
  /\ crossed' = IF job[a].op = "revive" THEN crossed \cup {job[a].user} ELSE crossed
  /\ UNCHANGED <<today, db, pass, off, resetOn>>

\* `sb package': options left out keep their value (COALESCE).
UpdatePackage(u) ==
  /\ "package" \in Commands /\ u \in present
  /\ \E q \in Quotas \cup {row[u].quota},
        d \in ResetDays \cup {row[u].resetDay},
        e \in Expiries \cup {row[u].expire} :
       Update(u, [row[u] EXCEPT !.quota = q, !.resetDay = d, !.expire = e])
  /\ crossed' = IF row[u].auto THEN crossed \cup {u} ELSE crossed
  /\ UNCHANGED <<today, present, pass, job, faults, off, resetOn>>

AddUser(u) ==
  /\ "add" \in Commands /\ u \notin present
  /\ present' = present \cup {u}
  /\ \E q \in Quotas, d \in ResetDays, e \in Expiries :
       row' = [row EXCEPT ![u] = NewRow(q, d, e)]
  /\ UNCHANGED <<today, pass, job, faults, off, resetOn, crossed>>

DeleteUser(u) ==
  /\ "add" \in Commands /\ u \in present
  /\ present' = present \ {u}
  /\ row' = [row EXCEPT ![u] = NoRow]
  /\ off' = [off EXCEPT ![u] = "no"]
  /\ resetOn' = [resetOn EXCEPT ![u] = 0]
  /\ crossed' = crossed \ {u}
  /\ UNCHANGED <<today, pass, job, faults>>

----------------------------------------------------------------------------
(* The environment: traffic booked by a sync, and midnight.                *)

BookTraffic(u) ==
  /\ u \in present /\ row[u].used < MaxUsed
  /\ Update(u, [row[u] EXCEPT !.used = @ + 1])
  /\ UNCHANGED <<today, present, pass, job, faults, off, resetOn, crossed>>

NextDay ==
  /\ today < LastDate
  /\ today' = today + 1
  /\ UNCHANGED <<db, pass, job, faults, off, resetOn, crossed>>

----------------------------------------------------------------------------
Init ==
  /\ today = 1
  /\ present = Users
  /\ row \in [Users -> {NewRow(q, d, e) : q \in Quotas, d \in ResetDays,
                                          e \in Expiries}]
  /\ todo = [s \in Supervisors |-> {}]
  /\ snap = [s \in Supervisors |-> NoSnap]
  /\ listed = [s \in Supervisors |-> 0]
  /\ reviving = [s \in Supervisors |-> {}]
  /\ job = [a \in Admins |-> NoJob]
  /\ faults = 0
  /\ off = [u \in Users |-> "no"]
  /\ resetOn = [u \in Users |-> 0]
  /\ crossed = {}

JobStep(a) ==
  \/ \E u \in Users : BeginReset(a, u) \/ \E v \in BOOLEAN : BeginSet(a, u, v)
  \/ EndSet(a) \/ ClearUsage(a) \/ EndReset(a) \/ AbortJob(a)

Next ==
  \/ \E s \in Supervisors : PassStep(s) \/ AbortPass(s)
  \/ \E a \in Admins : JobStep(a)
  \/ \E u \in Users : \/ Toggle(u) \/ UpdatePackage(u) \/ AddUser(u)
                      \/ DeleteUser(u) \/ BookTraffic(u)
  \/ NextDay

Spec == Init /\ [][Next]_vars

\* A supervisor runs a pass on every tick of its 60 s timer and after every
\* failed connection, so it never stops for good between two steps.
FairSpec == Spec /\ \A s \in Supervisors : WF_vars(PassStep(s))

----------------------------------------------------------------------------
(* Properties.                                                             *)

\* Every variable keeps the shape the code gives it.
TypeOK ==
  /\ today \in 1..LastDate
  /\ present \subseteq Users
  /\ row \in [Users -> Rows]
  /\ todo \in [Supervisors -> SUBSET Users]
  /\ snap \in [Supervisors -> [Users -> Rows]]
  /\ listed \in [Supervisors -> 0..LastDate]
  /\ reviving \in [Supervisors -> SUBSET Users]
  /\ job \in [Admins -> Jobs]
  /\ faults \in 0..MaxFaults
  /\ off \in [Users -> {"no", "noop", "quiet", "raced"}]
  /\ resetOn \in [Users -> 0..LastDate]
  /\ crossed \subseteq Users

\* auto_disabled only ever marks a user who is disabled, whatever mix of
\* stale passes, toggles, resets, deletions and faults wrote the row: the
\* two columns are never updated apart (user_repo set_enabled,
\* set_enabled_auto, toggle_enabled).
AutoImpliesDisabled == \A u \in Users : row[u].auto => ~row[u].enabled

\* A user an administrator switched off while no automatic decision about
\* him was in flight stays off until an administrator switches him on: no
\* pass, monthly reset or `sb reset' brings him back (the auto_disabled
\* protocol of apply_automatic_controls and reset_traffic).
QuietOffSticks == \A u \in Users : off[u] = "quiet" => ~row[u].enabled

\* No user has two monthly resets in one calendar month, even when the pass
\* that resets him runs over midnight (last_reset_ym in the reset branch).
ResetOncePerMonth ==
  [][\A s \in Supervisors, u \in present :
       MonthlyReset(s, u) =>
         \/ resetOn[u] = 0
         \/ Calendar[resetOn[u]].ym # Calendar[today].ym]_vars

\* Nobody is kept out by the system without cause: whom it has disabled is
\* over quota or expired, or is being re-enabled right now.  So a reset, monthly
\* or manual, gives access back (apply_automatic_controls, reset_traffic), with
\* any passes, commands and faults at the same time, except in the cases the
\* code does not handle: the disabling was decided on a row from before a reset
\* or an edit, or fell between the read and the clearing of a reset; the reset
\* was broken off between its two statements; the package of a disabled user
\* was edited.
BeingRevived(u) ==
  \/ \E s \in Supervisors : u \in reviving[s]
  \/ \E a \in Admins : job[a].op = "revive" /\ job[a].user = u
HasCause(u) == IsOverQuota(row[u]) \/ IsExpired(row[u], today)
DisabledForCause ==
  \A u \in Users : row[u].auto => HasCause(u) \/ BeingRevived(u) \/ u \in crossed

\* Automatic control keeps acting: nobody stays enabled forever while over
\* quota or expired, whatever the administrators do (a pass may abort, the
\* next one sees the rows again).
CutOff ==
  \A u \in Users :
    []<>~(/\ u \in present /\ row[u].enabled
          /\ IsOverQuota(row[u]) \/ IsExpired(row[u], today))

\* README's table of what the monthly reset revives, "sb off ... no": after an
\* accepted manual off nothing automatic enables the user, whether the command
\* found him enabled, found him disabled already, or met a pass half-way.
ManualOffSticks == \A u \in Users : off[u] # "no" => ~row[u].enabled
============================================================================
