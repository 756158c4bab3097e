-------------------------- MODULE TrafficAccounting --------------------------
(***************************************************************************)
(* From sing-box's counters to the database.                               *)
(*                                                                         *)
(* sing-box counts bytes per user and direction since it started; a        *)
(* restart or reload starts again from zero.  A flusher (the periodic sync *)
(* of the daemon or of the TUI, a `sb' command, the Telegram refresh, the  *)
(* flush before a reload) asks for the counters first and takes the        *)
(* runtime lock second; under the lock it reads last_live, adds the        *)
(* difference to the user's row and to traffic_history, and stores the     *)
(* counter it had read.                                                    *)
(*                                                                         *)
(* A meter is a user and a direction.  The users are fixed here: rows are  *)
(* created and deleted in UserLifecycle.                                   *)
(***************************************************************************)
EXTENDS Integers

CONSTANTS
  Users,
  Dirs,          \* {"up", "down"}
  Flushers,      \* processes that may flush
  MaxSent,       \* bound: bytes one meter transfers
  MaxRestarts,   \* bound: restarts of sing-box
  MaxFails       \* bound: flushes that fail between query and commit

ASSUME BoundsAssumption ==
  MaxSent \in Nat /\ MaxRestarts \in Nat /\ MaxFails \in Nat

Meters == Users \X Dirs
Zero == [m \in Meters |-> 0]

VARIABLES
  counter,     \* sing-box: bytes counted since it started
  epoch,       \* number of restarts so far
  used,        \* users.used_up_bytes, used_down_bytes
  last,        \* users.last_live_up, last_live_down
  history,     \* sum of the user's rows in traffic_history
  pc,          \* pc[f]: "idle", "queried" or "reloading"
  snap,        \* snap[f]: the counters f was given, and in which epoch
  reload,      \* reload[f]: f flushes because it is about to reload sing-box
  fails,
  sent         \* history variable: bytes really transferred

vars == <<counter, epoch, used, last, history, pc, snap, reload, fails, sent>>

NoSnap == [count |-> Zero, epoch |-> 0]

----------------------------------------------------------------------------
(* core/traffic.rs                                                         *)

\* Seeded faults: no branch for a counter that went backwards; or the distance
\* between the two values.
DeltaSigned(current, previous) == current - previous
DeltaDistance(current, previous) ==
  IF current >= previous THEN current - previous ELSE previous - current

CalcDelta(current, previous) ==
  IF current >= previous THEN current - previous ELSE current

\* Seeded fault: a user is left out when either direction stood still.
MovesBoth(u, s) == \A d \in Dirs : CalcDelta(s[<<u, d>>], last[<<u, d>>]) # 0

\* calc_deltas leaves a user out when neither direction moved.
Moves(u, s) == \E d \in Dirs : CalcDelta(s[<<u, d>>], last[<<u, d>>]) # 0

Booked(f) == {m \in Meters : Moves(m[1], snap[f].count)}

----------------------------------------------------------------------------
(* Flushes.                                                                *)

\* query_all_traffic: the answer travels while everything else goes on.
Query(f, r) ==
  /\ pc[f] = "idle"
  /\ pc' = [pc EXCEPT ![f] = "queried"]
  /\ snap' = [snap EXCEPT ![f] = [count |-> counter, epoch |-> epoch]]
  /\ reload' = [reload EXCEPT ![f] = r]
  /\ UNCHANGED <<counter, epoch, used, last, history, fails, sent>>

Then(f) ==
  /\ pc' = [pc EXCEPT ![f] = IF reload[f] THEN "reloading" ELSE "idle"]
  /\ snap' = [snap EXCEPT ![f] = NoSnap]
  /\ reload' = [reload EXCEPT ![f] = FALSE]

\* sync_current_traffic_with_users from RuntimeLock::acquire to commit: one
\* transaction.
Commit(f) ==
  /\ pc[f] = "queried"
  /\ LET d == [m \in Meters |-> IF m \in Booked(f)
                                  THEN CalcDelta(snap[f].count[m], last[m]) ELSE 0]
     IN  /\ used' = [m \in Meters |-> used[m] + d[m]]
         /\ history' = [m \in Meters |-> history[m] + d[m]]
  /\ last' = [m \in Meters |-> IF m \in Booked(f) THEN snap[f].count[m] ELSE last[m]]
  /\ Then(f)
  /\ UNCHANGED <<counter, epoch, fails, sent>>

\* The lock is busy, a statement fails (rollback), or the task is cancelled.
\* validate_and_reload only logs it and reloads all the same.
FlushFails(f) ==
  /\ pc[f] = "queried" /\ fails < MaxFails
  /\ fails' = fails + 1
  /\ Then(f)
  /\ UNCHANGED <<counter, epoch, used, last, history, sent>>

Restarted ==
  /\ epoch < MaxRestarts
  /\ epoch' = epoch + 1
  /\ counter' = Zero

\* SingboxProcess::reload, which may fail and leave sing-box as it was.
Reload(f) ==
  /\ pc[f] = "reloading"
  /\ Restarted \/ UNCHANGED <<counter, epoch>>
  /\ pc' = [pc EXCEPT ![f] = "idle"]
  /\ UNCHANGED <<used, last, history, snap, reload, fails, sent>>

----------------------------------------------------------------------------
(* Everything else that happens to the counters and the rows.              *)

Transfer(m) ==
  /\ sent[m] < MaxSent
  /\ counter' = [counter EXCEPT ![m] = @ + 1]
  /\ sent' = [sent EXCEPT ![m] = @ + 1]
  /\ UNCHANGED <<epoch, used, last, history, pc, snap, reload, fails>>

\* sing-box crashes or is restarted behind the manager's back.
Crash ==
  /\ Restarted
  /\ UNCHANGED <<used, last, history, pc, snap, reload, fails, sent>>

\* Seeded fault: the version before 0.4 cleared last_live as well.
ResetUsageForgets(u) ==
  /\ used' = [m \in Meters |-> IF m[1] = u THEN 0 ELSE used[m]]
  /\ last' = [m \in Meters |-> IF m[1] = u THEN 0 ELSE last[m]]
  /\ UNCHANGED <<counter, epoch, history, pc, snap, reload, fails, sent>>

\* reset_usage and reset_usage_manual keep last_live.
ResetUsage(u) ==
  /\ used' = [m \in Meters |-> IF m[1] = u THEN 0 ELSE used[m]]
  /\ UNCHANGED <<counter, epoch, last, history, pc, snap, reload, fails, sent>>

----------------------------------------------------------------------------
Init ==
  /\ counter = Zero /\ epoch = 0
  /\ used = Zero /\ last = Zero /\ history = Zero
  /\ pc = [f \in Flushers |-> "idle"]
  /\ snap = [f \in Flushers |-> NoSnap]
  /\ reload = [f \in Flushers |-> FALSE]
  /\ fails = 0
  /\ sent = Zero

FlushStep(f) ==
  \/ \E r \in BOOLEAN : Query(f, r)
  \/ Commit(f) \/ FlushFails(f) \/ Reload(f)

Next ==
  \/ \E f \in Flushers : FlushStep(f)
  \/ \E m \in Meters : Transfer(m)
  \/ \E u \in Users : ResetUsage(u)
  \/ Crash

Spec == Init /\ [][Next]_vars

\* The sync timer never stops and a connected query is answered or times out.
FairSpec == Spec /\ \A f \in Flushers : WF_vars(Query(f, FALSE) \/ Commit(f) \/ Reload(f))

----------------------------------------------------------------------------
(* Properties.                                                             *)

\* Every variable keeps the shape the code gives it.
TypeOK ==
  /\ counter \in [Meters -> Nat] /\ epoch \in Nat
  /\ used \in [Meters -> Nat] /\ last \in [Meters -> Nat]
  /\ history \in [Meters -> Nat]
  /\ pc \in [Flushers -> {"idle", "queried", "reloading"}]
  /\ snap \in [Flushers -> [count : [Meters -> Nat], epoch : Nat]]
  /\ reload \in [Flushers -> BOOLEAN]
  /\ fails \in Nat
  /\ sent \in [Meters -> Nat]

\* Nobody is charged for more than he transferred, whatever restarts, usage
\* resets and failed flushes fall between a query and its commit (calc_delta,
\* last_live kept by the resets).
NoOvercharge == \A m \in Meters : history[m] <= sent[m]

\* Accounting implements the abstract meter.
Abstract == INSTANCE Metering WITH billed <- history
ImplementsMetering == Abstract!Spec

\* Every counter that moved is read and booked in the end.
CatchesUp == []<>(\A m \in Meters : counter[m] \in {0, last[m]})
=============================================================================
