----------------------------- MODULE TelegramBot -----------------------------
(***************************************************************************)
(* One Telegram bot for several processes.                                 *)
(*                                                                         *)
(* The daemon and the TUI may both start the bot, but only one getUpdates  *)
(* may run per bot_token.  A one-row table holds a lease, renewed by a     *)
(* heartbeat and free for others when the heartbeat is too old.  Whoever   *)
(* has it polls for updates and hands each one to a task of its own.       *)
(*                                                                         *)
(* Time is counted in steps; a process that is awake does not let the time *)
(* of its heartbeat pass.  What the tasks do is left out.                  *)
(***************************************************************************)
EXTENDS Integers

CONSTANTS
  Procs,       \* daemon, TUI
  NoOwner,     \* the table is empty
  Gone,        \* the owner is a process that is no more
  Beat,        \* LEASE_HEARTBEAT
  Stale,       \* LEASE_STALE_SECS
  MaxStart,    \* how long ensure_admin_defaults and setMyCommands may take
  Slack,       \* heartbeats in a row that may fail
  MaxUpdates,  \* bound: updates sent to the bot
  MaxRuns,     \* bound: starts of processes
  MaxFaults,   \* bound: failures, naps, exits
  MaxNap       \* bound: how long a process hangs

ASSUME OwnersAssumption == NoOwner \notin Procs /\ Gone \notin Procs /\ NoOwner # Gone
ASSUME TimesAssumption == /\ Beat \in Nat \ {0} /\ Stale \in Nat \ {0}
                          /\ MaxStart \in Nat /\ Slack \in Nat /\ MaxNap \in Nat
\* LEASE_STALE_SECS leaves room for Slack failures between two heartbeats.
ASSUME SlackAssumption == MaxStart + (Slack + 1) * Beat < Stale
ASSUME BoundsAssumption == MaxUpdates \in Nat /\ MaxRuns \in Nat /\ MaxFaults \in Nat

Updates == 1..MaxUpdates

VARIABLES
  owner, age,  \* tg_bot_lease: owner, now - heartbeat (up to Stale)
  pc,          \* off; starting; running: the loops were spawned; skipped
  active,      \* TgContext.active
  since,       \* time since the start or the last tick of the heartbeat
  misses,      \* renewals that failed since the last one that did not
  asleep,      \* the process hangs
  slept,       \* history: it has hung since it last had the lease for sure
  asking,      \* a getUpdates request is under way
  got,         \* offset - 1
  sent, acked, \* Telegram: updates so far; those it has dropped
  copies,      \* history: how often an update was handed to a task
  runs, faults

lease == <<owner, age>>
loops == <<since, misses, asleep, slept>>
polling == <<asking, got, sent, acked, copies>>
vars == <<lease, pc, active, loops, polling, runs, faults>>

Awake(p) == ~asleep[p]
Fault == faults < MaxFaults /\ faults' = faults + 1

----------------------------------------------------------------------------
(* The lease.                                                              *)

\* Seeded fault: the heartbeat of the owner is not looked at.
AnyoneMay(p) == TRUE

MayAcquire(p) == owner \in {NoOwner, p} \/ age = Stale

\* tg_service::start: one UPSERT decides.
Start(p) ==
  /\ pc[p] = "off" /\ runs < MaxRuns
  /\ runs' = runs + 1
  /\ IF MayAcquire(p)
     THEN /\ owner' = p /\ age' = 0
          /\ pc' = [pc EXCEPT ![p] = "starting"]
     ELSE /\ pc' = [pc EXCEPT ![p] = "skipped"]
          /\ UNCHANGED lease
  /\ UNCHANGED <<active, loops, polling, faults>>

\* The admin defaults cannot be written: the process goes on without a bot.
StartFails(p) ==
  /\ pc[p] = "starting" /\ Awake(p) /\ Fault
  /\ pc' = [pc EXCEPT ![p] = "skipped"]
  /\ UNCHANGED <<lease, active, loops, polling, runs>>

\* The loops are spawned.
Spawn(p) ==
  /\ pc[p] = "starting" /\ Awake(p)
  /\ pc' = [pc EXCEPT ![p] = "running"]
  /\ active' = [active EXCEPT ![p] = TRUE]
  /\ since' = [since EXCEPT ![p] = 0]
  /\ UNCHANGED <<lease, misses, asleep, slept, polling, runs, faults>>

\* Seeded fault: the loop does not wait for its interval.
BeatNow(p) == pc[p] = "running" /\ Awake(p)

BeatDue(p) == pc[p] = "running" /\ Awake(p) /\ since[p] >= Beat

\* Seeded fault: the heartbeat is written whoever the owner is.
RenewAny(p) ==
  /\ BeatDue(p) /\ active[p]
  /\ age' = 0
  /\ misses' = [misses EXCEPT ![p] = 0]
  /\ slept' = [slept EXCEPT ![p] = FALSE]
  /\ since' = [since EXCEPT ![p] = @ - Beat]
  /\ UNCHANGED <<owner, pc, active, asleep, polling, runs, faults>>

\* One tick of lease_heartbeat_loop.
Renew(p) ==
  /\ BeatDue(p) /\ active[p]
  /\ IF owner = p
     THEN /\ age' = 0
          /\ misses' = [misses EXCEPT ![p] = 0]
          /\ slept' = [slept EXCEPT ![p] = FALSE]
          /\ UNCHANGED active
     ELSE /\ active' = [active EXCEPT ![p] = FALSE]
          /\ UNCHANGED <<age, misses, slept>>
  /\ since' = [since EXCEPT ![p] = @ - Beat]
  /\ UNCHANGED <<owner, pc, asleep, polling, runs, faults>>

\* The database is busy: stay active, try again at the next tick.
RenewFails(p) ==
  /\ BeatDue(p) /\ active[p] /\ Fault
  /\ misses' = [misses EXCEPT ![p] = @ + 1]
  /\ since' = [since EXCEPT ![p] = @ - Beat]
  /\ UNCHANGED <<lease, pc, active, asleep, slept, polling, runs>>

----------------------------------------------------------------------------
(* Updates.                                                                *)

\* Seeded fault: offset = update_id + 2.
GotTooFar(p) == sent + 1

\* offset = update_id + 1, for each update of the answer.
GotAll(p) == sent

\* getUpdates(offset): Telegram drops what lies before.
Ask(p) ==
  /\ pc[p] = "running" /\ Awake(p) /\ active[p] /\ ~asking[p]
  /\ asking' = [asking EXCEPT ![p] = TRUE]
  /\ acked' = IF got[p] > acked THEN got[p] ELSE acked
  /\ UNCHANGED <<lease, pc, active, loops, got, sent, copies, runs, faults>>

\* The answer has everything since, or nothing.  It is handled even if the
\* lease was lost meanwhile: `active' is read at the top of the loop.
Answer(p) ==
  /\ asking[p] /\ Awake(p)
  /\ LET new == {u \in 1..sent : u > got[p] /\ u > acked}
     IN /\ copies' = [u \in Updates |-> IF u \in new THEN copies[u] + 1 ELSE copies[u]]
        /\ got' = IF new = {} THEN got ELSE [got EXCEPT ![p] = GotAll(p)]
  /\ asking' = [asking EXCEPT ![p] = FALSE]
  /\ UNCHANGED <<lease, pc, active, loops, sent, acked, runs, faults>>

\* The request fails or its answer does not arrive.
AskFails(p) ==
  /\ asking[p] /\ Awake(p) /\ Fault
  /\ asking' = [asking EXCEPT ![p] = FALSE]
  /\ UNCHANGED <<lease, pc, active, loops, got, sent, acked, copies, runs>>

\* 409: somebody else is polling; stop for good.
Conflict(p) ==
  /\ asking[p] /\ Awake(p)
  /\ \E q \in Procs \ {p} : asking[q]
  /\ asking' = [asking EXCEPT ![p] = FALSE]
  /\ active' = [active EXCEPT ![p] = FALSE]
  /\ UNCHANGED <<lease, pc, loops, got, sent, acked, copies, runs, faults>>

\* Somebody writes to the bot.
Send ==
  /\ sent < MaxUpdates
  /\ sent' = sent + 1
  /\ UNCHANGED <<lease, pc, active, loops, asking, got, acked, copies, runs,
                 faults>>

----------------------------------------------------------------------------
(* Processes and time.                                                     *)

\* The process ends: nothing is released, and its pid does not come back.
Exit(p) ==
  /\ pc[p] # "off" /\ Fault
  /\ pc' = [pc EXCEPT ![p] = "off"]
  /\ active' = [active EXCEPT ![p] = FALSE]
  /\ asleep' = [asleep EXCEPT ![p] = FALSE]
  /\ owner' = IF owner = p THEN Gone ELSE owner
  /\ asking' = [asking EXCEPT ![p] = FALSE]
  /\ since' = [since EXCEPT ![p] = 0] /\ misses' = [misses EXCEPT ![p] = 0]
  /\ slept' = [slept EXCEPT ![p] = FALSE] /\ got' = [got EXCEPT ![p] = 0]
  /\ UNCHANGED <<age, sent, acked, copies, runs>>

\* It hangs: suspended, or starved by a long blocking call.
Nap(p) ==
  /\ pc[p] \in {"starting", "running"} /\ Awake(p) /\ Fault
  /\ asleep' = [asleep EXCEPT ![p] = TRUE]
  /\ slept' = [slept EXCEPT ![p] = TRUE]
  /\ UNCHANGED <<lease, pc, active, since, misses, polling, runs>>

Wake(p) ==
  /\ asleep[p]
  /\ asleep' = [asleep EXCEPT ![p] = FALSE]
  /\ UNCHANGED <<lease, pc, active, since, misses, slept, polling, runs, faults>>

\* Whose clock runs: a start, or a heartbeat loop that has not returned.
Timed(p) == pc[p] = "starting" \/ active[p]

Limit(p) == IF asleep[p] THEN Beat + MaxNap
            ELSE IF pc[p] = "starting" THEN MaxStart
            ELSE Beat

Tick ==
  /\ \A p \in Procs : Timed(p) => since[p] < Limit(p)
  /\ age' = IF owner # NoOwner /\ age < Stale THEN age + 1 ELSE age
  /\ since' = [p \in Procs |-> IF Timed(p) THEN since[p] + 1 ELSE since[p]]
  /\ UNCHANGED <<owner, pc, active, misses, asleep, slept, polling, runs, faults>>

----------------------------------------------------------------------------
Init ==
  /\ owner = NoOwner /\ age = 0
  /\ pc = [p \in Procs |-> "off"]
  /\ active = [p \in Procs |-> FALSE]
  /\ since = [p \in Procs |-> 0] /\ misses = [p \in Procs |-> 0]
  /\ asleep = [p \in Procs |-> FALSE] /\ slept = [p \in Procs |-> FALSE]
  /\ asking = [p \in Procs |-> FALSE] /\ got = [p \in Procs |-> 0]
  /\ sent = 0 /\ acked = 0
  /\ copies = [u \in Updates |-> 0]
  /\ runs = 0 /\ faults = 0

Poll(p) == Ask(p) \/ Answer(p) \/ Conflict(p)

Next ==
  \/ \E p \in Procs :
       \/ Start(p) \/ StartFails(p) \/ Spawn(p) \/ Renew(p) \/ RenewFails(p)
       \/ Poll(p) \/ AskFails(p)
       \/ Exit(p) \/ Nap(p) \/ Wake(p)
  \/ Send \/ Tick

Spec == Init /\ [][Next]_vars

\* Time passes, nobody hangs for ever, and the loops go on.
FairSpec ==
  /\ Spec
  /\ WF_vars(Tick)
  /\ \A p \in Procs :
       /\ WF_vars(Spawn(p)) /\ WF_vars(Wake(p)) /\ WF_vars(Renew(p))
       /\ WF_vars(Poll(p))

----------------------------------------------------------------------------
(* Properties.                                                             *)

\* Every variable keeps its shape.
TypeOK ==
  /\ owner \in Procs \cup {NoOwner, Gone} /\ age \in 0..Stale
  /\ pc \in [Procs -> {"off", "starting", "running", "skipped"}]
  /\ active \in [Procs -> BOOLEAN]
  /\ since \in [Procs -> Nat] /\ misses \in [Procs -> Nat]
  /\ asleep \in [Procs -> BOOLEAN] /\ slept \in [Procs -> BOOLEAN]
  /\ asking \in [Procs -> BOOLEAN] /\ got \in [Procs -> 0..MaxUpdates]
  /\ sent \in 0..MaxUpdates /\ acked \in 0..MaxUpdates
  /\ copies \in [Updates -> Nat]
  /\ runs \in 0..MaxRuns /\ faults \in 0..MaxFaults

\* What start and the heartbeat take for granted: a bot that has not hung and
\* has not missed more than Slack heartbeats in a row has the lease.
LeaseHeld ==
  \A p \in Procs : active[p] /\ ~slept[p] /\ misses[p] <= Slack => owner = p

\* Telegram drops no update that no task has seen (offset = update_id + 1 is
\* only sent after the update was handed on), whoever polls.
NoneSkipped ==
  \A u \in Updates : u <= acked => copies[u] > 0

\* A bot that has lost the lease stops.
LoserStops == \A p \in Procs : active[p] /\ owner # p ~> ~active[p]

\* While a bot is at work, what is sent to it is handed on.
Served == \A u \in Updates :
            u <= sent ~> copies[u] > 0 \/ \A p \in Procs : ~active[p]
=============================================================================
