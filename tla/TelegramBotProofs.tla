-------------------------- MODULE TelegramBotProofs --------------------------
(***************************************************************************)
(* The bot that keeps its heartbeats has the lease, for any number of      *)
(* processes and any times that leave the slack.  The age of the lease is  *)
(* bounded by the clock of its owner's heartbeat loop.                     *)
(***************************************************************************)
EXTENDS TelegramBot, TLAPS

LEMMA Times ==
  ASSUME NEW m \in Nat, NEW n \in Nat
  PROVE  /\ m * Beat \in Nat
         /\ (m + 1) * Beat = m * Beat + Beat
         /\ m <= n => m * Beat <= n * Beat
<1>1. Beat \in Nat
  BY TimesAssumption
<1>2. m * Beat \in Nat /\ n * Beat \in Nat /\ (m + 1) * Beat = m * Beat + Beat
  BY <1>1
<1>3. ASSUME m <= n PROVE m * Beat <= n * Beat
  <2>1. PICK k \in Nat : n = m + k
    <3>1. n - m \in Nat /\ n = m + (n - m)
      BY <1>3
    <3>2. QED
      BY <3>1
  <2>2. k * Beat \in Nat /\ (m + k) * Beat = m * Beat + k * Beat
    BY <1>1
  <2>3. QED
    BY <1>1, <1>2, <2>1, <2>2
<1>4. QED
  BY <1>2, <1>3
----------------------------------------------------------------------------
(* Types.                                                                  *)

LEMMA TypeInit == Init => TypeOK
  BY TimesAssumption, BoundsAssumption, OwnersAssumption DEF Init, TypeOK, Updates

LEMMA TypeNext == TypeOK /\ [Next]_vars => TypeOK'
<1> SUFFICES ASSUME TypeOK, [Next]_vars
             PROVE TypeOK'
  OBVIOUS
<1> USE TimesAssumption, BoundsAssumption, OwnersAssumption
<1> USE DEF TypeOK, lease, loops, polling, Updates
<1>1. ASSUME NEW p \in Procs, Start(p) PROVE TypeOK'
  <2>1. owner' \in Procs \cup {NoOwner, Gone} /\ age' \in 0..Stale
    BY <1>1 DEF Start
  <2>2. pc' \in [Procs -> {"off", "starting", "running", "skipped"}]
    BY <1>1 DEF Start
  <2>3. runs' \in 0..MaxRuns
    BY <1>1 DEF Start
  <2>4. QED
    BY <1>1, <2>1, <2>2, <2>3 DEF Start
<1>2. ASSUME NEW p \in Procs, StartFails(p) PROVE TypeOK'
  BY <1>2 DEF StartFails, Awake, Fault
<1>3. ASSUME NEW p \in Procs, Spawn(p) PROVE TypeOK'
  BY <1>3 DEF Spawn, Awake
<1>4. ASSUME NEW p \in Procs, Renew(p) PROVE TypeOK'
  <2>1. since' \in [Procs -> Nat]
    <3>1. since[p] - Beat \in Nat
      BY <1>4 DEF Renew, BeatDue
    <3>2. QED
      BY <1>4, <3>1 DEF Renew
  <2>2. CASE owner = p
    <3>1. age' \in 0..Stale /\ misses' \in [Procs -> Nat]
      <4>1. age' = 0 /\ misses' = [misses EXCEPT ![p] = 0]
        BY Zenon, <1>4, <2>2 DEF Renew
      <4>2. QED
        BY <4>1
    <3>2. slept' \in [Procs -> BOOLEAN] /\ active' = active
      BY Zenon, <1>4, <2>2 DEF Renew
    <3>3. QED
      BY <1>4, <2>1, <3>1, <3>2 DEF Renew
  <2>3. CASE owner # p
    <3>1. active' \in [Procs -> BOOLEAN]
      BY Zenon, <1>4, <2>3 DEF Renew
    <3>2. QED
      BY <1>4, <2>1, <2>3, <3>1 DEF Renew
  <2>4. QED
    BY <2>2, <2>3
<1>5. ASSUME NEW p \in Procs, RenewFails(p) PROVE TypeOK'
  <2>1. since' \in [Procs -> Nat]
    <3>1. since[p] - Beat \in Nat
      BY <1>5 DEF RenewFails, BeatDue
    <3>2. QED
      BY <1>5, <3>1 DEF RenewFails
  <2>2. misses' \in [Procs -> Nat]
    BY <1>5 DEF RenewFails
  <2>3. faults' \in 0..MaxFaults
    BY <1>5 DEF RenewFails, Fault
  <2>4. QED
    BY <1>5, <2>1, <2>2, <2>3 DEF RenewFails
<1>6. ASSUME NEW p \in Procs, Ask(p) PROVE TypeOK'
  BY <1>6 DEF Ask, Awake
<1>7. ASSUME NEW p \in Procs, Answer(p) PROVE TypeOK'
  BY <1>7 DEF Answer, Awake, GotAll
<1>8. ASSUME NEW p \in Procs, Conflict(p) PROVE TypeOK'
  BY <1>8 DEF Conflict, Awake
<1>9. ASSUME NEW p \in Procs, AskFails(p) PROVE TypeOK'
  BY <1>9 DEF AskFails, Awake, Fault
<1>10. ASSUME NEW p \in Procs, Exit(p) PROVE TypeOK'
  BY <1>10 DEF Exit, Fault
<1>11. ASSUME NEW p \in Procs, Nap(p) PROVE TypeOK'
  BY <1>11 DEF Nap, Awake, Fault
<1>12. ASSUME NEW p \in Procs, Wake(p) PROVE TypeOK'
  BY <1>12 DEF Wake
<1>13. CASE Send
  BY <1>13 DEF Send
<1>14. CASE Tick
  BY <1>14 DEF Tick, Timed, Limit
<1>15. CASE UNCHANGED vars
  BY <1>15 DEF vars
<1>16. QED
  BY <1>1, <1>2, <1>3, <1>4, <1>5, <1>6, <1>7, <1>8, <1>9, <1>10, <1>11, <1>12, <1>13, <1>14, <1>15 DEF Next, Poll

\* Every variable keeps its shape.
THEOREM TypeCorrect == Spec => []TypeOK
<1>1. QED
  BY TypeInit, TypeNext, PTL DEF Spec

----------------------------------------------------------------------------
(* The lease.                                                              *)

\* A process that is off has forgotten everything.
OffIsBlank == \A p \in Procs :
  /\ pc[p] = "off" => ~asleep[p] /\ ~slept[p] /\ since[p] = 0 /\ misses[p] = 0
  /\ active[p] => pc[p] = "running"
  /\ asleep[p] => slept[p]

\* The start acquires the lease and takes MaxStart at most.
StartHasLease == \A p \in Procs :
  pc[p] = "starting" /\ ~slept[p] =>
    /\ owner = p /\ misses[p] = 0
    /\ age <= since[p] /\ since[p] <= MaxStart

\* The lease of a bot is as old as its loop has waited: for the start, for the
\* renewals that failed and since the last tick.
BeatHasLease == \A p \in Procs :
  active[p] /\ ~slept[p] /\ misses[p] <= Slack =>
    /\ owner = p
    /\ age <= MaxStart + misses[p] * Beat + since[p]
    /\ since[p] <= Beat \/ age = 0

LeaseInv == OffIsBlank /\ StartHasLease /\ BeatHasLease

LEMMA LeaseInit == Init => LeaseInv
  BY DEF Init, LeaseInv, OffIsBlank, StartHasLease, BeatHasLease

\* Nobody takes the lease of a start or of a bot that keeps its heartbeats: it
\* has not gone stale.
LEMMA NoTakeover ==
  ASSUME TypeOK, LeaseInv, NEW q \in Procs, Start(q), NEW p \in Procs,
         ~slept[p],
         \/ pc[p] = "starting"
         \/ active[p] /\ misses[p] <= Slack
  PROVE  p # q /\ owner = p /\ age < Stale /\ UNCHANGED lease /\ pc'[q] = "skipped"
<1> USE TimesAssumption, OwnersAssumption DEF TypeOK, LeaseInv
<1>1. Slack * Beat \in Nat /\ (Slack + 1) * Beat = Slack * Beat + Beat
  BY Times
<1>2. MaxStart + Slack * Beat + Beat < Stale
  BY <1>1, SlackAssumption
<1>3. p # q /\ owner = p
  BY DEF Start, OffIsBlank, StartHasLease, BeatHasLease
<1>4. CASE pc[p] = "starting"
  <2>1. age <= MaxStart
    BY <1>4 DEF StartHasLease
  <2>2. QED
    BY <1>1, <1>2, <1>3, <2>1 DEF Start, MayAcquire, lease
<1>5. CASE active[p] /\ misses[p] <= Slack
  <2>1. misses[p] \in Nat /\ misses[p] * Beat \in Nat /\ misses[p] * Beat <= Slack * Beat
    BY <1>5, Times
  <2>2. /\ age <= MaxStart + misses[p] * Beat + since[p]
        /\ since[p] <= Beat \/ age = 0
    BY <1>5 DEF BeatHasLease
  <2>3. age < Stale
    <3>1. since[p] \in Nat /\ age \in Nat
      OBVIOUS
    <3>2. QED
      BY <1>1, <1>2, <2>1, <2>2, <3>1
  <2>4. QED
    BY <1>3, <2>3 DEF Start, MayAcquire, lease
<1>6. QED
  BY <1>4, <1>5

LEMMA OffNext ==
  ASSUME TypeOK, LeaseInv, [Next]_vars
  PROVE  OffIsBlank'
<1> USE TimesAssumption, OwnersAssumption, SlackAssumption
<1> USE DEF TypeOK, LeaseInv, OffIsBlank, lease, loops, polling
<1>1. ASSUME NEW q \in Procs, Start(q) PROVE OffIsBlank'
  BY <1>1 DEF Start
<1>2. ASSUME NEW q \in Procs, StartFails(q) PROVE OffIsBlank'
  BY <1>2 DEF StartFails
<1>3. ASSUME NEW q \in Procs, Spawn(q) PROVE OffIsBlank'
  BY <1>3 DEF Spawn
<1>4. ASSUME NEW q \in Procs, Renew(q) PROVE OffIsBlank'
  BY <1>4 DEF Renew, BeatDue, Awake
<1>5. ASSUME NEW q \in Procs, RenewFails(q) PROVE OffIsBlank'
  BY <1>5 DEF RenewFails, BeatDue, Awake
<1>6. ASSUME NEW q \in Procs, Ask(q) PROVE OffIsBlank'
  BY <1>6 DEF Ask
<1>7. ASSUME NEW q \in Procs, Answer(q) PROVE OffIsBlank'
  BY <1>7 DEF Answer
<1>8. ASSUME NEW q \in Procs, Conflict(q) PROVE OffIsBlank'
  BY <1>8 DEF Conflict
<1>9. ASSUME NEW q \in Procs, AskFails(q) PROVE OffIsBlank'
  BY <1>9 DEF AskFails
<1>10. ASSUME NEW q \in Procs, Exit(q) PROVE OffIsBlank'
  BY <1>10 DEF Exit
<1>11. ASSUME NEW q \in Procs, Nap(q) PROVE OffIsBlank'
  BY <1>11 DEF Nap, Awake
<1>12. ASSUME NEW q \in Procs, Wake(q) PROVE OffIsBlank'
  BY <1>12 DEF Wake
<1>13. CASE Send
  BY <1>13 DEF Send
<1>14. CASE Tick
  BY <1>14 DEF Tick, Timed, Limit
<1>15. CASE UNCHANGED vars
  BY <1>15 DEF vars
<1>16. QED
  BY <1>1, <1>2, <1>3, <1>4, <1>5, <1>6, <1>7, <1>8, <1>9, <1>10, <1>11, <1>12, <1>13, <1>14, <1>15 DEF Next, Poll

LEMMA StartNext ==
  ASSUME TypeOK, LeaseInv, [Next]_vars
  PROVE  StartHasLease'
<1> USE TimesAssumption, OwnersAssumption, SlackAssumption
<1> USE DEF TypeOK, LeaseInv, OffIsBlank, StartHasLease, lease, loops, polling
<1>1. ASSUME NEW q \in Procs, Start(q) PROVE StartHasLease'
  BY <1>1, NoTakeover DEF Start
<1>2. ASSUME NEW q \in Procs, StartFails(q) PROVE StartHasLease'
  BY <1>2 DEF StartFails
<1>3. ASSUME NEW q \in Procs, Spawn(q) PROVE StartHasLease'
  BY <1>3 DEF Spawn
<1>4. ASSUME NEW q \in Procs, Renew(q) PROVE StartHasLease'
  BY <1>4 DEF Renew, BeatDue, Awake
<1>5. ASSUME NEW q \in Procs, RenewFails(q) PROVE StartHasLease'
  BY <1>5 DEF RenewFails, BeatDue, Awake
<1>6. ASSUME NEW q \in Procs, Ask(q) PROVE StartHasLease'
  BY <1>6 DEF Ask
<1>7. ASSUME NEW q \in Procs, Answer(q) PROVE StartHasLease'
  BY <1>7 DEF Answer
<1>8. ASSUME NEW q \in Procs, Conflict(q) PROVE StartHasLease'
  BY <1>8 DEF Conflict
<1>9. ASSUME NEW q \in Procs, AskFails(q) PROVE StartHasLease'
  BY <1>9 DEF AskFails
<1>10. ASSUME NEW q \in Procs, Exit(q) PROVE StartHasLease'
  BY <1>10 DEF Exit
<1>11. ASSUME NEW q \in Procs, Nap(q) PROVE StartHasLease'
  BY <1>11 DEF Nap, Awake
<1>12. ASSUME NEW q \in Procs, Wake(q) PROVE StartHasLease'
  BY <1>12 DEF Wake
<1>13. CASE Send
  BY <1>13 DEF Send
<1>14. CASE Tick
  BY <1>14 DEF Tick, Timed, Limit
<1>15. CASE UNCHANGED vars
  BY <1>15 DEF vars
<1>16. QED
  BY <1>1, <1>2, <1>3, <1>4, <1>5, <1>6, <1>7, <1>8, <1>9, <1>10, <1>11, <1>12, <1>13, <1>14, <1>15 DEF Next, Poll

LEMMA BeatNext ==
  ASSUME TypeOK, LeaseInv, [Next]_vars
  PROVE  BeatHasLease'
<1> USE TimesAssumption, OwnersAssumption, SlackAssumption
<1> USE DEF TypeOK, LeaseInv, OffIsBlank, StartHasLease, BeatHasLease, lease, loops, polling
<1>1. ASSUME NEW q \in Procs, Start(q) PROVE BeatHasLease'
  BY <1>1, NoTakeover DEF Start
<1>2. ASSUME NEW q \in Procs, StartFails(q) PROVE BeatHasLease'
  BY <1>2 DEF StartFails
<1>3. ASSUME NEW q \in Procs, Spawn(q) PROVE BeatHasLease'
  BY <1>3 DEF Spawn
<1>4. ASSUME NEW q \in Procs, Renew(q) PROVE BeatHasLease'
  BY <1>4 DEF Renew, BeatDue, Awake
<1>5. ASSUME NEW q \in Procs, RenewFails(q) PROVE BeatHasLease'
  BY <1>5 DEF RenewFails, BeatDue, Awake
<1>6. ASSUME NEW q \in Procs, Ask(q) PROVE BeatHasLease'
  BY <1>6 DEF Ask
<1>7. ASSUME NEW q \in Procs, Answer(q) PROVE BeatHasLease'
  BY <1>7 DEF Answer
<1>8. ASSUME NEW q \in Procs, Conflict(q) PROVE BeatHasLease'
  BY <1>8 DEF Conflict
<1>9. ASSUME NEW q \in Procs, AskFails(q) PROVE BeatHasLease'
  BY <1>9 DEF AskFails
<1>10. ASSUME NEW q \in Procs, Exit(q) PROVE BeatHasLease'
  BY <1>10 DEF Exit
<1>11. ASSUME NEW q \in Procs, Nap(q) PROVE BeatHasLease'
  BY <1>11 DEF Nap, Awake
<1>12. ASSUME NEW q \in Procs, Wake(q) PROVE BeatHasLease'
  BY <1>12 DEF Wake
<1>13. CASE Send
  BY <1>13 DEF Send
<1>14. CASE Tick
  BY <1>14 DEF Tick, Timed, Limit
<1>15. CASE UNCHANGED vars
  BY <1>15 DEF vars
<1>16. QED
  BY <1>1, <1>2, <1>3, <1>4, <1>5, <1>6, <1>7, <1>8, <1>9, <1>10, <1>11, <1>12, <1>13, <1>14, <1>15 DEF Next, Poll

\* A bot that has not hung and has not missed more than Slack heartbeats in a
\* row has the lease.
THEOREM LeaseHeldCorrect == Spec => []LeaseHeld
<1>1. TypeOK /\ LeaseInv /\ [Next]_vars => LeaseInv'
  BY OffNext, StartNext, BeatNext DEF LeaseInv
<1>2. LeaseInv => LeaseHeld
  BY DEF LeaseInv, BeatHasLease, LeaseHeld
<1>3. QED
  BY <1>1, <1>2, LeaseInit, TypeCorrect, PTL DEF Spec

----------------------------------------------------------------------------
(* Updates.                                                                *)

\* What lies before an offset, or was dropped, has been handed to a task.
SeenInv ==
  /\ acked <= sent
  /\ \A p \in Procs : got[p] <= sent
  /\ \A u \in Updates : u <= acked => copies[u] > 0
  /\ \A p \in Procs, u \in Updates : u <= got[p] => copies[u] > 0

LEMMA SeenNext ==
  ASSUME TypeOK, SeenInv, [Next]_vars
  PROVE  SeenInv'
<1> USE BoundsAssumption DEF TypeOK, SeenInv, lease, loops, polling, Updates
<1>1. ASSUME NEW q \in Procs, Start(q) PROVE SeenInv'
  BY <1>1 DEF Start
<1>2. ASSUME NEW q \in Procs, StartFails(q) PROVE SeenInv'
  BY <1>2 DEF StartFails
<1>3. ASSUME NEW q \in Procs, Spawn(q) PROVE SeenInv'
  BY <1>3 DEF Spawn
<1>4. ASSUME NEW q \in Procs, Renew(q) PROVE SeenInv'
  BY <1>4 DEF Renew
<1>5. ASSUME NEW q \in Procs, RenewFails(q) PROVE SeenInv'
  BY <1>5 DEF RenewFails
<1>6. ASSUME NEW q \in Procs, Ask(q) PROVE SeenInv'
  BY <1>6 DEF Ask
<1>7. ASSUME NEW q \in Procs, Answer(q) PROVE SeenInv'
  BY <1>7 DEF Answer, GotAll
<1>8. ASSUME NEW q \in Procs, Conflict(q) PROVE SeenInv'
  BY <1>8 DEF Conflict
<1>9. ASSUME NEW q \in Procs, AskFails(q) PROVE SeenInv'
  BY <1>9 DEF AskFails
<1>10. ASSUME NEW q \in Procs, Exit(q) PROVE SeenInv'
  BY <1>10 DEF Exit
<1>11. ASSUME NEW q \in Procs, Nap(q) PROVE SeenInv'
  BY <1>11 DEF Nap
<1>12. ASSUME NEW q \in Procs, Wake(q) PROVE SeenInv'
  BY <1>12 DEF Wake
<1>13. CASE Send
  BY <1>13 DEF Send
<1>14. CASE Tick
  BY <1>14 DEF Tick
<1>15. CASE UNCHANGED vars
  BY <1>15 DEF vars
<1>16. QED
  BY <1>1, <1>2, <1>3, <1>4, <1>5, <1>6, <1>7, <1>8, <1>9, <1>10, <1>11, <1>12, <1>13, <1>14, <1>15 DEF Next, Poll

\* Telegram drops no update that no task has seen, whoever polls and whatever
\* fails.
THEOREM NoneSkippedCorrect == Spec => []NoneSkipped
<1>1. Init => SeenInv
  BY BoundsAssumption DEF Init, SeenInv, Updates
<1>2. TypeOK /\ SeenInv /\ [Next]_vars => SeenInv'
  BY SeenNext
<1>3. SeenInv => NoneSkipped
  BY DEF SeenInv, NoneSkipped
<1>4. QED
  BY <1>1, <1>2, <1>3, TypeCorrect, PTL DEF Spec
=============================================================================
