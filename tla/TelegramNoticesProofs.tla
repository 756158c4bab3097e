----------------------- MODULE TelegramNoticesProofs -----------------------
(***************************************************************************)
(* For any number of users, days, changes of usage, failures and restarts: *)
(* nobody gets two reports on a day unless one was sent and not recorded,  *)
(* nobody is told a level he knows already, and, when quota_alert_percent  *)
(* is at least 80, everybody is told the level his usage has reached.      *)
(***************************************************************************)
EXTENDS TelegramNotices, TLAPS

\* Days are counted by division: the day of a later minute is not an earlier one.
LEMMA DayFacts ==
  ASSUME NEW m \in Nat, NEW n \in Nat, m <= n
  PROVE  Day(m) \in Nat /\ Day(m) <= Day(n)
<1>1. DayLen \in Nat /\ DayLen > 0
  BY NoticesAssumption
<1>2. ASSUME NEW k \in Nat
      PROVE  /\ Day(k) \in Nat
             /\ DayLen * Day(k) <= k /\ k < DayLen * Day(k) + DayLen
  BY <1>1, <1>2, SMT DEF Day
<1>3. QED
  <2>1. Day(m) \in Nat /\ Day(n) \in Nat
    BY <1>2
  <2>2. SUFFICES ASSUME Day(n) < Day(m) PROVE FALSE
    BY <2>1
  <2>3. PICK k \in Nat : Day(m) = Day(n) + 1 + k
    <3>1. Day(m) - Day(n) - 1 \in Nat
      BY <2>1, <2>2
    <3>2. QED
      BY <2>1, <3>1
  <2>4. DayLen * (Day(n) + 1 + k) = DayLen * Day(n) + DayLen + DayLen * k /\ DayLen * k \in Nat
    BY <1>1, <2>1, <2>3
  <2>5. DayLen * Day(m) <= m /\ n < DayLen * Day(n) + DayLen
    BY <1>2
  <2>6. DayLen * Day(n) \in Nat /\ DayLen * Day(m) \in Nat
    BY <1>1, <2>1
  <2>7. QED
    BY <1>1, <2>3, <2>4, <2>5, <2>6

LEMMA DayOfMinute ==
  ASSUME NEW m \in 0..LastMinute
  PROVE  Day(m) \in Days
<1>1. m \in Nat /\ LastMinute \in Nat /\ m <= LastMinute
  BY NoticesAssumption
<1>2. Day(m) \in Nat /\ Day(m) <= Day(LastMinute)
  BY <1>1, DayFacts
<1>3. Day(LastMinute) \in Nat
  BY <1>1, DayFacts
<1>4. QED
  BY <1>2, <1>3 DEF Days

LEMMA DaysAreNumbers == Days \subseteq Nat
<1>1. LastMinute \in Nat
  BY NoticesAssumption
<1>2. Day(LastMinute) \in Nat
  BY <1>1, DayFacts
<1>3. QED
  BY <1>2 DEF Days

\* Shares, steps and levels.
LEMMA ShareFacts ==
  ASSUME NEW p \in Shares
  PROVE  /\ p \in Int /\ Level(p) \in Levels /\ Level(p) \in Nat
         /\ Step(p) \in {0, AlertPct, 90, 100}
<1>1. p \in Int
  BY NoticesAssumption DEF Shares, Unlimited
<1>2. Level(p) \in Levels /\ Level(p) \in Nat
  BY <1>1 DEF Level, Levels
<1>3. Step(p) \in {0, AlertPct, 90, 100}
  BY DEF Step
<1>4. QED
  BY <1>1, <1>2, <1>3

-----------------------------------------------------------------------------
(* Types.                                                                  *)

LEMMA TypeInit == Init => TypeOK
<1> SUFFICES ASSUME Init PROVE TypeOK
  OBVIOUS
<1> USE DEF Init
<1>1. 0 \in Percents /\ 0 \in Shares /\ LastMinute \in Nat /\ MaxChanges \in Nat /\ MaxFaults \in Nat
  BY NoticesAssumption DEF Shares
<1>2. queue \in Seq([user : Users, pct : Percents])
  OBVIOUS
<1>3. round \in Round /\ alert = Nobody
  BY DEF Round
<1>4. date \in [Users -> Days \cup {NoDay}]
  OBVIOUS
<1>5. reports \in [Users -> [Days -> Nat]]
  OBVIOUS
<1>6. level \in [Users -> Levels] /\ known \in [Users -> Levels]
  BY DEF Levels
<1>7. QED
  BY <1>1, <1>2, <1>3, <1>4, <1>5, <1>6 DEF TypeOK

\* What a turn of the loop holds, by where it is.
LEMMA RoundFacts ==
  ASSUME round \in Round, round # Nobody
  PROVE  /\ round.pc \in {"lower", "send", "record"}
         /\ round.pc = "lower" => \E D \in SUBSET Users :
              /\ round = [pc |-> "lower", todo |-> round.todo]
              /\ round.todo \in [D -> Levels] /\ DOMAIN round.todo = D
         /\ round.pc \in {"send", "record"} =>
              round.todo \in SUBSET Users /\ round.day \in Days
         /\ round.pc = "record" => round.user \in Users
<1>1. CASE round \in [pc : {"lower"}, todo : UNION {[D -> Levels] : D \in SUBSET Users}]
  BY <1>1
<1>2. CASE round \in [pc : {"send"}, todo : SUBSET Users, day : Days]
  BY <1>2
<1>3. CASE round \in [pc : {"record"}, todo : SUBSET Users, day : Days, user : Users]
  BY <1>3
<1>4. QED
  BY <1>1, <1>2, <1>3 DEF Round

LEMMA NextReportType ==
  ASSUME round \in Round, round # Nobody, round.pc \in {"send", "record"},
         NEW u, NextReport(u)
  PROVE  round' \in Round
<1>1. round.todo \in SUBSET Users /\ round.day \in Days
  BY RoundFacts
<1>2. [pc |-> "send", todo |-> round.todo \ {u}, day |-> round.day] \in Round
  BY <1>1 DEF Round
<1>3. QED
  BY <1>2 DEF NextReport, Round

LEMMA LowerRound ==
  ASSUME NEW D \in SUBSET Users, NEW f \in [D -> Levels]
  PROVE  [pc |-> "lower", todo |-> f] \in Round
<1>1. f \in UNION {[E -> Levels] : E \in SUBSET Users}
  OBVIOUS
<1>2. QED
  BY <1>1 DEF Round

LEMMA PairExcept ==
  ASSUME NEW r, NEW f, r = [pc |-> "lower", todo |-> r.todo]
  PROVE  [r EXCEPT !.todo = f] = [pc |-> "lower", todo |-> f]
  OBVIOUS

\* One more report of a user on a day.
LEMMA OneMore ==
  ASSUME NEW u \in Users, NEW d \in Days, NEW f \in [Users -> [Days -> Nat]]
  PROVE  [f EXCEPT ![u][d] = @ + 1] \in [Users -> [Days -> Nat]]
<1>1. [f[u] EXCEPT ![d] = @ + 1] \in [Days -> Nat]
  OBVIOUS
<1>2. QED
  BY <1>1

LEMMA QueueFacts ==
  ASSUME NEW S, NEW q \in Seq(S)
  PROVE  /\ q # <<>> => Head(q) \in S /\ Tail(q) \in Seq(S)
         /\ \A e \in S : Append(q, e) \in Seq(S)
  OBVIOUS

LEMMA AlertFacts ==
  ASSUME TypeOK, alert # Nobody
  PROVE  /\ alert.user \in Users /\ alert.level \in Levels /\ alert.level \in Nat
         /\ alert = [pc |-> alert.pc, user |-> alert.user, level |-> alert.level]
  BY DEF TypeOK, Levels

LEMMA TypeNext == TypeOK /\ [Next]_vars => TypeOK'
<1> SUFFICES ASSUME TypeOK, [Next]_vars PROVE TypeOK'
  OBVIOUS
<1>0. MaxChanges \in Nat /\ MaxFaults \in Nat /\ LastMinute \in Nat
  BY NoticesAssumption
<1> USE <1>0 DEF TypeOK, alerts, history
<1>1. ASSUME NEW u \in Users, ChangeUsage(u) PROVE TypeOK'
  <2>1. PICK p \in Shares :
          /\ pct' = [pct EXCEPT ![u] = p]
          /\ known' = [known EXCEPT ![u] = Lower(@, Level(p))]
          /\ fell' = IF p < pct[u] THEN [fell EXCEPT ![u] = "unseen"] ELSE fell
          /\ hasty' = IF p > pct[u] /\ FallUnseen(u) THEN hasty \cup {u} ELSE hasty
    BY <1>1 DEF ChangeUsage
  <2>2. pct' \in [Users -> Shares]
    BY <2>1
  <2>3. Lower(known[u], Level(p)) \in Levels
    BY ShareFacts DEF Lower
  <2>4. known' \in [Users -> Levels]
    BY <2>1, <2>3
  <2>5. fell' \in [Users -> {"seen", "listed", "unseen"}]
    BY <2>1
  <2>6. hasty' \subseteq Users
    BY <2>1
  <2>7. changes' \in 0..MaxChanges
    BY <1>1 DEF ChangeUsage
  <2>8. QED
    BY <1>1, <2>2, <2>4, <2>5, <2>6, <2>7 DEF ChangeUsage
<1>2. ASSUME NEW u \in Users, Sync(u) PROVE TypeOK'
  <2>1. pct[u] \in Shares /\ pct[u] \in Percents
    BY <1>2 DEF Sync, Shares
  <2>2. alerted' \in [Users -> {0, AlertPct, 90, 100}]
    BY <1>2, <2>1, ShareFacts DEF Sync
  <2>3. queue' \in Seq([user : Users, pct : Percents])
    <3>1. [user |-> u, pct |-> pct[u]] \in [user : Users, pct : Percents]
      BY <2>1
    <3>2. queue' = queue \/ queue' = Append(queue, [user |-> u, pct |-> pct[u]])
      BY <1>2 DEF Sync
    <3>3. queue \in Seq([user : Users, pct : Percents])
      OBVIOUS
    <3>4. Append(queue, [user |-> u, pct |-> pct[u]]) \in Seq([user : Users, pct : Percents])
      BY <3>1, <3>3, QueueFacts, Zenon
    <3>5. QED
      BY <3>2, <3>3, <3>4, Zenon
  <2>4. QED
    BY <1>2, <2>2, <2>3 DEF Sync
<1>3. ASSUME TakeAlert PROVE TypeOK'
  <2>1. Head(queue) \in [user : Users, pct : Percents] /\ Tail(queue) \in Seq([user : Users, pct : Percents])
    BY <1>3, QueueFacts DEF TakeAlert
  <2>2. Level(Head(queue).pct) \in Levels
    BY <2>1, ShareFacts DEF Shares
  <2>3. alert' \in [pc : {"send", "record"}, user : Users, level : Levels] \cup {Nobody}
    BY <1>3, <2>1, <2>2 DEF TakeAlert
  <2>4. QED
    BY <1>3, <2>1, <2>3 DEF TakeAlert
<1>4. ASSUME SendAlert PROVE TypeOK'
  <2>1. alert.user \in Users /\ alert.level \in Levels
    BY <1>4, AlertFacts DEF SendAlert
  <2>2. alert' \in [pc : {"send", "record"}, user : Users, level : Levels] \cup {Nobody}
    BY <1>4 DEF SendAlert
  <2>3. known' \in [Users -> Levels]
    BY <1>4, <2>1 DEF SendAlert
  <2>4. repeated' \cup slipped' \cup hasty' \cup unrecorded' \subseteq Users
    BY <1>4, <2>1 DEF SendAlert
  <2>5. QED
    BY <1>4, <2>2, <2>3, <2>4 DEF SendAlert
<1>5. ASSUME MessageFails PROVE TypeOK'
  <2>1. alert.user \in Users
    BY <1>5, AlertFacts DEF MessageFails
  <2>2. alert' \in [pc : {"send", "record"}, user : Users, level : Levels] \cup {Nobody}
    BY <1>5 DEF MessageFails
  <2>3. QED
    BY <1>5, <2>1, <2>2 DEF MessageFails, Fault
<1>6. ASSUME RecordAlert PROVE TypeOK'
  <2>1. alert.user \in Users /\ alert.level \in Levels
    BY <1>6, AlertFacts DEF RecordAlert
  <2>2. level' \in [Users -> Levels]
    BY <1>6, <2>1 DEF RecordAlert
  <2>3. slipped' \subseteq Users
    BY <1>6, <2>1 DEF RecordAlert
  <2>4. QED
    BY <1>6, <2>2, <2>3 DEF RecordAlert
<1>7. ASSUME AlertFails PROVE TypeOK'
  <2>1. alert.user \in Users
    BY <1>7, AlertFacts DEF AlertFails
  <2>2. QED
    BY <1>7, <2>1 DEF AlertFails, Fault
<1>8. ASSUME BeginRound PROVE TypeOK'
  <2>1. [u \in Fallen |-> Level(pct[u])] \in [Fallen -> Levels] /\ Fallen \in SUBSET Users
    BY ShareFacts DEF Fallen
  <2>2. round' \in Round
    BY <1>8, <2>1 DEF BeginRound, Round
  <2>3. fell' \in [Users -> {"seen", "listed", "unseen"}]
    BY <1>8 DEF BeginRound, Looks
  <2>4. QED
    BY <1>8, <2>2, <2>3 DEF BeginRound
<1>9. ASSUME LowerLevel PROVE TypeOK'
  <2>1. PICK D \in SUBSET Users :
          round = [pc |-> "lower", todo |-> round.todo] /\ round.todo \in [D -> Levels]
          /\ DOMAIN round.todo = D
    BY <1>9, RoundFacts DEF LowerLevel
  <2>2. PICK u \in D :
          /\ level' = [level EXCEPT ![u] = round.todo[u]]
          /\ round' = [round EXCEPT !.todo = [v \in DOMAIN @ \ {u} |-> @[v]]]
    BY <1>9, <2>1 DEF LowerLevel
  <2>3. level' \in [Users -> Levels]
    BY <2>1, <2>2
  <2>4. round' = [pc |-> "lower", todo |-> [v \in D \ {u} |-> round.todo[v]]]
    <3>1. round' = [round EXCEPT !.todo = [v \in D \ {u} |-> round.todo[v]]]
      BY <2>1, <2>2, Zenon
    <3>2. round = [pc |-> "lower", todo |-> round.todo]
      BY <2>1
    <3>3. [round EXCEPT !.todo = [v \in D \ {u} |-> round.todo[v]]]
            = [pc |-> "lower", todo |-> [v \in D \ {u} |-> round.todo[v]]]
      BY <3>2, PairExcept, Zenon
    <3>4. QED
      BY <3>1, <3>3, Zenon
  <2>5. [v \in D \ {u} |-> round.todo[v]] \in [D \ {u} -> Levels] /\ D \ {u} \in SUBSET Users
    BY <2>1
  <2>6. round' \in Round
    BY <2>4, <2>5, LowerRound
  <2>7. QED
    BY <1>9, <2>3, <2>6 DEF LowerLevel
<1>10. ASSUME LowerFails PROVE TypeOK'
  <2>1. round = [pc |-> "lower", todo |-> round.todo]
    BY <1>10, RoundFacts DEF LowerFails
  <2>2. round' = [pc |-> "lower", todo |-> [v \in {} |-> 0]]
    BY <1>10, <2>1 DEF LowerFails
  <2>3. [v \in {} |-> 0] \in [{} -> Levels] /\ {} \in SUBSET Users
    OBVIOUS
  <2>4. round' \in Round
    BY <2>2, <2>3, LowerRound
  <2>5. fell' \in [Users -> {"seen", "listed", "unseen"}]
    BY <1>10 DEF LowerFails, Looks
  <2>6. QED
    BY <1>10, <2>4, <2>5 DEF LowerFails, Fault
<1>11. ASSUME ListReports PROVE TypeOK'
  <2>1. Due(minute) \in SUBSET Users /\ Day(minute) \in Days
    BY DayOfMinute DEF Due
  <2>2. round' \in Round
    BY <1>11, <2>1 DEF ListReports, Round
  <2>3. fell' \in [Users -> {"seen", "listed", "unseen"}]
    BY <1>11 DEF ListReports, Looks
  <2>4. QED
    BY <1>11, <2>2, <2>3 DEF ListReports
<1>12. ASSUME NEW u \in Users, SendReport(u) PROVE TypeOK'
  <2>1. round.todo \in SUBSET Users /\ round.day \in Days
    BY <1>12, RoundFacts DEF SendReport
  <2>2. round' \in Round
    BY <1>12, <2>1 DEF SendReport, Round
  <2>3. reports' \in [Users -> [Days -> Nat]]
    BY <1>12, <2>1 DEF SendReport
  <2>4. QED
    BY <1>12, <2>2, <2>3 DEF SendReport
<1>13. ASSUME NEW u \in Users, SendReportFails(u) PROVE TypeOK'
  <2>1. round' \in Round
    BY <1>13, NextReportType DEF SendReportFails
  <2>2. round.day \in Days
    BY <1>13, RoundFacts DEF SendReportFails
  <2>3. reports' = reports \/ reports' = [reports EXCEPT ![u][round.day] = @ + 1]
    BY <1>13 DEF SendReportFails
  <2>4. reports' \in [Users -> [Days -> Nat]]
    <3>1. reports \in [Users -> [Days -> Nat]]
      OBVIOUS
    <3>2. [reports EXCEPT ![u][round.day] = @ + 1] \in [Users -> [Days -> Nat]]
      BY <2>2, <3>1, OneMore
    <3>3. QED
      BY <2>3, <3>1, <3>2, Zenon
  <2>5. unrecorded' \subseteq Users
    BY <1>13 DEF SendReportFails
  <2>6. QED
    BY <1>13, <2>1, <2>4, <2>5 DEF SendReportFails, Fault
<1>14. ASSUME RecordReport PROVE TypeOK'
  <2>1. round' \in Round
    BY <1>14, NextReportType DEF RecordReport
  <2>2. round.day \in Days /\ round.user \in Users
    BY <1>14, RoundFacts DEF RecordReport
  <2>3. date' \in [Users -> Days \cup {NoDay}]
    BY <1>14, <2>2 DEF RecordReport
  <2>4. QED
    BY <1>14, <2>1, <2>3 DEF RecordReport
<1>15. ASSUME RecordReportFails PROVE TypeOK'
  <2>1. round' \in Round
    BY <1>15, NextReportType DEF RecordReportFails
  <2>2. round.user \in Users
    BY <1>15, RoundFacts DEF RecordReportFails
  <2>3. QED
    BY <1>15, <2>1, <2>2 DEF RecordReportFails, Fault
<1>16. ASSUME Tick PROVE TypeOK'
  BY <1>16 DEF Tick
<1>17. ASSUME Restart PROVE TypeOK'
  <2>1. slipped' \subseteq Users
    BY <1>17, AlertFacts DEF Restart
  <2>2. unrecorded' \subseteq Users
    BY <1>17, RoundFacts DEF Restart
  <2>3. round' \in Round /\ queue' \in Seq([user : Users, pct : Percents])
    BY <1>17 DEF Restart, Round
  <2>4. fell' \in [Users -> {"seen", "listed", "unseen"}]
    BY <1>17 DEF Restart, Looks
  <2>5. alerted' \in [Users -> {0, AlertPct, 90, 100}]
    BY <1>17 DEF Restart
  <2>6. QED
    BY <1>17, <2>1, <2>2, <2>3, <2>4, <2>5 DEF Restart, Fault
<1>18. CASE UNCHANGED vars
  BY <1>18 DEF vars
<1>19. QED
  BY <1>1, <1>2, <1>3, <1>4, <1>5, <1>6, <1>7, <1>8, <1>9, <1>10, <1>11, <1>12, <1>13,
     <1>14, <1>15, <1>16, <1>17, <1>18 DEF Next

\* Type correctness of alerts and reports.
THEOREM TypeCorrect == Spec => []TypeOK
<1>1. QED
  BY TypeInit, TypeNext, PTL DEF Spec

-----------------------------------------------------------------------------
(* One report a day.  A turn of the loop works with the day it has read, for *)
(* those whose last report is of an earlier one; and a report that counts as *)
(* sent is either recorded or the one that is about to be.                   *)

Reporting == round # Nobody /\ round.pc \in {"send", "record"}
AboutToRecord(u, d) ==
  round # Nobody /\ round.pc = "record" /\ round.user = u /\ round.day = d

RoundOfTheDay ==
  Reporting => /\ round.day <= Day(minute)
               /\ \A u \in Users : date[u] <= round.day
               /\ \A u \in round.todo : date[u] < round.day
OnceAndRecorded(u, d) ==
  \/ reports[u][d] = 0
  \/ reports[u][d] = 1 /\ (date[u] >= d \/ AboutToRecord(u, d))

ReportInv ==
  /\ \A u \in Users : date[u] <= Day(minute)
  /\ RoundOfTheDay
  /\ \A u \in Users \ unrecorded : \A d \in Days : OnceAndRecorded(u, d)

LEMMA ReportInit == Init => ReportInv
<1> SUFFICES ASSUME Init PROVE ReportInv
  OBVIOUS
<1>1. Day(0) \in Nat
  BY DayFacts
<1>2. \A u \in Users : date[u] <= Day(minute)
  <2>1. minute = 0 /\ \A u \in Users : date[u] = -1
    BY DEF Init, NoDay
  <2>2. Day(minute) \in Nat
    BY <1>1, <2>1, Zenon
  <2>3. \A d \in Nat : -1 <= d
    OBVIOUS
  <2>4. -1 <= Day(minute)
    BY <2>2, <2>3
  <2>5. QED
    BY <2>1, <2>4
<1>3. RoundOfTheDay
  BY DEF Init, RoundOfTheDay, Reporting
<1>4. \A u \in Users : \A d \in Days : OnceAndRecorded(u, d)
  BY DEF Init, OnceAndRecorded
<1>5. QED
  BY <1>2, <1>3, <1>4 DEF ReportInv

\* What the types say of days.
LEMMA DateFacts ==
  ASSUME TypeOK
  PROVE  /\ minute \in Nat /\ Day(minute) \in Nat /\ Day(minute) \in Days
         /\ \A u \in Users : date[u] \in Int
         /\ \A u \in Users, d \in Days : reports[u][d] \in Nat
         /\ \A d \in Days : d \in Nat
<1>1. minute \in Nat /\ LastMinute \in Nat
  BY NoticesAssumption DEF TypeOK
<1>2. Day(minute) \in Nat /\ Day(minute) \in Days
  BY <1>1, DayFacts, DayOfMinute DEF TypeOK
<1>3. \A d \in Days : d \in Nat
  BY DaysAreNumbers
<1>4. \A u \in Users : date[u] \in Int
  BY <1>3 DEF TypeOK, NoDay
<1>5. \A u \in Users, d \in Days : reports[u][d] \in Nat
  BY DEF TypeOK
<1>6. QED
  BY <1>1, <1>2, <1>3, <1>4, <1>5

\* A turn of the loop that is over, or that has not come to the reports.
LEMMA NoReporting ==
  ASSUME ReportInv, UNCHANGED <<date, minute, reports>>,
         unrecorded \subseteq unrecorded', ~Reporting',
         \A u \in Users, d \in Days : AboutToRecord(u, d) => u \in unrecorded'
  PROVE  ReportInv'
<1>1. \A u \in Users : date'[u] <= Day(minute')
  BY DEF ReportInv
<1>2. RoundOfTheDay'
  BY DEF RoundOfTheDay
<1>3. \A u \in Users \ unrecorded' : \A d \in Days : OnceAndRecorded(u, d)'
  BY DEF ReportInv, OnceAndRecorded
<1>4. QED
  BY <1>1, <1>2, <1>3 DEF ReportInv

\* The next report of the same turn, when the last one was not counted.
LEMMA NextReportInv ==
  ASSUME TypeOK, ReportInv, Reporting, NEW u \in Users, NextReport(u),
         UNCHANGED <<date, minute>>, unrecorded \subseteq unrecorded',
         \A v \in Users \ unrecorded' : reports'[v] = reports[v],
         \A v \in Users, d \in Days : AboutToRecord(v, d) => v \in unrecorded'
  PROVE  ReportInv'
<1>1. CASE round.todo \ {u} = {}
  <2>1. ~Reporting'
    BY <1>1 DEF NextReport, Reporting, Nobody
  <2>2. RoundOfTheDay'
    BY <2>1 DEF RoundOfTheDay
  <2>3. \A v \in Users \ unrecorded' : \A d \in Days : OnceAndRecorded(v, d)'
    BY DEF ReportInv, OnceAndRecorded
  <2>4. QED
    BY <2>2, <2>3 DEF ReportInv
<1>2. CASE round.todo \ {u} # {}
  <2>1. round' = [pc |-> "send", todo |-> round.todo \ {u}, day |-> round.day]
    BY <1>2 DEF NextReport
  <2>2. /\ round.day <= Day(minute)
        /\ \A v \in Users : date[v] <= round.day
        /\ \A v \in round.todo : date[v] < round.day
    BY DEF ReportInv, RoundOfTheDay
  <2>3. RoundOfTheDay'
    BY <2>1, <2>2 DEF RoundOfTheDay
  <2>4. \A v \in Users \ unrecorded' : \A d \in Days : OnceAndRecorded(v, d)'
    BY DEF ReportInv, OnceAndRecorded
  <2>5. QED
    BY <2>3, <2>4 DEF ReportInv
<1>3. QED
  BY <1>1, <1>2

LEMMA ReportNext == TypeOK /\ ReportInv /\ [Next]_vars => ReportInv'
<1> SUFFICES ASSUME TypeOK, ReportInv, [Next]_vars PROVE ReportInv'
  OBVIOUS
<1> USE DEF alerts, history
<1>a. ASSUME UNCHANGED <<round, date, minute, reports, unrecorded>> PROVE ReportInv'
  BY <1>a DEF ReportInv, RoundOfTheDay, Reporting, OnceAndRecorded, AboutToRecord
<1>1. ASSUME NEW u \in Users, ChangeUsage(u) \/ Sync(u) PROVE ReportInv'
  BY <1>a, <1>1 DEF ChangeUsage, Sync
<1>2. CASE TakeAlert \/ SendAlert \/ MessageFails \/ RecordAlert \/ AlertFails
  BY <1>a, <1>2 DEF TakeAlert, SendAlert, MessageFails, RecordAlert, AlertFails
<1>3. CASE BeginRound \/ LowerLevel \/ LowerFails
  <2>1. \A u \in Users, d \in Days : ~AboutToRecord(u, d)
    BY <1>3 DEF BeginRound, LowerLevel, LowerFails, AboutToRecord
  <2>2. ~Reporting'
    <3>1. CASE BeginRound
      BY <3>1 DEF BeginRound, Reporting
    <3>2. CASE LowerLevel \/ LowerFails
      <4>1. round = [pc |-> "lower", todo |-> round.todo]
        BY <3>2, RoundFacts DEF LowerLevel, LowerFails, TypeOK
      <4>2. round'.pc = round.pc
        BY <3>2, <4>1 DEF LowerLevel, LowerFails
      <4>3. QED
        BY <3>2, <4>2 DEF LowerLevel, LowerFails, Reporting
    <3>3. QED
      BY <1>3, <3>1, <3>2
  <2>3. QED
    BY <1>3, <2>1, <2>2, NoReporting DEF BeginRound, LowerLevel, LowerFails
<1>4. CASE ListReports
  <2>1. \A u \in Users, d \in Days : ~AboutToRecord(u, d)
    BY <1>4 DEF ListReports, AboutToRecord
  <2>2. CASE Due(minute) = {}
    BY <1>4, <2>1, <2>2, NoReporting DEF ListReports, Reporting
  <2>3. CASE Due(minute) # {}
    <3>1. round' = [pc |-> "send", todo |-> Due(minute), day |-> Day(minute)]
      BY <1>4, <2>3 DEF ListReports
    <3>2. \A u \in Due(minute) : u \in Users /\ date[u] # Day(minute)
      BY DEF Due
    <3>3. \A u \in Due(minute) : date[u] < Day(minute)
      BY <3>2, DateFacts DEF ReportInv
    <3>4. RoundOfTheDay'
      <4>1. UNCHANGED <<date, minute>> /\ Day(minute') = Day(minute) /\ Day(minute) \in Nat
        BY <1>4, DateFacts DEF ListReports
      <4>2. round'.day <= Day(minute') /\ \A u \in Users : date'[u] <= round'.day
        BY <3>1, <4>1 DEF ReportInv
      <4>3. \A u \in round'.todo : date'[u] < round'.day
        BY <3>1, <3>3, <4>1
      <4>4. QED
        BY <4>2, <4>3 DEF RoundOfTheDay
    <3>5. \A u \in Users \ unrecorded' : \A d \in Days : OnceAndRecorded(u, d)'
      BY <1>4, <2>1 DEF ListReports, ReportInv, OnceAndRecorded
    <3>6. QED
      BY <1>4, <3>4, <3>5 DEF ListReports, ReportInv
  <2>4. QED
    BY <2>2, <2>3
<1>5. ASSUME NEW u \in Users, SendReport(u) PROVE ReportInv'
  <2>1. round.day \in Days /\ round.day \in Nat /\ round.todo \subseteq Users
    BY <1>5, RoundFacts, DateFacts DEF SendReport, TypeOK
  <2>2. /\ round.day <= Day(minute) /\ \A v \in Users : date[v] <= round.day
        /\ \A v \in round.todo : date[v] < round.day
    BY <1>5 DEF ReportInv, RoundOfTheDay, Reporting, SendReport
  <2>3. round' = [pc |-> "record", todo |-> round.todo, day |-> round.day, user |-> u]
    BY <1>5 DEF SendReport
  <2>4. RoundOfTheDay'
    BY <1>5, <2>2, <2>3 DEF RoundOfTheDay, SendReport
  <2>5. ASSUME NEW v \in Users \ unrecorded', NEW d \in Days
        PROVE  OnceAndRecorded(v, d)'
    <3>1. OnceAndRecorded(v, d) /\ ~AboutToRecord(v, d)
      BY <1>5, <2>5 DEF ReportInv, SendReport, AboutToRecord
    <3>2. CASE v = u /\ d = round.day
      <4>1. reports[u][d] = 0
        BY <1>5, <2>1, <2>2, <3>1, <3>2, DateFacts DEF OnceAndRecorded, SendReport
      <4>2. reports'[u][d] = 1
        BY <1>5, <2>1, <3>2, <4>1 DEF SendReport, TypeOK
      <4>3. AboutToRecord(v, d)'
        BY <2>3, <3>2 DEF AboutToRecord, Nobody
      <4>4. QED
        BY <3>2, <4>2, <4>3 DEF OnceAndRecorded
    <3>3. CASE ~(v = u /\ d = round.day)
      <4>1. reports'[v][d] = reports[v][d]
        BY <1>5, <2>1, <3>3 DEF SendReport, TypeOK
      <4>2. QED
        BY <1>5, <3>1, <4>1 DEF OnceAndRecorded, SendReport
    <3>4. QED
      BY <3>2, <3>3
  <2>6. QED
    BY <1>5, <2>4, <2>5 DEF ReportInv, SendReport
<1>6. ASSUME NEW u \in Users, SendReportFails(u) PROVE ReportInv'
  <2>1. Reporting /\ \A v \in Users, d \in Days : ~AboutToRecord(v, d)
    BY <1>6 DEF SendReportFails, Reporting, AboutToRecord
  <2>2. \A v \in Users \ unrecorded' : reports'[v] = reports[v]
    BY <1>6 DEF SendReportFails, TypeOK
  <2>3. unrecorded \subseteq unrecorded'
    BY <1>6 DEF SendReportFails
  <2>4. QED
    BY <1>6, <2>1, <2>2, <2>3, NextReportInv DEF SendReportFails
<1>7. CASE RecordReport
  <2>1. round.user \in Users /\ round.day \in Days /\ round.day \in Nat /\ round.todo \subseteq Users
    BY <1>7, RoundFacts, DateFacts DEF RecordReport, TypeOK
  <2>2. /\ round.day <= Day(minute) /\ \A v \in Users : date[v] <= round.day
        /\ \A v \in round.todo : date[v] < round.day
    BY <1>7 DEF ReportInv, RoundOfTheDay, Reporting, RecordReport
  <2>3. \A v \in Users : date'[v] = IF v = round.user THEN round.day ELSE date[v]
    BY <1>7, <2>1 DEF RecordReport, TypeOK
  <2>4. \A v \in Users : date'[v] <= round.day /\ date'[v] <= Day(minute)
    BY <2>1, <2>2, <2>3, DateFacts DEF ReportInv
  <2>5. RoundOfTheDay'
    <3>1. CASE round.todo \ {round.user} = {}
      BY <1>7, <3>1 DEF RecordReport, NextReport, RoundOfTheDay, Reporting
    <3>2. CASE round.todo \ {round.user} # {}
      <4>1. round' = [pc |-> "send", todo |-> round.todo \ {round.user}, day |-> round.day]
        BY <1>7, <3>2 DEF RecordReport, NextReport
      <4>2. \A v \in round'.todo : v \in Users /\ date'[v] < round'.day
        BY <2>1, <2>2, <2>3, <4>1
      <4>3. UNCHANGED minute
        BY <1>7 DEF RecordReport
      <4>4. QED
        BY <2>2, <2>4, <4>1, <4>2, <4>3 DEF RoundOfTheDay
    <3>3. QED
      BY <3>1, <3>2
  <2>6. ASSUME NEW v \in Users \ unrecorded', NEW d \in Days
        PROVE  OnceAndRecorded(v, d)'
    <3>1. OnceAndRecorded(v, d) /\ reports' = reports
      BY <1>7, <2>6 DEF ReportInv, RecordReport
    <3>2. date[v] <= date'[v] /\ date'[v] \in Int /\ date[v] \in Int /\ d \in Nat
      BY <2>1, <2>2, <2>3, DateFacts
    <3>3. AboutToRecord(v, d) => date'[v] = d
      BY <2>3 DEF AboutToRecord
    <3>4. QED
      BY <3>1, <3>2, <3>3 DEF OnceAndRecorded
  <2>7. QED
    BY <1>7, <2>4, <2>5, <2>6 DEF ReportInv, RecordReport
<1>8. CASE RecordReportFails
  <2>1. Reporting /\ round.user \in Users
    BY <1>8, RoundFacts DEF RecordReportFails, Reporting, TypeOK
  <2>2. \A v \in Users, d \in Days : AboutToRecord(v, d) => v \in unrecorded'
    BY <1>8 DEF RecordReportFails, AboutToRecord
  <2>3. QED
    BY <1>8, <2>1, <2>2, NextReportInv DEF RecordReportFails
<1>9. CASE Tick
  <2>1. minute' = minute + 1 /\ minute' \in Nat /\ minute <= minute'
    BY <1>9, DateFacts DEF Tick
  <2>2. Day(minute') \in Nat /\ Day(minute) <= Day(minute')
    BY <2>1, DateFacts, DayFacts
  <2>3. UNCHANGED <<round, date, reports, unrecorded>>
    BY <1>9 DEF Tick
  <2>4. \A u \in Users : date'[u] <= Day(minute')
    BY <2>2, <2>3, DateFacts DEF ReportInv
  <2>5. RoundOfTheDay'
    <3>1. CASE ~Reporting
      BY <2>3, <3>1 DEF RoundOfTheDay, Reporting
    <3>2. CASE Reporting
      <4>1. round.day \in Nat
        BY <3>2, RoundFacts, DateFacts DEF Reporting, TypeOK
      <4>2. round.day <= Day(minute) /\ Day(minute) \in Nat
        BY <3>2, DateFacts DEF ReportInv, RoundOfTheDay
      <4>3. QED
        BY <2>2, <2>3, <3>2, <4>1, <4>2 DEF ReportInv, RoundOfTheDay
    <3>3. QED
      BY <3>1, <3>2
  <2>6. \A u \in Users \ unrecorded' : \A d \in Days : OnceAndRecorded(u, d)'
    BY <2>3 DEF ReportInv, OnceAndRecorded, AboutToRecord
  <2>7. QED
    BY <2>4, <2>5, <2>6 DEF ReportInv
<1>10. CASE Restart
  <2>1. \A v \in Users, d \in Days : AboutToRecord(v, d) => v \in unrecorded'
    BY <1>10 DEF Restart, AboutToRecord
  <2>2. ~Reporting' /\ unrecorded \subseteq unrecorded'
    BY <1>10 DEF Restart, Reporting
  <2>3. QED
    BY <1>10, <2>1, <2>2, NoReporting DEF Restart
<1>11. CASE UNCHANGED vars
  BY <1>a, <1>11 DEF vars
<1>12. QED
  BY <1>1, <1>2, <1>3, <1>4, <1>5, <1>6, <1>7, <1>8, <1>9, <1>10, <1>11 DEF Next

LEMMA ReportInvImplies == TypeOK /\ ReportInv => ReportOnce
  BY DateFacts DEF ReportInv, OnceAndRecorded, ReportOnce

\* run_due_schedules: nobody gets two reports on a day, however many failures
\* and restarts there are, unless one was sent and could not be recorded.
THEOREM ReportOnceCorrect == Spec => []ReportOnce
<1>1. Spec => []ReportInv
  BY TypeCorrect, ReportInit, ReportNext, PTL DEF Spec
<1>2. QED
  BY <1>1, TypeCorrect, ReportInvImplies, PTL

-----------------------------------------------------------------------------
(* One alert per level.  The level of the table follows what the user knows: *)
(* it is above it only while a fall has not been seen, by the loop of        *)
(* reports, by the sync or by an alert on its way; usage that grows in that  *)
(* time makes the user an exception (hasty), and so does an alert that was   *)
(* sent and not recorded, failed or came too late (slipped).                 *)

Clean(u) == u \notin slipped \cup hasty
Telling(u, pc) == alert # Nobody /\ alert.user = u /\ alert.pc = pc
Lowering(u) == round # Nobody /\ round.pc = "lower" /\ u \in DOMAIN round.todo

Fresh(u) ==
  /\ known[u] <= Level(pct[u])
  /\ Telling(u, "send") => known[u] < alert.level
  /\ IF Telling(u, "record") THEN known[u] <= alert.level ELSE known[u] <= level[u]
  /\ Lowering(u) => fell[u] # "seen" /\ Level(pct[u]) <= round.todo[u]
  /\ Lowering(u) /\ fell[u] = "listed" => round.todo[u] <= Level(pct[u])
  /\ level[u] > Level(pct[u]) => fell[u] # "seen"
  /\ fell[u] = "listed" => round # Nobody /\ round.pc = "lower"
  /\ fell[u] = "listed" /\ level[u] > Level(pct[u]) => Lowering(u)

FreshInv == \A u \in Users : Clean(u) => Fresh(u)

LEMMA LevelMonotone ==
  ASSUME NEW p \in Shares, NEW q \in Shares, p <= q
  PROVE  Level(p) <= Level(q)
<1>1. p \in Int /\ q \in Int
  BY ShareFacts
<1>2. QED
  BY <1>1 DEF Level

LEMMA Numbers ==
  ASSUME TypeOK, NEW u \in Users
  PROVE  /\ pct[u] \in Shares /\ pct[u] \in Int /\ Level(pct[u]) \in Nat
         /\ level[u] \in Nat /\ known[u] \in Nat
         /\ fell[u] \in {"seen", "listed", "unseen"}
         /\ alert # Nobody => alert.level \in Nat /\ alert.user \in Users
                              /\ alert.pc \in {"send", "record"}
         /\ Lowering(u) => round.todo[u] \in Nat
<1>1. pct[u] \in Shares /\ pct[u] \in Int /\ Level(pct[u]) \in Nat
  BY ShareFacts DEF TypeOK
<1>2. level[u] \in Nat /\ known[u] \in Nat /\ fell[u] \in {"seen", "listed", "unseen"}
  <2>1. /\ level[u] \in Levels /\ known[u] \in Levels
        /\ fell[u] \in {"seen", "listed", "unseen"}
    BY DEF TypeOK
  <2>2. QED
    BY <2>1 DEF Levels
<1>3. alert # Nobody => /\ alert.level \in Nat /\ alert.user \in Users
                        /\ alert.pc \in {"send", "record"}
  BY DEF TypeOK, Levels
<1>4. Lowering(u) => round.todo[u] \in Nat
  <2>1. ASSUME Lowering(u) PROVE round.todo[u] \in Nat
    <3>1. round \in Round /\ round # Nobody /\ round.pc = "lower" /\ u \in DOMAIN round.todo
      BY <2>1 DEF TypeOK, Lowering
    <3>2. PICK D \in SUBSET Users : round.todo \in [D -> Levels] /\ DOMAIN round.todo = D
      BY <3>1, RoundFacts
    <3>3. round.todo[u] \in Levels
      BY <3>1, <3>2
    <3>4. QED
      BY <3>3 DEF Levels
  <2>2. QED
    BY <2>1
<1>5. QED
  BY <1>1, <1>2, <1>3, <1>4

\* Who was clean before a step.
LEMMA CleanBefore ==
  ASSUME TypeOK, [Next]_vars, NEW u, Clean(u)'
  PROVE  Clean(u)
<1>1. slipped \subseteq slipped' /\ hasty \subseteq hasty'
  <2>1. ASSUME NEW v \in Users, ChangeUsage(v) PROVE slipped' = slipped /\ hasty \subseteq hasty'
    BY <2>1 DEF ChangeUsage
  <2>2. CASE SendAlert \/ MessageFails \/ RecordAlert \/ AlertFails \/ Restart
    BY <2>2 DEF SendAlert, MessageFails, RecordAlert, AlertFails, Restart
  <2>3. ASSUME NEW v \in Users, Sync(v) \/ SendReport(v) \/ SendReportFails(v)
        PROVE  UNCHANGED <<slipped, hasty>>
    BY <2>3 DEF Sync, SendReport, SendReportFails, history
  <2>4. CASE \/ TakeAlert \/ BeginRound \/ LowerLevel \/ LowerFails \/ ListReports
             \/ RecordReport \/ RecordReportFails \/ Tick \/ UNCHANGED vars
    BY <2>4 DEF TakeAlert, BeginRound, LowerLevel, LowerFails, ListReports, RecordReport,
                RecordReportFails, Tick, vars, history
  <2>5. QED
    BY <2>1, <2>2, <2>3, <2>4 DEF Next
<1>2. QED
  BY <1>1 DEF Clean

LEMMA FreshInit == Init => FreshInv
<1> SUFFICES ASSUME Init, NEW u \in Users PROVE Fresh(u)
  BY DEF FreshInv
<1>1. pct[u] = 0 /\ known[u] = 0 /\ level[u] = 0 /\ fell[u] = "seen"
  BY DEF Init
<1>2. alert = Nobody /\ round = Nobody /\ Level(0) = 0
  BY DEF Init, Level
<1>3. QED
  BY <1>1, <1>2 DEF Fresh, Telling, Lowering

LEMMA FreshUsage ==
  ASSUME TypeOK, NEW u \in Users, Fresh(u), NEW v \in Users, ChangeUsage(v), Clean(u)'
  PROVE  Fresh(u)'
<1>1. PICK p \in Shares :
        /\ pct' = [pct EXCEPT ![v] = p]
        /\ known' = [known EXCEPT ![v] = Lower(@, Level(p))]
        /\ fell' = IF p < pct[v] THEN [fell EXCEPT ![v] = "unseen"] ELSE fell
        /\ hasty' = IF p > pct[v] /\ FallUnseen(v) THEN hasty \cup {v} ELSE hasty
  BY DEF ChangeUsage
<1>2. UNCHANGED <<alert, level, round>>
  BY DEF ChangeUsage, alerts
<1>3. CASE v # u
  <2>1. pct'[u] = pct[u] /\ known'[u] = known[u] /\ fell'[u] = fell[u]
    BY <1>1, <1>3 DEF TypeOK
  <2>2. QED
    BY <1>2, <2>1 DEF Fresh, Telling, Lowering
<1>4. CASE v = u
  <2> DEFINE old == Level(pct[u])
             new == Level(p)
  <2>0. old \in Nat /\ new \in Nat /\ p \in Int
    BY Numbers, ShareFacts
  <2>1. pct'[u] = p /\ known'[u] = Lower(known[u], new)
    BY <1>1, <1>4 DEF TypeOK
  <2>2. known'[u] <= known[u] /\ known'[u] <= new /\ known'[u] \in Nat
    BY <2>0, <2>1, Numbers DEF Lower
  <2>3. CASE p < pct[u]
    <3>1. fell'[u] = "unseen"
      BY <1>1, <1>4, <2>3 DEF TypeOK
    <3>2. new <= old
      <4>1. p <= pct[u] /\ pct[u] \in Shares
        BY <2>0, <2>3, Numbers
      <4>2. QED
        BY <4>1, LevelMonotone
    <3>3. Level(pct[u])' = new /\ Telling(u, "send")' = Telling(u, "send")
          /\ Telling(u, "record")' = Telling(u, "record") /\ Lowering(u)' = Lowering(u)
      BY <1>2, <2>1 DEF Telling, Lowering
    <3> HIDE DEF old, new
    <3>4. Telling(u, "send") \/ Telling(u, "record") => alert.level \in Nat
      BY Numbers DEF Telling
    <3>5. /\ Lowering(u) => old <= round.todo[u] /\ round.todo[u] \in Nat
          /\ level[u] \in Nat /\ known[u] \in Nat
      BY Numbers DEF Fresh, old
    <3>6. QED
      BY <1>2, <2>0, <2>2, <3>1, <3>2, <3>3, <3>4, <3>5 DEF Fresh
  <2>4. CASE p >= pct[u]
    <3>1. fell'[u] = fell[u]
      BY <1>1, <1>4, <2>0, <2>4, Numbers
    <3>2. old <= new
      BY <2>4, LevelMonotone, Numbers
    <3>3. Level(pct[u])' = new /\ Telling(u, "send")' = Telling(u, "send")
          /\ Telling(u, "record")' = Telling(u, "record") /\ Lowering(u)' = Lowering(u)
      BY <1>2, <2>1 DEF Telling, Lowering
    <3>4. p = pct[u] \/ fell[u] = "seen"
      BY <1>1, <1>4, <2>0, <2>4, Numbers DEF Clean, FallUnseen
    <3>5. CASE p = pct[u]
      BY <1>2, <2>0, <2>2, <3>1, <3>3, <3>5, Numbers DEF Fresh, Telling
    <3>6. CASE fell[u] = "seen"
      <4>1. ~Lowering(u) /\ level[u] <= old
        BY <2>0, <3>6, Numbers DEF Fresh
      <4> HIDE DEF old, new
      <4>2. QED
        BY <1>2, <2>0, <2>2, <3>1, <3>2, <3>3, <3>6, <4>1, Numbers DEF Fresh, Telling
    <3>7. QED
      BY <3>4, <3>5, <3>6
  <2>5. QED
    BY <2>0, <2>3, <2>4, Numbers
<1>5. QED
  BY <1>3, <1>4

LEMMA FreshAlert ==
  ASSUME TypeOK, NEW u \in Users, Fresh(u), Clean(u)',
         TakeAlert \/ SendAlert \/ MessageFails \/ RecordAlert \/ AlertFails
  PROVE  Fresh(u)'
<1>0. UNCHANGED <<pct, round, fell>> /\ Level(pct[u]) \in Nat /\ level[u] \in Nat /\ known[u] \in Nat
  BY Numbers DEF TakeAlert, SendAlert, MessageFails, RecordAlert, AlertFails, alerts, history
<1>1. Lowering(u)' = Lowering(u)
  BY <1>0 DEF Lowering
<1>2. ASSUME UNCHANGED <<known, level>>,
             Telling(u, "send")' => known[u] < alert'.level,
             IF Telling(u, "record")' THEN known[u] <= alert'.level ELSE known[u] <= level[u]
      PROVE  Fresh(u)'
  BY <1>0, <1>1, <1>2 DEF Fresh
<1>3. CASE TakeAlert
  <2>1. UNCHANGED <<known, level>> /\ alert = Nobody /\ queue # <<>>
    BY <1>3 DEF TakeAlert, history
  <2>2. known[u] <= level[u]
    BY <2>1 DEF Fresh, Telling
  <2>3. CASE alert' = Nobody
    BY <1>2, <2>1, <2>2, <2>3 DEF Telling
  <2>4. CASE alert' # Nobody
    <3>1. PICK e \in [user : Users, pct : Percents] : e = Head(queue)
      BY <2>1, QueueFacts DEF TypeOK
    <3>2. News(e) /\ alert' = [pc |-> "send", user |-> e.user, level |-> Level(e.pct)]
      BY <1>3, <2>4, <3>1 DEF TakeAlert
    <3>3. e.pct \in Shares
      BY DEF Shares
    <3>4. Level(e.pct) \in Nat /\ Level(e.pct) > level[e.user]
      BY <3>2, <3>3, ShareFacts DEF News
    <3>5. alert'.pc = "send" /\ alert'.level = Level(e.pct) /\ alert'.user = e.user
      BY <3>2
    <3>6. ~Telling(u, "record")' /\ (Telling(u, "send")' => e.user = u)
      BY <3>5 DEF Telling
    <3>7. Telling(u, "send")' => known[u] < alert'.level
      BY <1>0, <2>2, <3>4, <3>5, <3>6
    <3>8. QED
      BY <1>2, <2>1, <2>2, <3>6, <3>7
  <2>5. QED
    BY <2>3, <2>4
<1>4. CASE SendAlert
  <2>1. /\ alert # Nobody /\ alert.pc = "send" /\ UNCHANGED level
        /\ alert' = [alert EXCEPT !.pc = "record"]
        /\ slipped' = IF alert.level > Level(pct[alert.user]) THEN slipped \cup {alert.user}
                      ELSE slipped
        /\ known' = [known EXCEPT ![alert.user] = IF alert.level > @ THEN alert.level ELSE @]
    BY <1>4 DEF SendAlert
  <2>2. alert' # Nobody /\ alert'.pc = "record" /\ alert'.user = alert.user
        /\ alert'.level = alert.level /\ alert.level \in Nat
    BY <2>1, AlertFacts DEF Nobody
  <2>3. CASE alert.user # u
    <3>1. known'[u] = known[u]
      BY <2>1, <2>3 DEF TypeOK
    <3>2. ~Telling(u, "send") /\ ~Telling(u, "record") /\ ~Telling(u, "send")' /\ ~Telling(u, "record")'
      BY <2>2, <2>3 DEF Telling
    <3>3. QED
      BY <1>0, <1>1, <2>1, <3>1, <3>2 DEF Fresh
  <2>4. CASE alert.user = u
    <3>1. alert.level <= Level(pct[u])
      BY <1>0, <2>1, <2>2, <2>4 DEF Clean
    <3>2. known[u] < alert.level
      BY <2>1, <2>4 DEF Fresh, Telling
    <3>3. known'[u] = alert.level
      BY <2>1, <2>4, <3>2 DEF TypeOK
    <3>4. ~Telling(u, "send")' /\ Telling(u, "record")'
      BY <2>2, <2>4 DEF Telling
    <3>5. QED
      BY <1>0, <1>1, <2>1, <2>2, <3>1, <3>3, <3>4 DEF Fresh
  <2>5. QED
    BY <2>3, <2>4
<1>5. CASE MessageFails
  <2>1. /\ alert # Nobody /\ UNCHANGED <<known, level>> /\ alert' = [alert EXCEPT !.pc = "record"]
        /\ slipped' = slipped \cup {alert.user} /\ alert.pc = "send"
    BY <1>5 DEF MessageFails
  <2>2. alert.user # u /\ alert'.user = alert.user
    BY <2>1, AlertFacts DEF Clean
  <2>3. ~Telling(u, "record") /\ ~Telling(u, "send")' /\ ~Telling(u, "record")'
    BY <2>2 DEF Telling
  <2>4. QED
    BY <1>2, <2>1, <2>3 DEF Fresh
<1>6. CASE AlertFails
  <2>1. /\ alert # Nobody /\ UNCHANGED <<known, level>> /\ alert' = Nobody
        /\ slipped' = slipped \cup {alert.user}
    BY <1>6 DEF AlertFails
  <2>2. alert.user # u
    BY <2>1 DEF Clean
  <2>3. ~Telling(u, "record") /\ ~Telling(u, "send")' /\ ~Telling(u, "record")'
    BY <2>1, <2>2 DEF Telling
  <2>4. QED
    BY <1>2, <2>1, <2>3 DEF Fresh
<1>7. CASE RecordAlert
  <2>1. /\ alert # Nobody /\ alert.pc = "record" /\ alert' = Nobody /\ UNCHANGED known
        /\ level' = [level EXCEPT ![alert.user] = alert.level]
        /\ slipped' = IF alert.level > Level(pct[alert.user]) THEN slipped \cup {alert.user}
                      ELSE slipped
    BY <1>7 DEF RecordAlert
  <2>2. alert.level \in Nat /\ ~Telling(u, "send")' /\ ~Telling(u, "record")'
    BY <2>1, AlertFacts DEF Telling
  <2>3. CASE alert.user # u
    <3>1. level'[u] = level[u]
      BY <2>1, <2>3 DEF TypeOK
    <3>2. ~Telling(u, "record")
      BY <2>3 DEF Telling
    <3>3. QED
      BY <1>0, <1>1, <2>1, <2>2, <3>1, <3>2 DEF Fresh
  <2>4. CASE alert.user = u
    <3>1. alert.level <= Level(pct[u]) /\ level'[u] = alert.level
      BY <1>0, <2>1, <2>2, <2>4 DEF Clean, TypeOK
    <3>2. known[u] <= alert.level
      BY <2>1, <2>4 DEF Fresh, Telling
    <3>3. QED
      BY <1>0, <1>1, <2>1, <2>2, <3>1, <3>2 DEF Fresh
  <2>5. QED
    BY <2>3, <2>4
<1>8. QED
  BY <1>3, <1>4, <1>5, <1>6, <1>7

LEMMA FreshRound ==
  ASSUME TypeOK, NEW u \in Users, Fresh(u),
         BeginRound \/ LowerLevel \/ LowerFails \/ ListReports
  PROVE  Fresh(u)'
<1>0. /\ UNCHANGED <<pct, known, alert>> /\ Level(pct[u]) \in Nat /\ level[u] \in Nat
      /\ known[u] \in Nat /\ fell[u] \in {"seen", "listed", "unseen"}
      /\ round \in Round
  BY Numbers DEF BeginRound, LowerLevel, LowerFails, ListReports, alerts, history, TypeOK
<1>1. /\ Telling(u, "send")' = Telling(u, "send") /\ Telling(u, "record")' = Telling(u, "record")
      /\ Telling(u, "send") \/ Telling(u, "record") => alert.level \in Nat
  BY <1>0, Numbers DEF Telling
<1>2. CASE BeginRound
  <2>1. /\ round = Nobody /\ UNCHANGED level
        /\ round' = [pc |-> "lower", todo |-> [v \in Fallen |-> Level(pct[v])]]
        /\ fell' = [v \in Users |-> IF fell[v] = "unseen" THEN "listed" ELSE fell[v]]
    BY <1>2 DEF BeginRound, Looks, alerts
  <2>2. round' # Nobody /\ round'.pc = "lower" /\ DOMAIN round'.todo = Fallen
        /\ (u \in Fallen => round'.todo[u] = Level(pct[u]))
    BY <2>1 DEF Nobody
  <2>3. u \in Fallen <=> level[u] > Level(pct[u])
    BY <1>0 DEF Fallen
  <2>4. fell'[u] = IF fell[u] = "unseen" THEN "listed" ELSE fell[u]
    BY <2>1
  <2>5. fell[u] # "listed"
    BY <2>1 DEF Fresh
  <2>6. Lowering(u)' <=> u \in Fallen
    BY <2>2 DEF Lowering
  <2>7. QED
    BY <1>0, <1>1, <2>1, <2>2, <2>3, <2>4, <2>5, <2>6 DEF Fresh
<1>3. CASE LowerLevel
  <2>1. PICK v \in DOMAIN round.todo :
          /\ round # Nobody /\ round.pc = "lower" /\ UNCHANGED fell
          /\ level' = [level EXCEPT ![v] = round.todo[v]]
          /\ round' = [round EXCEPT !.todo = [w \in DOMAIN @ \ {v} |-> @[w]]]
    BY <1>3 DEF LowerLevel, history
  <2>2. /\ round' # Nobody /\ round'.pc = "lower" /\ DOMAIN round'.todo = DOMAIN round.todo \ {v}
        /\ \A w \in DOMAIN round.todo \ {v} : round'.todo[w] = round.todo[w]
    <3>1. round = [pc |-> "lower", todo |-> round.todo]
      BY <1>0, <2>1, RoundFacts
    <3>2. round' = [pc |-> "lower", todo |-> [w \in DOMAIN round.todo \ {v} |-> round.todo[w]]]
      BY <2>1, <3>1, PairExcept
    <3>3. QED
      BY <3>2 DEF Nobody
  <2>3. CASE v = u
    <3>1. Lowering(u) /\ ~Lowering(u)' /\ level'[u] = round.todo[u] /\ round.todo[u] \in Nat
      BY <2>1, <2>2, <2>3, Numbers DEF Lowering, TypeOK
    <3>2. QED
      BY <1>0, <1>1, <2>1, <2>2, <3>1 DEF Fresh
  <2>4. CASE v # u
    <3>1. level'[u] = level[u]
      BY <2>1, <2>4 DEF TypeOK
    <3>2. Lowering(u)' = Lowering(u) /\ (Lowering(u) => round'.todo[u] = round.todo[u])
      BY <2>1, <2>2, <2>4 DEF Lowering
    <3>3. QED
      BY <1>0, <1>1, <2>1, <2>2, <3>1, <3>2 DEF Fresh
  <2>5. QED
    BY <2>3, <2>4
<1>4. CASE LowerFails
  <2>1. /\ round # Nobody /\ round.pc = "lower" /\ UNCHANGED level
        /\ round' = [round EXCEPT !.todo = [v \in {} |-> 0]]
        /\ fell' = [v \in Users |-> IF fell[v] = "listed" THEN "unseen" ELSE fell[v]]
    BY <1>4 DEF LowerFails, Looks, alerts
  <2>2. ~Lowering(u)'
    <3>1. round = [pc |-> "lower", todo |-> round.todo]
      BY <1>0, <2>1, RoundFacts
    <3>2. round' = [pc |-> "lower", todo |-> [v \in {} |-> 0]]
      BY <2>1, <3>1, PairExcept
    <3>3. DOMAIN round'.todo = {}
      BY <3>2
    <3>4. QED
      BY <3>3 DEF Lowering
  <2>3. fell'[u] = IF fell[u] = "listed" THEN "unseen" ELSE fell[u]
    BY <2>1
  <2>4. QED
    BY <1>0, <1>1, <2>1, <2>2, <2>3 DEF Fresh
<1>5. CASE ListReports
  <2>1. /\ round.pc = "lower" /\ DOMAIN round.todo = {} /\ UNCHANGED level
        /\ round' = Nobody \/ round' = [pc |-> "send", todo |-> Due(minute), day |-> Day(minute)]
        /\ fell' = [v \in Users |-> IF fell[v] = "listed" THEN "seen" ELSE fell[v]]
    BY <1>5 DEF ListReports, Looks, alerts
  <2>2. ~Lowering(u) /\ ~Lowering(u)'
    BY <2>1 DEF Lowering
  <2>3. fell'[u] = IF fell[u] = "listed" THEN "seen" ELSE fell[u]
    BY <2>1
  <2>4. QED
    BY <1>0, <1>1, <2>1, <2>2, <2>3 DEF Fresh
<1>6. QED
  BY <1>2, <1>3, <1>4, <1>5

\* The reports of a turn have nothing to do with alerts.
LEMMA ReportSteps ==
  ASSUME TypeOK, NEW v,
         SendReport(v) \/ SendReportFails(v) \/ RecordReport \/ RecordReportFails
  PROVE  /\ UNCHANGED <<pct, alerts, known, repeated, slipped, hasty, fell>>
         /\ ~(round # Nobody /\ round.pc = "lower") /\ ~(round' # Nobody /\ round'.pc = "lower")
<1>1. UNCHANGED <<pct, alerts, known, repeated, slipped, hasty, fell>>
  BY DEF SendReport, SendReportFails, RecordReport, RecordReportFails, history
<1>2. round.pc \in {"send", "record"}
  BY DEF SendReport, SendReportFails, RecordReport, RecordReportFails
<1>3. round' = Nobody \/ round'.pc \in {"send", "record"}
  BY DEF SendReport, SendReportFails, RecordReport, RecordReportFails, NextReport
<1>4. QED
  BY <1>1, <1>2, <1>3

LEMMA FreshOthers ==
  ASSUME TypeOK, NEW u \in Users, Fresh(u), Clean(u)',
         \/ \E v \in Users : Sync(v) \/ SendReport(v) \/ SendReportFails(v)
         \/ RecordReport \/ RecordReportFails \/ Tick \/ Restart \/ UNCHANGED vars
  PROVE  Fresh(u)'
<1>1. ASSUME UNCHANGED <<pct, known, fell, level, alert, round>> PROVE Fresh(u)'
  BY <1>1 DEF Fresh, Telling, Lowering
<1>2. ASSUME NEW v \in Users, Sync(v) PROVE Fresh(u)'
  BY <1>1, <1>2 DEF Sync, history
<1>3. ASSUME NEW v, SendReport(v) \/ SendReportFails(v) \/ RecordReport \/ RecordReportFails
      PROVE  Fresh(u)'
  <2>1. UNCHANGED <<pct, alerts, known, fell>> /\ ~Lowering(u) /\ ~Lowering(u)'
    BY <1>3, ReportSteps DEF Lowering
  <2>2. fell[u] # "listed"
    BY <1>3, ReportSteps DEF Fresh
  <2>3. QED
    BY <2>1, <2>2 DEF Fresh, Telling, alerts
<1>4. CASE Restart
  <2>1. /\ UNCHANGED <<pct, known, level>> /\ alert' = Nobody /\ round' = Nobody
        /\ slipped' = IF alert # Nobody /\ alert.pc = "record"
                      THEN slipped \cup {alert.user} ELSE slipped
        /\ fell' = [v \in Users |-> IF fell[v] = "listed" THEN "unseen" ELSE fell[v]]
    BY <1>4 DEF Restart, Looks
  <2>2. ~Telling(u, "record")
    BY <2>1 DEF Clean, Telling
  <2>3. ~Telling(u, "send")' /\ ~Telling(u, "record")' /\ ~Lowering(u)'
    BY <2>1 DEF Telling, Lowering
  <2>4. fell'[u] = IF fell[u] = "listed" THEN "unseen" ELSE fell[u]
    BY <2>1
  <2>5. QED
    BY <2>1, <2>2, <2>3, <2>4 DEF Fresh
<1>5. CASE Tick \/ UNCHANGED vars
  BY <1>1, <1>5 DEF Tick, alerts, history, vars
<1>6. QED
  BY <1>2, <1>3, <1>4, <1>5

LEMMA FreshNext == TypeOK /\ FreshInv /\ [Next]_vars => FreshInv'
<1> SUFFICES ASSUME TypeOK, FreshInv, [Next]_vars, NEW u \in Users, Clean(u)'
             PROVE  Fresh(u)'
  BY DEF FreshInv
<1>1. Fresh(u)
  BY CleanBefore DEF FreshInv
<1>2. ASSUME NEW v \in Users, ChangeUsage(v) PROVE Fresh(u)'
  BY <1>1, <1>2, FreshUsage
<1>3. CASE TakeAlert \/ SendAlert \/ MessageFails \/ RecordAlert \/ AlertFails
  BY <1>1, <1>3, FreshAlert
<1>4. CASE BeginRound \/ LowerLevel \/ LowerFails \/ ListReports
  BY <1>1, <1>4, FreshRound
<1>5. CASE \/ \E v \in Users : Sync(v) \/ SendReport(v) \/ SendReportFails(v)
           \/ RecordReport \/ RecordReportFails \/ Tick \/ Restart \/ UNCHANGED vars
  BY <1>1, <1>5, FreshOthers
<1>6. QED
  BY <1>2, <1>3, <1>4, <1>5 DEF Next

\* Only a message can be one too many.
LEMMA RepeatedBy ==
  ASSUME TypeOK, FreshInv, AlertOnce, [Next]_vars
  PROVE  AlertOnce'
<1>1. CASE SendAlert
  <2>1. /\ alert # Nobody /\ alert.pc = "send" /\ UNCHANGED hasty
        /\ repeated' = IF alert.level <= known[alert.user] THEN repeated \cup {alert.user}
                       ELSE repeated
        /\ slipped \subseteq slipped'
    BY <1>1 DEF SendAlert
  <2>2. alert.user \in Users /\ alert.level \in Nat /\ known[alert.user] \in Nat
    <3>1. alert.user \in Users /\ alert.level \in Nat
      BY <2>1, AlertFacts
    <3>2. QED
      BY <3>1, Numbers
  <2>3. Clean(alert.user) => known[alert.user] < alert.level
    BY <2>1, <2>2 DEF FreshInv, Fresh, Telling
  <2>4. QED
    BY <2>1, <2>2, <2>3 DEF AlertOnce, Clean
<1>2. CASE ~SendAlert
  <2>1. repeated' = repeated
    <3>1. ASSUME NEW v \in Users,
                 ChangeUsage(v) \/ Sync(v) \/ SendReport(v) \/ SendReportFails(v)
          PROVE  repeated' = repeated
      BY <3>1 DEF ChangeUsage, Sync, SendReport, SendReportFails, history
    <3>2. CASE TakeAlert \/ MessageFails \/ RecordAlert \/ AlertFails
      BY <3>2 DEF TakeAlert, MessageFails, RecordAlert, AlertFails, history
    <3>3. CASE BeginRound \/ LowerLevel \/ LowerFails \/ ListReports
      BY <3>3 DEF BeginRound, LowerLevel, LowerFails, ListReports, history
    <3>4. CASE RecordReport \/ RecordReportFails \/ Tick \/ Restart \/ UNCHANGED vars
      BY <3>4 DEF RecordReport, RecordReportFails, Tick, Restart, vars, history
    <3>5. QED
      BY <1>2, <3>1, <3>2, <3>3, <3>4 DEF Next
  <2>2. \A u : Clean(u)' => Clean(u)
    BY CleanBefore
  <2>3. QED
    BY <2>1, <2>2 DEF AlertOnce, Clean
<1>3. QED
  BY <1>1, <1>2

\* handle_quota_alert and normalize_quota_levels: nobody is told a level he
\* knows already, for any number of users, changes of usage, failures and
\* restarts, unless an alert was sent and not recorded, failed or came too
\* late, or his usage grew again before its fall was noticed.
THEOREM AlertOnceCorrect == Spec => []AlertOnce
<1>1. Init => AlertOnce
  BY DEF Init, AlertOnce
<1>2. Spec => []FreshInv
  BY TypeCorrect, FreshInit, FreshNext, PTL DEF Spec
<1>3. QED
  BY <1>1, <1>2, TypeCorrect, RepeatedBy, PTL DEF Spec

-----------------------------------------------------------------------------
(* No level missed.  What the user knows covers what the table says, and     *)
(* what the sync has raised an alert for is known, being sent or queued.     *)

Covers(u, l) == known[u] >= l \/ known[u] >= Level(pct[u])
Enough(u, l) == l >= Level(alerted[u]) \/ l >= Level(pct[u])
Queued(u, i) == queue[i].user = u /\ Enough(u, Level(queue[i].pct))

Told(u) ==
  /\ Telling(u, "record") => Covers(u, alert.level)
  /\ Lowering(u) => Covers(u, round.todo[u])
  /\ Covers(u, level[u])
  /\ alerted[u] # 0 =>
       \/ Enough(u, known[u])
       \/ alert # Nobody /\ alert.user = u /\ Enough(u, alert.level)
       \/ \E i \in DOMAIN queue : Queued(u, i)

ToldInv == \A u \in Users : Clean(u) => Told(u)

Pending == [user : Users, pct : Percents]

LEMMA StepFacts ==
  ASSUME TypeOK, NEW u \in Users
  PROVE  /\ alerted[u] \in Int /\ Level(alerted[u]) \in Nat
         /\ alerted[u] <= Step(pct[u]) => Level(alerted[u]) <= Level(pct[u])
         /\ Step(pct[u]) \in Int
<1>1. AlertPct \in 1..100 /\ pct[u] \in Int
  BY NoticesAssumption, Numbers
<1>2. alerted[u] \in {0, AlertPct, 90, 100}
  BY DEF TypeOK
<1>3. alerted[u] \in Int /\ alerted[u] <= 100
  BY <1>1, <1>2
<1>4. QED
  BY <1>1, <1>2, <1>3 DEF Step, Level

LEMMA EventFacts ==
  ASSUME TypeOK
  PROVE  /\ queue \in Seq(Pending) /\ Len(queue) \in Nat /\ DOMAIN queue = 1..Len(queue)
         /\ \A i \in DOMAIN queue : queue[i] \in Pending /\ Level(queue[i].pct) \in Nat
<1>1. queue \in Seq(Pending)
  BY DEF TypeOK, Pending
<1>2. \A e \in Pending : Level(e.pct) \in Nat
  BY ShareFacts DEF Pending, Shares
<1>3. QED
  BY <1>1, <1>2

LEMMA ToldInit == Init => ToldInv
<1> SUFFICES ASSUME Init, NEW u \in Users PROVE Told(u)
  BY DEF ToldInv
<1>1. known[u] = 0 /\ level[u] = 0 /\ alerted[u] = 0 /\ alert = Nobody /\ round = Nobody
  BY DEF Init
<1>2. QED
  BY <1>1 DEF Told, Telling, Lowering, Covers

LEMMA ToldUsage ==
  ASSUME TypeOK, NEW u \in Users, Fresh(u), Told(u), NEW v \in Users, ChangeUsage(v), Clean(u)'
  PROVE  Told(u)'
<1>1. PICK p \in Shares :
        /\ pct' = [pct EXCEPT ![v] = p]
        /\ known' = [known EXCEPT ![v] = Lower(@, Level(p))]
        /\ hasty' = IF p > pct[v] /\ FallUnseen(v) THEN hasty \cup {v} ELSE hasty
  BY DEF ChangeUsage
<1>2. UNCHANGED <<alert, alerted, queue, level, round>>
  BY DEF ChangeUsage, alerts
<1>3. /\ Telling(u, "record")' = Telling(u, "record") /\ Lowering(u)' = Lowering(u)
  BY <1>2 DEF Telling, Lowering
<1>4. CASE v # u
  <2>1. pct'[u] = pct[u] /\ known'[u] = known[u]
    BY <1>1, <1>4 DEF TypeOK
  <2>2. QED
    BY <1>2, <1>3, <2>1 DEF Told, Covers, Enough, Queued
<1>5. CASE v = u
  <2> DEFINE old == Level(pct[u])
             new == Level(p)
             raised == Level(alerted[u])
  <2>0. old \in Nat /\ new \in Nat /\ p \in Int /\ raised \in Nat /\ known[u] \in Nat
        /\ known[u] <= old /\ level[u] \in Nat
    BY Numbers, ShareFacts, StepFacts DEF Fresh
  <2>1. pct'[u] = p /\ known'[u] = IF known[u] < new THEN known[u] ELSE new
    BY <1>1, <1>5 DEF TypeOK, Lower
  <2>2. /\ Telling(u, "record") \/ (alert # Nobody /\ alert.user = u) => alert.level \in Nat
        /\ Lowering(u) => round.todo[u] \in Nat
        /\ \A i \in DOMAIN queue : Level(queue[i].pct) \in Nat
    BY Numbers, EventFacts DEF Telling
  \* What is preserved, for any level.
  <2> DEFINE Kept(l) == (known[u] >= l \/ known[u] >= old) => (known'[u] >= l \/ known'[u] >= new)
  <2>3. ASSUME \A l \in Nat : (l >= raised \/ l >= old) => (l >= raised \/ l >= new),
               Kept(level[u]), Lowering(u) => Kept(round.todo[u]),
               Telling(u, "record") => Kept(alert.level), Kept(raised)
        PROVE  Told(u)'
    <3>1. Telling(u, "record")' => Covers(u, alert.level)'
      BY <1>2, <1>3, <2>1, <2>3 DEF Told, Covers
    <3>2. Lowering(u)' => Covers(u, round.todo[u])'
      BY <1>2, <1>3, <2>1, <2>3 DEF Told, Covers
    <3>3. Covers(u, level[u])'
      BY <1>2, <2>1, <2>3 DEF Told, Covers
    <3>4. Enough(u, known[u]) => Enough(u, known[u])'
      BY <1>2, <2>1, <2>3 DEF Enough
    <3>5. alert # Nobody /\ alert.user = u /\ Enough(u, alert.level) => Enough(u, alert.level)'
      BY <1>2, <2>1, <2>2, <2>3 DEF Enough
    <3>6. \A i \in DOMAIN queue : Queued(u, i) => Queued(u, i)'
      BY <1>2, <2>1, <2>2, <2>3 DEF Queued, Enough
    <3>7. QED
      BY <1>2, <3>1, <3>2, <3>3, <3>4, <3>5, <3>6 DEF Told
  <2>4. CASE p <= pct[u]
    <3>1. new <= old
      <4>1. pct[u] \in Shares
        BY Numbers
      <4>2. QED
        BY <2>4, <4>1, LevelMonotone
    <3> HIDE DEF old, new, raised
    <3>2. QED
      BY <2>0, <2>1, <2>2, <2>3, <3>1
  <2>5. CASE p > pct[u]
    <3>1. ~FallUnseen(u)
      BY <1>1, <1>5, <2>5 DEF Clean
    <3>2. old <= new
      <4>1. pct[u] \in Shares /\ pct[u] <= p
        BY <2>0, <2>5, Numbers
      <4>2. QED
        BY <4>1, LevelMonotone
    <3>3. raised <= old
      BY <3>1, StepFacts DEF FallUnseen
    <3>4. ~Lowering(u) /\ level[u] <= old
      BY <2>0, <3>1 DEF FallUnseen, Fresh
    <3>5. Telling(u, "record") => alert.level <= old
      BY <2>0, <2>2, <3>1 DEF FallUnseen, Telling
    <3>6. known'[u] = known[u]
      BY <2>0, <2>1, <3>2
    <3> HIDE DEF old, new, raised
    <3>7. QED
      BY <2>0, <2>2, <2>3, <3>2, <3>3, <3>4, <3>5, <3>6
  <2>6. QED
    BY <2>0, <2>4, <2>5, Numbers
<1>6. QED
  BY <1>4, <1>5

\* What is covered and enough stays so while a user only learns more.
LEMMA ToldMore ==
  ASSUME TypeOK, NEW u \in Users, UNCHANGED <<pct, alerted>>,
         known'[u] \in Nat, known[u] <= known'[u]
  PROVE  /\ \A l \in Nat : Covers(u, l) => Covers(u, l)'
         /\ \A l \in Nat : Enough(u, l) => Enough(u, l)'
         /\ Enough(u, known[u]) => Enough(u, known[u])'
<1>1. Level(pct[u]) \in Nat /\ Level(alerted[u]) \in Nat /\ known[u] \in Nat
  BY Numbers, StepFacts
<1>2. /\ \A l \in Nat : Covers(u, l) => Covers(u, l)'
      /\ \A l \in Nat : Enough(u, l) => Enough(u, l)'
  BY <1>1 DEF Covers, Enough
<1>3. Enough(u, known[u]) => Enough(u, known[u])'
  BY <1>1 DEF Enough
<1>4. QED
  BY <1>2, <1>3

LEMMA ToldAlert ==
  ASSUME TypeOK, NEW u \in Users, Told(u), Clean(u)',
         TakeAlert \/ SendAlert \/ MessageFails \/ RecordAlert \/ AlertFails
  PROVE  Told(u)'
<1>0. /\ UNCHANGED <<pct, round, alerted>> /\ Level(pct[u]) \in Nat /\ Level(alerted[u]) \in Nat
      /\ level[u] \in Nat /\ known[u] \in Nat
  BY Numbers, StepFacts DEF TakeAlert, SendAlert, MessageFails, RecordAlert, AlertFails, alerts, history
<1>1. /\ Lowering(u)' = Lowering(u) /\ (Lowering(u) => round.todo[u] \in Nat)
      /\ alert # Nobody => alert.level \in Nat
  BY <1>0, Numbers DEF Lowering
<1>2. ASSUME UNCHANGED known, UNCHANGED level, ~Telling(u, "record")',
             alerted[u] # 0 => \/ Enough(u, known[u])
                               \/ alert' # Nobody /\ alert'.user = u /\ Enough(u, alert.level)'
                               \/ \E i \in DOMAIN queue' : Queued(u, i)'
      PROVE  Told(u)'
  BY <1>0, <1>1, <1>2 DEF Told, Covers, Enough
<1>3. CASE TakeAlert
  <2>1. /\ UNCHANGED known /\ UNCHANGED level /\ alert = Nobody /\ queue # <<>>
        /\ queue' = Tail(queue)
        /\ alert' = IF News(Head(queue))
                    THEN [pc |-> "send", user |-> Head(queue).user, level |-> Level(Head(queue).pct)]
                    ELSE Nobody
    BY <1>3 DEF TakeAlert, history
  <2>2. ~Telling(u, "record")'
    BY <2>1 DEF Telling
  <2>3. /\ queue \in Seq(Pending) /\ Len(queue) \in Nat /\ Len(queue) > 0
        /\ Head(queue) = queue[1] /\ DOMAIN queue = 1..Len(queue)
        /\ Tail(queue) \in Seq(Pending) /\ DOMAIN Tail(queue) = 1..(Len(queue) - 1)
        /\ \A i \in 1..(Len(queue) - 1) : Tail(queue)[i] = queue[i + 1]
    BY <2>1, EventFacts
  <2>4. ASSUME NEW i \in DOMAIN queue, Queued(u, i), i # 1
        PROVE  \E j \in DOMAIN queue' : Queued(u, j)'
    <3>1. i \in 1..Len(queue) /\ i - 1 \in 1..(Len(queue) - 1) /\ (i - 1) + 1 = i
      BY <2>3, <2>4
    <3>2. i - 1 \in DOMAIN queue' /\ queue'[i - 1] = queue[i]
      BY <2>1, <2>3, <3>1
    <3>3. PICK j \in DOMAIN queue' : queue'[j] = queue[i]
      BY <3>2
    <3>4. QED
      BY <1>0, <2>4, <3>3 DEF Queued, Enough
  <2>5. ASSUME Queued(u, 1)
        PROVE  \/ Enough(u, known[u])
               \/ alert' # Nobody /\ alert'.user = u /\ Enough(u, alert.level)'
    <3>1. PICK e \in Pending : e = Head(queue)
      BY <2>3, EventFacts
    <3>2. e.user = u /\ Enough(u, Level(e.pct)) /\ Level(e.pct) \in Nat
      <4>1. 1 \in DOMAIN queue
        BY <2>3
      <4>2. QED
        BY <2>3, <2>5, <3>1, <4>1, EventFacts DEF Queued
    <3>3. CASE News(e)
      <4>1. alert' = [pc |-> "send", user |-> e.user, level |-> Level(e.pct)]
        BY <2>1, <3>1, <3>3
      <4>2. alert' # Nobody /\ alert'.user = u /\ alert'.level = Level(e.pct)
        BY <3>2, <4>1 DEF Nobody
      <4>3. QED
        BY <1>0, <3>2, <4>2 DEF Enough
    <3>4. CASE ~News(e)
      <4>1. Level(e.pct) = 0 \/ Level(e.pct) <= level[u]
        BY <1>0, <3>2, <3>4 DEF News
      <4>2. known[u] >= level[u] \/ known[u] >= Level(pct[u])
        BY DEF Told, Covers
      <4>3. Level(e.pct) >= Level(alerted[u]) \/ Level(e.pct) >= Level(pct[u])
        BY <3>2 DEF Enough
      <4>4. QED
        BY <1>0, <3>2, <4>1, <4>2, <4>3 DEF Enough
    <3>5. QED
      BY <3>3, <3>4
  <2>6. alerted[u] # 0 => Enough(u, known[u]) \/ \E i \in DOMAIN queue : Queued(u, i)
    BY <2>1 DEF Told
  <2>7. QED
    BY <1>2, <2>1, <2>2, <2>4, <2>5, <2>6
<1>4. CASE SendAlert
  <2>1. /\ alert # Nobody /\ alert.pc = "send" /\ UNCHANGED level /\ UNCHANGED queue
        /\ alert' = [alert EXCEPT !.pc = "record"]
        /\ known' = [known EXCEPT ![alert.user] = IF alert.level > @ THEN alert.level ELSE @]
    BY <1>4 DEF SendAlert
  <2>2. /\ alert'.user = alert.user /\ alert'.level = alert.level /\ alert.level \in Nat
        /\ alert' # Nobody
    BY <2>1, AlertFacts DEF Nobody
  <2>3. known'[u] \in Nat /\ known[u] <= known'[u] /\ (alert.user = u => known'[u] >= alert.level)
    <3>1. known'[u] = IF alert.user = u /\ alert.level > known[u] THEN alert.level ELSE known[u]
      BY <2>1 DEF TypeOK
    <3>2. QED
      BY <1>0, <2>2, <3>1
  <2>4. /\ \A l \in Nat : Covers(u, l) => Covers(u, l)'
        /\ \A l \in Nat : Enough(u, l) => Enough(u, l)'
        /\ Enough(u, known[u]) => Enough(u, known[u])'
    BY <1>0, <2>3, ToldMore
  <2>5. Telling(u, "record")' => Covers(u, alert.level)'
    BY <2>2, <2>3 DEF Telling, Covers
  <2>6. Covers(u, level[u])'
    BY <1>0, <2>1, <2>3 DEF Told, Covers
  <2>7. Lowering(u)' => Covers(u, round.todo[u])'
    BY <1>0, <1>1, <2>3 DEF Told, Covers
  <2>8. alert # Nobody /\ alert.user = u /\ Enough(u, alert.level)
        => alert' # Nobody /\ alert'.user = u /\ Enough(u, alert.level)'
    BY <1>0, <2>2 DEF Enough
  <2>9. (\E i \in DOMAIN queue : Queued(u, i)) => \E i \in DOMAIN queue' : Queued(u, i)'
    BY <1>0, <2>1 DEF Queued, Enough
  <2>10. QED
    BY <1>0, <2>4, <2>5, <2>6, <2>7, <2>8, <2>9 DEF Told
<1>5. CASE MessageFails \/ AlertFails
  <2>1. /\ alert # Nobody /\ UNCHANGED known /\ UNCHANGED level /\ UNCHANGED queue
        /\ alert' = Nobody \/ alert' = [alert EXCEPT !.pc = "record"]
        /\ slipped' = slipped \cup {alert.user}
    BY <1>5 DEF MessageFails, AlertFails
  <2>2. alert.user # u /\ ~Telling(u, "record")'
    <3>1. alert.user # u
      BY <2>1 DEF Clean
    <3>2. alert' = Nobody \/ alert'.user = alert.user
      BY <2>1, AlertFacts
    <3>3. QED
      BY <3>1, <3>2 DEF Telling
  <2>3. (\E i \in DOMAIN queue : Queued(u, i)) => \E i \in DOMAIN queue' : Queued(u, i)'
    BY <1>0, <2>1 DEF Queued, Enough
  <2>4. QED
    BY <1>2, <2>1, <2>2, <2>3 DEF Told
<1>6. CASE RecordAlert
  <2>1. /\ alert # Nobody /\ alert.pc = "record" /\ alert' = Nobody
        /\ UNCHANGED known /\ UNCHANGED queue
        /\ level' = [level EXCEPT ![alert.user] = alert.level]
    BY <1>6 DEF RecordAlert
  <2>2. ~Telling(u, "record")'
    BY <2>1 DEF Telling
  <2>3. Covers(u, level[u])'
    <3>1. CASE alert.user = u
      <4>1. level'[u] = alert.level /\ Covers(u, alert.level)
        BY <2>1, <3>1 DEF Told, Telling, TypeOK
      <4>2. QED
        BY <1>0, <2>1, <4>1 DEF Covers
    <3>2. CASE alert.user # u
      <4>1. level'[u] = level[u]
        BY <2>1, <3>2 DEF TypeOK
      <4>2. QED
        BY <1>0, <2>1, <4>1 DEF Told, Covers
    <3>3. QED
      BY <3>1, <3>2
  <2>4. Enough(u, known[u]) => Enough(u, known[u])'
    BY <1>0, <2>1 DEF Enough
  <2>5. alert.user = u /\ Enough(u, alert.level) => Enough(u, known[u])
    <3>1. alert.user = u => Covers(u, alert.level)
      BY <2>1 DEF Told, Telling
    <3>2. QED
      BY <1>0, <1>1, <2>1, <3>1 DEF Covers, Enough
  <2>6. (\E i \in DOMAIN queue : Queued(u, i)) => \E i \in DOMAIN queue' : Queued(u, i)'
    BY <1>0, <2>1 DEF Queued, Enough
  <2>7. Lowering(u)' => Covers(u, round.todo[u])'
    BY <1>0, <1>1, <2>1 DEF Told, Covers
  <2>8. QED
    BY <1>0, <2>2, <2>3, <2>4, <2>5, <2>6, <2>7 DEF Told
<1>7. QED
  BY <1>3, <1>4, <1>5, <1>6

\* The sync raises an alert for the step it has seen, or there is none to raise.
LEMMA ToldSync ==
  ASSUME TypeOK, NEW u \in Users, Told(u), NEW v \in Users, Sync(v)
  PROVE  Told(u)'
<1>1. /\ UNCHANGED <<pct, alert, level, round, known>> /\ pct[v] # Unlimited
      /\ alerted' = [alerted EXCEPT ![v] = Step(pct[v])]
      /\ queue' = IF Step(pct[v]) = 0 THEN queue
                  ELSE Append(queue, [user |-> v, pct |-> pct[v]])
  BY DEF Sync, history
<1>2. /\ Telling(u, "record")' = Telling(u, "record") /\ Lowering(u)' = Lowering(u)
  BY <1>1 DEF Telling, Lowering
<1>3. [user |-> v, pct |-> pct[v]] \in Pending
  BY <1>1 DEF TypeOK, Pending, Shares
<1>4. /\ queue \in Seq(Pending) /\ Len(queue) \in Nat /\ DOMAIN queue = 1..Len(queue)
  BY EventFacts
<1>5. \A i \in DOMAIN queue : i \in DOMAIN queue' /\ queue'[i] = queue[i]
  BY <1>1, <1>3, <1>4
<1>6. ASSUME alerted'[u] # 0 =>
               \/ Enough(u, known[u])'
               \/ alert # Nobody /\ alert.user = u /\ Enough(u, alert.level)'
               \/ \E i \in DOMAIN queue' : Queued(u, i)'
      PROVE  Told(u)'
  BY <1>1, <1>2, <1>6 DEF Told, Covers
<1>7. CASE v # u
  <2>1. alerted'[u] = alerted[u]
    BY <1>1, <1>7 DEF TypeOK
  <2>2. \A i \in DOMAIN queue : Queued(u, i) => Queued(u, i)'
    BY <1>1, <1>5, <2>1 DEF Queued, Enough
  <2>3. (\E i \in DOMAIN queue : Queued(u, i)) => \E i \in DOMAIN queue' : Queued(u, i)'
    BY <1>5, <2>2
  <2>4. Enough(u, known[u]) => Enough(u, known[u])'
    BY <1>1, <2>1 DEF Enough
  <2>5. Enough(u, alert.level) => Enough(u, alert.level)'
    BY <1>1, <2>1 DEF Enough
  <2>6. QED
    BY <1>6, <2>1, <2>3, <2>4, <2>5 DEF Told
<1>8. CASE v = u
  <2>1. alerted'[u] = Step(pct[u])
    BY <1>1, <1>8 DEF TypeOK
  <2>2. CASE Step(pct[u]) = 0
    BY <1>6, <2>1, <2>2
  <2>3. CASE Step(pct[u]) # 0
    <3>1. queue' = Append(queue, [user |-> u, pct |-> pct[u]])
      BY <1>1, <1>8, <2>3
    <3>2. PICK k : k = Len(queue) + 1
      OBVIOUS
    <3>3. k \in DOMAIN queue' /\ queue'[k] = [user |-> u, pct |-> pct[u]]
      BY <1>3, <1>4, <1>8, <3>1, <3>2
    <3>4. Level(pct[u]) \in Nat
      BY Numbers
    <3>5. Queued(u, k)'
      BY <1>1, <3>3, <3>4 DEF Queued, Enough
    <3>6. QED
      BY <1>6, <3>3, <3>5
  <2>4. QED
    BY <2>2, <2>3
<1>9. QED
  BY <1>7, <1>8

LEMMA ToldRound ==
  ASSUME TypeOK, NEW u \in Users, Told(u),
         BeginRound \/ LowerLevel \/ LowerFails \/ ListReports
  PROVE  Told(u)'
<1>0. /\ UNCHANGED <<pct, known, alert, alerted, queue>> /\ Level(pct[u]) \in Nat /\ level[u] \in Nat
      /\ known[u] \in Nat /\ round \in Round
  BY Numbers DEF BeginRound, LowerLevel, LowerFails, ListReports, alerts, history, TypeOK
<1>1. Telling(u, "record")' = Telling(u, "record")
  BY <1>0 DEF Telling
<1>2. ASSUME Covers(u, level[u])', Lowering(u)' => Covers(u, round.todo[u])'
      PROVE  Told(u)'
  BY <1>0, <1>1, <1>2 DEF Told, Covers, Enough, Queued
<1>3. UNCHANGED level => Covers(u, level[u])'
  BY <1>0 DEF Told, Covers
<1>4. CASE BeginRound
  <2>1. /\ UNCHANGED level
        /\ round' = [pc |-> "lower", todo |-> [v \in Fallen |-> Level(pct[v])]]
    BY <1>4 DEF BeginRound, alerts
  <2>2. u \in Fallen => round'.todo[u] = Level(pct[u]) /\ Level(pct[u]) < level[u]
    BY <2>1 DEF Fallen
  <2>3. DOMAIN round'.todo = Fallen
    BY <2>1
  <2>4. Lowering(u)' => Covers(u, round.todo[u])'
    <3>1. Covers(u, level[u])
      BY DEF Told
    <3>2. QED
      BY <1>0, <2>2, <2>3, <3>1 DEF Lowering, Covers
  <2>5. QED
    BY <1>2, <1>3, <2>1, <2>4
<1>5. CASE LowerLevel
  <2>1. PICK v \in DOMAIN round.todo :
          /\ round # Nobody /\ round.pc = "lower"
          /\ level' = [level EXCEPT ![v] = round.todo[v]]
          /\ round' = [round EXCEPT !.todo = [w \in DOMAIN @ \ {v} |-> @[w]]]
    BY <1>5 DEF LowerLevel
  <2>2. /\ DOMAIN round'.todo = DOMAIN round.todo \ {v}
        /\ \A w \in DOMAIN round.todo \ {v} : round'.todo[w] = round.todo[w]
    <3>1. round = [pc |-> "lower", todo |-> round.todo]
      BY <1>0, <2>1, RoundFacts
    <3>2. round' = [pc |-> "lower", todo |-> [w \in DOMAIN round.todo \ {v} |-> round.todo[w]]]
      BY <2>1, <3>1, PairExcept
    <3>3. QED
      BY <3>2
  <2>3. CASE v = u
    <3>1. Lowering(u) /\ ~Lowering(u)' /\ level'[u] = round.todo[u]
      BY <2>1, <2>2, <2>3 DEF Lowering, TypeOK
    <3>2. Covers(u, round.todo[u])
      BY <3>1 DEF Told
    <3>3. QED
      BY <1>0, <1>2, <3>1, <3>2 DEF Covers
  <2>4. CASE v # u
    <3>1. level'[u] = level[u]
      BY <2>1, <2>4 DEF TypeOK
    <3>2. Lowering(u)' => Lowering(u) /\ round'.todo[u] = round.todo[u]
      BY <2>1, <2>2, <2>4 DEF Lowering
    <3>3. Covers(u, level[u])'
      BY <1>0, <3>1 DEF Told, Covers
    <3>4. Lowering(u)' => Covers(u, round.todo[u])'
      BY <1>0, <3>2 DEF Told, Covers
    <3>5. QED
      BY <1>2, <3>3, <3>4
  <2>5. QED
    BY <2>3, <2>4
<1>6. CASE LowerFails
  <2>1. /\ round # Nobody /\ round.pc = "lower" /\ UNCHANGED level
        /\ round' = [round EXCEPT !.todo = [v \in {} |-> 0]]
    BY <1>6 DEF LowerFails, alerts
  <2>2. ~Lowering(u)'
    <3>1. round = [pc |-> "lower", todo |-> round.todo]
      BY <1>0, <2>1, RoundFacts
    <3>2. round' = [pc |-> "lower", todo |-> [v \in {} |-> 0]]
      BY <2>1, <3>1, PairExcept
    <3>3. DOMAIN round'.todo = {}
      BY <3>2
    <3>4. QED
      BY <3>3 DEF Lowering
  <2>3. QED
    BY <1>2, <1>3, <2>1, <2>2
<1>7. CASE ListReports
  <2>1. /\ UNCHANGED level
        /\ round' = Nobody \/ round' = [pc |-> "send", todo |-> Due(minute), day |-> Day(minute)]
    BY <1>7 DEF ListReports, alerts
  <2>2. ~Lowering(u)'
    BY <2>1 DEF Lowering
  <2>3. QED
    BY <1>2, <1>3, <2>1, <2>2
<1>8. QED
  BY <1>4, <1>5, <1>6, <1>7

LEMMA ToldOthers ==
  ASSUME TypeOK, NEW u \in Users, Told(u),
         \/ \E v \in Users : SendReport(v) \/ SendReportFails(v)
         \/ RecordReport \/ RecordReportFails \/ Tick \/ Restart \/ UNCHANGED vars
  PROVE  Told(u)'
<1>1. ASSUME UNCHANGED <<pct, known, level, alert, alerted, queue>>, Lowering(u)' => UNCHANGED round
      PROVE  Told(u)'
  BY <1>1 DEF Told, Telling, Lowering, Covers, Enough, Queued
<1>2. ASSUME NEW v, SendReport(v) \/ SendReportFails(v) \/ RecordReport \/ RecordReportFails
      PROVE  Told(u)'
  <2>1. UNCHANGED <<pct, alerts, known>> /\ ~Lowering(u)'
    BY <1>2, ReportSteps DEF Lowering
  <2>2. QED
    BY <1>1, <2>1 DEF alerts
<1>3. CASE Restart
  <2>1. /\ UNCHANGED <<pct, known, level>> /\ alert' = Nobody /\ round' = Nobody
        /\ alerted'[u] = 0
    BY <1>3 DEF Restart
  <2>2. ~Telling(u, "record")' /\ ~Lowering(u)'
    BY <2>1 DEF Telling, Lowering
  <2>3. QED
    BY <2>1, <2>2 DEF Told, Covers
<1>4. CASE Tick \/ UNCHANGED vars
  BY <1>1, <1>4 DEF Tick, alerts, history, vars
<1>5. QED
  BY <1>2, <1>3, <1>4

LEMMA ToldNext == TypeOK /\ FreshInv /\ ToldInv /\ [Next]_vars => ToldInv'
<1> SUFFICES ASSUME TypeOK, FreshInv, ToldInv, [Next]_vars, NEW u \in Users, Clean(u)'
             PROVE  Told(u)'
  BY DEF ToldInv
<1>1. Fresh(u) /\ Told(u)
  BY CleanBefore DEF FreshInv, ToldInv
<1>2. ASSUME NEW v \in Users, ChangeUsage(v) PROVE Told(u)'
  BY <1>1, <1>2, ToldUsage
<1>3. ASSUME NEW v \in Users, Sync(v) PROVE Told(u)'
  BY <1>1, <1>3, ToldSync
<1>4. CASE TakeAlert \/ SendAlert \/ MessageFails \/ RecordAlert \/ AlertFails
  BY <1>1, <1>4, ToldAlert
<1>5. CASE BeginRound \/ LowerLevel \/ LowerFails \/ ListReports
  BY <1>1, <1>5, ToldRound
<1>6. CASE \/ \E v \in Users : SendReport(v) \/ SendReportFails(v)
           \/ RecordReport \/ RecordReportFails \/ Tick \/ Restart \/ UNCHANGED vars
  BY <1>1, <1>6, ToldOthers
<1>7. QED
  BY <1>2, <1>3, <1>4, <1>5, <1>6 DEF Next

\* The steps of the sync and the levels of the bot agree from 80 percent on:
\* below, an alert can be raised for which there is no level to tell.
LEMMA StepsAreLevels ==
  ASSUME AlertPct >= 80, NEW p \in Shares, p >= AlertPct
  PROVE  Step(p) # 0 /\ Level(Step(p)) = Level(p)
<1>1. AlertPct \in Int /\ AlertPct <= 100 /\ p \in Int
  BY NoticesAssumption, ShareFacts
<1>2. QED
  BY <1>1 DEF Step, Level

\* README "quota alerts": whose usage has reached the alert level knows its
\* level once the sync has seen it and no alert about him is on its way, for
\* any users, shares, failures and restarts.
THEOREM AlertToldCorrect ==
  ASSUME AlertPct >= 80
  PROVE  Spec => []AlertTold
<1>1. TypeOK /\ ToldInv => AlertTold
  <2> SUFFICES ASSUME TypeOK, ToldInv, NEW u \in Users, AtRest(u), pct[u] >= AlertPct,
                      u \notin slipped \cup hasty
               PROVE  known[u] >= Level(pct[u])
    BY DEF AlertTold
  <2>1. Told(u) /\ alerted[u] = Step(pct[u])
    BY DEF ToldInv, Clean, AtRest
  <2>2. Step(pct[u]) # 0 /\ Level(Step(pct[u])) = Level(pct[u])
    BY StepsAreLevels, Numbers
  <2>3. Enough(u, known[u])
    BY <2>1, <2>2 DEF Told, AtRest, Queued
  <2>4. QED
    BY <2>1, <2>2, <2>3 DEF Enough
<1>2. Spec => []FreshInv
  BY TypeCorrect, FreshInit, FreshNext, PTL DEF Spec
<1>3. Spec => []ToldInv
  BY <1>2, TypeCorrect, ToldInit, ToldNext, PTL DEF Spec
<1>4. QED
  BY <1>1, <1>3, TypeCorrect, PTL
=============================================================================
