------------------------- MODULE UserLifecycleProofs -------------------------
(***************************************************************************)
(* Proofs about UserLifecycle, for every set of users, supervisors and     *)
(* administrators, every calendar and every package.                       *)
(***************************************************************************)
EXTENDS UserLifecycle, TLAPS

LEMMA CalendarType == LastDate \in Nat /\ LastDate > 0
BY CalendarAssumption

LEMMA NoRowType == NoRow \in Rows /\ NoSnap \in [Users -> Rows]
BY DEF NoRow, NewRow, Rows, NoSnap

LEMMA NewRowType ==
  ASSUME NEW q \in Quotas, NEW d \in ResetDays, NEW e \in Expiries
  PROVE  NewRow(q, d, e) \in Rows
BY PackageAssumption DEF NewRow, Rows

LEMMA NoJobType == NoJob \in Jobs
BY UsersAssumption DEF NoJob, Jobs

\* What the statements write is a row.
LEMMA SwitchType ==
  ASSUME NEW r \in Rows, NEW v \in BOOLEAN, NEW w \in BOOLEAN
  PROVE  [r EXCEPT !.enabled = v, !.auto = w] \in Rows
BY Zenon DEF Rows

LEMMA UsageType ==
  ASSUME NEW r \in Rows, NEW n \in Nat
  PROVE  [r EXCEPT !.used = n] \in Rows
BY Zenon DEF Rows

LEMMA StampType ==
  ASSUME NEW r \in Rows, NEW n \in Nat, NEW m \in Nat
  PROVE  [r EXCEPT !.used = n, !.lastYm = m] \in Rows
BY Zenon DEF Rows

LEMMA PackageType ==
  ASSUME NEW r \in Rows, NEW q \in Nat, NEW d \in Nat, NEW e \in Nat
  PROVE  [r EXCEPT !.quota = q, !.resetDay = d, !.expire = e] \in Rows
BY Zenon DEF Rows

LEMMA FieldTypes ==
  ASSUME NEW r \in Rows
  PROVE  /\ r.enabled \in BOOLEAN /\ r.auto \in BOOLEAN /\ r.used \in Nat
         /\ r.quota \in Nat /\ r.resetDay \in Nat /\ r.lastYm \in Nat
         /\ r.expire \in Nat
BY DEF Rows

\* One statement keeps the table well-formed when what it writes is.
LEMMA UpdateType ==
  ASSUME row \in [Users -> Rows], NEW u \in Users, NEW r \in Rows, Update(u, r)
  PROVE  row' \in [Users -> Rows]
BY DEF Update

\* The loop bookkeeping of a pass is well-formed.
LEMMA VisitedType ==
  ASSUME TypeOK, NEW s \in Supervisors, NEW u \in Users, Visited(s, u)
  PROVE  /\ todo' \in [Supervisors -> SUBSET Users]
         /\ snap' \in [Supervisors -> [Users -> Rows]]
         /\ listed' \in [Supervisors -> 0..LastDate]
         /\ reviving' \in [Supervisors -> SUBSET Users]
<1>1. snap'[s] \in [Users -> Rows]
  BY NoRowType DEF Visited, TypeOK
<1>2. snap' \in [Supervisors -> [Users -> Rows]]
  BY <1>1 DEF Visited, TypeOK
<1>3. QED
  BY <1>2, CalendarType DEF Visited, TypeOK

LEMMA TypeInit == Init => TypeOK
<1> SUFFICES ASSUME Init PROVE TypeOK
  OBVIOUS
<1> DEFINE Fresh == {NewRow(q, d, e) : q \in Quotas, d \in ResetDays,
                                       e \in Expiries}
<1>1. ASSUME NEW r \in Fresh
      PROVE  r \in Rows
  <2>1. PICK q \in Quotas, d \in ResetDays, e \in Expiries : r = NewRow(q, d, e)
    OBVIOUS
  <2>2. QED
    BY <2>1, NewRowType
<1>2. row \in [Users -> Fresh]
  BY DEF Init
<1>3. row \in [Users -> Rows]
  BY <1>1, <1>2
<1>4. QED
  BY <1>3, CalendarType, NoRowType, NoJobType, PackageAssumption
     DEF Init, TypeOK

LEMMA TypePass ==
  ASSUME TypeOK, NEW s \in Supervisors, PassStep(s) \/ AbortPass(s)
  PROVE  TypeOK'
<1>1. CASE ListUsers(s)
  BY <1>1, CalendarType DEF ListUsers, TypeOK, db
<1>2. CASE AbortPass(s)
  BY <1>2, CalendarType, NoRowType, PackageAssumption DEF AbortPass, TypeOK, db
<1>3. ASSUME NEW u \in Users,
             DisableExpired(s, u) \/ DisableOverQuota(s, u)
      PROVE  TypeOK'
  <2>1. SetEnabledAuto(u, FALSE) /\ Visited(s, u)
        /\ UNCHANGED <<today, present, job, faults, off, resetOn>>
    BY <1>3 DEF DisableExpired, DisableOverQuota
  <2>2. [row[u] EXCEPT !.enabled = FALSE, !.auto = ~FALSE] \in Rows
    BY SwitchType DEF TypeOK
  <2>3. row' \in [Users -> Rows]
    BY <2>1, <2>2, UpdateType DEF SetEnabledAuto, TypeOK
  <2>4. crossed' \subseteq Users
    BY <1>3 DEF DisableExpired, DisableOverQuota, RecordDisable, TypeOK
  <2>5. QED
    BY <2>1, <2>3, <2>4, VisitedType DEF TypeOK
<1>4. ASSUME NEW u \in Users, Revive(s, u)
      PROVE  TypeOK'
  <2>1. [row[u] EXCEPT !.enabled = TRUE, !.auto = ~TRUE] \in Rows
    BY SwitchType DEF TypeOK
  <2>2. row' \in [Users -> Rows]
    BY <1>4, <2>1, UpdateType DEF Revive, SetEnabledAuto, TypeOK
  <2>3. QED
    BY <1>4, <2>2, VisitedType DEF Revive, TypeOK
<1>5. ASSUME NEW u \in Users, NothingDue(s, u)
      PROVE  TypeOK'
  BY <1>5, VisitedType DEF NothingDue, TypeOK, db
<1>6. ASSUME NEW u \in Users, MonthlyReset(s, u)
      PROVE  TypeOK'
  <2>1. [row[u] EXCEPT !.used = 0, !.lastYm = Calendar[today].ym] \in Rows
    <3>1. row[u] \in Rows /\ Calendar[today].ym \in Nat
      BY CalendarAssumption DEF TypeOK
    <3>2. QED
      BY <3>1, StampType
  <2>2. row' \in [Users -> Rows]
    BY <1>6, <2>1, UpdateType DEF MonthlyReset, ResetUsage, TypeOK
  <2>3. resetOn' \in [Users -> 0..LastDate]
    BY <1>6, CalendarType DEF MonthlyReset, ResetUsage, TypeOK
  <2>4. CASE AutoDisabled(snap[s][u])
    BY <1>6, <2>2, <2>3, <2>4 DEF MonthlyReset, TypeOK
  <2>5. CASE ~AutoDisabled(snap[s][u])
    BY <1>6, <2>2, <2>3, <2>5, VisitedType DEF MonthlyReset, TypeOK
  <2>6. QED
    BY <2>4, <2>5
<1>7. QED
  BY <1>1, <1>2, <1>3, <1>4, <1>5, <1>6 DEF PassStep

LEMMA TypeJob ==
  ASSUME TypeOK, NEW a \in Admins, JobStep(a)
  PROVE  TypeOK'
<1>1. ASSUME NEW u \in Users, BeginReset(a, u)
      PROVE  TypeOK'
  <2>1. AutoDisabled(row[u]) \in BOOLEAN
    BY DEF AutoDisabled
  <2>2. [op |-> "reset", user |-> u, val |-> AutoDisabled(row[u])] \in Jobs
    BY <2>1 DEF Jobs
  <2>3. QED
    BY <1>1, <2>2 DEF BeginReset, TypeOK, db, pass
<1>2. ASSUME NEW u \in Users, NEW v \in BOOLEAN, BeginSet(a, u, v)
      PROVE  TypeOK'
  <2>1. [op |-> "set", user |-> u, val |-> v] \in Jobs
    BY DEF Jobs
  <2>2. QED
    BY <1>2, <2>1 DEF BeginSet, TypeOK, db, pass
<1>3. CASE EndSet(a)
  <2>1. job[a].user \in Users /\ job[a].val \in BOOLEAN
    BY DEF TypeOK, Jobs
  <2>2. [row[job[a].user] EXCEPT !.enabled = job[a].val, !.auto = FALSE] \in Rows
    BY <2>1, SwitchType DEF TypeOK
  <2>3. row' \in [Users -> Rows]
    BY <1>3, <2>1, <2>2, UpdateType DEF EndSet, SetEnabled, TypeOK
  <2>4. off' \in [Users -> {"no", "noop", "quiet", "raced"}]
    BY <1>3, <2>1 DEF EndSet, RecordManual, TypeOK
  <2>5. QED
    BY <1>3, <2>3, <2>4, NoJobType DEF EndSet, TypeOK, pass
<1>4. CASE ClearUsage(a)
  <2>1. job[a].user \in Users /\ job[a].val \in BOOLEAN
    BY DEF TypeOK, Jobs
  <2>2. [row[job[a].user] EXCEPT !.used = 0] \in Rows
    BY <2>1, UsageType DEF TypeOK
  <2>3. row' \in [Users -> Rows]
    BY <1>4, <2>1, <2>2, UpdateType DEF ClearUsage, ResetUsageManual, TypeOK
  <2>4. job' \in [Admins -> Jobs]
    BY <1>4, NoJobType DEF ClearUsage, TypeOK, Jobs
  <2>5. QED
    BY <1>4, <2>3, <2>4 DEF ClearUsage, TypeOK, pass
<1>5. CASE EndReset(a)
  <2>1. job[a].user \in Users
    BY DEF TypeOK, Jobs
  <2>2. [row[job[a].user] EXCEPT !.enabled = TRUE, !.auto = ~TRUE] \in Rows
    BY <2>1, SwitchType DEF TypeOK
  <2>3. row' \in [Users -> Rows]
    BY <1>5, <2>1, <2>2, UpdateType DEF EndReset, SetEnabledAuto, TypeOK
  <2>4. QED
    BY <1>5, <2>3, NoJobType DEF EndReset, TypeOK, pass
<1>6. CASE AbortJob(a)
  <2>1. crossed' \subseteq Users
    BY <1>6 DEF AbortJob, TypeOK, Jobs
  <2>2. QED
    BY <1>6, <2>1, NoJobType, PackageAssumption DEF AbortJob, TypeOK, db, pass
<1>7. QED
  BY <1>1, <1>2, <1>3, <1>4, <1>5, <1>6 DEF JobStep

LEMMA TypeUser ==
  ASSUME TypeOK, NEW u \in Users,
         \/ Toggle(u) \/ UpdatePackage(u) \/ AddUser(u) \/ DeleteUser(u)
         \/ BookTraffic(u)
  PROVE  TypeOK'
<1>1. CASE Toggle(u)
  <2>1. [row[u] EXCEPT !.enabled = ~row[u].enabled, !.auto = FALSE] \in Rows
    BY SwitchType, FieldTypes DEF TypeOK
  <2>2. row' \in [Users -> Rows]
    BY <1>1, <2>1, UpdateType DEF Toggle, SetEnabled, TypeOK
  <2>3. off' \in [Users -> {"no", "noop", "quiet", "raced"}]
    BY <1>1 DEF Toggle, RecordManual, TypeOK
  <2>4. QED
    BY <1>1, <2>2, <2>3 DEF Toggle, TypeOK, pass
<1>2. CASE UpdatePackage(u)
  <2>1. PICK q \in Quotas \cup {row[u].quota},
             d \in ResetDays \cup {row[u].resetDay},
             e \in Expiries \cup {row[u].expire} :
          Update(u, [row[u] EXCEPT !.quota = q, !.resetDay = d, !.expire = e])
    BY <1>2 DEF UpdatePackage
  <2>2. q \in Nat /\ d \in Nat /\ e \in Nat /\ row[u] \in Rows
    BY PackageAssumption, FieldTypes DEF TypeOK
  <2>3. [row[u] EXCEPT !.quota = q, !.resetDay = d, !.expire = e] \in Rows
    BY <2>2, PackageType
  <2>4. row' \in [Users -> Rows]
    BY <2>1, <2>3, UpdateType DEF TypeOK
  <2>5. QED
    BY <1>2, <2>4 DEF UpdatePackage, TypeOK, pass
<1>3. CASE AddUser(u)
  <2>1. PICK q \in Quotas, d \in ResetDays, e \in Expiries :
          row' = [row EXCEPT ![u] = NewRow(q, d, e)]
    BY <1>3 DEF AddUser
  <2>2. row' \in [Users -> Rows]
    BY <2>1, NewRowType DEF TypeOK
  <2>3. QED
    BY <1>3, <2>2 DEF AddUser, TypeOK, pass
<1>4. CASE DeleteUser(u)
  BY <1>4, NoRowType, CalendarType DEF DeleteUser, TypeOK, pass
<1>5. CASE BookTraffic(u)
  <2>1. [row[u] EXCEPT !.used = @ + 1] \in Rows
    <3>1. row[u] \in Rows
      BY DEF TypeOK
    <3>2. row[u].used + 1 \in Nat
      BY <3>1, FieldTypes
    <3>3. QED
      BY <3>1, <3>2, UsageType
  <2>2. row' \in [Users -> Rows]
    BY <1>5, <2>1, UpdateType DEF BookTraffic, TypeOK
  <2>3. QED
    BY <1>5, <2>2 DEF BookTraffic, TypeOK, pass
<1>6. QED
  BY <1>1, <1>2, <1>3, <1>4, <1>5

LEMMA TypeStep == TypeOK /\ [Next]_vars => TypeOK'
<1> SUFFICES ASSUME TypeOK, [Next]_vars PROVE TypeOK'
  OBVIOUS
<1>1. CASE NextDay
  BY <1>1, CalendarType DEF NextDay, TypeOK, db, pass
<1>2. CASE UNCHANGED vars
  BY <1>2 DEF vars, TypeOK
<1>3. QED
  BY <1>1, <1>2, TypePass, TypeJob, TypeUser DEF Next

\* Every variable has its type in every reachable state.
THEOREM TypeCorrect == Spec => []TypeOK
BY TypeInit, TypeStep, PTL DEF Spec

----------------------------------------------------------------------------
(* auto_disabled marks only disabled users, and a manual off taken at a     *)
(* quiet moment sticks.                                                    *)

\* Nothing that could enable u is stored or remembered anywhere.
Settled(u) ==
  /\ ~row[u].enabled /\ ~row[u].auto
  /\ \A s \in Supervisors : u \in todo[s] =>
       ~snap[s][u].enabled /\ ~snap[s][u].auto
  /\ \A s \in Supervisors : u \notin reviving[s]
  /\ \A a \in Admins : job[a].user = u =>
       /\ job[a].op # "revive"
       /\ job[a].op = "reset" => ~job[a].val

OffInv ==
  /\ AutoImpliesDisabled
  /\ \A u \in Users : off[u] # "no" => u \in present
  /\ \A s \in Supervisors : reviving[s] \subseteq todo[s]
  /\ \A u \in Users : off[u] = "quiet" => Settled(u)

LEMMA UpdateEffect ==
  ASSUME row \in [Users -> Rows], NEW u \in Users, NEW r, Update(u, r),
         NEW w \in Users
  PROVE  row'[w] = IF w = u /\ u \in present THEN r ELSE row[w]
BY DEF Update

\* The effect of the two switches and of the two resets on the two columns.
LEMMA SwitchEffect ==
  ASSUME TypeOK, NEW u \in Users, NEW v \in BOOLEAN, NEW w \in Users
  PROVE  /\ SetEnabledAuto(u, v) =>
              IF w = u /\ u \in present
                THEN row'[w].enabled = v /\ row'[w].auto = ~v
                ELSE row'[w] = row[w]
         /\ SetEnabled(u, v) =>
              IF w = u /\ u \in present
                THEN row'[w].enabled = v /\ row'[w].auto = FALSE
                ELSE row'[w] = row[w]
<1>1. row[u] \in Rows /\ row \in [Users -> Rows]
  BY DEF TypeOK
<1>2. ASSUME NEW x \in BOOLEAN
      PROVE  LET r == [row[u] EXCEPT !.enabled = v, !.auto = x]
             IN  r.enabled = v /\ r.auto = x
  BY <1>1, Zenon DEF Rows
<1>3. ASSUME SetEnabledAuto(u, v)
      PROVE  IF w = u /\ u \in present
                THEN row'[w].enabled = v /\ row'[w].auto = ~v
                ELSE row'[w] = row[w]
  <2>1. row'[w] = IF w = u /\ u \in present
                    THEN [row[u] EXCEPT !.enabled = v, !.auto = ~v] ELSE row[w]
    BY <1>1, <1>3, UpdateEffect DEF SetEnabledAuto
  <2>2. QED
    BY <2>1, <1>2, Zenon
<1>4. ASSUME SetEnabled(u, v)
      PROVE  IF w = u /\ u \in present
                THEN row'[w].enabled = v /\ row'[w].auto = FALSE
                ELSE row'[w] = row[w]
  <2>1. row'[w] = IF w = u /\ u \in present
                    THEN [row[u] EXCEPT !.enabled = v, !.auto = FALSE]
                    ELSE row[w]
    BY <1>1, <1>4, UpdateEffect DEF SetEnabled
  <2>2. QED
    BY <2>1, <1>2, Zenon
<1>5. QED
  BY <1>3, <1>4

\* The steps that leave both columns of every row alone.
KeepsColumns ==
  \A w \in Users : row'[w].enabled = row[w].enabled /\ row'[w].auto = row[w].auto

LEMMA OtherWrites ==
  ASSUME TypeOK, NEW u \in Users,
         \/ ResetUsage(u) \/ ResetUsageManual(u) \/ UpdatePackage(u)
         \/ BookTraffic(u) \/ UNCHANGED row
  PROVE  KeepsColumns
<1>1. row[u] \in Rows /\ row \in [Users -> Rows]
  BY DEF TypeOK
<1>2. CASE ResetUsage(u)
  <2>1. LET r == [row[u] EXCEPT !.used = 0, !.lastYm = Calendar[today].ym]
        IN  r.enabled = row[u].enabled /\ r.auto = row[u].auto
    BY <1>1, Zenon DEF Rows
  <2>2. QED
    BY <1>1, <1>2, <2>1, UpdateEffect DEF ResetUsage, KeepsColumns
<1>3. CASE ResetUsageManual(u)
  <2>1. LET r == [row[u] EXCEPT !.used = 0]
        IN  r.enabled = row[u].enabled /\ r.auto = row[u].auto
    BY <1>1, Zenon DEF Rows
  <2>2. QED
    BY <1>1, <1>3, <2>1, UpdateEffect DEF ResetUsageManual, KeepsColumns
<1>4. CASE UpdatePackage(u)
  <2>1. PICK q \in Quotas \cup {row[u].quota},
             d \in ResetDays \cup {row[u].resetDay},
             e \in Expiries \cup {row[u].expire} :
          Update(u, [row[u] EXCEPT !.quota = q, !.resetDay = d, !.expire = e])
    BY <1>4 DEF UpdatePackage
  <2>2. LET r == [row[u] EXCEPT !.quota = q, !.resetDay = d, !.expire = e]
        IN  r.enabled = row[u].enabled /\ r.auto = row[u].auto
    BY <1>1, Zenon DEF Rows
  <2>3. QED
    BY <1>1, <2>1, <2>2, UpdateEffect DEF KeepsColumns
<1>5. CASE BookTraffic(u)
  <2>1. LET r == [row[u] EXCEPT !.used = @ + 1]
        IN  r.enabled = row[u].enabled /\ r.auto = row[u].auto
    BY <1>1, Zenon DEF Rows
  <2>2. QED
    BY <1>1, <1>5, <2>1, UpdateEffect DEF BookTraffic, KeepsColumns
<1>6. CASE UNCHANGED row
  BY <1>6 DEF KeepsColumns
<1>7. QED
  BY <1>2, <1>3, <1>4, <1>5, <1>6

LEMMA OffInit == Init => OffInv
<1> SUFFICES ASSUME Init PROVE OffInv
  OBVIOUS
<1>1. ASSUME NEW u \in Users
      PROVE  row[u].auto = FALSE
  <2>1. PICK q \in Quotas, d \in ResetDays, e \in Expiries :
          row[u] = NewRow(q, d, e)
    BY DEF Init
  <2>2. QED
    BY <2>1 DEF NewRow
<1>2. QED
  BY <1>1 DEF Init, OffInv, AutoImpliesDisabled

\* A loop body keeps OffInv when its write leaves settled users alone.
LEMMA OffVisit ==
  ASSUME TypeOK, OffInv, NEW s \in Supervisors, NEW u \in Users, Visited(s, u),
         UNCHANGED <<present, job, off>>, AutoImpliesDisabled',
         \A w \in Users : off[w] = "quiet" => ~row'[w].enabled /\ ~row'[w].auto
  PROVE  OffInv'
<1>1. \A t \in Supervisors : todo'[t] \subseteq todo[t]
  BY DEF Visited, TypeOK
<1>2. \A t \in Supervisors : reviving'[t] = IF t = s THEN {} ELSE reviving[t]
  BY DEF Visited, TypeOK
<1>3. \A t \in Supervisors : t # s => todo'[t] = todo[t]
  BY DEF Visited, TypeOK
<1>4. \A t \in Supervisors, w \in Users :
        w \in todo'[t] => snap'[t][w] = snap[t][w]
  BY DEF Visited, TypeOK
<1>5. \A t \in Supervisors : reviving'[t] \subseteq todo'[t]
  BY <1>2, <1>3 DEF OffInv
<1>6. ASSUME NEW w \in Users, off'[w] = "quiet"
      PROVE  Settled(w)'
  <2>1. Settled(w)
    BY <1>6 DEF OffInv
  <2>2. \A t \in Supervisors : w \in todo'[t] =>
          ~snap'[t][w].enabled /\ ~snap'[t][w].auto
    BY <1>1, <1>4, <2>1 DEF Settled
  <2>3. QED
    BY <1>2, <1>6, <2>1, <2>2 DEF Settled
<1>7. QED
  BY <1>5, <1>6 DEF OffInv

\* A step that touches neither a pass nor the off history keeps OffInv when
\* its write and its job leave settled users alone.
LEMMA OffWrite ==
  ASSUME TypeOK, OffInv, UNCHANGED <<present, pass>>, AutoImpliesDisabled',
         \A w \in Users : off'[w] # "no" => w \in present,
         \A w \in Users : off'[w] = "quiet" =>
           /\ off[w] = "quiet" \/ Quiet(w)
           /\ ~row'[w].enabled /\ ~row'[w].auto
           /\ \A a \in Admins : job'[a].user = w =>
                /\ job'[a].op # "revive"
                /\ job'[a].op = "reset" => ~job'[a].val
  PROVE  OffInv'
<1>1. ASSUME NEW w \in Users, off'[w] = "quiet"
      PROVE  Settled(w)'
  <2>1. CASE off[w] = "quiet"
    BY <1>1, <2>1 DEF OffInv, Settled, pass
  <2>2. CASE Quiet(w)
    BY <1>1, <2>2 DEF OffInv, Settled, Quiet, pass
  <2>3. QED
    BY <1>1, <2>1, <2>2
<1>2. QED
  BY <1>1 DEF OffInv, pass

LEMMA OffPass ==
  ASSUME TypeOK, OffInv, NEW s \in Supervisors, PassStep(s) \/ AbortPass(s)
  PROVE  OffInv'
<1>1. CASE ListUsers(s)
  <2>1. \A t \in Supervisors : t # s => todo'[t] = todo[t] /\ snap'[t] = snap[t]
    BY <1>1 DEF ListUsers, TypeOK
  <2>2. snap'[s] = row /\ reviving[s] = {}
    BY <1>1 DEF ListUsers, TypeOK, OffInv
  <2>3. ASSUME NEW w \in Users, off'[w] = "quiet"
        PROVE  Settled(w)'
    <3>1. Settled(w)
      BY <1>1, <2>3 DEF ListUsers, OffInv
    <3>2. \A t \in Supervisors : w \in todo'[t] =>
            ~snap'[t][w].enabled /\ ~snap'[t][w].auto
      BY <2>1, <2>2, <3>1 DEF Settled
    <3>3. QED
      BY <1>1, <3>1, <3>2 DEF ListUsers, Settled, db
  <2>4. \A t \in Supervisors : reviving'[t] \subseteq todo'[t]
    BY <1>1, <2>1, <2>2 DEF ListUsers, OffInv
  <2>5. QED
    BY <1>1, <2>3, <2>4 DEF ListUsers, OffInv, AutoImpliesDisabled, db
<1>2. CASE AbortPass(s)
  <2>1. \A t \in Supervisors : todo'[t] = IF t = s THEN {} ELSE todo[t]
    BY <1>2 DEF AbortPass, TypeOK
  <2>2. \A t \in Supervisors : reviving'[t] = IF t = s THEN {} ELSE reviving[t]
    BY <1>2 DEF AbortPass, TypeOK
  <2>3. \A t \in Supervisors : t # s => snap'[t] = snap[t]
    BY <1>2 DEF AbortPass, TypeOK
  <2>4. ASSUME NEW w \in Users, off'[w] = "quiet"
        PROVE  Settled(w)'
    <3>1. Settled(w)
      BY <1>2, <2>4 DEF AbortPass, OffInv
    <3>2. QED
      BY <1>2, <2>1, <2>2, <2>3, <3>1 DEF AbortPass, Settled, db
  <2>5. QED
    BY <1>2, <2>1, <2>2, <2>4 DEF AbortPass, OffInv, AutoImpliesDisabled, db
<1>3. ASSUME NEW u \in Users,
             DisableExpired(s, u) \/ DisableOverQuota(s, u)
      PROVE  OffInv'
  <2>1. /\ u \in todo[s] /\ snap[s][u].enabled
        /\ SetEnabledAuto(u, FALSE) /\ Visited(s, u)
        /\ UNCHANGED <<present, job, off>>
    BY <1>3 DEF DisableExpired, DisableOverQuota, At, ExpiryApplies
  <2>2. off[u] # "quiet"
    BY <2>1 DEF OffInv, Settled
  <2>3. \A w \in Users : IF w = u /\ u \in present
          THEN row'[w].enabled = FALSE /\ row'[w].auto = ~FALSE
          ELSE row'[w] = row[w]
    BY <2>1, SwitchEffect
  <2>4. AutoImpliesDisabled'
    BY <2>3 DEF AutoImpliesDisabled, OffInv
  <2>5. \A w \in Users : off[w] = "quiet" => ~row'[w].enabled /\ ~row'[w].auto
    BY <2>2, <2>3 DEF OffInv, Settled
  <2>6. QED
    BY <2>1, <2>4, <2>5, OffVisit
<1>4. ASSUME NEW u \in Users, Revive(s, u)
      PROVE  OffInv'
  <2>1. off[u] # "quiet"
    BY <1>4 DEF Revive, OffInv, Settled
  <2>2. \A w \in Users : IF w = u /\ u \in present
          THEN row'[w].enabled = TRUE /\ row'[w].auto = ~TRUE
          ELSE row'[w] = row[w]
    BY <1>4, SwitchEffect DEF Revive
  <2>3. AutoImpliesDisabled'
    BY <2>2 DEF AutoImpliesDisabled, OffInv
  <2>4. \A w \in Users : off[w] = "quiet" => ~row'[w].enabled /\ ~row'[w].auto
    BY <2>1, <2>2 DEF OffInv, Settled
  <2>5. QED
    BY <1>4, <2>3, <2>4, OffVisit DEF Revive
<1>5. ASSUME NEW u \in Users, NothingDue(s, u)
      PROVE  OffInv'
  <2>1. AutoImpliesDisabled'
    BY <1>5 DEF NothingDue, AutoImpliesDisabled, OffInv, db
  <2>2. \A w \in Users : off[w] = "quiet" => ~row'[w].enabled /\ ~row'[w].auto
    BY <1>5 DEF NothingDue, OffInv, Settled, db
  <2>3. QED
    BY <1>5, <2>1, <2>2, OffVisit DEF NothingDue, db
<1>6. ASSUME NEW u \in Users, MonthlyReset(s, u)
      PROVE  OffInv'
  <2>1. KeepsColumns
    BY <1>6, OtherWrites DEF MonthlyReset
  <2>2. AutoImpliesDisabled'
    BY <2>1 DEF AutoImpliesDisabled, OffInv, KeepsColumns
  <2>3. \A w \in Users : off[w] = "quiet" => ~row'[w].enabled /\ ~row'[w].auto
    BY <2>1 DEF OffInv, Settled, KeepsColumns
  <2>4. CASE ~AutoDisabled(snap[s][u])
    BY <1>6, <2>2, <2>3, <2>4, OffVisit DEF MonthlyReset
  <2>5. CASE AutoDisabled(snap[s][u])
    <3>1. UNCHANGED <<present, job, off, todo, snap>> /\ u \in todo[s]
      BY <1>6, <2>5 DEF MonthlyReset, At
    <3>2. \A t \in Supervisors : reviving'[t] = IF t = s THEN {u} ELSE reviving[t]
      BY <1>6, <2>5 DEF MonthlyReset, TypeOK
    <3>3. off[u] # "quiet"
      BY <3>1, <2>5 DEF OffInv, Settled, AutoDisabled
    <3>4. ASSUME NEW w \in Users, off'[w] = "quiet"
          PROVE  Settled(w)'
      <4>1. Settled(w) /\ w # u
        BY <3>1, <3>3, <3>4 DEF OffInv
      <4>2. ~row'[w].enabled /\ ~row'[w].auto
        BY <2>3, <3>1, <3>4
      <4>3. QED
        BY <3>1, <3>2, <4>1, <4>2 DEF Settled
    <3>5. QED
      BY <2>2, <3>1, <3>2, <3>4 DEF OffInv
  <2>6. QED
    BY <2>4, <2>5
<1>7. QED
  BY <1>1, <1>2, <1>3, <1>4, <1>5, <1>6 DEF PassStep

LEMMA OffJob ==
  ASSUME TypeOK, OffInv, NEW a \in Admins, JobStep(a)
  PROVE  OffInv'
<1>1. ASSUME NEW u \in Users, BeginReset(a, u)
      PROVE  OffInv'
  <2>1. AutoImpliesDisabled'
    BY <1>1 DEF BeginReset, OffInv, AutoImpliesDisabled, db
  <2>2. \A b \in Admins : job'[b] =
          IF b = a THEN [op |-> "reset", user |-> u, val |-> AutoDisabled(row[u])]
                   ELSE job[b]
    BY <1>1 DEF BeginReset, TypeOK
  <2>3. ASSUME NEW w \in Users, off'[w] = "quiet"
        PROVE  /\ off[w] = "quiet" /\ ~row'[w].enabled /\ ~row'[w].auto
               /\ \A b \in Admins : job'[b].user = w =>
                    /\ job'[b].op # "revive"
                    /\ job'[b].op = "reset" => ~job'[b].val
    <3>1. off[w] = "quiet" /\ Settled(w) /\ row' = row
      BY <1>1, <2>3 DEF BeginReset, OffInv, db
    <3>2. ~AutoDisabled(row[w])
      BY <3>1 DEF Settled, AutoDisabled
    <3>3. ASSUME NEW b \in Admins, job'[b].user = w
          PROVE  job'[b].op # "revive" /\ (job'[b].op = "reset" => ~job'[b].val)
      <4>1. CASE b = a
        BY <2>2, <3>2, <3>3, <4>1
      <4>2. CASE b # a
        BY <2>2, <3>1, <3>3, <4>2 DEF Settled
      <4>3. QED
        BY <4>1, <4>2
    <3>4. QED
      BY <3>1, <3>3 DEF Settled
  <2>4. \A w \in Users : off'[w] # "no" => w \in present
    BY <1>1 DEF BeginReset, OffInv
  <2>5. QED
    BY <1>1, <2>1, <2>3, <2>4, OffWrite DEF BeginReset, db
<1>2. ASSUME NEW u \in Users, NEW v \in BOOLEAN, BeginSet(a, u, v)
      PROVE  OffInv'
  <2>1. AutoImpliesDisabled'
    BY <1>2 DEF BeginSet, OffInv, AutoImpliesDisabled, db
  <2>2. \A b \in Admins : job'[b] = job[b] \/ job'[b].op = "set"
    BY <1>2 DEF BeginSet, TypeOK
  <2>3. \A w \in Users : /\ off'[w] = "quiet" => off[w] = "quiet"
                         /\ off'[w] # "no" => off[w] # "no" \/ w = u
    BY <1>2 DEF BeginSet, TypeOK
  <2>4. u \in present /\ row' = row
    BY <1>2 DEF BeginSet, db
  <2>5. \A w \in Users : off'[w] # "no" => w \in present
    BY <2>3, <2>4 DEF OffInv
  <2>6. ASSUME NEW w \in Users, off'[w] = "quiet"
        PROVE  /\ off[w] = "quiet" /\ ~row'[w].enabled /\ ~row'[w].auto
               /\ \A b \in Admins : job'[b].user = w =>
                    /\ job'[b].op # "revive"
                    /\ job'[b].op = "reset" => ~job'[b].val
    <3>1. off[w] = "quiet" /\ Settled(w) /\ row' = row
      BY <2>3, <2>6, <2>4 DEF OffInv
    <3>2. QED
      BY <2>2, <3>1 DEF Settled
  <2>7. QED
    BY <1>2, <2>1, <2>5, <2>6, OffWrite DEF BeginSet, db
<1>3. CASE EndSet(a)
  <2> DEFINE u == job[a].user
             v == job[a].val
  <2>1. u \in Users /\ v \in BOOLEAN
    BY DEF TypeOK, Jobs
  <2>2. \A w \in Users : IF w = u /\ u \in present
          THEN row'[w].enabled = v /\ row'[w].auto = FALSE
          ELSE row'[w] = row[w]
    BY <1>3, <2>1, SwitchEffect DEF EndSet
  <2>3. AutoImpliesDisabled'
    BY <2>2 DEF AutoImpliesDisabled, OffInv
  <2>4. \A b \in Admins : job'[b] = job[b] \/ job'[b].op = "none"
    BY <1>3 DEF EndSet, TypeOK, NoJob
  <2>5. \A w \in Users : w # u => off'[w] = off[w]
    BY <1>3, <2>1 DEF EndSet, RecordManual, TypeOK
  <2>6. off'[u] = IF u \notin present THEN off[u]
                  ELSE IF v THEN "no"
                  ELSE IF Quiet(u) THEN "quiet" ELSE "raced"
    BY <1>3, <2>1 DEF EndSet, RecordManual, TypeOK
  <2>7. \A w \in Users : off'[w] # "no" => w \in present
    BY <2>1, <2>5, <2>6 DEF OffInv
  <2>8. ASSUME NEW w \in Users, off'[w] = "quiet"
        PROVE  /\ off[w] = "quiet" \/ Quiet(w)
               /\ ~row'[w].enabled /\ ~row'[w].auto
               /\ \A b \in Admins : job'[b].user = w =>
                    /\ job'[b].op # "revive"
                    /\ job'[b].op = "reset" => ~job'[b].val
    <3>1. CASE w # u
      <4>1. off[w] = "quiet" /\ Settled(w)
        BY <2>5, <2>8, <3>1 DEF OffInv
      <4>2. QED
        BY <2>2, <2>4, <3>1, <4>1 DEF Settled
    <3>2. CASE w = u
      <4>1. u \in present
        BY <2>7, <2>8, <3>2
      <4>2. ~v /\ Quiet(u)
        BY <2>1, <2>6, <2>8, <3>2, <4>1
      <4>3. \A b \in Admins : job[b].user = w =>
              job[b].op # "revive" /\ job[b].op # "reset"
        BY <3>2, <4>2 DEF Quiet
      <4>4. QED
        BY <2>1, <2>2, <2>4, <3>2, <4>1, <4>2, <4>3
    <3>3. QED
      BY <3>1, <3>2
  <2>9. QED
    BY <1>3, <2>3, <2>7, <2>8, OffWrite DEF EndSet
<1>4. CASE ClearUsage(a)
  <2>1. KeepsColumns
    BY <1>4, OtherWrites DEF ClearUsage, TypeOK, Jobs
  <2>2. AutoImpliesDisabled'
    BY <2>1 DEF AutoImpliesDisabled, OffInv, KeepsColumns
  <2>3. \A b \in Admins : b # a => job'[b] = job[b]
    BY <1>4 DEF ClearUsage, TypeOK
  <2>4. /\ job'[a].op \in {"revive", "none"}
        /\ job'[a].op = "revive" => job[a].val /\ job'[a].user = job[a].user
    BY <1>4 DEF ClearUsage, TypeOK, Jobs, NoJob
  <2>5. ASSUME NEW w \in Users, off'[w] = "quiet"
        PROVE  /\ off[w] = "quiet" /\ ~row'[w].enabled /\ ~row'[w].auto
               /\ \A b \in Admins : job'[b].user = w =>
                    /\ job'[b].op # "revive"
                    /\ job'[b].op = "reset" => ~job'[b].val
    <3>1. off[w] = "quiet" /\ Settled(w)
      BY <1>4, <2>5 DEF ClearUsage, OffInv
    <3>2. job[a].user = w => ~job[a].val
      BY <1>4, <3>1 DEF ClearUsage, Settled
    <3>3. QED
      BY <2>1, <2>3, <2>4, <3>1, <3>2 DEF Settled, KeepsColumns
  <2>6. \A w \in Users : off'[w] # "no" => w \in present
    BY <1>4 DEF ClearUsage, OffInv
  <2>7. QED
    BY <1>4, <2>2, <2>5, <2>6, OffWrite DEF ClearUsage
<1>5. CASE EndReset(a)
  <2> DEFINE u == job[a].user
  <2>1. u \in Users
    BY DEF TypeOK, Jobs
  <2>2. off[u] # "quiet"
    BY <1>5, <2>1 DEF EndReset, OffInv, Settled
  <2>3. \A w \in Users : IF w = u /\ u \in present
          THEN row'[w].enabled = TRUE /\ row'[w].auto = ~TRUE
          ELSE row'[w] = row[w]
    BY <1>5, <2>1, SwitchEffect DEF EndReset
  <2>4. AutoImpliesDisabled'
    BY <2>3 DEF AutoImpliesDisabled, OffInv
  <2>5. \A b \in Admins : job'[b] = job[b] \/ job'[b].op = "none"
    BY <1>5 DEF EndReset, TypeOK, NoJob
  <2>6. ASSUME NEW w \in Users, off'[w] = "quiet"
        PROVE  /\ off[w] = "quiet" /\ ~row'[w].enabled /\ ~row'[w].auto
               /\ \A b \in Admins : job'[b].user = w =>
                    /\ job'[b].op # "revive"
                    /\ job'[b].op = "reset" => ~job'[b].val
    <3>1. off[w] = "quiet" /\ Settled(w)
      BY <1>5, <2>6 DEF EndReset, OffInv
    <3>2. QED
      BY <2>2, <2>3, <2>5, <3>1 DEF Settled
  <2>7. \A w \in Users : off'[w] # "no" => w \in present
    BY <1>5 DEF EndReset, OffInv
  <2>8. QED
    BY <1>5, <2>4, <2>6, <2>7, OffWrite DEF EndReset
<1>6. CASE AbortJob(a)
  <2>1. AutoImpliesDisabled'
    BY <1>6 DEF AbortJob, OffInv, AutoImpliesDisabled, db
  <2>2. \A b \in Admins : job'[b] = job[b] \/ job'[b].op = "none"
    BY <1>6 DEF AbortJob, TypeOK, NoJob
  <2>3. ASSUME NEW w \in Users, off'[w] = "quiet"
        PROVE  /\ off[w] = "quiet" /\ ~row'[w].enabled /\ ~row'[w].auto
               /\ \A b \in Admins : job'[b].user = w =>
                    /\ job'[b].op # "revive"
                    /\ job'[b].op = "reset" => ~job'[b].val
    <3>1. off[w] = "quiet" /\ Settled(w) /\ row' = row
      BY <1>6, <2>3 DEF AbortJob, OffInv, db
    <3>2. QED
      BY <2>2, <3>1 DEF Settled
  <2>4. \A w \in Users : off'[w] # "no" => w \in present
    BY <1>6 DEF AbortJob, OffInv
  <2>5. QED
    BY <1>6, <2>1, <2>3, <2>4, OffWrite DEF AbortJob, db
<1>7. QED
  BY <1>1, <1>2, <1>3, <1>4, <1>5, <1>6 DEF JobStep

LEMMA OffUser ==
  ASSUME TypeOK, OffInv, NEW u \in Users,
         \/ Toggle(u) \/ UpdatePackage(u) \/ AddUser(u) \/ DeleteUser(u)
         \/ BookTraffic(u)
  PROVE  OffInv'
<1>1. CASE Toggle(u)
  <2> DEFINE v == ~row[u].enabled
  <2>1. v \in BOOLEAN /\ u \in present
    BY <1>1 DEF Toggle
  <2>2. \A w \in Users : IF w = u /\ u \in present
          THEN row'[w].enabled = v /\ row'[w].auto = FALSE
          ELSE row'[w] = row[w]
    BY <1>1, <2>1, SwitchEffect DEF Toggle
  <2>3. AutoImpliesDisabled'
    BY <2>2 DEF AutoImpliesDisabled, OffInv
  <2>4. \A w \in Users : w # u => off'[w] = off[w]
    BY <1>1 DEF Toggle, RecordManual, TypeOK
  <2>5. off'[u] = IF v THEN "no" ELSE IF Quiet(u) THEN "quiet" ELSE "raced"
    BY <1>1 DEF Toggle, RecordManual, TypeOK
  <2>6. \A w \in Users : off'[w] # "no" => w \in present
    BY <2>1, <2>4 DEF OffInv
  <2>7. ASSUME NEW w \in Users, off'[w] = "quiet"
        PROVE  /\ off[w] = "quiet" \/ Quiet(w)
               /\ ~row'[w].enabled /\ ~row'[w].auto
               /\ \A b \in Admins : job'[b].user = w =>
                    /\ job'[b].op # "revive"
                    /\ job'[b].op = "reset" => ~job'[b].val
    <3>1. CASE w # u
      <4>1. off[w] = "quiet" /\ Settled(w)
        BY <2>4, <2>7, <3>1 DEF OffInv
      <4>2. QED
        BY <1>1, <2>2, <3>1, <4>1 DEF Settled, Toggle
    <3>2. CASE w = u
      <4>1. ~v /\ Quiet(u)
        BY <2>1, <2>5, <2>7, <3>2
      <4>2. \A b \in Admins : job[b].user = w =>
              job[b].op # "revive" /\ job[b].op # "reset"
        BY <3>2, <4>1 DEF Quiet
      <4>3. QED
        BY <1>1, <2>1, <2>2, <3>2, <4>1, <4>2 DEF Toggle
    <3>3. QED
      BY <3>1, <3>2
  <2>8. QED
    BY <1>1, <2>3, <2>6, <2>7, OffWrite DEF Toggle
<1>2. CASE UpdatePackage(u) \/ BookTraffic(u)
  <2>1. KeepsColumns
    BY <1>2, OtherWrites
  <2>2. UNCHANGED <<present, pass, job, off>>
    BY <1>2 DEF UpdatePackage, BookTraffic
  <2>3. AutoImpliesDisabled'
    BY <2>1 DEF AutoImpliesDisabled, OffInv, KeepsColumns
  <2>4. QED
    BY <2>1, <2>2, <2>3, OffWrite DEF OffInv, Settled, KeepsColumns
<1>3. CASE AddUser(u)
  <2>1. PICK q \in Quotas, d \in ResetDays, e \in Expiries :
          row' = [row EXCEPT ![u] = NewRow(q, d, e)]
    BY <1>3 DEF AddUser
  <2>2. ~row'[u].auto
    BY <2>1 DEF NewRow, TypeOK
  <2>3. \A w \in Users : w # u => row'[w] = row[w]
    BY <2>1 DEF TypeOK
  <2>4. off[u] = "no" /\ off' = off
    BY <1>3 DEF AddUser, OffInv
  <2>5. ASSUME NEW w \in Users, off'[w] = "quiet"
        PROVE  Settled(w)'
    <3>1. w # u /\ Settled(w)
      BY <2>4, <2>5 DEF OffInv
    <3>2. QED
      BY <1>3, <2>3, <3>1 DEF AddUser, Settled, pass
  <2>6. QED
    BY <1>3, <2>2, <2>3, <2>4, <2>5
       DEF AddUser, OffInv, AutoImpliesDisabled, pass
<1>4. CASE DeleteUser(u)
  <2>1. \A w \in Users : w # u => row'[w] = row[w] /\ off'[w] = off[w]
    BY <1>4 DEF DeleteUser, TypeOK
  <2>2. off'[u] = "no" /\ ~row'[u].auto
    BY <1>4 DEF DeleteUser, TypeOK, NoRow, NewRow
  <2>3. ASSUME NEW w \in Users, off'[w] = "quiet"
        PROVE  Settled(w)'
    <3>1. w # u /\ Settled(w)
      BY <2>1, <2>2, <2>3 DEF OffInv
    <3>2. QED
      BY <1>4, <2>1, <3>1 DEF DeleteUser, Settled, pass
  <2>4. QED
    BY <1>4, <2>1, <2>2, <2>3 DEF DeleteUser, OffInv, AutoImpliesDisabled, pass
<1>5. QED
  BY <1>1, <1>2, <1>3, <1>4

LEMMA OffStep == TypeOK /\ OffInv /\ [Next]_vars => OffInv'
<1> SUFFICES ASSUME TypeOK, OffInv, [Next]_vars PROVE OffInv'
  OBVIOUS
<1>1. CASE NextDay \/ UNCHANGED vars
  <2>1. UNCHANGED <<present, row, todo, snap, reviving, job, off>>
    BY <1>1 DEF NextDay, vars, db, pass
  <2>2. \A u \in Users : Settled(u) => Settled(u)'
    BY <2>1 DEF Settled
  <2>3. QED
    BY <2>1, <2>2 DEF OffInv, AutoImpliesDisabled
<1>2. QED
  BY <1>1, OffPass, OffJob, OffUser DEF Next

\* auto_disabled never marks an enabled user.
THEOREM MarkCorrect == Spec => []AutoImpliesDisabled
<1>1. OffInv => AutoImpliesDisabled
  BY DEF OffInv
<1>2. QED
  BY <1>1, OffInit, OffStep, TypeCorrect, PTL DEF Spec

\* No pass and no reset undoes an administrator's off that no pass or reset
\* overlapped.
THEOREM QuietOffCorrect == Spec => []QuietOffSticks
<1>1. OffInv => QuietOffSticks
  BY DEF OffInv, QuietOffSticks, Settled
<1>2. QED
  BY <1>1, OffInit, OffStep, TypeCorrect, PTL DEF Spec

----------------------------------------------------------------------------
(* With one supervisor, last_reset_ym allows one monthly reset per month.   *)

ResetInv ==
  /\ \A u \in Users : resetOn[u] <= today
  /\ \A u \in Users \ present : resetOn[u] = 0
  /\ \A u \in Users :
       resetOn[u] # 0 => row[u].lastYm = Calendar[resetOn[u]].ym
  /\ \A s \in Supervisors : \A u, w \in reviving[s] : u = w
  /\ \A s \in Supervisors : todo[s] # {} => listed[s] \in 1..today
  \* what the running pass read is current until it visits the user
  /\ \A s \in Supervisors : \A u \in todo[s] \ reviving[s] :
       resetOn[u] # 0 =>
         snap[s][u].lastYm = row[u].lastYm /\ resetOn[u] <= listed[s]

KeepsStamps == \A w \in Users : row'[w].lastYm = row[w].lastYm

LEMMA OtherStamps ==
  ASSUME TypeOK, NEW u \in Users, NEW v \in BOOLEAN,
         \/ SetEnabledAuto(u, v) \/ SetEnabled(u, v) \/ ResetUsageManual(u)
         \/ UpdatePackage(u) \/ BookTraffic(u) \/ UNCHANGED row
  PROVE  KeepsStamps
<1>1. row[u] \in Rows /\ row \in [Users -> Rows]
  BY DEF TypeOK
<1>2. CASE SetEnabledAuto(u, v) \/ SetEnabled(u, v)
  <2>1. ASSUME NEW x \in BOOLEAN
        PROVE  [row[u] EXCEPT !.enabled = v, !.auto = x].lastYm = row[u].lastYm
    BY <1>1, Zenon DEF Rows
  <2>2. QED
    BY <1>1, <1>2, <2>1, UpdateEffect DEF SetEnabledAuto, SetEnabled, KeepsStamps
<1>3. CASE ResetUsageManual(u)
  <2>1. [row[u] EXCEPT !.used = 0].lastYm = row[u].lastYm
    BY <1>1, Zenon DEF Rows
  <2>2. QED
    BY <1>1, <1>3, <2>1, UpdateEffect DEF ResetUsageManual, KeepsStamps
<1>4. CASE UpdatePackage(u)
  <2>1. PICK q \in Quotas \cup {row[u].quota},
             d \in ResetDays \cup {row[u].resetDay},
             e \in Expiries \cup {row[u].expire} :
          Update(u, [row[u] EXCEPT !.quota = q, !.resetDay = d, !.expire = e])
    BY <1>4 DEF UpdatePackage
  <2>2. [row[u] EXCEPT !.quota = q, !.resetDay = d, !.expire = e].lastYm
          = row[u].lastYm
    BY <1>1, Zenon DEF Rows
  <2>3. QED
    BY <1>1, <2>1, <2>2, UpdateEffect DEF KeepsStamps
<1>5. CASE BookTraffic(u)
  <2>1. [row[u] EXCEPT !.used = @ + 1].lastYm = row[u].lastYm
    BY <1>1, Zenon DEF Rows
  <2>2. QED
    BY <1>1, <1>5, <2>1, UpdateEffect DEF BookTraffic, KeepsStamps
<1>6. CASE UNCHANGED row
  BY <1>6 DEF KeepsStamps
<1>7. QED
  BY <1>2, <1>3, <1>4, <1>5, <1>6

LEMMA ResetVisit ==
  ASSUME TypeOK, ResetInv, NEW s \in Supervisors, NEW u \in Users,
         Visited(s, u), reviving[s] \subseteq {u}, KeepsStamps,
         UNCHANGED <<today, present, resetOn>>
  PROVE  ResetInv'
<1>1. \A t \in Supervisors : /\ todo'[t] = IF t = s THEN todo[t] \ {u} ELSE todo[t]
                             /\ reviving'[t] = IF t = s THEN {} ELSE reviving[t]
                             /\ listed'[t] = IF t = s /\ todo[s] = {u}
                                               THEN 0 ELSE listed[t]
  BY DEF Visited, TypeOK
<1>2. \A t \in Supervisors, w \in Users :
        w \in todo'[t] => snap'[t][w] = snap[t][w]
  BY DEF Visited, TypeOK
<1>3. \A t \in Supervisors : todo'[t] # {} => listed'[t] \in 1..today
  BY <1>1 DEF ResetInv
<1>4. ASSUME NEW t \in Supervisors, NEW w \in todo'[t] \ reviving'[t],
             resetOn'[w] # 0
      PROVE  snap'[t][w].lastYm = row'[w].lastYm /\ resetOn'[w] <= listed'[t]
  <2>1. w \in Users /\ w \in todo[t] \ reviving[t]
    BY <1>1 DEF TypeOK
  <2>2. listed'[t] = listed[t]
    BY <1>1
  <2>3. QED
    BY <1>2, <1>4, <2>1, <2>2 DEF ResetInv, KeepsStamps
<1>5. /\ \A w \in Users : resetOn'[w] <= today'
      /\ \A w \in Users \ present' : resetOn'[w] = 0
  BY DEF ResetInv
<1>6. \A w \in Users : resetOn'[w] # 0 => row'[w].lastYm = Calendar[resetOn'[w]].ym
  BY DEF ResetInv, KeepsStamps
<1>7. \A t \in Supervisors : \A v, w \in reviving'[t] : v = w
  BY <1>1 DEF ResetInv
<1>8. \A t \in Supervisors : todo'[t] # {} => listed'[t] \in 1..today'
  BY <1>3
<1>9. QED
  BY <1>4, <1>5, <1>6, <1>7, <1>8 DEF ResetInv

LEMMA ResetWrite ==
  ASSUME TypeOK, ResetInv, KeepsStamps, UNCHANGED <<today, present, pass, resetOn>>
  PROVE  ResetInv'
BY DEF TypeOK, ResetInv, KeepsStamps, pass

LEMMA ResetInit == Init => ResetInv
<1> SUFFICES ASSUME Init PROVE ResetInv
  OBVIOUS
<1>1. QED
  BY DEF Init, ResetInv

LEMMA ResetPass ==
  ASSUME TypeOK, ResetInv, \A s, t \in Supervisors : s = t,
         NEW s \in Supervisors, PassStep(s) \/ AbortPass(s)
  PROVE  ResetInv'
<1>1. CASE ListUsers(s)
  <2>1. /\ snap'[s] = row /\ listed'[s] = today /\ reviving' = reviving
        /\ UNCHANGED <<today, present, row, resetOn>>
    BY <1>1 DEF ListUsers, TypeOK, db
  <2>2. today \in 1..today
    BY CalendarType DEF TypeOK
  <2>3. \A u \in todo'[s] : u \in Users
    BY <1>1 DEF ListUsers, TypeOK
  <2>4. QED
    BY <2>1, <2>2, <2>3 DEF ResetInv
<1>2. CASE AbortPass(s)
  <2>1. todo'[s] = {} /\ reviving'[s] = {}
        /\ UNCHANGED <<today, present, row, resetOn>>
    BY <1>2 DEF AbortPass, TypeOK, db
  <2>2. QED
    BY <2>1 DEF ResetInv
<1>3. ASSUME NEW u \in Users,
             \/ DisableExpired(s, u) \/ DisableOverQuota(s, u)
             \/ Revive(s, u) \/ NothingDue(s, u)
      PROVE  ResetInv'
  <2>1. /\ Visited(s, u) /\ UNCHANGED <<today, present, resetOn>>
        /\ \/ SetEnabledAuto(u, FALSE) \/ SetEnabledAuto(u, TRUE)
           \/ UNCHANGED row
    BY <1>3 DEF DisableExpired, DisableOverQuota, Revive, NothingDue, db
  <2>2. KeepsStamps
    BY <2>1, OtherStamps
  <2>3. reviving[s] \subseteq {u}
    BY <1>3 DEF DisableExpired, DisableOverQuota, Revive, NothingDue, At, ResetInv
  <2>4. QED
    BY <2>1, <2>2, <2>3, ResetVisit
<1>4. ASSUME NEW u \in Users, MonthlyReset(s, u)
      PROVE  ResetInv'
  <2> DEFINE r == [row[u] EXCEPT !.used = 0, !.lastYm = Calendar[today].ym]
  <2>1. /\ u \in todo[s] /\ reviving[s] = {} /\ UNCHANGED <<today, present>>
        /\ Update(u, r)
        /\ resetOn' = [resetOn EXCEPT ![u] = IF u \in present THEN today ELSE @]
    BY <1>4 DEF MonthlyReset, At, ResetUsage
  <2>2. r.lastYm = Calendar[today].ym
    <3>1. row[u] \in Rows
      BY DEF TypeOK
    <3>2. QED
      BY <3>1, Zenon DEF Rows
  <2>3. \A w \in Users : row'[w] = IF w = u /\ u \in present THEN r ELSE row[w]
    BY <2>1, UpdateEffect DEF TypeOK
  <2>4. \A w \in Users : resetOn'[w] = IF w = u /\ u \in present
                                          THEN today ELSE resetOn[w]
    BY <2>1 DEF TypeOK
  <2>5. \A w \in Users : resetOn'[w] <= today'
    BY <2>1, <2>4, CalendarType DEF TypeOK, ResetInv
  <2>6. \A w \in Users : resetOn'[w] # 0 =>
          row'[w].lastYm = Calendar[resetOn'[w]].ym
    BY <2>2, <2>3, <2>4 DEF ResetInv
  <2>7. /\ u \notin todo'[s] \ reviving'[s]
        /\ todo'[s] \subseteq todo[s]
        /\ \A w, x \in reviving'[s] : w = x
        /\ todo'[s] # {} => listed'[s] = listed[s]
        /\ \A w \in Users : w \in todo'[s] => snap'[s][w] = snap[s][w]
    <3>1. CASE AutoDisabled(snap[s][u])
      BY <1>4, <2>1, <3>1 DEF MonthlyReset, TypeOK
    <3>2. CASE ~AutoDisabled(snap[s][u])
      BY <1>4, <2>1, <3>2 DEF MonthlyReset, Visited, TypeOK
    <3>3. QED
      BY <3>1, <3>2
  <2>8. ASSUME NEW w \in todo'[s] \ reviving'[s], resetOn'[w] # 0
        PROVE  snap'[s][w].lastYm = row'[w].lastYm /\ resetOn'[w] <= listed'[s]
    <3>1. w \in Users /\ w # u /\ w \in todo[s] \ reviving[s]
      BY <2>1, <2>7 DEF TypeOK
    <3>2. listed'[s] = listed[s] /\ snap'[s][w] = snap[s][w]
      BY <2>7, <2>8, <3>1
    <3>3. row'[w] = row[w] /\ resetOn'[w] = resetOn[w]
      BY <2>3, <2>4, <3>1
    <3>4. QED
      BY <2>8, <3>1, <3>2, <3>3 DEF ResetInv
  <2>9. todo'[s] # {} => listed'[s] \in 1..today'
    BY <2>1, <2>7 DEF ResetInv
  <2>10. \A w \in Users \ present' : resetOn'[w] = 0
    BY <2>1, <2>4 DEF ResetInv
  <2>11. QED
    BY <2>5, <2>6, <2>7, <2>8, <2>9, <2>10 DEF ResetInv
<1>5. QED
  BY <1>1, <1>2, <1>3, <1>4 DEF PassStep

LEMMA ResetOthers ==
  ASSUME TypeOK, ResetInv,
         \/ \E a \in Admins : JobStep(a)
         \/ \E u \in Users : \/ Toggle(u) \/ UpdatePackage(u) \/ AddUser(u)
                             \/ DeleteUser(u) \/ BookTraffic(u)
         \/ NextDay
  PROVE  ResetInv'
<1>1. ASSUME NEW a \in Admins, JobStep(a)
      PROVE  ResetInv'
  <2>1. UNCHANGED <<today, present, pass, resetOn>>
    BY <1>1 DEF JobStep, BeginReset, BeginSet, EndSet, ClearUsage, EndReset,
                AbortJob, db
  <2>2. job[a].user \in Users /\ job[a].val \in BOOLEAN
    BY DEF TypeOK, Jobs
  <2>3. \/ UNCHANGED row
        \/ SetEnabled(job[a].user, job[a].val)
        \/ SetEnabledAuto(job[a].user, TRUE)
        \/ ResetUsageManual(job[a].user)
    BY <1>1 DEF JobStep, BeginReset, BeginSet, EndSet, ClearUsage, EndReset,
                AbortJob, db
  <2>4. KeepsStamps
    BY <2>2, <2>3, OtherStamps
  <2>5. QED
    BY <2>1, <2>4, ResetWrite
<1>2. ASSUME NEW u \in Users, Toggle(u) \/ UpdatePackage(u) \/ BookTraffic(u)
      PROVE  ResetInv'
  <2>1. UNCHANGED <<today, present, pass, resetOn>>
    BY <1>2 DEF Toggle, UpdatePackage, BookTraffic
  <2>2. KeepsStamps
    BY <1>2, OtherStamps DEF Toggle
  <2>3. QED
    BY <2>1, <2>2, ResetWrite
<1>3. ASSUME NEW u \in Users, AddUser(u)
      PROVE  ResetInv'
  <2>1. \A w \in Users : w # u => row'[w] = row[w]
    BY <1>3 DEF AddUser, TypeOK
  <2>2. resetOn[u] = 0
    BY <1>3 DEF AddUser, ResetInv
  <2>3. QED
    BY <1>3, <2>1, <2>2 DEF AddUser, ResetInv, TypeOK, pass
<1>4. ASSUME NEW u \in Users, DeleteUser(u)
      PROVE  ResetInv'
  <2>1. \A w \in Users : w # u => row'[w] = row[w] /\ resetOn'[w] = resetOn[w]
    BY <1>4 DEF DeleteUser, TypeOK
  <2>2. resetOn'[u] = 0 /\ 0 <= today
    BY <1>4, CalendarType DEF DeleteUser, TypeOK
  <2>3. QED
    BY <1>4, <2>1, <2>2 DEF DeleteUser, ResetInv, TypeOK, pass
<1>5. CASE NextDay
  <2>1. today' = today + 1 /\ UNCHANGED <<db, pass, resetOn>>
    BY <1>5 DEF NextDay
  <2>2. today \in Int /\ \A u \in Users : resetOn[u] \in Int
    BY CalendarType DEF TypeOK
  <2>3. QED
    BY <2>1, <2>2 DEF ResetInv, db, pass
<1>6. QED
  BY <1>1, <1>2, <1>3, <1>4, <1>5

\* With a single supervisor nobody is reset twice in a month.
THEOREM ResetOnceCorrect ==
  ASSUME \A s, t \in Supervisors : s = t
  PROVE  Spec => ResetOncePerMonth
<1>1. TypeOK /\ ResetInv /\ [Next]_vars => ResetInv'
  <2> SUFFICES ASSUME TypeOK, ResetInv, [Next]_vars PROVE ResetInv'
    OBVIOUS
  <2>1. CASE UNCHANGED vars
    BY <2>1 DEF vars, ResetInv
  <2>2. QED
    BY <2>1, ResetPass, ResetOthers DEF Next
<1>2. TypeOK /\ ResetInv /\ [Next]_vars =>
        [\A s \in Supervisors, u \in present :
           MonthlyReset(s, u) =>
             \/ resetOn[u] = 0
             \/ Calendar[resetOn[u]].ym # Calendar[today].ym]_vars
  <2> SUFFICES ASSUME TypeOK, ResetInv, NEW s \in Supervisors, NEW u \in present,
                      MonthlyReset(s, u), resetOn[u] # 0
               PROVE  Calendar[resetOn[u]].ym # Calendar[today].ym
    OBVIOUS
  <2>1. u \in Users /\ u \in todo[s] \ reviving[s]
    BY DEF MonthlyReset, At, TypeOK
  <2>2. snap[s][u].lastYm # Calendar[listed[s]].ym
    BY DEF MonthlyReset, ResetDue
  <2>3. snap[s][u].lastYm = Calendar[resetOn[u]].ym
    BY <2>1 DEF ResetInv
  <2>4. /\ resetOn[u] \in 1..LastDate /\ listed[s] \in 1..LastDate
        /\ today \in 1..LastDate
        /\ resetOn[u] <= listed[s] /\ listed[s] <= today
    BY <2>1, CalendarType DEF ResetInv, TypeOK
  <2>5. /\ Calendar[resetOn[u]].ym <= Calendar[listed[s]].ym
        /\ Calendar[listed[s]].ym <= Calendar[today].ym
    BY <2>4, CalendarAssumption
  <2>6. /\ Calendar[resetOn[u]].ym \in Nat /\ Calendar[listed[s]].ym \in Nat
        /\ Calendar[today].ym \in Nat
    BY <2>4, CalendarAssumption
  <2>7. QED
    BY <2>2, <2>3, <2>5, <2>6
<1>3. QED
  BY <1>1, <1>2, ResetInit, TypeCorrect, PTL DEF Spec, ResetOncePerMonth

----------------------------------------------------------------------------
(* Whom the system has disabled there is cause to disable.  The invariant   *)
(* adds what a reset under way knows: one that will not re-enable a user    *)
(* either met him enabled and nothing has disabled him since, or its overlap*)
(* with the disabling is on record.                                         *)

Unaware(u) ==
  \/ \E a \in Admins : job[a] = [op |-> "reset", user |-> u, val |-> FALSE]
  \/ \E p \in Supervisors : /\ u \in todo[p] /\ ResetDue(snap[p][u], listed[p])
                            /\ ~AutoDisabled(snap[p][u])

Cause(u) ==
  row[u].auto => /\ HasCause(u) \/ BeingRevived(u) \/ u \in crossed
                 /\ Unaware(u) => u \in crossed

GoneUnmarked == \A u \in Users : u \notin present => ~row[u].auto
OneRevival == \A s \in Supervisors : \A u, w \in reviving[s] : u = w
CauseInv == GoneUnmarked /\ OneRevival /\ \A u \in Users : Cause(u)

\* A step that marks nobody new and forgets no excuse keeps the cause.
LEMMA CauseStays ==
  ASSUME NEW w \in Users, Cause(w),
         row'[w].auto => row[w].auto /\ (HasCause(w) => HasCause(w)'),
         BeingRevived(w) => BeingRevived(w)' \/ w \in crossed',
         w \in crossed => w \in crossed',
         Unaware(w)' => Unaware(w)
  PROVE  Cause(w)'
BY DEF Cause

\* Switching leaves the package and the usage of everybody alone.
LEMMA SwitchKeeps ==
  ASSUME TypeOK, NEW u \in Users, NEW v \in BOOLEAN,
         SetEnabledAuto(u, v) \/ SetEnabled(u, v), NEW w \in Users
  PROVE  /\ row'[w].quota = row[w].quota /\ row'[w].expire = row[w].expire
         /\ row'[w].used = row[w].used
<1>1. row[u] \in Rows /\ row \in [Users -> Rows]
  BY DEF TypeOK
<1>2. ASSUME NEW x \in BOOLEAN
      PROVE  LET r == [row[u] EXCEPT !.enabled = v, !.auto = x]
             IN  /\ r.quota = row[u].quota /\ r.expire = row[u].expire
                 /\ r.used = row[u].used
  BY <1>1, Zenon DEF Rows
<1>3. PICK x \in BOOLEAN : Update(u, [row[u] EXCEPT !.enabled = v, !.auto = x])
  BY DEF SetEnabledAuto, SetEnabled
<1>4. row'[w] = IF w = u /\ u \in present
                  THEN [row[u] EXCEPT !.enabled = v, !.auto = x] ELSE row[w]
  BY <1>1, <1>3, UpdateEffect
<1>5. QED
  BY <1>2, <1>4

\* Booked traffic takes nobody's cause away.
LEMMA TrafficKeeps ==
  ASSUME TypeOK, NEW u \in Users, BookTraffic(u), NEW w \in Users
  PROVE  row'[w].auto = row[w].auto /\ (HasCause(w) => HasCause(w)')
<1>1. row[u] \in Rows /\ row \in [Users -> Rows] /\ row[w].used \in Nat /\ row[w].quota \in Nat
  BY FieldTypes DEF TypeOK
<1>2. LET r == [row[u] EXCEPT !.used = @ + 1]
      IN  /\ r.quota = row[u].quota /\ r.expire = row[u].expire
          /\ r.used = row[u].used + 1 /\ r.auto = row[u].auto
  BY <1>1, Zenon DEF Rows
<1>3. /\ row'[w] = IF w = u /\ u \in present THEN [row[u] EXCEPT !.used = @ + 1] ELSE row[w]
      /\ today' = today
  BY <1>1, UpdateEffect DEF BookTraffic
<1>4. CASE w = u /\ u \in present
  BY <1>1, <1>2, <1>3, <1>4 DEF HasCause, IsOverQuota, IsExpired
<1>5. CASE ~(w = u /\ u \in present)
  BY <1>1, <1>3, <1>5 DEF HasCause, IsOverQuota, IsExpired
<1>6. QED
  BY <1>4, <1>5

\* The end of the loop body for u: only u may lose an unaware reset or a
\* revival.
LEMMA VisitKeeps ==
  ASSUME TypeOK, NEW s \in Supervisors, NEW u \in Users, Visited(s, u),
         reviving[s] \subseteq {u}, UNCHANGED job, NEW w \in Users
  PROVE  /\ Unaware(w)' => Unaware(w)
         /\ w # u => (BeingRevived(w) => BeingRevived(w)')
         /\ Unaware(u)' => ResetUnaware(s, u)
<1>1. \A p \in Supervisors : w \in todo'[p] =>
        /\ w \in todo[p] /\ snap'[p][w] = snap[p][w] /\ listed'[p] = listed[p]
  BY DEF Visited, TypeOK
<1>2. \A p \in Supervisors : u \in todo'[p] =>
        /\ p # s /\ u \in todo[p] /\ snap'[p][u] = snap[p][u] /\ listed'[p] = listed[p]
  BY DEF Visited, TypeOK
<1>3. \A p \in Supervisors : w # u /\ w \in reviving[p] => w \in reviving'[p]
  BY DEF Visited, TypeOK
<1>4. Unaware(w)' => Unaware(w)
  BY <1>1 DEF Unaware
<1>5. w # u => (BeingRevived(w) => BeingRevived(w)')
  BY <1>3 DEF BeingRevived
<1>6. Unaware(u)' => ResetUnaware(s, u)
  BY <1>2 DEF Unaware, ResetUnaware
<1>7. QED
  BY <1>4, <1>5, <1>6

LEMMA CauseInit == Init => CauseInv
<1> SUFFICES ASSUME Init PROVE CauseInv
  OBVIOUS
<1>1. ASSUME NEW u \in Users
      PROVE  ~row[u].auto
  <2>1. PICK q \in Quotas, d \in ResetDays, e \in Expiries : row[u] = NewRow(q, d, e)
    BY DEF Init
  <2>2. QED
    BY <2>1 DEF NewRow
<1>2. QED
  BY <1>1 DEF Init, CauseInv, GoneUnmarked, OneRevival, Cause

LEMMA CausePass ==
  ASSUME TypeOK, TypeOK', CauseInv, AutoImpliesDisabled,
         NEW s \in Supervisors, PassStep(s) \/ AbortPass(s)
  PROVE  CauseInv'
<1>0. UNCHANGED <<present, job>>
  BY DEF PassStep, AbortPass, ListUsers, DisableExpired, MonthlyReset, Revive,
         DisableOverQuota, NothingDue, db
<1>1. CASE ListUsers(s)
  <2>1. UNCHANGED <<row, today, reviving, crossed>>
    BY <1>1 DEF ListUsers, db
  <2>2. ASSUME NEW w \in Users, row[w].auto, Unaware(w)'
        PROVE  Unaware(w)
    <3>1. CASE \E a \in Admins : job[a] = [op |-> "reset", user |-> w, val |-> FALSE]
      BY <3>1 DEF Unaware
    <3>2. CASE \E p \in Supervisors : /\ w \in todo'[p] /\ ResetDue(snap'[p][w], listed'[p])
                                      /\ ~AutoDisabled(snap'[p][w])
      <4>1. PICK p \in Supervisors : /\ w \in todo'[p] /\ ResetDue(snap'[p][w], listed'[p])
                                     /\ ~AutoDisabled(snap'[p][w])
        BY <3>2
      <4>2. p # s
        BY <1>1, <2>2, <4>1 DEF ListUsers, TypeOK, AutoImpliesDisabled, AutoDisabled
      <4>3. todo'[p] = todo[p] /\ snap'[p] = snap[p] /\ listed'[p] = listed[p]
        BY <1>1, <4>2 DEF ListUsers, TypeOK
      <4>4. QED
        BY <4>1, <4>3 DEF Unaware
    <3>3. QED
      BY <1>0, <2>2, <3>1, <3>2 DEF Unaware
  <2>3. ASSUME NEW w \in Users
        PROVE  Cause(w)'
    BY <1>0, <2>1, <2>2 DEF CauseInv, Cause, HasCause, BeingRevived
  <2>4. QED
    BY <1>0, <2>1, <2>3 DEF CauseInv, GoneUnmarked, OneRevival
<1>2. CASE AbortPass(s)
  <2>1. UNCHANGED <<row, today>> /\ crossed' = crossed \cup reviving[s]
    BY <1>2 DEF AbortPass, db
  <2>2. /\ todo'[s] = {} /\ reviving'[s] = {}
        /\ \A p \in Supervisors : p # s =>
             /\ todo'[p] = todo[p] /\ snap'[p] = snap[p] /\ listed'[p] = listed[p]
             /\ reviving'[p] = reviving[p]
    BY <1>2 DEF AbortPass, TypeOK
  <2>3. ASSUME NEW w \in Users
        PROVE  Cause(w)'
    <3>1. Unaware(w)' => Unaware(w)
      BY <1>0, <2>2 DEF Unaware
    <3>2. BeingRevived(w) => BeingRevived(w)' \/ w \in crossed'
      BY <1>0, <2>1, <2>2 DEF BeingRevived
    <3>3. HasCause(w) => HasCause(w)'
      BY <2>1 DEF HasCause
    <3>4. Cause(w)
      BY DEF CauseInv
    <3>5. QED
      BY <2>1, <3>1, <3>2, <3>3, <3>4, CauseStays
  <2>4. OneRevival'
    BY <2>2 DEF CauseInv, OneRevival
  <2>5. QED
    BY <1>0, <2>1, <2>3, <2>4 DEF CauseInv, GoneUnmarked
<1>3. ASSUME NEW u \in Users, DisableExpired(s, u) \/ DisableOverQuota(s, u)
      PROVE  CauseInv'
  <2>1. /\ SetEnabledAuto(u, FALSE) /\ Visited(s, u) /\ RecordDisable(s, u)
        /\ reviving[s] = {} /\ today' = today
        /\ IsExpired(snap[s][u], today) \/ IsOverQuota(snap[s][u])
    BY <1>3 DEF DisableExpired, DisableOverQuota, At, ExpiryApplies
  <2>2. OneRevival'
    BY <2>1 DEF CauseInv, OneRevival, Visited, TypeOK
  <2>3. \A w \in Users : w # u \/ u \notin present => row'[w] = row[w]
    BY <2>1, UpdateEffect DEF SetEnabledAuto, TypeOK
  <2>4. GoneUnmarked'
    BY <1>0, <2>3 DEF CauseInv, GoneUnmarked
  <2>5. ASSUME NEW w \in Users, w # u
        PROVE  Cause(w)'
    <3>1. /\ Unaware(w)' => Unaware(w)
          /\ BeingRevived(w) => BeingRevived(w)'
      BY <1>0, <2>1, <2>5, VisitKeeps
    <3>2. /\ row'[w] = row[w]
          /\ HasCause(w) => HasCause(w)'
          /\ w \in crossed => w \in crossed'
      BY <2>1, <2>3, <2>5 DEF HasCause, RecordDisable
    <3>3. Cause(w)
      BY DEF CauseInv
    <3>4. QED
      BY <3>1, <3>2, <3>3, CauseStays
  <2>6. Cause(u)'
    <3>1. CASE u \notin present
      BY <2>3, <3>1 DEF CauseInv, GoneUnmarked, Cause
    <3>2. CASE Outdated(s, u) \/ ResetUnaware(s, u)
      BY <2>1, <3>2 DEF RecordDisable, Cause
    <3>3. CASE ~Outdated(s, u) /\ ~ResetUnaware(s, u)
      <4>1. ~Unaware(u)'
        BY <1>0, <2>1, <3>3, VisitKeeps
      <4>2. /\ row'[u].quota = row[u].quota /\ row'[u].expire = row[u].expire
            /\ row'[u].used = row[u].used
        BY <2>1, SwitchKeeps
      <4>3. /\ row[u].used \in Nat /\ snap[s][u].used \in Nat
            /\ row[u].quota \in Nat
        BY FieldTypes DEF TypeOK
      <4>4. /\ row[u].quota = snap[s][u].quota /\ row[u].expire = snap[s][u].expire
            /\ row[u].used >= snap[s][u].used
        BY <3>3, <4>3 DEF Outdated
      <4>5. HasCause(u)'
        BY <2>1, <4>2, <4>3, <4>4 DEF HasCause, IsOverQuota, IsExpired
      <4>6. QED
        BY <4>1, <4>5 DEF Cause
    <3>4. QED
      BY <3>1, <3>2, <3>3
  <2>7. QED
    BY <2>2, <2>4, <2>5, <2>6 DEF CauseInv
<1>4. ASSUME NEW u \in Users, Revive(s, u)
      PROVE  CauseInv'
  <2>1. /\ SetEnabledAuto(u, TRUE) /\ Visited(s, u) /\ u \in reviving[s]
        /\ today' = today /\ crossed' = crossed
    BY <1>4 DEF Revive
  <2>2. reviving[s] \subseteq {u}
    BY <2>1 DEF CauseInv, OneRevival
  <2>3. OneRevival'
    BY <2>1 DEF CauseInv, OneRevival, Visited, TypeOK
  <2>4. \A w \in Users : IF w = u /\ u \in present THEN ~row'[w].auto ELSE row'[w] = row[w]
    BY <2>1, SwitchEffect
  <2>5. GoneUnmarked'
    BY <1>0, <2>4 DEF CauseInv, GoneUnmarked
  <2>6. ASSUME NEW w \in Users
        PROVE  Cause(w)'
    <3>1. CASE w = u
      BY <2>4, <3>1 DEF CauseInv, GoneUnmarked, Cause
    <3>2. CASE w # u
      <4>1. /\ Unaware(w)' => Unaware(w)
            /\ BeingRevived(w) => BeingRevived(w)'
        BY <1>0, <2>1, <2>2, <3>2, VisitKeeps
      <4>2. row'[w] = row[w] /\ (HasCause(w) => HasCause(w)')
        BY <2>1, <2>4, <3>2 DEF HasCause
      <4>3. Cause(w)
        BY DEF CauseInv
      <4>4. QED
        BY <2>1, <4>1, <4>2, <4>3, CauseStays
    <3>3. QED
      BY <3>1, <3>2
  <2>7. QED
    BY <2>3, <2>5, <2>6 DEF CauseInv
<1>5. ASSUME NEW u \in Users, NothingDue(s, u)
      PROVE  CauseInv'
  <2>1. /\ Visited(s, u) /\ reviving[s] = {} /\ UNCHANGED <<today, row, crossed>>
    BY <1>5 DEF NothingDue, At, db
  <2>2. OneRevival'
    BY <2>1 DEF CauseInv, OneRevival, Visited, TypeOK
  <2>3. ASSUME NEW w \in Users
        PROVE  Cause(w)'
    <3>1. Unaware(w)' => Unaware(w)
      BY <1>0, <2>1, VisitKeeps
    <3>2. \A p \in Supervisors : reviving'[p] = reviving[p]
      BY <2>1 DEF Visited, TypeOK
    <3>3. BeingRevived(w) => BeingRevived(w)'
      BY <1>0, <3>2 DEF BeingRevived
    <3>4. Cause(w) /\ (HasCause(w) => HasCause(w)')
      BY <2>1 DEF CauseInv, HasCause
    <3>5. QED
      BY <2>1, <3>1, <3>3, <3>4, CauseStays
  <2>4. QED
    BY <1>0, <2>1, <2>2, <2>3 DEF CauseInv, GoneUnmarked
<1>6. ASSUME NEW u \in Users, MonthlyReset(s, u)
      PROVE  CauseInv'
  <2>1. /\ ResetUsage(u) /\ u \in todo[s] /\ reviving[s] = {} /\ ResetDue(snap[s][u], listed[s])
        /\ UNCHANGED <<today, crossed>>
    BY <1>6 DEF MonthlyReset, At
  <2>2. /\ \A w \in Users : w # u => row'[w] = row[w]
        /\ \A w \in Users : row'[w].auto = row[w].auto
    BY <2>1, OtherWrites, UpdateEffect DEF ResetUsage, KeepsColumns, TypeOK
  <2>3. GoneUnmarked'
    BY <1>0, <2>2 DEF CauseInv, GoneUnmarked
  <2>4. CASE AutoDisabled(snap[s][u])
    <3>1. /\ UNCHANGED <<todo, snap, listed>>
          /\ reviving' = [reviving EXCEPT ![s] = {u}]
      BY <1>6, <2>4 DEF MonthlyReset
    <3>2. OneRevival'
      BY <3>1 DEF CauseInv, OneRevival, TypeOK
    <3>3. \A p \in Supervisors : reviving[p] \subseteq reviving'[p]
      BY <2>1, <3>1 DEF TypeOK
    <3>4. u \in reviving'[s]
      BY <3>1 DEF TypeOK
    <3>5. ASSUME NEW w \in Users
          PROVE  Cause(w)'
      <4>1. Unaware(w)' => Unaware(w)
        BY <1>0, <3>1 DEF Unaware
      <4>2. Cause(w)
        BY DEF CauseInv
      <4>3. CASE w = u
        <5>1. BeingRevived(u)'
          BY <3>4 DEF BeingRevived
        <5>2. QED
          BY <2>1, <2>2, <4>1, <4>2, <4>3, <5>1 DEF Cause
      <4>4. CASE w # u
        <5>1. BeingRevived(w) => BeingRevived(w)'
          BY <1>0, <3>3 DEF BeingRevived
        <5>2. HasCause(w) => HasCause(w)'
          BY <2>1, <2>2, <4>4 DEF HasCause
        <5>3. QED
          BY <2>1, <2>2, <4>1, <4>2, <5>1, <5>2, CauseStays
      <4>5. QED
        BY <4>3, <4>4
    <3>6. QED
      BY <2>3, <3>2, <3>5 DEF CauseInv
  <2>5. CASE ~AutoDisabled(snap[s][u])
    <3>1. Visited(s, u)
      BY <1>6, <2>5 DEF MonthlyReset
    <3>2. OneRevival'
      BY <3>1 DEF CauseInv, OneRevival, Visited, TypeOK
    <3>3. ASSUME NEW w \in Users
          PROVE  Cause(w)'
      <4>1. /\ Unaware(w)' => Unaware(w)
            /\ w # u => (BeingRevived(w) => BeingRevived(w)')
        BY <1>0, <2>1, <3>1, VisitKeeps
      <4>2. Cause(w)
        BY DEF CauseInv
      <4>3. CASE w = u
        <5>1. Unaware(u)
          BY <2>1, <2>5 DEF Unaware
        <5>2. QED
          BY <2>1, <2>2, <4>2, <4>3, <5>1 DEF Cause
      <4>4. CASE w # u
        <5>1. HasCause(w) => HasCause(w)'
          BY <2>1, <2>2, <4>4 DEF HasCause
        <5>2. QED
          BY <2>1, <2>2, <4>1, <4>2, <4>4, <5>1, CauseStays
      <4>5. QED
        BY <4>3, <4>4
    <3>4. QED
      BY <2>3, <3>2, <3>3 DEF CauseInv
  <2>6. QED
    BY <2>4, <2>5
<1>7. QED
  BY <1>1, <1>2, <1>3, <1>4, <1>5, <1>6 DEF PassStep

LEMMA CauseOthers ==
  ASSUME TypeOK, TypeOK', CauseInv, AutoImpliesDisabled,
         \/ \E a \in Admins : JobStep(a)
         \/ \E u \in Users : \/ Toggle(u) \/ UpdatePackage(u) \/ AddUser(u)
                             \/ DeleteUser(u) \/ BookTraffic(u)
         \/ NextDay
  PROVE  CauseInv'
<1>0. UNCHANGED <<todo, snap, listed, reviving>>
  BY DEF JobStep, BeginReset, BeginSet, EndSet, ClearUsage, EndReset, AbortJob,
         Toggle, UpdatePackage, AddUser, DeleteUser, BookTraffic, NextDay, pass
<1>1. OneRevival'
  BY <1>0 DEF CauseInv, OneRevival
<1> DEFINE Revives(j, w) == j.op = "revive" /\ j.user = w
           Blind(w) == [op |-> "reset", user |-> w, val |-> FALSE]
<1>2. \A w \in Users :
        /\ Cause(w)
        /\ (\A b \in Admins : job'[b] = Blind(w) => job[b] = Blind(w))
             => (Unaware(w)' => Unaware(w))
        /\ (\A b \in Admins : Revives(job[b], w) => Revives(job'[b], w))
             => (BeingRevived(w) => BeingRevived(w)')
  BY <1>0 DEF CauseInv, Unaware, BeingRevived
<1>3. \A w \in Users, b \in Admins : job'[b].op # "reset" => job'[b] # Blind(w)
  OBVIOUS
<1>4. ASSUME NEW a \in Admins, JobStep(a)
      PROVE  CauseInv'
  <2>0. \A b \in Admins : b # a => job'[b] = job[b]
    BY <1>4 DEF JobStep, BeginReset, BeginSet, EndSet, ClearUsage, EndReset, AbortJob, TypeOK
  <2>1. UNCHANGED <<present, today>>
    BY <1>4 DEF JobStep, BeginReset, BeginSet, EndSet, ClearUsage, EndReset, AbortJob, db
  <2>2. ASSUME NEW u \in Users, BeginReset(a, u)
        PROVE  CauseInv'
    <3>1. /\ Idle(a) /\ UNCHANGED <<row, crossed>>
          /\ job'[a] = [op |-> "reset", user |-> u, val |-> AutoDisabled(row[u])]
      BY <2>2 DEF BeginReset, db, TypeOK
    <3>2. ASSUME NEW w \in Users
          PROVE  Cause(w)'
      <4>1. BeingRevived(w) => BeingRevived(w)'
        BY <1>2, <2>0, <3>1 DEF Idle
      <4>2. row[w].auto => (Unaware(w)' => Unaware(w))
        <5> SUFFICES ASSUME row[w].auto PROVE Unaware(w)' => Unaware(w)
          OBVIOUS
        <5>1. job'[a] # Blind(w)
          <6>1. w = u => AutoDisabled(row[u])
            BY DEF AutoImpliesDisabled, AutoDisabled
          <6>2. QED
            BY <3>1, <6>1
        <5>2. QED
          BY <1>2, <2>0, <5>1
      <4>3. HasCause(w) => HasCause(w)'
        BY <2>1, <3>1 DEF HasCause
      <4>4. QED
        BY <1>2, <3>1, <4>1, <4>2, <4>3 DEF Cause
    <3>3. QED
      BY <1>1, <2>1, <3>1, <3>2 DEF CauseInv, GoneUnmarked
  <2>3. ASSUME NEW u \in Users, NEW v \in BOOLEAN, BeginSet(a, u, v)
        PROVE  CauseInv'
    <3>1. /\ Idle(a) /\ UNCHANGED <<row, crossed>>
          /\ job'[a].op \in {"set", "none"}
      BY <2>3 DEF BeginSet, db, TypeOK, Idle
    <3>2. ASSUME NEW w \in Users
          PROVE  Cause(w)'
      <4>1. /\ BeingRevived(w) => BeingRevived(w)'
            /\ Unaware(w)' => Unaware(w)
        BY <1>2, <1>3, <2>0, <3>1 DEF Idle
      <4>2. HasCause(w) => HasCause(w)'
        BY <2>1, <3>1 DEF HasCause
      <4>3. QED
        BY <1>2, <3>1, <4>1, <4>2, CauseStays
    <3>3. QED
      BY <1>1, <2>1, <3>1, <3>2 DEF CauseInv, GoneUnmarked
  <2>4. CASE EndSet(a) \/ EndReset(a)
    <3>1. /\ job[a].user \in Users /\ job[a].val \in BOOLEAN /\ crossed' = crossed
          /\ job'[a].op = "none" /\ job[a].op \in {"set", "revive"}
      BY <2>4, NoJobType DEF EndSet, EndReset, TypeOK, Jobs, NoJob
    <3>2. \A w \in Users : IF w = job[a].user /\ w \in present
                           THEN ~row'[w].auto ELSE row'[w] = row[w]
      BY <2>4, <3>1, SwitchEffect DEF EndSet, EndReset
    <3>3. GoneUnmarked'
      BY <2>1, <3>2 DEF CauseInv, GoneUnmarked
    <3>4. ASSUME NEW w \in Users
          PROVE  Cause(w)'
      <4>1. CASE w = job[a].user
        BY <3>2, <4>1 DEF CauseInv, GoneUnmarked, Cause
      <4>2. CASE w # job[a].user
        <5>1. /\ BeingRevived(w) => BeingRevived(w)'
              /\ Unaware(w)' => Unaware(w)
          BY <1>2, <1>3, <2>0, <3>1, <4>2
        <5>2. row'[w] = row[w] /\ (HasCause(w) => HasCause(w)')
          BY <2>1, <3>2, <4>2 DEF HasCause
        <5>3. QED
          BY <1>2, <3>1, <5>1, <5>2, CauseStays
      <4>3. QED
        BY <4>1, <4>2
    <3>5. QED
      BY <1>1, <3>3, <3>4 DEF CauseInv
  <2>5. CASE ClearUsage(a)
    <3>0. DEFINE u == job[a].user
    <3>1. /\ u \in Users /\ job[a].val \in BOOLEAN /\ crossed' = crossed
          /\ job[a].op = "reset" /\ ResetUsageManual(u)
          /\ job[a] = [op |-> "reset", user |-> u, val |-> job[a].val]
      BY <2>5 DEF ClearUsage, TypeOK, Jobs
    <3>2. /\ job[a].val => Revives(job'[a], u)
          /\ job'[a].op # "reset"
      BY <2>5, <3>1 DEF ClearUsage, TypeOK, NoJob, Jobs
    <3>3. \A w \in Users : row'[w].auto = row[w].auto /\ (w # u => row'[w] = row[w])
      BY <3>1, OtherWrites, UpdateEffect DEF KeepsColumns, ResetUsageManual, TypeOK
    <3>4. GoneUnmarked'
      BY <2>1, <3>3 DEF CauseInv, GoneUnmarked
    <3>5. ASSUME NEW w \in Users
          PROVE  Cause(w)'
      <4>1. /\ BeingRevived(w) => BeingRevived(w)'
            /\ Unaware(w)' => Unaware(w)
        BY <1>2, <1>3, <2>0, <3>1, <3>2
      <4>2. CASE w # u
        <5>1. HasCause(w) => HasCause(w)'
          BY <2>1, <3>3, <4>2 DEF HasCause
        <5>2. QED
          BY <1>2, <3>1, <3>3, <4>1, <5>1, CauseStays
      <4>3. CASE w = u
        <5>1. CASE job[a].val
          <6>1. BeingRevived(w)'
            BY <3>2, <4>3, <5>1 DEF BeingRevived
          <6>2. QED
            BY <1>2, <3>1, <3>3, <4>1, <6>1 DEF Cause
        <5>2. CASE ~job[a].val
          <6>1. Unaware(w)
            BY <3>1, <4>3, <5>2 DEF Unaware
          <6>2. QED
            BY <1>2, <3>1, <3>3, <6>1 DEF Cause
        <5>3. QED
          BY <3>1, <5>1, <5>2
      <4>4. QED
        BY <4>2, <4>3
    <3>6. QED
      BY <1>1, <3>4, <3>5 DEF CauseInv
  <2>6. CASE AbortJob(a)
    <3>1. /\ UNCHANGED row /\ job'[a].op = "none"
          /\ crossed' = IF job[a].op = "revive" THEN crossed \cup {job[a].user} ELSE crossed
      BY <2>6 DEF AbortJob, db, TypeOK, NoJob
    <3>2. ASSUME NEW w \in Users
          PROVE  Cause(w)'
      <4>1. BeingRevived(w) => BeingRevived(w)' \/ w \in crossed'
        BY <1>2, <2>0, <3>1
      <4>2. Unaware(w)' => Unaware(w)
        BY <1>2, <1>3, <2>0, <3>1
      <4>3. HasCause(w) => HasCause(w)'
        BY <2>1, <3>1 DEF HasCause
      <4>4. QED
        BY <1>2, <3>1, <4>1, <4>2, <4>3, CauseStays
    <3>3. QED
      BY <1>1, <2>1, <3>1, <3>2 DEF CauseInv, GoneUnmarked
  <2>7. QED
    BY <1>4, <2>2, <2>3, <2>4, <2>5, <2>6 DEF JobStep
<1>5. ASSUME job' = job,
             \A w \in Users : /\ row'[w].auto => row[w].auto
                              /\ row[w].auto /\ row'[w].auto /\ HasCause(w)
                                   => HasCause(w)' \/ w \in crossed'
                              /\ row'[w].auto /\ w \in crossed => w \in crossed'
                              /\ w \in present \/ ~row'[w].auto
      PROVE  \A w \in Users : Cause(w)'
  <2> SUFFICES ASSUME NEW w \in Users PROVE Cause(w)'
    OBVIOUS
  <2>1. /\ BeingRevived(w) => BeingRevived(w)'
        /\ Unaware(w)' => Unaware(w)
    BY <1>2, <1>5
  <2>2. QED
    BY <1>2, <1>5, <2>1 DEF Cause
<1>6. ASSUME NEW u \in Users, Toggle(u)
      PROVE  CauseInv'
  <2>0. (~row[u].enabled) \in BOOLEAN
    OBVIOUS
  <2>1. SetEnabled(u, ~row[u].enabled) /\ UNCHANGED <<present, job, crossed, today>>
    BY <1>6 DEF Toggle
  <2>2. \A w \in Users : IF w = u /\ u \in present THEN ~row'[w].auto ELSE row'[w] = row[w]
    BY <2>0, <2>1, SwitchEffect
  <2>3. \A w \in Users : w \notin present => ~row'[w].auto
    BY <2>2 DEF CauseInv, GoneUnmarked
  <2>4. \A w \in Users : row'[w].auto /\ HasCause(w) => HasCause(w)'
    BY <2>1, <2>2 DEF HasCause
  <2>5. QED
    BY <1>1, <1>5, <2>1, <2>2, <2>3, <2>4 DEF CauseInv, GoneUnmarked
<1>7. ASSUME NEW u \in Users, UpdatePackage(u)
      PROVE  CauseInv'
  <2>1. /\ UNCHANGED <<present, job, today>> /\ KeepsColumns
        /\ crossed' = IF row[u].auto THEN crossed \cup {u} ELSE crossed
    BY <1>7, OtherWrites DEF UpdatePackage
  <2>2. \A w \in Users : w # u => row'[w] = row[w]
    BY <1>7, UpdateEffect DEF UpdatePackage, TypeOK
  <2>3. \A w \in Users : w \notin present => ~row'[w].auto
    BY <2>1 DEF CauseInv, GoneUnmarked, KeepsColumns
  <2>4. \A w \in Users : row[w].auto /\ HasCause(w) => HasCause(w)' \/ w \in crossed'
    BY <2>1, <2>2 DEF HasCause
  <2>5. QED
    BY <1>1, <1>5, <2>1, <2>3, <2>4 DEF CauseInv, GoneUnmarked, KeepsColumns
<1>8. ASSUME NEW u \in Users, AddUser(u)
      PROVE  CauseInv'
  <2>1. /\ UNCHANGED <<job, today, crossed>> /\ u \notin present
        /\ present' = present \cup {u}
        /\ ~row'[u].auto /\ \A w \in Users : w # u => row'[w] = row[w]
    BY <1>8 DEF AddUser, NewRow, TypeOK
  <2>2. \A w \in Users : row'[w].auto /\ HasCause(w) => HasCause(w)'
    BY <2>1 DEF HasCause
  <2>3. \A w \in Users : w \notin present => ~row'[w].auto
    BY <2>1 DEF CauseInv, GoneUnmarked
  <2>4. QED
    BY <1>1, <1>5, <2>1, <2>2, <2>3 DEF CauseInv, GoneUnmarked
<1>9. ASSUME NEW u \in Users, DeleteUser(u)
      PROVE  CauseInv'
  <2>1. /\ UNCHANGED <<job, today>> /\ crossed' = crossed \ {u}
        /\ present' = present \ {u}
        /\ ~row'[u].auto /\ \A w \in Users : w # u => row'[w] = row[w]
    BY <1>9 DEF DeleteUser, NoRow, NewRow, TypeOK
  <2>2. \A w \in Users : row'[w].auto /\ HasCause(w) => HasCause(w)'
    BY <2>1 DEF HasCause
  <2>3. \A w \in Users : w \notin present => ~row'[w].auto
    BY <2>1 DEF CauseInv, GoneUnmarked
  <2>4. \A w \in Users : w \notin present' => ~row'[w].auto
    BY <2>1, <2>3
  <2>5. \A w \in Users : row'[w].auto => row[w].auto /\ (w \in crossed => w \in crossed')
    BY <2>1
  <2>6. QED
    BY <1>1, <1>5, <2>1, <2>2, <2>3, <2>4, <2>5 DEF CauseInv, GoneUnmarked
<1>10. ASSUME NEW u \in Users, BookTraffic(u)
      PROVE  CauseInv'
  <2>1. UNCHANGED <<job, present, crossed>>
    BY <1>10 DEF BookTraffic
  <2>2. \A w \in Users : row'[w].auto = row[w].auto /\ (HasCause(w) => HasCause(w)')
    BY <1>10, TrafficKeeps
  <2>3. \A w \in Users : w \notin present => ~row'[w].auto
    BY <2>2 DEF CauseInv, GoneUnmarked
  <2>4. QED
    BY <1>1, <1>5, <2>1, <2>2, <2>3 DEF CauseInv, GoneUnmarked
<1>11. CASE NextDay
  <2>1. UNCHANGED <<job, present, row, crossed>> /\ today' = today + 1 /\ today \in Int
    BY <1>11, CalendarType DEF NextDay, db, TypeOK
  <2>2. \A w \in Users : HasCause(w) => HasCause(w)'
    <3>1. \A w \in Users : row[w].expire \in Nat
      BY FieldTypes DEF TypeOK
    <3>2. QED
      BY <2>1, <3>1 DEF HasCause, IsOverQuota, IsExpired
  <2>3. QED
    BY <1>1, <1>5, <2>1, <2>2 DEF CauseInv, GoneUnmarked
<1>12. QED
  BY <1>4, <1>6, <1>7, <1>8, <1>9, <1>10, <1>11

\* Whatever passes, commands and faults come together, nobody is kept out
\* without cause, unless his disabling crossed a reset or an edit, his package
\* was edited while he was disabled, or a reset was broken off half-way: for
\* any number of supervisors and administrators and all their commands.
THEOREM DisabledForCauseCorrect == Spec => []DisabledForCause
<1>1. TypeOK /\ TypeOK' /\ CauseInv /\ AutoImpliesDisabled /\ [Next]_vars => CauseInv'
  <2> SUFFICES ASSUME TypeOK, TypeOK', CauseInv, AutoImpliesDisabled, [Next]_vars
               PROVE  CauseInv'
    OBVIOUS
  <2>1. CASE UNCHANGED vars
    BY <2>1 DEF vars, CauseInv, GoneUnmarked, OneRevival, Cause, HasCause,
                BeingRevived, Unaware
  <2>2. QED
    BY <2>1, CausePass, CauseOthers DEF Next
<1>2. CauseInv => DisabledForCause
  BY DEF CauseInv, Cause, DisabledForCause
<1>3. QED
  BY <1>1, <1>2, CauseInit, TypeCorrect, MarkCorrect, PTL DEF Spec
============================================================================
