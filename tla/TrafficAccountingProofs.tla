----------------------- MODULE TrafficAccountingProofs -----------------------
(***************************************************************************)
(* Proofs about TrafficAccounting for any users, directions, bounds and    *)
(* any number of restarts.  The bill is bounded by the traffic when one    *)
(* process flushes at a time; TrafficAccounting_double.cfg shows why the   *)
(* assumption is there.                                                    *)
(***************************************************************************)
EXTENDS TrafficAccounting, TLAPS

----------------------------------------------------------------------------
(* What calc_delta does, for all counters.                                 *)

\* The difference is a natural number and never above the counter.
LEMMA DeltaBounds ==
  ASSUME NEW c \in Nat, NEW p \in Nat
  PROVE  CalcDelta(c, p) \in Nat /\ CalcDelta(c, p) <= c
BY DEF CalcDelta

\* One more byte is worth at most one more byte.
LEMMA DeltaStep ==
  ASSUME NEW c \in Nat, NEW p \in Nat
  PROVE  CalcDelta(c + 1, p) <= CalcDelta(c, p) + 1
BY DEF CalcDelta

\* A counter that has grown from s to c is worth no more than s was, plus the
\* growth: a flush that is given up loses nothing and invents nothing.
LEMMA DeltaGrowth ==
  ASSUME NEW s \in Nat, NEW c \in Nat, NEW p \in Nat, s <= c
  PROVE  CalcDelta(c, p) <= CalcDelta(s, p) + (c - s)
BY DEF CalcDelta

\* Once s is the stored value, only the growth since s is left.
LEMMA DeltaAfterStore ==
  ASSUME NEW s \in Nat, NEW c \in Nat, s <= c
  PROVE  CalcDelta(c, s) = c - s
BY DEF CalcDelta

----------------------------------------------------------------------------
(* Type correctness.                                                       *)

\* Every variable keeps its shape in every behaviour of the accounting.
LEMMA InitType == Init => TypeOK
BY DEF Init, TypeOK, Zero, NoSnap

LEMMA StepType == TypeOK /\ [Next]_vars => TypeOK'
<1> SUFFICES ASSUME TypeOK, [Next]_vars PROVE TypeOK'
  OBVIOUS
<1> USE DEF TypeOK
<1>1. ASSUME NEW f \in Flushers, NEW r \in BOOLEAN, Query(f, r) PROVE TypeOK'
  BY <1>1 DEF Query
<1>2. ASSUME NEW f \in Flushers, Commit(f) PROVE TypeOK'
  <2>1. snap[f].count \in [Meters -> Nat]
    OBVIOUS
  <2>2. \A m \in Meters : CalcDelta(snap[f].count[m], last[m]) \in Nat
    BY <2>1, DeltaBounds
  <2>3. used' \in [Meters -> Nat] /\ history' \in [Meters -> Nat]
    BY <1>2, <2>2 DEF Commit
  <2>4. last' \in [Meters -> Nat]
    BY <1>2, <2>1 DEF Commit
  <2>5. pc' \in [Flushers -> {"idle", "queried", "reloading"}]
    BY <1>2 DEF Commit, Then
  <2>6. snap' \in [Flushers -> [count : [Meters -> Nat], epoch : Nat]]
    BY <1>2 DEF Commit, Then, NoSnap, Zero
  <2>7. reload' \in [Flushers -> BOOLEAN]
    BY <1>2 DEF Commit, Then
  <2> QED
    BY <1>2, <2>3, <2>4, <2>5, <2>6, <2>7 DEF Commit
<1>3. ASSUME NEW f \in Flushers, FlushFails(f) PROVE TypeOK'
  BY <1>3 DEF FlushFails, Then, NoSnap, Zero
<1>4. ASSUME NEW f \in Flushers, Reload(f) PROVE TypeOK'
  <2>1. counter' \in [Meters -> Nat] /\ epoch' \in Nat
    <3>1. CASE Restarted
      BY <3>1 DEF Restarted, Zero
    <3>2. CASE UNCHANGED <<counter, epoch>>
      BY <3>2
    <3> QED
      BY <1>4, <3>1, <3>2 DEF Reload
  <2> QED
    BY <1>4, <2>1 DEF Reload
<1>5. ASSUME NEW m \in Meters, Transfer(m) PROVE TypeOK'
  BY <1>5 DEF Transfer
<1>6. ASSUME NEW u \in Users, ResetUsage(u) PROVE TypeOK'
  BY <1>6 DEF ResetUsage
<1>7. CASE Crash
  BY <1>7 DEF Crash, Restarted, Zero
<1>8. CASE UNCHANGED vars
  BY <1>8 DEF vars
<1> QED
  BY <1>1, <1>2, <1>3, <1>4, <1>5, <1>6, <1>7, <1>8 DEF Next, FlushStep

\* The types hold for ever (all handlers of the accounting).
THEOREM TypeCorrect == Spec => []TypeOK
<1>1. Init => TypeOK
  BY InitType
<1>2. TypeOK /\ [Next]_vars => TypeOK'
  BY StepType
<1> QED
  BY <1>1, <1>2, PTL DEF Spec

----------------------------------------------------------------------------
(* No byte is charged twice.                                               *)

OneFlusher == \A f, g \in Flushers : f = g

\* Bytes that f's snapshot s does not cover: all of the new counter if
\* sing-box restarted after the query, the growth since the query otherwise.
Later(f, m) == IF snap[f].epoch = epoch THEN counter[m] - snap[f].count[m]
                                        ELSE counter[m]

\* While f is between its query and its commit.
InFlight(f) ==
  pc[f] = "queried" =>
    /\ snap[f].epoch <= epoch
    /\ \A m \in Meters :
         /\ snap[f].epoch = epoch => snap[f].count[m] <= counter[m]
         /\ history[m] + CalcDelta(snap[f].count[m], last[m]) + Later(f, m) <= sent[m]

\* While nobody is: what the next flush would charge is covered too.
AtRest ==
  (\A f \in Flushers : pc[f] # "queried") =>
     \A m \in Meters : history[m] + CalcDelta(counter[m], last[m]) <= sent[m]

IInv == /\ TypeOK
        /\ AtRest
        /\ \A f \in Flushers : InFlight(f)

LEMMA InitInv == Init => IInv
<1> SUFFICES ASSUME Init PROVE IInv
  OBVIOUS
<1>1. TypeOK
  BY InitType
<1>2. AtRest
  BY DEF Init, AtRest, Zero, CalcDelta
<1>3. \A f \in Flushers : InFlight(f)
  BY DEF Init, InFlight
<1> QED
  BY <1>1, <1>2, <1>3 DEF IInv

\* A query starts with nothing unseen.
LEMMA QueryInv ==
  ASSUME OneFlusher, IInv, TypeOK', NEW f \in Flushers, NEW r \in BOOLEAN, Query(f, r)
  PROVE  AtRest' /\ \A g \in Flushers : InFlight(g)'
<1>1. pc'[f] = "queried" /\ snap'[f] = [count |-> counter, epoch |-> epoch]
  BY DEF Query, IInv, TypeOK
<1>2. AtRest'
  BY <1>1 DEF AtRest
<1>3. \A m \in Meters : history[m] + CalcDelta(counter[m], last[m]) <= sent[m]
  BY DEF Query, IInv, AtRest, OneFlusher
<1>4. UNCHANGED <<counter, epoch, last, history, sent>>
  BY DEF Query
<1>5. epoch \in Nat /\ counter \in [Meters -> Nat] /\ history \in [Meters -> Nat]
      /\ last \in [Meters -> Nat] /\ sent \in [Meters -> Nat]
  BY DEF IInv, TypeOK
<1>6. \A m \in Meters : CalcDelta(counter[m], last[m]) \in Nat
  BY <1>5, DeltaBounds
<1>7. InFlight(f)'
  BY <1>1, <1>3, <1>4, <1>5, <1>6 DEF InFlight, Later, CalcDelta
<1> QED
  BY <1>2, <1>7 DEF OneFlusher

\* The bytes charged and the bytes seen later are disjoint parts of sent.
LEMMA CommitInv ==
  ASSUME OneFlusher, IInv, TypeOK', NEW f \in Flushers, Commit(f)
  PROVE  AtRest' /\ \A g \in Flushers : InFlight(g)'
<1>1. pc[f] = "queried" /\ pc'[f] # "queried"
  BY DEF Commit, Then, IInv, TypeOK
<1>2. \A g \in Flushers : InFlight(g)'
  BY <1>1 DEF InFlight, OneFlusher
<1>3. SUFFICES ASSUME NEW m \in Meters
               PROVE  history'[m] + CalcDelta(counter'[m], last'[m]) <= sent'[m]
  BY <1>2 DEF AtRest
<1> DEFINE s == snap[f].count[m]
<1>4. /\ counter[m] \in Nat /\ last[m] \in Nat /\ history[m] \in Nat
      /\ sent[m] \in Nat /\ s \in Nat /\ epoch \in Nat /\ snap[f].epoch \in Nat
  BY DEF IInv, TypeOK
<1>5. /\ snap[f].epoch = epoch => s <= counter[m]
      /\ history[m] + CalcDelta(s, last[m]) + Later(f, m) <= sent[m]
  BY <1>1 DEF IInv, InFlight
<1>6. counter'[m] = counter[m] /\ sent'[m] = sent[m]
  BY DEF Commit
<1>10. /\ CalcDelta(counter[m], s) \in Nat /\ CalcDelta(counter[m], last[m]) \in Nat
      /\ CalcDelta(s, last[m]) \in Nat /\ Later(f, m) \in Nat
  <2>1. /\ CalcDelta(counter[m], s) \in Nat /\ CalcDelta(counter[m], last[m]) \in Nat
        /\ CalcDelta(s, last[m]) \in Nat
    BY <1>4, DeltaBounds
  <2>2. Later(f, m) \in Nat
    BY <1>4, <1>5 DEF Later
  <2> QED
    BY <2>1, <2>2
<1>7. CASE m \in Booked(f)
  <2>1. history'[m] = history[m] + CalcDelta(s, last[m]) /\ last'[m] = s
    BY <1>7 DEF Commit
  <2>2. CalcDelta(counter[m], s) <= Later(f, m)
    BY <1>4, <1>5 DEF Later, CalcDelta
  <2>3. history[m] + CalcDelta(s, last[m]) + CalcDelta(counter[m], s) <= sent[m]
    BY <1>4, <1>5, <1>10, <2>2
  <2> QED
    BY <1>6, <2>1, <2>3
<1>8. CASE m \notin Booked(f)
  <2>1. history'[m] = history[m] /\ last'[m] = last[m]
    BY <1>4, <1>8 DEF Commit
  <2>2. CalcDelta(s, last[m]) = 0
    <3>1. PICK u \in Users, d \in Dirs : m = <<u, d>>
      BY DEF Meters
    <3>2. ~ Moves(u, snap[f].count)
      BY <1>8, <3>1 DEF Booked
    <3> QED
      BY <3>1, <3>2 DEF Moves
  <2>3. CalcDelta(counter[m], last[m]) <= Later(f, m)
    BY <1>4, <1>5, <2>2 DEF Later, CalcDelta
  <2>4. history[m] + CalcDelta(counter[m], last[m]) <= sent[m]
    BY <1>4, <1>5, <1>10, <2>2, <2>3
  <2> QED
    BY <1>6, <2>1, <2>4
<1> QED
  BY <1>7, <1>8

\* A flush that is given up leaves its bytes to the next one.
LEMMA FlushFailsInv ==
  ASSUME OneFlusher, IInv, TypeOK', NEW f \in Flushers, FlushFails(f)
  PROVE  AtRest' /\ \A g \in Flushers : InFlight(g)'
<1>1. pc[f] = "queried" /\ pc'[f] # "queried"
  BY DEF FlushFails, Then, IInv, TypeOK
<1>2. \A g \in Flushers : InFlight(g)'
  BY <1>1 DEF InFlight, OneFlusher
<1>3. SUFFICES ASSUME NEW m \in Meters
               PROVE  history'[m] + CalcDelta(counter'[m], last'[m]) <= sent'[m]
  BY <1>2 DEF AtRest
<1> DEFINE s == snap[f].count[m]
<1>4. /\ counter[m] \in Nat /\ last[m] \in Nat /\ history[m] \in Nat
      /\ sent[m] \in Nat /\ s \in Nat
  BY DEF IInv, TypeOK
<1>5. /\ snap[f].epoch = epoch => s <= counter[m]
      /\ history[m] + CalcDelta(s, last[m]) + Later(f, m) <= sent[m]
  BY <1>1 DEF IInv, InFlight
<1>6. UNCHANGED <<counter, last, history, sent>>
  BY DEF FlushFails
<1>7. CalcDelta(counter[m], last[m]) <= CalcDelta(s, last[m]) + Later(f, m)
  BY <1>4, <1>5 DEF Later, CalcDelta
<1>8. /\ CalcDelta(counter[m], last[m]) \in Nat /\ CalcDelta(s, last[m]) \in Nat
      /\ Later(f, m) \in Nat
  <2>1. CalcDelta(counter[m], last[m]) \in Nat /\ CalcDelta(s, last[m]) \in Nat
    BY <1>4, DeltaBounds
  <2>2. Later(f, m) \in Nat
    BY <1>4, <1>5 DEF Later
  <2> QED
    BY <2>1, <2>2
<1>9. history[m] + CalcDelta(counter[m], last[m]) <= sent[m]
  BY <1>4, <1>5, <1>7, <1>8
<1> QED
  BY <1>6, <1>9

\* After a restart nothing of the new counters is charged yet.
LEMMA RestartInv ==
  ASSUME IInv, TypeOK', Restarted, UNCHANGED <<last, history, snap, sent>>,
         \A g \in Flushers : pc'[g] = "queried" <=> pc[g] = "queried"
  PROVE  AtRest' /\ \A g \in Flushers : InFlight(g)'
<1>1. epoch' = epoch + 1 /\ counter' = [m \in Meters |-> 0]
  BY DEF Restarted, Zero
<1>2. AtRest'
  <2> SUFFICES ASSUME \A g \in Flushers : pc[g] # "queried", NEW m \in Meters
               PROVE  history[m] + CalcDelta(0, last[m]) <= sent[m]
    BY <1>1 DEF AtRest
  <2>1. counter[m] \in Nat /\ last[m] \in Nat /\ history[m] \in Nat /\ sent[m] \in Nat
    BY DEF IInv, TypeOK
  <2>2. history[m] + CalcDelta(counter[m], last[m]) <= sent[m]
    BY DEF IInv, AtRest
  <2> QED
    BY <2>1, <2>2, DeltaBounds DEF CalcDelta
<1>3. ASSUME NEW g \in Flushers PROVE InFlight(g)'
  <2> SUFFICES ASSUME pc[g] = "queried" PROVE InFlight(g)'
    BY DEF InFlight
  <2>1. epoch \in Nat /\ snap[g].epoch \in Nat /\ snap[g].epoch <= epoch
    BY DEF IInv, TypeOK, InFlight
  <2>2. ASSUME NEW m \in Meters
        PROVE  history[m] + CalcDelta(snap[g].count[m], last[m]) <= sent[m]
    <3>1. /\ counter[m] \in Nat /\ last[m] \in Nat /\ history[m] \in Nat
          /\ sent[m] \in Nat /\ snap[g].count[m] \in Nat
      BY DEF IInv, TypeOK
    <3>2. /\ snap[g].epoch = epoch => snap[g].count[m] <= counter[m]
          /\ history[m] + CalcDelta(snap[g].count[m], last[m]) + Later(g, m) <= sent[m]
      BY DEF IInv, InFlight
    <3>3. CalcDelta(snap[g].count[m], last[m]) \in Nat
      BY <3>1, DeltaBounds
    <3>4. Later(g, m) \in Nat
      BY <3>1, <3>2 DEF Later
    <3> QED
      BY <3>1, <3>2, <3>3, <3>4
  <2>3. snap'[g].epoch <= epoch' /\ snap'[g].epoch # epoch'
    BY <1>1, <2>1
  <2>4. ASSUME NEW m \in Meters PROVE Later(g, m)' = 0
    BY <1>1, <2>3 DEF Later
  <2>5. ASSUME NEW m \in Meters
        PROVE  history'[m] + CalcDelta(snap'[g].count[m], last'[m]) + Later(g, m)' <= sent'[m]
    <3>1. /\ last[m] \in Nat /\ history[m] \in Nat
          /\ sent[m] \in Nat /\ snap[g].count[m] \in Nat
      BY DEF IInv, TypeOK
    <3>2. CalcDelta(snap[g].count[m], last[m]) \in Nat
      BY <3>1, DeltaBounds
    <3>3. /\ history'[m] = history[m] /\ sent'[m] = sent[m] /\ last'[m] = last[m]
          /\ snap'[g].count[m] = snap[g].count[m] /\ Later(g, m)' = 0
      BY <2>4
    <3> QED
      BY <2>2, <3>1, <3>2, <3>3
  <2> QED
    BY <2>3, <2>5 DEF InFlight
<1> QED
  BY <1>2, <1>3

\* A byte on the wire is one more in sent and at most one more to charge.
LEMMA TransferInv ==
  ASSUME IInv, TypeOK', NEW n \in Meters, Transfer(n)
  PROVE  AtRest' /\ \A g \in Flushers : InFlight(g)'
<1>1. UNCHANGED <<epoch, last, history, pc, snap>>
  BY DEF Transfer
<1>2. ASSUME NEW m \in Meters
      PROVE  \/ counter'[m] = counter[m] /\ sent'[m] = sent[m]
             \/ counter'[m] = counter[m] + 1 /\ sent'[m] = sent[m] + 1
  BY DEF Transfer, IInv, TypeOK
<1>3. AtRest'
  <2> SUFFICES ASSUME \A g \in Flushers : pc[g] # "queried", NEW m \in Meters
               PROVE  history[m] + CalcDelta(counter'[m], last[m]) <= sent'[m]
    BY <1>1 DEF AtRest
  <2>1. counter[m] \in Nat /\ last[m] \in Nat /\ history[m] \in Nat /\ sent[m] \in Nat
    BY DEF IInv, TypeOK
  <2>2. history[m] + CalcDelta(counter[m], last[m]) <= sent[m]
    BY DEF IInv, AtRest
  <2>3. /\ CalcDelta(counter[m], last[m]) \in Nat
        /\ CalcDelta(counter[m] + 1, last[m]) \in Nat
        /\ CalcDelta(counter[m] + 1, last[m]) <= CalcDelta(counter[m], last[m]) + 1
    <3>1. CalcDelta(counter[m], last[m]) \in Nat
      BY <2>1, DeltaBounds
    <3>2. counter[m] + 1 \in Nat
      BY <2>1
    <3>3. CalcDelta(counter[m] + 1, last[m]) \in Nat
      BY <2>1, <3>2, DeltaBounds
    <3>4. CalcDelta(counter[m] + 1, last[m]) <= CalcDelta(counter[m], last[m]) + 1
      BY <2>1, DeltaStep
    <3> QED
      BY <3>1, <3>3, <3>4
  <2>4. history[m] + CalcDelta(counter[m] + 1, last[m]) <= sent[m] + 1
    BY <2>1, <2>2, <2>3
  <2> QED
    BY <1>2, <2>2, <2>4
<1>4. ASSUME NEW g \in Flushers PROVE InFlight(g)'
  <2> SUFFICES ASSUME pc[g] = "queried", NEW m \in Meters
               PROVE  /\ snap[g].epoch <= epoch
                      /\ snap[g].epoch = epoch => snap[g].count[m] <= counter'[m]
                      /\ history[m] + CalcDelta(snap[g].count[m], last[m]) + Later(g, m)'
                           <= sent'[m]
    BY <1>1 DEF InFlight, IInv
  <2>1. /\ counter[m] \in Nat /\ last[m] \in Nat /\ history[m] \in Nat
        /\ sent[m] \in Nat /\ snap[g].count[m] \in Nat
    BY DEF IInv, TypeOK
  <2>2. /\ snap[g].epoch <= epoch
        /\ snap[g].epoch = epoch => snap[g].count[m] <= counter[m]
        /\ history[m] + CalcDelta(snap[g].count[m], last[m]) + Later(g, m) <= sent[m]
    BY DEF IInv, InFlight
  <2>3. CalcDelta(snap[g].count[m], last[m]) \in Nat
    BY <2>1, DeltaBounds
  <2>4. \/ counter'[m] = counter[m] /\ sent'[m] = sent[m] /\ Later(g, m)' = Later(g, m)
        \/ /\ counter'[m] = counter[m] + 1 /\ sent'[m] = sent[m] + 1
           /\ Later(g, m)' = Later(g, m) + 1
    BY <1>1, <1>2, <2>1 DEF Later
  <2>5. Later(g, m) \in Nat
    BY <2>1, <2>2 DEF Later
  <2> QED
    BY <2>1, <2>2, <2>3, <2>4, <2>5
<1> QED
  BY <1>3, <1>4

LEMMA StepInv == OneFlusher /\ IInv /\ [Next]_vars => IInv'
<1> SUFFICES ASSUME OneFlusher, IInv, [Next]_vars PROVE IInv'
  OBVIOUS
<1>1. TypeOK'
  BY StepType DEF IInv
<1>2. SUFFICES AtRest' /\ \A g \in Flushers : InFlight(g)'
  BY <1>1 DEF IInv
<1>3. ASSUME UNCHANGED <<counter, epoch, last, history, pc, snap, sent>>
      PROVE  AtRest' /\ \A g \in Flushers : InFlight(g)'
  BY <1>3 DEF IInv, AtRest, InFlight, Later
<1>4. ASSUME NEW f \in Flushers, NEW r \in BOOLEAN, Query(f, r)
      PROVE  AtRest' /\ \A g \in Flushers : InFlight(g)'
  BY <1>1, <1>4, QueryInv
<1>5. ASSUME NEW f \in Flushers, Commit(f)
      PROVE  AtRest' /\ \A g \in Flushers : InFlight(g)'
  BY <1>1, <1>5, CommitInv
<1>6. ASSUME NEW f \in Flushers, FlushFails(f)
      PROVE  AtRest' /\ \A g \in Flushers : InFlight(g)'
  BY <1>1, <1>6, FlushFailsInv
<1>7. ASSUME NEW f \in Flushers, Reload(f)
      PROVE  AtRest' /\ \A g \in Flushers : InFlight(g)'
  <2>1. \A g \in Flushers : pc'[g] = "queried" <=> pc[g] = "queried"
    BY <1>7 DEF Reload, IInv, TypeOK
  <2>2. UNCHANGED <<last, history, snap, sent>>
    BY <1>7 DEF Reload
  <2>3. CASE Restarted
    BY <1>1, <2>1, <2>2, <2>3, RestartInv
  <2>4. CASE UNCHANGED <<counter, epoch>>
    BY <2>1, <2>2, <2>4 DEF IInv, AtRest, InFlight, Later
  <2> QED
    BY <1>7, <2>3, <2>4 DEF Reload
<1>8. ASSUME NEW m \in Meters, Transfer(m)
      PROVE  AtRest' /\ \A g \in Flushers : InFlight(g)'
  BY <1>1, <1>8, TransferInv
<1>9. ASSUME NEW u \in Users, ResetUsage(u)
      PROVE  AtRest' /\ \A g \in Flushers : InFlight(g)'
  BY <1>3, <1>9 DEF ResetUsage
<1>10. CASE Crash
  BY <1>1, <1>10, RestartInv DEF Crash
<1>11. CASE UNCHANGED vars
  BY <1>3, <1>11 DEF vars
<1> QED
  BY <1>4, <1>5, <1>6, <1>7, <1>8, <1>9, <1>10, <1>11 DEF Next, FlushStep

LEMMA InvImpliesNoOvercharge == IInv => NoOvercharge
<1> SUFFICES ASSUME IInv, NEW m \in Meters PROVE history[m] <= sent[m]
  BY DEF NoOvercharge
<1>1. /\ counter[m] \in Nat /\ last[m] \in Nat /\ history[m] \in Nat /\ sent[m] \in Nat
  BY DEF IInv, TypeOK
<1>2. CASE \E f \in Flushers : pc[f] = "queried"
  <2>1. PICK f \in Flushers : pc[f] = "queried"
    BY <1>2
  <2>2. snap[f].count[m] \in Nat
    BY DEF IInv, TypeOK
  <2>3. /\ snap[f].epoch = epoch => snap[f].count[m] <= counter[m]
        /\ history[m] + CalcDelta(snap[f].count[m], last[m]) + Later(f, m) <= sent[m]
    BY <2>1 DEF IInv, InFlight
  <2>4. CalcDelta(snap[f].count[m], last[m]) \in Nat
    BY <1>1, <2>2, DeltaBounds
  <2>5. Later(f, m) \in Nat
    BY <1>1, <2>2, <2>3 DEF Later
  <2> QED
    BY <1>1, <2>3, <2>4, <2>5
<1>3. CASE \A f \in Flushers : pc[f] # "queried"
  <2>1. history[m] + CalcDelta(counter[m], last[m]) <= sent[m]
    BY <1>3 DEF IInv, AtRest
  <2>2. CalcDelta(counter[m], last[m]) \in Nat
    BY <1>1, DeltaBounds
  <2> QED
    BY <1>1, <2>1, <2>2
<1> QED
  BY <1>2, <1>3

\* With one flusher nobody is ever charged for more than he sent, however
\* many restarts, resets and failed flushes there are.
THEOREM NoOverchargeCorrect ==
  ASSUME OneFlusher
  PROVE  Spec => []NoOvercharge
<1>1. Init => IInv
  BY InitInv
<1>2. IInv /\ [Next]_vars => IInv'
  BY StepInv
<1>3. IInv => NoOvercharge
  BY InvImpliesNoOvercharge
<1> QED
  BY <1>1, <1>2, <1>3, PTL DEF Spec

----------------------------------------------------------------------------
(* Accounting implements the meter.                                        *)

LEMMA InitRefines == Init => Abstract!Init
BY DEF Init, Abstract!Init, Zero

LEMMA StepRefines ==
  IInv /\ IInv' /\ [Next]_vars => [Abstract!Send \/ Abstract!Bill]_(Abstract!mvars)
<1> SUFFICES ASSUME IInv, IInv', [Next]_vars
             PROVE  Abstract!Send \/ Abstract!Bill \/ UNCHANGED <<sent, history>>
  BY DEF Abstract!mvars
<1>1. ASSUME NEW f \in Flushers, Commit(f) PROVE Abstract!Bill
  <2>1. history' \in [Meters -> Nat] /\ UNCHANGED sent
    BY <1>1 DEF IInv, TypeOK, Commit
  <2>2. ASSUME NEW m \in Meters PROVE history[m] <= history'[m]
    <3>1. /\ history[m] \in Nat /\ snap[f].count[m] \in Nat /\ last[m] \in Nat
      BY DEF IInv, TypeOK
    <3>2. CalcDelta(snap[f].count[m], last[m]) \in Nat
      BY <3>1, DeltaBounds
    <3>3. \/ history'[m] = history[m] + CalcDelta(snap[f].count[m], last[m])
          \/ history'[m] = history[m] + 0
      BY <1>1 DEF Commit
    <3> QED
      BY <3>1, <3>2, <3>3
  <2>3. ASSUME NEW m \in Meters PROVE history'[m] <= sent[m]
    <3>1. NoOvercharge'
      BY InvImpliesNoOvercharge, PTL
    <3> QED
      BY <2>1, <3>1 DEF NoOvercharge
  <2> QED
    BY <2>1, <2>2, <2>3 DEF Abstract!Bill
<1>2. ASSUME NEW m \in Meters, Transfer(m) PROVE Abstract!Send
  BY <1>2 DEF Transfer, Abstract!Send
<1>3. ASSUME NEW f \in Flushers, NEW r \in BOOLEAN, Query(f, r)
      PROVE  UNCHANGED <<sent, history>>
  BY <1>3 DEF Query
<1>4. ASSUME NEW f \in Flushers, FlushFails(f) \/ Reload(f)
      PROVE  UNCHANGED <<sent, history>>
  BY <1>4 DEF FlushFails, Reload
<1>5. ASSUME NEW u \in Users, ResetUsage(u) PROVE UNCHANGED <<sent, history>>
  BY <1>5 DEF ResetUsage
<1>6. ASSUME Crash \/ UNCHANGED vars PROVE UNCHANGED <<sent, history>>
  BY <1>6 DEF Crash, vars
<1> QED
  BY <1>1, <1>2, <1>3, <1>4, <1>5, <1>6 DEF Next, FlushStep

\* With one flusher every behaviour of the accounting is a behaviour of the
\* meter: the bill only grows, and stays within the traffic.
THEOREM MeteringCorrect ==
  ASSUME OneFlusher
  PROVE  Spec => ImplementsMetering
<1>1. Init => IInv
  BY InitInv
<1>2. IInv /\ [Next]_vars => IInv'
  BY StepInv
<1>3. Init => Abstract!Init
  BY InitRefines
<1>4. IInv /\ IInv' /\ [Next]_vars => [Abstract!Send \/ Abstract!Bill]_(Abstract!mvars)
  BY StepRefines
<1> QED
  BY <1>1, <1>2, <1>3, <1>4, PTL DEF Spec, ImplementsMetering, Abstract!Spec
=============================================================================
