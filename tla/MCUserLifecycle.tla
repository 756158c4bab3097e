-------------------------- MODULE MCUserLifecycle --------------------------
(* Two short months, of two and of three days: a reset day of 3 is capped   *)
(* in the first one, and a pass can run over midnight of a month end.       *)
EXTENDS UserLifecycle, TLC

\* Up to the first day of the second month, or all of it.
FirstOfSecond == 3
TwoMonths == 5

MCCalendar ==
  [t \in 1..LastDate |->
     IF t <= 2 THEN [ym |-> 1, day |-> t, last |-> 2]
               ELSE [ym |-> 2, day |-> t - 2, last |-> 3]]

\* Supervisors are alike, and the run that uses this has no liveness property.
SupervisorSymmetry == Permutations(Supervisors)
============================================================================
