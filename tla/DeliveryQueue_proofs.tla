------------------------ MODULE DeliveryQueue_proofs -------------------------
(***************************************************************************)
(* Theorems about DeliveryQueue for every number of Deliveries, runs,      *)
(* epochs and crashes, and for every Runtime.  The second part proves that *)
(* DeliveryQueue implements InputOnce: a Delivery is consumed by one       *)
(* native turn at most, and two turns of one generation never run at once. *)
(***************************************************************************)
EXTENDS DeliveryQueue, FiniteSetTheorems, TLAPS

-----------------------------------------------------------------------------
(* The inductive invariant of the inputs: the properties the rows keep and *)
(* what makes them inductive.                                              *)

\* Only a dispatched epoch has a start input.
StartsDispatched ==
    \A r \in Run, e \in Epoch : start[r][e] # "none" => e <= run[r].epoch

\* The coordinator only remembers runs that wait and whose last prompt was refused.
RecoveringSafe ==
    \A r \in recovering : run[r].status = "waiting" /\ StartStatus(r) = "not_accepted"

\* A start input that is not settled belongs to an execution.
OpenStarts ==
    \A r \in Run, e \in Epoch : start[r][e] \in {"prepared", "sent"} => Executing(r)

\* So does a supplement.
OpenSteers ==
    \A d \in Delivery : steer[d] \in {"prepared", "sent"} =>
        steerRun[d] # None /\ Executing(steerRun[d])

InputInv ==
    /\ StartsDispatched /\ RecoveringSafe /\ OldEpochsSettled /\ UnknownStartWaits
    /\ OpenStarts /\ OpenSteers

-----------------------------------------------------------------------------
(* Rows keep their shape. *)

\* A Delivery that was given to a run, or ended, is a row whatever its code.
LEMMA ClosedRow ==
  ASSUME NEW row \in DeliveryRow, NEW s \in {"claimed", "settled", "cancelled", "failed"},
         NEW c \in FailureCode
  PROVE  /\ [row EXCEPT !.status = s] \in DeliveryRow
         /\ [row EXCEPT !.status = s, !.code = c] \in DeliveryRow
BY DEF DeliveryRow, DeliveryStatus, FailureCode

\* So is one that is given to a run.
LEMMA GivenRow ==
  ASSUME NEW row \in DeliveryRow, NEW s \in {"claimed", "failed"},
         NEW c \in FailureCode, NEW r \in Run
  PROVE  [row EXCEPT !.status = s, !.run = r, !.code = c] \in DeliveryRow
BY DEF DeliveryRow, DeliveryStatus, FailureCode

\* An empty place of the queue and a waiting Delivery are rows.
LEMMA QueueRows ==
  /\ NoDelivery \in DeliveryRow /\ Waiting \in DeliveryRow
  /\ Waiting.status = "waiting" /\ Waiting.mode = "start" /\ Waiting.run = None
BY DEF DeliveryRow, DeliveryStatus, FailureCode, NoDelivery, Waiting

\* A terminal leaves a row for every Delivery (settle_run_deliveries).
LEMMA SettledRow ==
  ASSUME delivery \in [Delivery -> DeliveryRow], NEW d \in Delivery,
         NEW outcome \in Ended
  PROVE  /\ SettledDelivery(d, outcome) \in DeliveryRow
         /\ SettledDelivery(d, outcome).status # "claimed"
<1> DEFINE row == delivery[d]
<1>1. row \in DeliveryRow
  OBVIOUS
<1>2. CASE ReturnsToQueue(d, outcome)
  BY <1>2, QueueRows DEF SettledDelivery
<1>3. CASE ~ReturnsToQueue(d, outcome) /\ row.mode = "steer" /\ Closed(steer[d]) = "unknown"
  <2>1. [row EXCEPT !.status = "failed", !.code = "unknown"] \in DeliveryRow
    BY <1>1, ClosedRow DEF FailureCode
  <2>2. [row EXCEPT !.status = "failed", !.code = "unknown"].status = "failed"
    BY <1>1 DEF DeliveryRow
  <2> QED
    BY <1>3, <2>1, <2>2 DEF SettledDelivery
<1>4. CASE ~ReturnsToQueue(d, outcome) /\ ~(row.mode = "steer" /\ Closed(steer[d]) = "unknown")
  <2> DEFINE code == IF outcome = "succeeded" THEN "none" ELSE "run"
  <2>1. /\ Settled[outcome] \in {"settled", "cancelled", "failed"}
        /\ code \in FailureCode
    BY DEF Settled, FailureCode, Ended
  <2>2. [row EXCEPT !.status = Settled[outcome], !.code = code] \in DeliveryRow
    BY <1>1, <2>1, ClosedRow
  <2>3. [row EXCEPT !.status = Settled[outcome], !.code = code].status = Settled[outcome]
    BY <1>1 DEF DeliveryRow
  <2> QED
    BY <1>4, <2>1, <2>2, <2>3 DEF SettledDelivery
<1> QED
  BY <1>2, <1>3, <1>4

\* What a terminal does with an input keeps its type and leaves nothing open.
LEMMA ClosedInput ==
  ASSUME NEW s \in InputStatus
  PROVE  /\ Closed(s) \in InputStatus \ {"prepared", "sent"}
         /\ s \notin {"prepared", "sent"} => Closed(s) = s
BY DEF Closed, InputStatus

\* Nothing is open after a recovery either (prepare_v2_recovery).
LEMMA RecoveredInput ==
  ASSUME NEW s \in InputStatus
  PROVE  /\ Recovered(s) \in InputStatus \ {"prepared", "sent"}
         /\ s \notin {"prepared", "sent"} => Recovered(s) = s
         /\ s \in {"prepared", "sent"} => Recovered(s) = "unknown"
BY DEF Recovered, InputStatus

\* A terminal closes its run and the supplements and Deliveries of that run, no other row.
LEMMA EndRunEffect ==
  ASSUME TypeOK, NEW r \in Run, NEW outcome \in Ended, NEW cleanup \in Cleanup,
         EndRun(r, outcome, cleanup)
  PROVE  /\ run' \in [Run -> RunRow]
         /\ run'[r].status = outcome /\ run'[r].epoch = run[r].epoch
         /\ \A s \in Run \ {r} : run'[s] = run[s]
         /\ delivery' \in [Delivery -> DeliveryRow]
         /\ \A d \in Delivery : delivery'[d].status = "claimed" =>
                delivery'[d] = delivery[d] /\ delivery[d].run # r
         /\ steer' \in [Delivery -> InputStatus]
         /\ \A d \in Delivery : steer'[d] \in {"prepared", "sent"} =>
                steer[d] = steer'[d] /\ steerRun[d] # r
         /\ recovering' = recovering \ {r}
<1>1. run[r] \in RunRow
  BY DEF TypeOK
<1>2. [run[r] EXCEPT !.status = outcome, !.wait = "none", !.cleanup = cleanup] \in RunRow
  BY <1>1 DEF RunRow, RunStatus, WaitReason, Cleanup, Ended
<1>3. run' = [run EXCEPT ![r] = [run[r] EXCEPT !.status = outcome, !.wait = "none",
                                               !.cleanup = cleanup]]
  BY DEF EndRun
<1>4. /\ run' \in [Run -> RunRow]
      /\ run'[r].status = outcome /\ run'[r].epoch = run[r].epoch
      /\ \A s \in Run \ {r} : run'[s] = run[s]
  BY <1>1, <1>2, <1>3 DEF TypeOK, RunRow
<1>5. \A d \in Delivery : /\ SettledDelivery(d, outcome) \in DeliveryRow
                          /\ SettledDelivery(d, outcome).status # "claimed"
  BY SettledRow DEF TypeOK
<1>6. delivery' = [d \in Delivery |->
           IF delivery[d].run = r /\ delivery[d].status = "claimed"
           THEN SettledDelivery(d, outcome) ELSE delivery[d]]
  BY DEF EndRun
<1>7. /\ delivery' \in [Delivery -> DeliveryRow]
      /\ \A d \in Delivery : delivery'[d].status = "claimed" =>
             delivery'[d] = delivery[d] /\ delivery[d].run # r
  BY <1>5, <1>6 DEF TypeOK
<1>8. \A d \in Delivery : /\ Closed(steer[d]) \in InputStatus \ {"prepared", "sent"}
                          /\ steer[d] \in InputStatus
  BY ClosedInput DEF TypeOK
<1>9. steer' = [d \in Delivery |-> IF d \in Steers(r) THEN Closed(steer[d]) ELSE steer[d]]
  BY DEF EndRun
<1>10. /\ steer' \in [Delivery -> InputStatus]
       /\ \A d \in Delivery : steer'[d] \in {"prepared", "sent"} =>
              steer[d] = steer'[d] /\ steerRun[d] # r
  BY <1>8, <1>9 DEF Steers
<1> QED
  BY <1>4, <1>7, <1>10 DEF EndRun

\* A terminal that closes the start inputs of its run leaves none of them open.
LEMMA CloseStartsEffect ==
  ASSUME TypeOK, NEW r \in Run, CloseStarts(r)
  PROVE  /\ start' \in [Run -> [Epoch -> InputStatus]]
         /\ \A s \in Run \ {r} : start'[s] = start[s]
         /\ \A e \in Epoch : /\ start'[r][e] \notin {"prepared", "sent"}
                             /\ start'[r][e] = "none" => start[r][e] = "none"
                             /\ start'[r][e] # "none" => start[r][e] # "none"
<1>1. start[r] \in [Epoch -> InputStatus]
  BY DEF TypeOK
<1>2. \A e \in Epoch : /\ Closed(start[r][e]) \in InputStatus \ {"prepared", "sent"}
                       /\ start[r][e] \in InputStatus
                       /\ Closed(start[r][e]) = "none" <=> start[r][e] = "none"
  BY <1>1, ClosedInput DEF Closed
<1>3. start' = [start EXCEPT ![r] = [e \in Epoch |-> Closed(start[r][e])]]
  BY DEF CloseStarts
<1> QED
  BY <1>2, <1>3 DEF TypeOK

\* A recovery leaves rows, and a claimed Delivery keeps an open run (prepare_v2_recovery).
LEMMA CrashEffect ==
  ASSUME TypeOK, Crash
  PROVE  /\ run' \in [Run -> RunRow]
         /\ delivery' \in [Delivery -> DeliveryRow]
         /\ start' \in [Run -> [Epoch -> InputStatus]]
         /\ steer' \in [Delivery -> InputStatus]
         /\ \A r \in Run : /\ run'[r].epoch = run[r].epoch
                           /\ run'[r].status \in Active =>
                                  ~Lost(r) /\ run[r].status \in Active
                           /\ ~Lost(r) /\ run[r].status \in Active =>
                                  run'[r].status \in Active
         /\ \A d \in Delivery : delivery'[d].status = "claimed" =>
                /\ delivery'[d] = delivery[d]
                /\ delivery[d].run # None => ~Lost(delivery[d].run)
<1>1. \A r \in Run :
        /\ RecoveredRun(r) \in RunRow /\ RecoveredRun(r).epoch = run[r].epoch
        /\ RecoveredRun(r).status \in Active => ~Lost(r) /\ run[r].status \in Active
        /\ ~Lost(r) /\ run[r].status \in Active => RecoveredRun(r).status \in Active
  <2> SUFFICES ASSUME NEW r \in Run
               PROVE  /\ RecoveredRun(r) \in RunRow /\ RecoveredRun(r).epoch = run[r].epoch
                      /\ RecoveredRun(r).status \in Active =>
                             ~Lost(r) /\ run[r].status \in Active
                      /\ ~Lost(r) /\ run[r].status \in Active =>
                             RecoveredRun(r).status \in Active
    OBVIOUS
  <2>1. run[r] \in RunRow
    BY DEF TypeOK
  <2>2. CASE Lost(r)
    <3>1. run[r].status \in {"running", "waiting"}
      BY <2>2 DEF Lost
    <3>2. RecoveredRun(r) = [run[r] EXCEPT !.status = "failed", !.wait = "none",
                                           !.cleanup = "pending"]
      BY <2>2 DEF RecoveredRun
    <3> QED
      BY <2>1, <2>2, <3>1, <3>2 DEF RunRow, RunStatus, WaitReason, Cleanup, Ended, Active
  <2>3. CASE ~Lost(r) /\ (run[r].status = "running" \/ run[r].wait = "network_recovery")
    <3>1. RecoveredRun(r) = [run[r] EXCEPT !.status = "waiting", !.wait = "runtime_recovery"]
      BY <2>3 DEF RecoveredRun
    <3>2. run[r].status \in {"running", "waiting"}
      BY <2>1, <2>3 DEF RunRow
    <3> QED
      BY <2>1, <2>3, <3>1, <3>2 DEF RunRow, RunStatus, WaitReason, Ended, Active
  <2>4. CASE ~Lost(r) /\ ~(run[r].status = "running" \/ run[r].wait = "network_recovery")
    BY <2>1, <2>4 DEF RecoveredRun
  <2> QED
    BY <2>2, <2>3, <2>4
<1>2. \A d \in Delivery :
        /\ RecoveredDelivery(d) \in DeliveryRow
        /\ RecoveredDelivery(d).status = "claimed" =>
               /\ RecoveredDelivery(d) = delivery[d]
               /\ delivery[d].run # None => ~Lost(delivery[d].run)
  <2> SUFFICES ASSUME NEW d \in Delivery
               PROVE  /\ RecoveredDelivery(d) \in DeliveryRow
                      /\ RecoveredDelivery(d).status = "claimed" =>
                             /\ RecoveredDelivery(d) = delivery[d]
                             /\ delivery[d].run # None => ~Lost(delivery[d].run)
    OBVIOUS
  <2> DEFINE code == IF delivery[d].mode = "steer" /\ Recovered(steer[d]) = "unknown"
                     THEN "unknown" ELSE "run"
  <2>1. delivery[d] \in DeliveryRow
    BY DEF TypeOK
  <2>2. CASE delivery[d].status # "claimed" \/ delivery[d].run = None \/ ~Lost(delivery[d].run)
    BY <2>1, <2>2 DEF RecoveredDelivery
  <2>3. CASE ~(delivery[d].status # "claimed" \/ delivery[d].run = None
               \/ ~Lost(delivery[d].run))
    <3>1. RecoveredDelivery(d) = [delivery[d] EXCEPT !.status = "failed", !.code = code]
      BY <2>3 DEF RecoveredDelivery
    <3>2. code \in FailureCode
      BY DEF FailureCode
    <3> HIDE DEF code
    <3>3. RecoveredDelivery(d) \in DeliveryRow
      BY <2>1, <3>1, <3>2, ClosedRow
    <3>4. RecoveredDelivery(d).status = "failed"
      BY <2>1, <3>1 DEF DeliveryRow
    <3> QED
      BY <3>3, <3>4
  <2> QED
    BY <2>2, <2>3
<1>3. start' \in [Run -> [Epoch -> InputStatus]]
  <2>1. \A r \in Run, e \in Epoch : Recovered(start[r][e]) \in InputStatus
    BY RecoveredInput DEF TypeOK
  <2> QED
    BY <2>1 DEF Crash
<1>4. steer' \in [Delivery -> InputStatus]
  BY RecoveredInput DEF TypeOK, Crash
<1> QED
  BY <1>1, <1>2, <1>3, <1>4 DEF Crash

\* A batch claim inserts one run and gives it the selected Deliveries (insert_batch_run).
LEMMA InsertBatchEffect ==
  ASSUME TypeOK, NEW r \in Run, run[r].status = "absent", NEW last \in Pending,
         NEW rs \in {"queued", "failed"}, NEW ds \in {"claimed", "failed"},
         NEW c \in FailureCode, InsertBatchRun(r, last, rs, ds, c)
  PROVE  /\ run' \in [Run -> RunRow]
         /\ run'[r].status = rs /\ run'[r].epoch = None
         /\ \A s \in Run \ {r} : run'[s] = run[s]
         /\ input' \in [Run -> SUBSET Delivery]
         /\ delivery' \in [Delivery -> DeliveryRow]
         /\ recall' \in [Delivery -> {"recallable", "closed", "withdrawn"}]
         /\ \A d \in Delivery : delivery'[d].status = "claimed" =>
                \/ delivery'[d] = delivery[d]
                \/ d \in Prefix(last) /\ delivery'[d].run = r
                   /\ delivery'[d].mode = delivery[d].mode
<1>0. /\ last \in Delivery /\ Prefix(last) \in SUBSET Delivery
      /\ \A d \in Prefix(last) : d \notin Expired
  BY DEF Prefix, Pending, WaitingSet
<1>1. run[r] \in RunRow
  BY DEF TypeOK
<1>2. run' = [run EXCEPT ![r] = [run[r] EXCEPT !.status = rs]]
  BY DEF InsertBatchRun
<1>3. /\ [run[r] EXCEPT !.status = rs] \in RunRow
      /\ [run[r] EXCEPT !.status = rs].status = rs
      /\ [run[r] EXCEPT !.status = rs].epoch = None
  BY <1>1 DEF RunRow, RunStatus, Ended
<1>4. /\ run' \in [Run -> RunRow]
      /\ run'[r].status = rs /\ run'[r].epoch = None
      /\ \A s \in Run \ {r} : run'[s] = run[s]
  BY <1>2, <1>3 DEF TypeOK
<1>5. BatchInput(last) \in SUBSET Delivery
  <2>1. CASE source[last] # None
    <3>1. source[last] \in Run
      BY <1>0, <2>1 DEF TypeOK
    <3> QED
      BY <2>1, <3>1 DEF BatchInput, TypeOK
  <2>2. CASE source[last] = None
    BY <1>0, <2>2 DEF BatchInput
  <2> QED
    BY <2>1, <2>2
<1>6. input' \in [Run -> SUBSET Delivery]
  BY <1>5 DEF InsertBatchRun, TypeOK
<1>7. recall' \in [Delivery -> {"recallable", "closed", "withdrawn"}]
  BY DEF InsertBatchRun, TypeOK
<1>8. ASSUME NEW d \in Delivery
      PROVE  /\ delivery'[d] \in DeliveryRow
             /\ delivery'[d].status = "claimed" =>
                    \/ delivery'[d] = delivery[d]
                    \/ d \in Prefix(last) /\ delivery'[d].run = r
                       /\ delivery'[d].mode = delivery[d].mode
  <2>1. delivery[d] \in DeliveryRow
    BY DEF TypeOK
  <2>2. CASE d \in Expired
    <3>1. delivery'[d] = [delivery[d] EXCEPT !.status = "cancelled", !.code = "unavailable"]
      BY <1>0, <2>2 DEF InsertBatchRun, CancelExpired
    <3>2. delivery'[d] \in DeliveryRow
      BY <2>1, <3>1, ClosedRow DEF FailureCode
    <3>3. delivery'[d].status = "cancelled"
      BY <2>1, <3>1 DEF DeliveryRow
    <3> QED
      BY <3>2, <3>3
  <2>3. CASE d \notin Expired /\ d \in Prefix(last)
    <3>1. delivery'[d] = [delivery[d] EXCEPT !.status = ds, !.run = r, !.code = c]
      BY <2>3 DEF InsertBatchRun
    <3> DEFINE row == delivery[d]
    <3>a. row \in DeliveryRow
      BY <2>1
    <3> HIDE DEF row
    <3>b. [row EXCEPT !.status = ds, !.run = r, !.code = c] \in DeliveryRow
      BY <3>a, GivenRow
    <3>2. delivery'[d] \in DeliveryRow
      BY <3>1, <3>b DEF row
    <3>3. delivery'[d].run = r /\ delivery'[d].mode = delivery[d].mode
      BY <2>1, <3>1 DEF DeliveryRow
    <3> QED
      BY <2>3, <3>2, <3>3
  <2>4. CASE d \notin Expired /\ d \notin Prefix(last)
    <3>1. delivery'[d] = delivery[d]
      BY <2>4 DEF InsertBatchRun
    <3> QED
      BY <2>1, <3>1
  <2> QED
    BY <2>2, <2>3, <2>4
<1>9. delivery' \in [Delivery -> DeliveryRow]
  BY <1>8 DEF InsertBatchRun
<1> QED
  BY <1>4, <1>6, <1>7, <1>8, <1>9

\* The sender's steps keep its record.
LEMMA SenderTyped ==
  ASSUME TypeOK, NEW d \in Delivery
  PROVE  /\ StopSender(d) => sender' \in [Delivery -> SenderRow]
         /\ \A pc \in SenderStep : ~At(d, "none") /\ MoveSender(d, pc) =>
                sender' \in [Delivery -> SenderRow]
<1>1. sender[d] \in SenderRow /\ Idle \in SenderRow
  BY DEF TypeOK, SenderRow, SenderStep, Idle
<1>2. ASSUME NEW pc \in SenderStep, ~At(d, "none")
      PROVE  [sender[d] EXCEPT !.pc = pc] \in SenderRow
  BY <1>1, <1>2 DEF SenderRow, SenderStep, At
<1> QED
  BY <1>1, <1>2 DEF TypeOK, StopSender, MoveSender

\* A return to the queue and an acknowledgement keep the rows.
LEMMA DeliveryTyped ==
  ASSUME TypeOK, NEW d \in Delivery
  PROVE  /\ \A s \in InputStatus : ReturnToQueue(d, s) => delivery' \in [Delivery -> DeliveryRow]
         /\ AckDelivery(d) => delivery' \in [Delivery -> DeliveryRow]
<1>1. delivery[d] \in DeliveryRow
  BY DEF TypeOK
<1>2. [delivery[d] EXCEPT !.status = "settled", !.code = "none"] \in DeliveryRow
  BY <1>1, ClosedRow DEF FailureCode
<1> QED
  BY <1>2, QueueRows DEF TypeOK, ReturnToQueue, AckDelivery

-----------------------------------------------------------------------------
(* Type correctness. *)

USE DEF rows, native, memory, vars

\* An empty lane is well typed.
LEMMA InitTyped == Init => TypeOK
<1> SUFFICES ASSUME Init PROVE TypeOK
  OBVIOUS
<1>1. run \in [Run -> RunRow]
  BY DEF Init, NoRun, RunRow, RunStatus, WaitReason, Cleanup, Ended
<1>2. sender \in [Delivery -> SenderRow]
  BY DEF Init, Idle, SenderRow, SenderStep
<1>3. delivery \in [Delivery -> DeliveryRow]
  BY QueueRows DEF Init
<1>4. /\ start \in [Run -> [Epoch -> InputStatus]]
      /\ startFate \in [Run -> [Epoch -> Fate]]
  BY DEF Init, InputStatus, Fate
<1>5. restarts \in 0..MaxRestart
  BY BoundsAssumption DEF Init
<1> QED
  BY <1>1, <1>2, <1>3, <1>4, <1>5 DEF Init, TypeOK, InputStatus, Fate

\* Every transaction and every step of a task keeps the types.
LEMMA TypeStep == TypeOK /\ [Next]_vars => TypeOK'
<1> SUFFICES ASSUME TypeOK, [Next]_vars PROVE TypeOK'
  OBVIOUS
<1> USE BoundsAssumption DEF TypeOK
<1>1. ASSUME NEW d \in Delivery, SendMessage(d) PROVE TypeOK'
  BY <1>1, QueueRows DEF SendMessage
<1>2. ASSUME NEW d \in Delivery, NEW r \in Run, SendSupplement(d, r) PROVE TypeOK'
  <2>1. run[r] \in RunRow
    OBVIOUS
  <2>2. SupplementEpoch(r) \in Epoch
    BY <2>1, <1>2 DEF SendSupplement, CanSteer, SupplementEpoch, RunRow, Active, Epoch, None
  <2>3. [Waiting EXCEPT !.status = "claimed", !.mode = "steer", !.run = r,
                        !.epoch = SupplementEpoch(r)] \in DeliveryRow
    BY <2>2 DEF Waiting, NoDelivery, DeliveryRow, DeliveryStatus, FailureCode
  <2> QED
    BY <1>2, <2>3 DEF SendSupplement
<1>3. ASSUME NEW d \in Delivery, Withdraw(d) PROVE TypeOK'
  BY <1>3, ClosedRow DEF Withdraw, FailureCode
<1>4. ASSUME NEW d \in Delivery, NEW r \in Run, Continue(d, r) PROVE TypeOK'
  BY <1>4, QueueRows DEF Continue
<1>5. ASSUME CompleteMission PROVE TypeOK'
  BY <1>5 DEF CompleteMission
<1>6. ASSUME NEW r \in Run, Stop(r) PROVE TypeOK'
  <2>1. EndRun(r, "cancelled", StopCleanup(r)) /\ CloseStarts(r)
    BY <1>6 DEF Stop
  <2>2. StopCleanup(r) \in Cleanup
    BY DEF StopCleanup, Cleanup
  <2> QED
    BY <1>6, <2>1, <2>2, EndRunEffect, CloseStartsEffect DEF Stop, Ended
<1>7. ASSUME NEW r \in Run, ClaimBatch(r) PROVE TypeOK'
  <2>1. PICK last \in Pending : InsertBatchRun(r, last, "queued", "claimed", "none")
    BY <1>7 DEF ClaimBatch, Selectable
  <2>2. run[r].status = "absent"
    BY <1>7 DEF ClaimBatch, NextRun
  <2>3. /\ run' \in [Run -> RunRow] /\ input' \in [Run -> SUBSET Delivery]
        /\ delivery' \in [Delivery -> DeliveryRow]
        /\ recall' \in [Delivery -> {"recallable", "closed", "withdrawn"}]
    BY <2>1, <2>2, InsertBatchEffect, Zenon DEF FailureCode
  <2> QED
    BY <2>1, <2>3 DEF InsertBatchRun
<1>8. ASSUME NEW r \in Run, RejectBatch(r) PROVE TypeOK'
  <2>1. PICK first \in Pending : InsertBatchRun(r, first, "failed", "failed", "run")
    BY <1>8 DEF RejectBatch, IsFirst
  <2>2. run[r].status = "absent"
    BY <1>8 DEF RejectBatch, NextRun
  <2>3. /\ run' \in [Run -> RunRow] /\ input' \in [Run -> SUBSET Delivery]
        /\ delivery' \in [Delivery -> DeliveryRow]
        /\ recall' \in [Delivery -> {"recallable", "closed", "withdrawn"}]
    BY <2>1, <2>2, InsertBatchEffect, Zenon DEF FailureCode
  <2> QED
    BY <2>1, <2>3 DEF InsertBatchRun
<1>9. ASSUME NEW r \in Run, ClaimRun(r) PROVE TypeOK'
  <2>1. run[r] \in RunRow /\ run[r].epoch + 1 \in Epoch
    BY <1>9 DEF ClaimRun, RunRow, Epoch, None
  <2>2. [run[r] EXCEPT !.status = "running", !.wait = "none", !.epoch = run[r].epoch + 1]
            \in RunRow
    <3>1. run[r].cleanup = "none" /\ run[r].epoch + 1 # None
      BY <1>9, <2>1 DEF ClaimRun, Dispatchable, NotCancelled, Epoch, None
    <3> QED
      BY <2>1, <3>1 DEF RunRow, RunStatus, WaitReason, Ended
  <2>3. run' = [run EXCEPT ![r] = [run[r] EXCEPT !.status = "running", !.wait = "none",
                                                 !.epoch = run[r].epoch + 1]]
    BY <1>9 DEF ClaimRun
  <2> QED
    BY <1>9, <2>1, <2>2, <2>3 DEF ClaimRun
<1>10. ASSUME NEW r \in Run, RejectDispatch(r) PROVE TypeOK'
  BY <1>10, EndRunEffect DEF RejectDispatch, Ended, Cleanup
<1>11. ASSUME CancelContinuations PROVE TypeOK'
  <2>1. \A d \in Delivery : CancelExpired(d) \in DeliveryRow
    BY ClosedRow DEF CancelExpired, FailureCode
  <2> QED
    BY <1>11, <2>1 DEF CancelContinuations
<1>12. ASSUME NEW r \in Run, StartHost(r) PROVE TypeOK'
  BY <1>12 DEF StartHost
<1>13. ASSUME NEW r \in Run, NEW e \in Epoch, PrepareStart(r, e) PROVE TypeOK'
  BY <1>13 DEF PrepareStart, InputStatus
<1>14. ASSUME NEW r \in Run, NEW e \in Epoch, DispatchStart(r, e) PROVE TypeOK'
  BY <1>14 DEF DispatchStart, InputStatus, Fate
<1>15. ASSUME NEW r \in Run, LaunchDone(r) PROVE TypeOK'
  BY <1>15 DEF LaunchDone
<1>16. ASSUME NEW r \in Run, FailLaunch(r) PROVE TypeOK'
  <2>1. CASE FailLost(r)
    BY <1>16, <2>1, EndRunEffect, CloseStartsEffect DEF FailLaunch, FailLost, Ended, Cleanup
  <2>2. CASE EndRun(r, "failed", "pending") /\ UNCHANGED start
    BY <1>16, <2>2, EndRunEffect DEF FailLaunch, Ended, Cleanup
  <2>3. CASE UNCHANGED <<run, delivery, steer, start, recovering>>
    BY <1>16, <2>3 DEF FailLaunch
  <2> QED
    BY <1>16, <2>1, <2>2, <2>3 DEF FailLaunch
<1>17. ASSUME NEW r \in Run, NEW e \in Epoch, NativeStart(r, e) PROVE TypeOK'
  <2>1. /\ startFate' \in [Run -> [Epoch -> Fate]]
        /\ host' \in [Run -> {"none", "idle", "turn", "gone"}]
    <3>1. CASE startFate' = [startFate EXCEPT ![r][e] = "taken"]
               /\ host' = [host EXCEPT ![r] = "turn"]
      BY <3>1 DEF Fate
    <3>2. CASE startFate' = [startFate EXCEPT ![r][e] = "refused"] /\ UNCHANGED host
      BY <3>2 DEF Fate
    <3> QED
      BY <1>17, <3>1, <3>2 DEF NativeStart
  <2> QED
    BY <1>17, <2>1 DEF NativeStart
<1>18. ASSUME NEW d \in Delivery, NEW r \in Run, NativeSteer(d, r) PROVE TypeOK'
  BY <1>18 DEF NativeSteer, Fate
<1>19. ASSUME NEW r \in Run, NativeTurnEnds(r) PROVE TypeOK'
  BY <1>19 DEF NativeTurnEnds
<1>20. ASSUME NEW r \in Run, HostExit(r) PROVE TypeOK'
  BY <1>20 DEF HostExit, HostGone, SetFate, Fate
<1>21. ASSUME NEW r \in Run, NEW e \in Epoch, AckStart(r, e) PROVE TypeOK'
  <2>1. CASE Resumes(r, e)
    <3>1. run[r] \in RunRow /\ run[r].status \in {"running", "waiting"}
      BY <2>1 DEF Resumes, MayDispatch, Executing
    <3>2. [run[r] EXCEPT !.status = "running", !.wait = "none"] \in RunRow
      BY <3>1 DEF RunRow, RunStatus, WaitReason, Ended
    <3> QED
      BY <1>21, <2>1, <3>2 DEF AckStart, InputStatus
  <2>2. CASE ~Resumes(r, e)
    BY <1>21, <2>2 DEF AckStart, InputStatus
  <2> QED
    BY <2>1, <2>2
<1>22. ASSUME NEW r \in Run, NEW e \in Epoch, StartRefused(r, e) PROVE TypeOK'
  BY <1>22 DEF StartRefused, InputStatus
<1>23. ASSUME NEW r \in Run, NEW e \in Epoch, StartUnknown(r, e) PROVE TypeOK'
  <2>1. CASE MayDispatch(r, e)
    <3>1. run[r] \in RunRow /\ run[r].status \in {"running", "waiting"}
      BY <2>1 DEF MayDispatch, Executing
    <3>2. [run[r] EXCEPT !.status = "waiting", !.wait = "delivery_unknown"] \in RunRow
      BY <3>1 DEF RunRow, RunStatus, WaitReason, Ended
    <3> QED
      BY <1>23, <2>1, <3>2 DEF StartUnknown, InputStatus
  <2>2. CASE ~MayDispatch(r, e)
    BY <1>23, <2>2 DEF StartUnknown, InputStatus
  <2> QED
    BY <2>1, <2>2
<1>24. ASSUME NEW r \in Run, Succeed(r) PROVE TypeOK'
  BY <1>24, EndRunEffect DEF Succeed, Ended, Cleanup
<1>25. ASSUME NEW r \in Run, FailNative(r) PROVE TypeOK'
  <2>1. PICK cleanup \in Cleanup : EndRun(r, "failed", cleanup)
    BY <1>25 DEF FailNative, TerminalCleanup, Cleanup
  <2> QED
    BY <1>25, <2>1, EndRunEffect DEF FailNative, Ended
<1>26. ASSUME NEW r \in Run, ReconcileLoss(r) PROVE TypeOK'
  <2>1. CASE FailLost(r)
    BY <1>26, <2>1, EndRunEffect, CloseStartsEffect DEF ReconcileLoss, FailLost, Ended, Cleanup
  <2>2. CASE ~FailLost(r)
    <3>1. run[r] \in RunRow /\ Executing(r) /\ run[r].status = "running"
      BY <1>26, <2>2 DEF ReconcileLoss
    <3>2. [run[r] EXCEPT !.status = "waiting", !.wait = "runtime_recovery"] \in RunRow
      BY <3>1 DEF RunRow, RunStatus, WaitReason, Ended
    <3> QED
      BY <1>26, <2>2, <3>2 DEF ReconcileLoss
  <2> QED
    BY <2>1, <2>2
<1>27. ASSUME NEW r \in Run, MarkNetworkRecovery(r) PROVE TypeOK'
  <2>1. run[r] \in RunRow /\ run[r].status = "running"
    BY <1>27 DEF MarkNetworkRecovery
  <2>2. [run[r] EXCEPT !.status = "waiting", !.wait = "network_recovery"] \in RunRow
    BY <2>1 DEF RunRow, RunStatus, WaitReason, Ended
  <2> QED
    BY <1>27, <2>2 DEF MarkNetworkRecovery
<1>28. ASSUME NEW r \in Run, ArmNetworkRecovery(r) PROVE TypeOK'
  <2>1. run[r] \in RunRow /\ run[r].status = "waiting"
    BY <1>28 DEF ArmNetworkRecovery
  <2>2. \A w \in WaitReason : [run[r] EXCEPT !.wait = w] \in RunRow
    BY <2>1 DEF RunRow, Ended
  <2> QED
    BY <1>28, <2>2 DEF ArmNetworkRecovery, WaitReason
<1>29. ASSUME NEW r \in Run, StopHost(r) PROVE TypeOK'
  BY <1>29 DEF StopHost, HostGone, SetFate, Fate
<1>30. ASSUME NEW r \in Run, AckCleanup(r) PROVE TypeOK'
  <2>1. run[r] \in RunRow /\ run[r].cleanup = "pending"
    BY <1>30 DEF AckCleanup
  <2>2. [run[r] EXCEPT !.cleanup = "acked"] \in RunRow
    BY <2>1 DEF RunRow, Cleanup
  <2> QED
    BY <1>30, <2>2 DEF AckCleanup
<1>31. ASSUME NEW d \in Delivery, NEW r \in Run, PickSupplement(d, r) PROVE TypeOK'
  <2>0. run[r] \in RunRow /\ run[r].epoch # None
    BY <1>31 DEF PickSupplement, Sendable, Current
  <2>1. [pc |-> "picked", run |-> r, epoch |-> run[r].epoch] \in SenderRow
    BY <2>0 DEF RunRow, SenderRow, SenderStep, None, Run
  <2> QED
    BY <1>31, <2>1 DEF PickSupplement
<1>32. ASSUME NEW d \in Delivery, CheckSupplement(d) PROVE TypeOK'
  BY <1>32, SenderTyped, DeliveryTyped DEF CheckSupplement, At, SenderStep
<1>33. ASSUME NEW d \in Delivery, PrepareSupplement(d) PROVE TypeOK'
  <2>1. sender[d].run \in Run
    BY <1>33 DEF PrepareSupplement, At, SenderRow
  <2> QED
    BY <1>33, <2>1, SenderTyped, DeliveryTyped
    DEF PrepareSupplement, At, SenderStep, InputStatus
<1>34. ASSUME NEW d \in Delivery, PreparationFails(d) PROVE TypeOK'
  BY <1>34, SenderTyped, ClosedRow DEF PreparationFails, FailureCode
<1>35. ASSUME NEW d \in Delivery, DispatchSupplement(d) PROVE TypeOK'
  BY <1>35, SenderTyped DEF DispatchSupplement, At, SenderStep, InputStatus, Fate
<1>36. ASSUME NEW d \in Delivery, SupplementAccepted(d) PROVE TypeOK'
  BY <1>36, SenderTyped, DeliveryTyped DEF SupplementAccepted, InputStatus
<1>37. ASSUME NEW d \in Delivery, SupplementRefused(d) PROVE TypeOK'
  BY <1>37, SenderTyped, DeliveryTyped DEF SupplementRefused, InputStatus
<1>38. ASSUME NEW d \in Delivery, SupplementUnknown(d) PROVE TypeOK'
  BY <1>38, SenderTyped DEF SupplementUnknown, InputStatus
<1>39. ASSUME NEW d \in Delivery, ReconcileSupplement(d) PROVE TypeOK'
  BY <1>39, DeliveryTyped DEF ReconcileSupplement, InputStatus
<1>40. ASSUME Crash PROVE TypeOK'
  <2>1. Idle \in SenderRow
    BY DEF Idle, SenderRow, SenderStep
  <2> QED
    BY <1>40, <2>1, CrashEffect DEF Crash
<1>41. CASE UNCHANGED vars
  BY <1>41 DEF vars
<1> QED
  BY <1>1, <1>2, <1>3, <1>4, <1>5, <1>6, <1>7, <1>8, <1>9, <1>10, <1>11, <1>12, <1>13, <1>14, <1>15, <1>16, <1>17, <1>18, <1>19, <1>20, <1>21, <1>22, <1>23, <1>24, <1>25, <1>26, <1>27, <1>28, <1>29, <1>30, <1>31, <1>32, <1>33, <1>34, <1>35, <1>36, <1>37, <1>38, <1>39, <1>40, <1>41
  DEF Next, UserStep, SchedulerStep, LaunchStep, NativeStep, RuntimeEvent, RecoveryStep,
      CleanupStep, SupplementStep, SenderMove

\* Every row keeps its shape: a waiting Delivery carries no trace of an execution, only a
\* dispatched run has an epoch, only a waiting one a reason and only an ended one a cleanup
\* debt, whatever the User, the Runtime, the network and a crash do.
THEOREM TypeCorrect == Spec => []TypeOK
BY InitTyped, TypeStep, PTL DEF Spec

-----------------------------------------------------------------------------
(* The lane is never given to two runs. *)

\* Only a batch claim opens a run, what ends a run closes its Deliveries, epochs only grow.
LEMMA RunMoves ==
  ASSUME TypeOK, [Next]_vars, NEW s \in Run
  PROVE  /\ run'[s].status \in Active => run[s].status \in Active \/ ClaimBatch(s)
         /\ run'[s].epoch >= run[s].epoch
         /\ \/ run[s].status \in Active => run'[s].status \in Active
            \/ \A d \in Delivery : delivery'[d].status = "claimed" => delivery'[d].run # s
         /\ Executing(s)' => Executing(s) \/ run[s].status = "queued"
         /\ run[s].status \notin {"absent", "queued"} =>
                run'[s].status \notin {"absent", "queued"}
<1> DEFINE Moves == /\ run'[s].status \in Active => run[s].status \in Active \/ ClaimBatch(s)
                    /\ run'[s].epoch >= run[s].epoch
                    /\ \/ run[s].status \in Active => run'[s].status \in Active
                       \/ \A d \in Delivery : delivery'[d].status = "claimed" =>
                                                  delivery'[d].run # s
                    /\ Executing(s)' => Executing(s) \/ run[s].status = "queued"
                    /\ run[s].status \notin {"absent", "queued"} =>
                           run'[s].status \notin {"absent", "queued"}
<1> USE BoundsAssumption DEF Executing, NotCancelled
<1>t. /\ run \in [Run -> RunRow] /\ \A r \in Run : run[r].epoch \in Nat
      /\ run'[s].epoch = run[s].epoch => run'[s].epoch >= run[s].epoch
  <2>1. run \in [Run -> RunRow]
    BY DEF TypeOK
  <2>2. \A row \in RunRow : row.epoch \in Nat
    BY DEF RunRow, Epoch, None
  <2> QED
    BY <2>1, <2>2
<1>1. ASSUME UNCHANGED run PROVE Moves
  BY <1>t, <1>1
<1>2. ASSUME NEW r \in Run, NEW outcome \in Ended, NEW cleanup \in Cleanup,
             EndRun(r, outcome, cleanup)
      PROVE  Moves
  <2>1. /\ run'[r].status \in Ended /\ run'[r].epoch = run[r].epoch
        /\ s # r => run'[s] = run[s]
        /\ \A d \in Delivery : delivery'[d].status = "claimed" => delivery'[d].run # r
    BY <1>2, EndRunEffect
  <2> QED
    BY <1>t, <2>1 DEF Ended, Active
<1>3. ASSUME NEW r \in Run, run[r].status \in Active, NEW row,
             run' = [run EXCEPT ![r] = row], row.epoch >= run[r].epoch,
             row.status \in {"running", "waiting"}, row.cleanup = run[r].cleanup
      PROVE  Moves
  BY <1>t, <1>3 DEF Active
<1>4. ASSUME NEW r \in Run, Stop(r) PROVE Moves
  BY <1>2, <1>4 DEF Stop, StopCleanup, Ended, Cleanup
<1>5. ASSUME NEW r \in Run, ClaimBatch(r) PROVE Moves
  <2>1. PICK last \in Pending : InsertBatchRun(r, last, "queued", "claimed", "none")
    BY <1>5 DEF ClaimBatch, Selectable
  <2>2. run[r].status = "absent" /\ run[r].epoch = None
    BY <1>5, <1>t DEF ClaimBatch, NextRun, RunRow
  <2>3. /\ run'[r].epoch = None /\ run'[r].status = "queued"
        /\ s # r => run'[s] = run[s]
    BY <2>1, <2>2, InsertBatchEffect DEF FailureCode
  <2> QED
    BY <1>5, <1>t, <2>2, <2>3 DEF Active
<1>6. ASSUME NEW r \in Run, RejectBatch(r) PROVE Moves
  <2>1. PICK first \in Pending : InsertBatchRun(r, first, "failed", "failed", "run")
    BY <1>6 DEF RejectBatch, IsFirst
  <2>2. run[r].status = "absent" /\ run[r].epoch = None
    BY <1>6, <1>t DEF RejectBatch, NextRun, RunRow
  <2>3. /\ run'[r].epoch = None /\ run'[r].status = "failed"
        /\ s # r => run'[s] = run[s]
    BY <2>1, <2>2, InsertBatchEffect DEF FailureCode
  <2> QED
    BY <1>t, <2>2, <2>3 DEF Active
<1>7. ASSUME NEW r \in Run, ClaimRun(r) PROVE Moves
  <2>1. run[r].status \in Active
    BY <1>7 DEF ClaimRun, Dispatchable, Active
  <2>2. run[r] \in RunRow
    BY <1>t
  <2> DEFINE row == [run[r] EXCEPT !.status = "running", !.wait = "none",
                                   !.epoch = run[r].epoch + 1]
  <2>3. /\ row.epoch >= run[r].epoch /\ row.status \in {"running", "waiting"}
        /\ row.cleanup = run[r].cleanup /\ run' = [run EXCEPT ![r] = row]
    BY <1>7, <1>t, <2>2 DEF ClaimRun, RunRow, Active
  <2> QED
    BY <1>3, <2>1, <2>3
<1>8. ASSUME NEW r \in Run, RejectDispatch(r) \/ Succeed(r) PROVE Moves
  BY <1>2, <1>8 DEF RejectDispatch, Succeed, Ended, Cleanup
<1>9. ASSUME NEW r \in Run, FailLaunch(r) PROVE Moves
  BY <1>1, <1>2, <1>9 DEF FailLaunch, FailLost, Ended, Cleanup
<1>10. ASSUME NEW r \in Run, FailNative(r) PROVE Moves
  BY <1>2, <1>10 DEF FailNative, TerminalCleanup, Ended, Cleanup
<1>11. ASSUME NEW r \in Run, ReconcileLoss(r) PROVE Moves
  <2>1. CASE FailLost(r)
    BY <1>2, <2>1 DEF FailLost, Ended, Cleanup
  <2>2. CASE ~FailLost(r)
    <3>1. /\ run[r].status \in Active /\ run[r] \in RunRow
          /\ run' = [run EXCEPT ![r] = [run[r] EXCEPT !.status = "waiting",
                                                      !.wait = "runtime_recovery"]]
      BY <1>11, <1>t, <2>2 DEF ReconcileLoss, Active
    <3>2. LET row == [run[r] EXCEPT !.status = "waiting", !.wait = "runtime_recovery"]
          IN  /\ row.epoch >= run[r].epoch /\ row.status \in {"running", "waiting"}
              /\ row.cleanup = run[r].cleanup
      BY <1>t, <3>1 DEF RunRow, Active
    <3> QED
      BY <1>3, <3>1, <3>2
  <2> QED
    BY <2>1, <2>2
<1>12. ASSUME NEW r \in Run, NEW e \in Epoch, AckStart(r, e) PROVE Moves
  <2>1. CASE Resumes(r, e)
    <3>1. /\ run[r].status \in Active /\ run[r] \in RunRow
          /\ run' = [run EXCEPT ![r] = [run[r] EXCEPT !.status = "running", !.wait = "none"]]
      BY <1>12, <1>t, <2>1 DEF AckStart, Resumes, MayDispatch, Executing, Active
    <3>2. LET row == [run[r] EXCEPT !.status = "running", !.wait = "none"]
          IN  /\ row.epoch >= run[r].epoch /\ row.status \in {"running", "waiting"}
              /\ row.cleanup = run[r].cleanup
      BY <1>t, <3>1 DEF RunRow, Active
    <3> QED
      BY <1>3, <3>1, <3>2
  <2> QED
    BY <1>1, <1>12, <2>1 DEF AckStart
<1>13. ASSUME NEW r \in Run, NEW e \in Epoch, StartUnknown(r, e) PROVE Moves
  <2>1. CASE MayDispatch(r, e)
    <3>1. /\ run[r].status \in Active /\ run[r] \in RunRow
          /\ run' = [run EXCEPT ![r] = [run[r] EXCEPT !.status = "waiting",
                                                      !.wait = "delivery_unknown"]]
      BY <1>13, <1>t, <2>1 DEF StartUnknown, MayDispatch, Executing, Active
    <3>2. LET row == [run[r] EXCEPT !.status = "waiting", !.wait = "delivery_unknown"]
          IN  /\ row.epoch >= run[r].epoch /\ row.status \in {"running", "waiting"}
              /\ row.cleanup = run[r].cleanup
      BY <1>t, <3>1 DEF RunRow, Active
    <3> QED
      BY <1>3, <3>1, <3>2
  <2> QED
    BY <1>1, <1>13, <2>1 DEF StartUnknown
<1>14. ASSUME NEW r \in Run, MarkNetworkRecovery(r) PROVE Moves
  <2>1. /\ run[r].status \in Active /\ run[r] \in RunRow
        /\ run' = [run EXCEPT ![r] = [run[r] EXCEPT !.status = "waiting",
                                                    !.wait = "network_recovery"]]
    BY <1>14, <1>t DEF MarkNetworkRecovery, Active
  <2>2. LET row == [run[r] EXCEPT !.status = "waiting", !.wait = "network_recovery"]
        IN  /\ row.epoch >= run[r].epoch /\ row.status \in {"running", "waiting"}
            /\ row.cleanup = run[r].cleanup
    BY <1>t, <2>1 DEF RunRow, Active
  <2> QED
    BY <1>3, <2>1, <2>2
<1>15. ASSUME NEW r \in Run, ArmNetworkRecovery(r) PROVE Moves
  BY <1>t, <1>15 DEF ArmNetworkRecovery, RunRow
<1>16. ASSUME NEW r \in Run, AckCleanup(r) PROVE Moves
  BY <1>t, <1>16 DEF AckCleanup, RunRow
<1>17. ASSUME Crash PROVE Moves
  <2>1. /\ run'[s].epoch = run[s].epoch
        /\ run'[s].status \in Active => run[s].status \in Active
        /\ ~Lost(s) /\ run[s].status \in Active => run'[s].status \in Active
    BY <1>17, CrashEffect
  <2>2. ASSUME Lost(s), NEW d \in Delivery, delivery'[d].status = "claimed"
        PROVE  delivery'[d].run # s
    <3>1. s # None
      BY DEF Run, None
    <3> QED
      BY <1>17, <2>2, <3>1, CrashEffect
  <2>3. /\ Executing(s)' => Executing(s)
        /\ run[s].status \notin {"absent", "queued"} =>
               run'[s].status \notin {"absent", "queued"}
    <3>1. run[s] \in RunRow /\ run'[s] = RecoveredRun(s)
      BY <1>17, <1>t DEF Crash
    <3>2. CASE Lost(s)
      <4>1. run'[s].status = "failed"
        BY <3>1, <3>2 DEF RecoveredRun, RunRow
      <4> QED
        BY <4>1
    <3>3. CASE ~Lost(s) /\ (run[s].status = "running" \/ run[s].wait = "network_recovery")
      <4>1. /\ run'[s].status = "waiting" /\ run'[s].cleanup = run[s].cleanup
            /\ run[s].status \in {"running", "waiting"}
        BY <3>1, <3>3 DEF RecoveredRun, RunRow
      <4> QED
        BY <4>1
    <3>4. CASE ~Lost(s) /\ ~(run[s].status = "running" \/ run[s].wait = "network_recovery")
      BY <3>1, <3>4 DEF RecoveredRun
    <3> QED
      BY <3>2, <3>3, <3>4
  <2> QED
    BY <1>t, <2>1, <2>2, <2>3
<1>18. ASSUME NEW d \in Delivery,
              \/ SendMessage(d) \/ Withdraw(d) \/ SenderMove(d) \/ ReconcileSupplement(d)
       PROVE  Moves
  BY <1>1, <1>18 DEF SendMessage, Withdraw, SenderMove, CheckSupplement, PrepareSupplement,
      PreparationFails, DispatchSupplement, SupplementAccepted, SupplementRefused,
      SupplementUnknown, ReconcileSupplement
<1>19. ASSUME NEW d \in Delivery, NEW r \in Run,
              \/ SendSupplement(d, r) \/ Continue(d, r) \/ NativeSteer(d, r)
              \/ PickSupplement(d, r)
       PROVE  Moves
  BY <1>1, <1>19 DEF SendSupplement, Continue, NativeSteer, PickSupplement
<1>20. ASSUME NEW r \in Run, NEW e \in Epoch,
              \/ PrepareStart(r, e) \/ DispatchStart(r, e) \/ NativeStart(r, e)
              \/ StartRefused(r, e)
       PROVE  Moves
  BY <1>1, <1>20 DEF PrepareStart, DispatchStart, NativeStart, StartRefused
<1>21. ASSUME NEW r \in Run, \/ StartHost(r) \/ LaunchDone(r) \/ NativeTurnEnds(r)
                             \/ HostExit(r) \/ StopHost(r)
       PROVE  Moves
  BY <1>1, <1>21 DEF StartHost, LaunchDone, NativeTurnEnds, HostExit, StopHost
<1>22. ASSUME CompleteMission \/ CancelContinuations \/ UNCHANGED vars PROVE Moves
  BY <1>1, <1>22 DEF CompleteMission, CancelContinuations
<1> HIDE DEF Moves
<1>23. Moves
  BY <1>4, <1>5, <1>6, <1>7, <1>8, <1>9, <1>10, <1>11, <1>12, <1>13, <1>14, <1>15, <1>16,
     <1>17, <1>18, <1>19, <1>20, <1>21, <1>22
  DEF Next, UserStep, SchedulerStep, LaunchStep, NativeStep, RuntimeEvent, RecoveryStep,
      CleanupStep, SupplementStep
<1> QED
  BY <1>23 DEF Moves

\* Two runs of one lane are never open together: only a claim of the idle lane opens one.
THEOREM OneOpenRunHolds == Spec => []OneOpenRun
<1>1. Init => OneOpenRun
  BY DEF Init, NoRun, OneOpenRun, Active
<1>2. TypeOK /\ OneOpenRun /\ [Next]_vars => OneOpenRun'
  <2> SUFFICES ASSUME TypeOK, OneOpenRun, [Next]_vars,
                      NEW r \in Run, NEW s \in Run,
                      run'[r].status \in Active, run'[s].status \in Active
               PROVE  r = s
    BY DEF OneOpenRun
  <2>1. CASE ClaimBatch(r) \/ ClaimBatch(s)
    <3>1. PICK t \in {r, s} : ClaimBatch(t)
      BY <2>1
    <3>2. /\ \A u \in Run : run[u].status \notin Active
          /\ run[t].status = "absent"
      BY <3>1 DEF ClaimBatch, LaneFree, LaneBusy, NextRun
    <3>3. PICK last \in Pending : InsertBatchRun(t, last, "queued", "claimed", "none")
      BY <3>1 DEF ClaimBatch, Selectable
    <3>4. \A u \in Run \ {t} : run'[u] = run[u]
      BY <3>2, <3>3, InsertBatchEffect DEF FailureCode
    <3> QED
      BY <3>2, <3>4
  <2>2. CASE ~ClaimBatch(r) /\ ~ClaimBatch(s)
    BY <2>2, RunMoves DEF OneOpenRun
  <2> QED
    BY <2>1, <2>2
<1> QED
  BY <1>1, <1>2, TypeCorrect, PTL DEF Spec

-----------------------------------------------------------------------------
(* A claimed Delivery has a run that settles it. *)

\* The messages of a run are written once, when it is inserted.
LEMMA InputMoves ==
  ASSUME TypeOK, [Next]_vars, NEW s \in Run, run[s].status # "absent"
  PROVE  input'[s] = input[s]
<1>1. ASSUME NEW r \in Run, ClaimBatch(r) PROVE input'[s] = input[s]
  BY <1>1 DEF ClaimBatch, NextRun, InsertBatchRun, TypeOK
<1>2. ASSUME NEW r \in Run, RejectBatch(r) PROVE input'[s] = input[s]
  BY <1>2 DEF RejectBatch, NextRun, InsertBatchRun, TypeOK
<1>3. ASSUME NEW r \in Run,
             \/ Stop(r) \/ ClaimRun(r) \/ RejectDispatch(r) \/ StartHost(r) \/ LaunchDone(r)
             \/ FailLaunch(r) \/ NativeTurnEnds(r) \/ HostExit(r) \/ Succeed(r) \/ FailNative(r)
             \/ ReconcileLoss(r) \/ MarkNetworkRecovery(r) \/ ArmNetworkRecovery(r)
             \/ StopHost(r) \/ AckCleanup(r)
      PROVE  input' = input
  BY <1>3 DEF Stop, ClaimRun, RejectDispatch, StartHost, LaunchDone, FailLaunch, NativeTurnEnds,
      HostExit, Succeed, FailNative, ReconcileLoss, MarkNetworkRecovery, ArmNetworkRecovery,
      StopHost, AckCleanup
<1>4. ASSUME NEW r \in Run, NEW e \in Epoch,
             \/ PrepareStart(r, e) \/ DispatchStart(r, e) \/ NativeStart(r, e)
             \/ AckStart(r, e) \/ StartRefused(r, e) \/ StartUnknown(r, e)
      PROVE  input' = input
  BY <1>4 DEF PrepareStart, DispatchStart, NativeStart, AckStart, StartRefused, StartUnknown
<1>5. ASSUME NEW d \in Delivery,
             \/ SendMessage(d) \/ Withdraw(d) \/ SenderMove(d) \/ ReconcileSupplement(d)
      PROVE  input' = input
  BY <1>5 DEF SendMessage, Withdraw, SenderMove, CheckSupplement, PrepareSupplement,
      PreparationFails, DispatchSupplement, SupplementAccepted, SupplementRefused,
      SupplementUnknown, ReconcileSupplement
<1>6. ASSUME NEW d \in Delivery, NEW r \in Run,
             \/ SendSupplement(d, r) \/ Continue(d, r) \/ NativeSteer(d, r)
             \/ PickSupplement(d, r)
      PROVE  input' = input
  BY <1>6 DEF SendSupplement, Continue, NativeSteer, PickSupplement
<1>7. ASSUME CompleteMission \/ CancelContinuations \/ Crash \/ UNCHANGED vars
      PROVE  input' = input
  BY <1>7 DEF CompleteMission, CancelContinuations, Crash
<1> QED
  BY <1>1, <1>2, <1>3, <1>4, <1>5, <1>6, <1>7
  DEF Next, UserStep, SchedulerStep, LaunchStep, NativeStep, RuntimeEvent, RecoveryStep,
      CleanupStep, SupplementStep

\* Only a supplement's arrival and a batch claim give a Delivery to a run.
LEMMA DeliveryMoves ==
  ASSUME TypeOK, [Next]_vars, NEW d \in Delivery, delivery'[d].status = "claimed"
  PROVE  \/ delivery'[d] = delivery[d] /\ source'[d] = source[d]
         \/ \E r \in Run : SendSupplement(d, r) \/ ClaimBatch(r)
<1> DEFINE Kept == delivery'[d] = delivery[d] /\ source'[d] = source[d]
<1>t. delivery \in [Delivery -> DeliveryRow] /\ \A c \in Delivery : delivery[c] \in DeliveryRow
  BY DEF TypeOK
<1>1. ASSUME UNCHANGED <<delivery, source>> PROVE Kept
  BY <1>1
<1>2. ASSUME NEW r \in Run, NEW outcome \in Ended, NEW cleanup \in Cleanup,
             EndRun(r, outcome, cleanup), UNCHANGED source
      PROVE  Kept
  BY <1>2, EndRunEffect
<1>3. ASSUME NEW c \in Delivery, NEW row, row.status # "claimed",
             delivery' = [delivery EXCEPT ![c] = row],
             source' = source \/ \E r \in Run : source' = [source EXCEPT ![c] = r]
      PROVE  Kept
  BY <1>3, <1>t DEF TypeOK
<1>4. ASSUME NEW c \in Delivery, NEW s \in InputStatus, ReturnToQueue(c, s), UNCHANGED source
      PROVE  Kept
  BY <1>1, <1>3, <1>4, QueueRows DEF ReturnToQueue
<1>5. ASSUME NEW c \in Delivery, AckDelivery(c), UNCHANGED source PROVE Kept
  <2> DEFINE row == [delivery[c] EXCEPT !.status = "settled", !.code = "none"]
  <2>1. row.status # "claimed"
    BY <1>t DEF DeliveryRow
  <2>2. delivery' = delivery \/ delivery' = [delivery EXCEPT ![c] = row]
    BY <1>5 DEF AckDelivery
  <2> HIDE DEF row
  <2> QED
    BY <1>1, <1>3, <1>5, <2>1, <2>2
<1>6. ASSUME NEW c \in Delivery, SendMessage(c) PROVE Kept
  BY <1>3, <1>6, QueueRows DEF SendMessage
<1>7. ASSUME NEW c \in Delivery, Withdraw(c) PROVE Kept
  <2> DEFINE row == [delivery[c] EXCEPT !.status = "cancelled"]
  <2>1. row.status # "claimed"
    BY <1>t DEF DeliveryRow
  <2>2. delivery' = [delivery EXCEPT ![c] = row] /\ UNCHANGED source
    BY <1>7 DEF Withdraw
  <2> HIDE DEF row
  <2> QED
    BY <1>3, <2>1, <2>2
<1>8. ASSUME NEW c \in Delivery, NEW r \in Run, Continue(c, r) PROVE Kept
  BY <1>3, <1>8, QueueRows DEF Continue
<1>9. ASSUME NEW c \in Delivery, NEW r \in Run, SendSupplement(c, r)
      PROVE  Kept \/ SendSupplement(d, r)
  <2>1. CASE c = d
    BY <1>9, <2>1
  <2>2. CASE c # d
    BY <1>9, <2>2, <1>t DEF SendSupplement
  <2> QED
    BY <2>1, <2>2
<1>10. ASSUME NEW r \in Run, RejectBatch(r) PROVE Kept
  <2>1. PICK first \in Pending : InsertBatchRun(r, first, "failed", "failed", "run")
    BY <1>10 DEF RejectBatch, IsFirst
  <2>2. \A c \in Prefix(first) : c \notin Expired
    BY DEF Prefix, Pending
  <2>3. CASE d \in Expired
    <3>1. delivery'[d] = [delivery[d] EXCEPT !.status = "cancelled", !.code = "unavailable"]
      BY <2>1, <2>2, <2>3 DEF InsertBatchRun, CancelExpired
    <3> QED
      BY <1>t, <3>1 DEF DeliveryRow
  <2>4. CASE d \notin Expired /\ d \in Prefix(first)
    <3>1. delivery'[d] = [delivery[d] EXCEPT !.status = "failed", !.run = r, !.code = "run"]
      BY <2>1, <2>4 DEF InsertBatchRun
    <3> QED
      BY <1>t, <3>1 DEF DeliveryRow
  <2>5. CASE d \notin Expired /\ d \notin Prefix(first)
    BY <2>1, <2>5 DEF InsertBatchRun
  <2> QED
    BY <2>3, <2>4, <2>5
<1>11. ASSUME CancelContinuations PROVE Kept
  <2>1. CancelExpired(d).status # "claimed"
    BY <1>t DEF CancelExpired, DeliveryRow
  <2> QED
    BY <1>11, <2>1 DEF CancelContinuations
<1>12. ASSUME NEW r \in Run, Stop(r) PROVE Kept
  BY <1>2, <1>12 DEF Stop, StopCleanup, Ended, Cleanup
<1>13. ASSUME NEW r \in Run, RejectDispatch(r) \/ Succeed(r) PROVE Kept
  BY <1>2, <1>13 DEF RejectDispatch, Succeed, Ended, Cleanup
<1>14. ASSUME NEW r \in Run, FailLaunch(r) PROVE Kept
  BY <1>1, <1>2, <1>14 DEF FailLaunch, FailLost, Ended, Cleanup
<1>15. ASSUME NEW r \in Run, FailNative(r) PROVE Kept
  BY <1>2, <1>15 DEF FailNative, TerminalCleanup, Ended, Cleanup
<1>16. ASSUME NEW r \in Run, ReconcileLoss(r) PROVE Kept
  BY <1>1, <1>2, <1>16 DEF ReconcileLoss, FailLost, Ended, Cleanup
<1>17. ASSUME NEW c \in Delivery, SenderMove(c) PROVE Kept
  <2>0. steer[c] \in InputStatus /\ "not_accepted" \in InputStatus
    BY DEF TypeOK, InputStatus
  <2>1. CASE CheckSupplement(c) \/ PrepareSupplement(c)
    BY <1>1, <1>4, <2>0, <2>1 DEF CheckSupplement, PrepareSupplement
  <2>2. CASE PreparationFails(c)
    <3> DEFINE row == [delivery[c] EXCEPT !.status = "failed", !.code = "preparation"]
    <3>1. row.status # "claimed"
      BY <1>t DEF DeliveryRow
    <3>2. delivery' = delivery \/ delivery' = [delivery EXCEPT ![c] = row]
      BY <2>2 DEF PreparationFails
    <3>3. UNCHANGED source
      BY <2>2 DEF PreparationFails
    <3> HIDE DEF row
    <3> QED
      BY <1>1, <1>3, <3>1, <3>2, <3>3
  <2>3. CASE DispatchSupplement(c) \/ SupplementUnknown(c)
    BY <1>1, <2>3 DEF DispatchSupplement, SupplementUnknown
  <2>4. CASE SupplementAccepted(c)
    BY <1>5, <2>4 DEF SupplementAccepted
  <2>5. CASE SupplementRefused(c)
    BY <1>4, <2>0, <2>5 DEF SupplementRefused
  <2> QED
    BY <1>17, <2>1, <2>2, <2>3, <2>4, <2>5 DEF SenderMove
<1>18. ASSUME NEW c \in Delivery, ReconcileSupplement(c) PROVE Kept
  BY <1>5, <1>18 DEF ReconcileSupplement
<1>19. ASSUME Crash PROVE Kept
  BY <1>19, CrashEffect DEF Crash
<1>20. ASSUME NEW r \in Run, NEW e \in Epoch,
              \/ PrepareStart(r, e) \/ DispatchStart(r, e) \/ NativeStart(r, e)
              \/ AckStart(r, e) \/ StartRefused(r, e) \/ StartUnknown(r, e)
       PROVE  Kept
  BY <1>1, <1>20 DEF PrepareStart, DispatchStart, NativeStart, AckStart, StartRefused,
      StartUnknown
<1>21. ASSUME NEW r \in Run,
              \/ ClaimRun(r) \/ StartHost(r) \/ LaunchDone(r) \/ NativeTurnEnds(r)
              \/ HostExit(r) \/ MarkNetworkRecovery(r) \/ ArmNetworkRecovery(r)
              \/ StopHost(r) \/ AckCleanup(r)
       PROVE  Kept
  BY <1>1, <1>21 DEF ClaimRun, StartHost, LaunchDone, NativeTurnEnds, HostExit,
      MarkNetworkRecovery, ArmNetworkRecovery, StopHost, AckCleanup
<1>22. ASSUME NEW c \in Delivery, NEW r \in Run, NativeSteer(c, r) \/ PickSupplement(c, r)
       PROVE  Kept
  BY <1>1, <1>22 DEF NativeSteer, PickSupplement
<1>23. ASSUME CompleteMission \/ UNCHANGED vars PROVE Kept
  BY <1>1, <1>23 DEF CompleteMission
<1> HIDE DEF Kept
<1>24. Kept \/ \E r \in Run : SendSupplement(d, r) \/ ClaimBatch(r)
  BY <1>6, <1>7, <1>8, <1>9, <1>10, <1>11, <1>12, <1>13, <1>14, <1>15, <1>16, <1>17, <1>18,
     <1>19, <1>20, <1>21, <1>22, <1>23
  DEF Next, UserStep, SchedulerStep, LaunchStep, NativeStep, RuntimeEvent, RecoveryStep,
      CleanupStep, SupplementStep
<1> QED
  BY <1>24 DEF Kept

\* Nothing is left claimed by nobody: a claimed Delivery has an open run, a batch member is
\* among the messages of that run and a supplement keeps an epoch the run has reached or
\* reaches next, across stops, lost Hosts, retries and crashes.
THEOREM ClaimedIsOwnedHolds == Spec => []ClaimedIsOwned
<1>1. Init => ClaimedIsOwned
  BY DEF Init, NoDelivery, ClaimedIsOwned
<1>2. TypeOK /\ TypeOK' /\ ClaimedIsOwned /\ [Next]_vars => ClaimedIsOwned'
  <2> DEFINE Owned(d) ==
         /\ delivery[d].run # None /\ run[delivery[d].run].status \in Active
         /\ delivery[d].mode = "start" /\ source[d] = None => d \in input[delivery[d].run]
         /\ delivery[d].mode = "steer" =>
                delivery[d].epoch \in 1..(run[delivery[d].run].epoch + 1)
  <2> SUFFICES ASSUME TypeOK, TypeOK', ClaimedIsOwned, [Next]_vars,
                      NEW d \in Delivery, delivery'[d].status = "claimed"
               PROVE  Owned(d)'
    BY DEF ClaimedIsOwned
  <2>1. /\ delivery[d] \in DeliveryRow /\ delivery'[d] \in DeliveryRow
        /\ \A r \in Run : run[r].epoch \in Nat /\ run'[r].epoch \in Nat
        /\ \A r \in Run : run[r] \in RunRow
        /\ \A row \in DeliveryRow : row.run \in Run \cup {None}
    <3>1. \A row \in RunRow : row.epoch \in Nat
      BY BoundsAssumption DEF RunRow, Epoch, None
    <3>2. \A row \in DeliveryRow : row.run \in Run \cup {None}
      BY DEF DeliveryRow
    <3>3. /\ delivery[d] \in DeliveryRow /\ delivery'[d] \in DeliveryRow
          /\ \A r \in Run : run[r] \in RunRow /\ run'[r] \in RunRow
      BY DEF TypeOK
    <3> QED
      BY <3>1, <3>2, <3>3
  <2>2. CASE delivery'[d] = delivery[d] /\ source'[d] = source[d]
    <3> DEFINE r == delivery[d].run
    <3>1. Owned(d)
      BY <2>2 DEF ClaimedIsOwned
    <3>2. r \in Run
      BY <2>1, <3>1
    <3>3. /\ run'[r].status \in Active /\ run'[r].epoch >= run[r].epoch
          /\ input'[r] = input[r]
      BY <2>2, <3>1, <3>2, RunMoves, InputMoves DEF Active
    <3>4. 1..(run[r].epoch + 1) \subseteq 1..(run'[r].epoch + 1)
      BY <2>1, <3>2, <3>3
    <3> QED
      BY <2>2, <3>1, <3>2, <3>3, <3>4
  <2>3. ASSUME NEW r \in Run, SendSupplement(d, r) PROVE Owned(d)'
    <3>1. /\ run[r].status \in Active /\ UNCHANGED run
          /\ delivery' = [delivery EXCEPT ![d] = [Waiting EXCEPT !.status = "claimed",
                 !.mode = "steer", !.run = r, !.epoch = SupplementEpoch(r)]]
      BY <2>3 DEF SendSupplement, CanSteer
    <3>2. /\ delivery'[d].run = r /\ delivery'[d].mode = "steer"
          /\ delivery'[d].epoch = SupplementEpoch(r)
      BY <3>1 DEF TypeOK, Waiting, NoDelivery
    <3>3. SupplementEpoch(r) \in 1..(run[r].epoch + 1)
      BY <2>1, <3>1 DEF SupplementEpoch, Active, RunRow, None
    <3>4. r # None
      BY DEF Run, None
    <3> QED
      BY <3>1, <3>2, <3>3, <3>4
  <2>4. ASSUME NEW r \in Run, ClaimBatch(r),
               ~(delivery'[d] = delivery[d] /\ source'[d] = source[d])
        PROVE  Owned(d)'
    <3>1. PICK last \in Pending : InsertBatchRun(r, last, "queued", "claimed", "none")
      BY <2>4 DEF ClaimBatch, Selectable
    <3>2. run[r].status = "absent"
      BY <2>4 DEF ClaimBatch, NextRun
    <3>3. UNCHANGED source /\ input'[r] = BatchInput(last)
      BY <3>1 DEF InsertBatchRun, TypeOK
    <3>4. /\ run'[r].status = "queued"
          /\ d \in Prefix(last) /\ delivery'[d].run = r /\ delivery'[d].mode = delivery[d].mode
      BY <2>4, <3>1, <3>2, <3>3, InsertBatchEffect DEF FailureCode
    <3>5. delivery[d].mode = "start"
      <4>1. delivery[d].status = "waiting"
        BY <3>4 DEF Prefix, Pending, WaitingSet
      <4> QED
        BY <2>1, <4>1 DEF DeliveryRow, NoDelivery
    <3>6. source[d] = None => d \in BatchInput(last)
      BY <3>4 DEF Prefix, BatchInput
    <3>7. r # None /\ "queued" \in Active
      BY DEF Run, None, Active
    <3> QED
      BY <3>3, <3>4, <3>5, <3>6, <3>7
  <2> QED
    BY <2>2, <2>3, <2>4, DeliveryMoves
<1> QED
  BY <1>1, <1>2, TypeCorrect, PTL DEF Spec

-----------------------------------------------------------------------------
(* The inputs of an execution. *)

\* What the proofs below read from the types.
LEMMA LaneTypes ==
  ASSUME TypeOK
  PROVE  /\ None = 0 /\ Epoch \subseteq Nat \ {0} /\ None \notin Run
         /\ recovering \subseteq Run
         /\ \A d \in Delivery : steer[d] \in InputStatus /\ steerRun[d] \in Run \cup {None}
         /\ \A r \in Run : /\ run[r] \in RunRow /\ run[r].epoch \in Epoch \cup {None}
                           /\ run[r].epoch \in Nat /\ 1..(run[r].epoch - 1) \subseteq Epoch
                           /\ \A e \in Epoch : start[r][e] \in InputStatus
<1>1. None = 0 /\ Epoch \subseteq Nat \ {0} /\ None \notin Run
  BY BoundsAssumption DEF Epoch, None, Run
<1>2. \A row \in RunRow : row.epoch \in Epoch \cup {None}
  BY DEF RunRow
<1>3. /\ recovering \subseteq Run
      /\ \A d \in Delivery : steer[d] \in InputStatus /\ steerRun[d] \in Run \cup {None}
  BY DEF TypeOK
<1>4. ASSUME NEW r \in Run
      PROVE  /\ run[r] \in RunRow /\ run[r].epoch \in Epoch \cup {None}
             /\ run[r].epoch \in Nat /\ 1..(run[r].epoch - 1) \subseteq Epoch
             /\ \A e \in Epoch : start[r][e] \in InputStatus
  <2>1. run[r] \in RunRow /\ \A e \in Epoch : start[r][e] \in InputStatus
    BY DEF TypeOK
  <2>2. run[r].epoch \in Epoch \cup {None}
    BY <1>2, <2>1
  <2>3. run[r].epoch \in Nat /\ 1..(run[r].epoch - 1) \subseteq Epoch
    BY <1>1, <2>2, BoundsAssumption DEF Epoch
  <2> QED
    BY <2>1, <2>2, <2>3
<1> QED
  BY <1>1, <1>3, <1>4

USE DEF InputInv, StartsDispatched, RecoveringSafe, OldEpochsSettled, UnknownStartWaits,
        OpenStarts, OpenSteers, Executing, NotCancelled, StartStatus, Current

\* A terminal disturbs no other run and leaves its own without an open input.
LEMMA EndKeepsInputs ==
  ASSUME TypeOK, InputInv, NEW r \in Run, NEW outcome \in Ended, NEW cleanup \in Cleanup,
         EndRun(r, outcome, cleanup), UNCHANGED steerRun,
         \A s \in Run \ {r} : start'[s] = start[s],
         \A e \in Epoch : /\ start'[r][e] \notin {"prepared", "sent"}
                          /\ start'[r][e] # "none" => start[r][e] # "none"
  PROVE  InputInv'
<1>1. /\ run'[r].status \notin {"running", "waiting"} /\ run'[r].epoch = run[r].epoch
      /\ \A s \in Run \ {r} : run'[s] = run[s]
      /\ \A d \in Delivery : steer'[d] \in {"prepared", "sent"} =>
                steer[d] = steer'[d] /\ steerRun[d] # r
      /\ recovering' = recovering \ {r}
  BY EndRunEffect DEF Ended
<1>2. StartsDispatched' /\ OpenStarts'
  BY <1>1
<1>3. RecoveringSafe'
  BY <1>1, LaneTypes
<1>4. OldEpochsSettled' /\ UnknownStartWaits'
  BY <1>1
<1>5. OpenSteers'
  BY <1>1, LaneTypes
<1> QED
  BY <1>2, <1>3, <1>4, <1>5

\* A run that could be dispatched has no start input that the Runtime may have.
LEMMA DispatchableInputs ==
  ASSUME TypeOK, InputInv, NEW r \in Run, Dispatchable(r)
  PROVE  \A e \in Epoch : start[r][e] \in {"none", "not_accepted"}
<1>1. run[r] \in RunRow
  BY LaneTypes
<1>2. CASE run[r].status = "queued"
  <2>1. run[r].epoch = 0
    BY <1>1, <1>2, LaneTypes DEF RunRow
  <2>2. \A e \in Epoch : ~(e <= 0)
    BY LaneTypes
  <2> QED
    BY <2>1, <2>2
<1>3. CASE run[r].status = "waiting" /\ r \in recovering
  <2>1. run[r].epoch \in Epoch /\ start[r][run[r].epoch] = "not_accepted" /\ Executing(r)
    BY <1>1, <1>3, LaneTypes DEF RunRow, Dispatchable
  <2>2. ASSUME NEW e \in Epoch PROVE start[r][e] \in {"none", "not_accepted"}
    <3>1. e \in Nat \ {0} /\ run[r].epoch \in Nat
      BY LaneTypes
    <3>2. CASE e > run[r].epoch
      BY <3>1, <3>2
    <3>3. CASE e = run[r].epoch
      BY <2>1, <3>3
    <3>4. CASE e < run[r].epoch
      BY <2>1, <3>1, <3>4
    <3> QED
      BY <3>1, <3>2, <3>3, <3>4
  <2> QED
    BY <2>2
<1> QED
  BY <1>2, <1>3 DEF Dispatchable

\* An execution's unsettled start input is that of its own epoch.
LEMMA UnsettledIsCurrent ==
  ASSUME TypeOK, InputInv, NEW r \in Run, NEW e \in Epoch, Executing(r),
         start[r][e] \notin {"none", "not_accepted"}
  PROVE  e = run[r].epoch
<1>1. e \in Nat \ {0} /\ run[r].epoch \in Nat
  BY LaneTypes
<1> QED
  BY <1>1

\* No start input of a run with a valid terminal is open.
LEMMA ValidInputs ==
  ASSUME NEW r \in Run, NEW e, TerminalValid(r, e)
  PROVE  \A x \in Epoch : start[r][x] \notin {"prepared", "sent"}
  BY DEF TerminalValid, StartUnsettled

\* Every step keeps what is known of the inputs.
LEMMA InputStep == TypeOK /\ TypeOK' /\ InputInv /\ [Next]_vars => InputInv'
<1> SUFFICES ASSUME TypeOK, TypeOK', InputInv, [Next]_vars PROVE InputInv'
  OBVIOUS
<1>q. ASSUME UNCHANGED <<run, start, steer, steerRun, recovering>> PROVE InputInv'
  BY <1>q
<1>s. ASSUME UNCHANGED <<run, start, recovering>>, OpenSteers' PROVE InputInv'
  BY <1>s
<1>1. ASSUME NEW r \in Run, Stop(r) PROVE InputInv'
  <2>1. EndRun(r, "cancelled", StopCleanup(r)) /\ CloseStarts(r) /\ UNCHANGED steerRun
    BY <1>1 DEF Stop
  <2>2. StopCleanup(r) \in Cleanup /\ "cancelled" \in Ended
    BY DEF StopCleanup, Cleanup, Ended
  <2> QED
    BY <2>1, <2>2, CloseStartsEffect, EndKeepsInputs
<1>2. ASSUME NEW r \in Run, ClaimBatch(r) \/ RejectBatch(r) PROVE InputInv'
  <2>1. PICK last \in Pending, rs \in {"queued", "failed"}, ds \in {"claimed", "failed"},
             c \in FailureCode : InsertBatchRun(r, last, rs, ds, c)
    BY <1>2 DEF ClaimBatch, RejectBatch, Selectable, IsFirst, FailureCode
  <2>2. run[r].status = "absent"
    BY <1>2 DEF ClaimBatch, RejectBatch, NextRun
  <2>3. run[r].epoch = None
    BY <2>2, LaneTypes DEF RunRow
  <2>4. /\ run'[r].status = rs /\ run'[r].epoch = None
        /\ \A s \in Run \ {r} : run'[s] = run[s]
    BY <2>1, <2>2, InsertBatchEffect
  <2>5. UNCHANGED <<start, steer, steerRun, recovering>>
    BY <2>1 DEF InsertBatchRun
  <2> QED
    BY <2>2, <2>3, <2>4, <2>5, LaneTypes
<1>3. ASSUME NEW r \in Run, ClaimRun(r) PROVE InputInv'
  <2>1. \A e \in Epoch : start[r][e] \in {"none", "not_accepted"}
    BY <1>3, DispatchableInputs DEF ClaimRun
  <2>2. /\ run' = [run EXCEPT ![r] = [run[r] EXCEPT !.status = "running", !.wait = "none",
                                                    !.epoch = run[r].epoch + 1]]
        /\ recovering' = recovering \ {r} /\ UNCHANGED <<start, steer, steerRun>>
        /\ run[r].cleanup = "none"
    BY <1>3 DEF ClaimRun, Dispatchable
  <2>3. /\ run'[r].status = "running" /\ run'[r].wait = "none" /\ run'[r].cleanup = "none"
        /\ run'[r].epoch = run[r].epoch + 1
        /\ \A s \in Run \ {r} : run'[s] = run[s]
    BY <2>2, LaneTypes DEF RunRow, TypeOK
  <2>4. start[r][run[r].epoch + 1] = "none" /\ run[r].epoch + 1 \in Epoch
    BY <1>3, LaneTypes, BoundsAssumption DEF ClaimRun, Epoch
  <2>5. StartsDispatched'
    BY <2>2, <2>3, LaneTypes
  <2>6. RecoveringSafe'
    BY <2>2, <2>3, LaneTypes
  <2>7. OldEpochsSettled'
    <3>1. run'[r].epoch - 1 = run[r].epoch /\ 1..run[r].epoch \subseteq Epoch
      BY <2>3, <2>4, LaneTypes, BoundsAssumption DEF Epoch
    <3>2. \A e \in 1..(run'[r].epoch - 1) : start'[r][e] \in {"none", "not_accepted"}
      BY <2>1, <2>2, <3>1
    <3>3. \A s \in Run \ {r} : run'[s] = run[s] /\ start'[s] = start[s]
      BY <2>2, <2>3
    <3> QED
      BY <3>2, <3>3
  <2>8. UnknownStartWaits'
    BY <2>2, <2>3, <2>4
  <2>9. OpenStarts' /\ OpenSteers'
    BY <2>2, <2>3, LaneTypes
  <2> QED
    BY <2>5, <2>6, <2>7, <2>8, <2>9
<1>4. ASSUME NEW r \in Run, RejectDispatch(r) PROVE InputInv'
  <2>1. \A x \in Epoch : start[r][x] \notin {"prepared", "sent"}
    BY <1>4, DispatchableInputs DEF RejectDispatch
  <2> HIDE DEF InputInv
  <2> QED
    BY <1>4, <2>1, EndKeepsInputs DEF RejectDispatch, Ended, Cleanup
<1>5. ASSUME NEW r \in Run, Succeed(r) PROVE InputInv'
  <2>1. \A x \in Epoch : start[r][x] \notin {"prepared", "sent"}
    BY <1>5, ValidInputs DEF Succeed
  <2> HIDE DEF InputInv
  <2> QED
    BY <1>5, <2>1, EndKeepsInputs DEF Succeed, Ended, Cleanup
<1>6. ASSUME NEW r \in Run, FailNative(r) PROVE InputInv'
  <2>1. \A x \in Epoch : start[r][x] \notin {"prepared", "sent"}
    BY <1>6, ValidInputs DEF FailNative
  <2>2. PICK cleanup \in TerminalCleanup : EndRun(r, "failed", cleanup)
    BY <1>6 DEF FailNative
  <2> HIDE DEF InputInv
  <2> QED
    BY <1>6, <2>1, <2>2, EndKeepsInputs DEF FailNative, TerminalCleanup, Ended, Cleanup
<1>7. ASSUME NEW r \in Run, FailLost(r), UNCHANGED steerRun PROVE InputInv'
  <2> HIDE DEF InputInv
  <2> QED
    BY <1>7, CloseStartsEffect, EndKeepsInputs DEF FailLost, Ended, Cleanup
<1>8. ASSUME NEW r \in Run, FailLaunch(r) PROVE InputInv'
  <2>1. CASE FailLost(r)
    BY <1>7, <1>8, <2>1 DEF FailLaunch
  <2>2. CASE TerminalValid(r, launch[r]) /\ EndRun(r, "failed", "pending") /\ UNCHANGED start
    <3>1. \A x \in Epoch : start[r][x] \notin {"prepared", "sent"}
      BY <2>2, ValidInputs
    <3> HIDE DEF InputInv
    <3> QED
      BY <1>8, <2>2, <3>1, EndKeepsInputs DEF FailLaunch, Ended, Cleanup
  <2> QED
    BY <1>8, <1>q, <2>1, <2>2 DEF FailLaunch
<1>9. ASSUME NEW r \in Run, ReconcileLoss(r) PROVE InputInv'
  <2>1. CASE FailLost(r)
    BY <1>7, <1>9, <2>1 DEF ReconcileLoss
  <2>2. CASE ~FailLost(r)
    <3>1. /\ run[r].status = "running" /\ InputsOf(r) \cap Uncertain = {} /\ Executing(r)
          /\ run' = [run EXCEPT ![r] = [run[r] EXCEPT !.status = "waiting",
                                                      !.wait = "runtime_recovery"]]
          /\ UNCHANGED <<steer, steerRun, start, recovering>>
      BY <1>9, <2>2 DEF ReconcileLoss
    <3>2. /\ run'[r].status = "waiting" /\ run'[r].wait = "runtime_recovery"
          /\ run'[r].cleanup = "none" /\ run'[r].epoch = run[r].epoch
          /\ \A s \in Run \ {r} : run'[s] = run[s]
      BY <3>1, LaneTypes DEF RunRow, TypeOK
    <3>3. StartStatus(r) # "unknown"
      BY <3>1, LaneTypes DEF InputsOf, Uncertain
    <3> QED
      BY <3>1, <3>2, <3>3, LaneTypes
  <2> QED
    BY <2>1, <2>2
<1>10. ASSUME NEW r \in Run, NEW e \in Epoch, PrepareStart(r, e) PROVE InputInv'
  <2>1. /\ start' = [start EXCEPT ![r][e] = "prepared"]
        /\ UNCHANGED <<run, steer, steerRun, recovering>>
        /\ run[r].status = "running" /\ Executing(r) /\ run[r].epoch = e
    BY <1>10 DEF PrepareStart
  <2>2. /\ start'[r][e] = "prepared"
        /\ \A s \in Run, f \in Epoch : s # r \/ f # e => start'[s][f] = start[s][f]
    BY <2>1 DEF TypeOK
  <2>3. e \in Nat \ {0}
    BY LaneTypes
  <2>4. run[r].wait = "none"
    BY <2>1, LaneTypes DEF RunRow
  <2> QED
    BY <2>1, <2>2, <2>3, <2>4, LaneTypes
<1>11. ASSUME NEW r \in Run, NEW e \in Epoch, DispatchStart(r, e) PROVE InputInv'
  <2>1. /\ start' = [start EXCEPT ![r][e] = "sent"] /\ start[r][e] = "prepared"
        /\ UNCHANGED <<run, steer, steerRun, recovering>>
        /\ Executing(r) /\ run[r].epoch = e
    BY <1>11 DEF DispatchStart, MayDispatch
  <2>2. /\ start'[r][e] = "sent"
        /\ \A s \in Run, f \in Epoch : s # r \/ f # e => start'[s][f] = start[s][f]
    BY <2>1 DEF TypeOK
  <2> QED
    BY <2>1, <2>2, LaneTypes
<1>12. ASSUME NEW r \in Run, NEW e \in Epoch, StartRefused(r, e) PROVE InputInv'
  <2>1. /\ start' = [start EXCEPT ![r][e] = "not_accepted"] /\ start[r][e] = "sent"
        /\ UNCHANGED <<run, steer, steerRun, recovering>>
    BY <1>12 DEF StartRefused
  <2>2. /\ start'[r][e] = "not_accepted"
        /\ \A s \in Run, f \in Epoch : s # r \/ f # e => start'[s][f] = start[s][f]
    BY <2>1 DEF TypeOK
  <2> QED
    BY <2>1, <2>2, LaneTypes
<1>13. ASSUME NEW r \in Run, NEW e \in Epoch, StartUnknown(r, e) PROVE InputInv'
  <2>1. /\ start' = [start EXCEPT ![r][e] = "unknown"] /\ start[r][e] = "sent"
        /\ UNCHANGED <<steer, steerRun, recovering>>
    BY <1>13 DEF StartUnknown
  <2>2. /\ start'[r][e] = "unknown"
        /\ \A s \in Run, f \in Epoch : s # r \/ f # e => start'[s][f] = start[s][f]
    BY <2>1 DEF TypeOK
  <2>3. Executing(r) /\ run[r].epoch = e
    BY <2>1, UnsettledIsCurrent
  <2>4. run' = [run EXCEPT ![r] = [run[r] EXCEPT !.status = "waiting",
                                                 !.wait = "delivery_unknown"]]
    BY <1>13, <2>3, LaneTypes DEF StartUnknown, MayDispatch
  <2>5. /\ run'[r].status = "waiting" /\ run'[r].wait = "delivery_unknown"
        /\ run'[r].cleanup = "none" /\ run'[r].epoch = run[r].epoch
        /\ \A s \in Run \ {r} : run'[s] = run[s]
    BY <2>3, <2>4, LaneTypes DEF RunRow, TypeOK
  <2>6. r \notin recovering
    BY <2>1, <2>3, LaneTypes
  <2> QED
    BY <2>1, <2>2, <2>3, <2>5, <2>6, LaneTypes
<1>14. ASSUME NEW r \in Run, NEW e \in Epoch, AckStart(r, e) PROVE InputInv'
  <2>1. /\ start' = [start EXCEPT ![r][e] = "accepted"] /\ start[r][e] \in {"sent", "unknown"}
        /\ UNCHANGED <<steer, steerRun, recovering>>
    BY <1>14 DEF AckStart
  <2>2. /\ start'[r][e] = "accepted"
        /\ \A s \in Run, f \in Epoch : s # r \/ f # e => start'[s][f] = start[s][f]
    BY <2>1 DEF TypeOK
  <2>3. Executing(r) => run[r].epoch = e
    BY <2>1, UnsettledIsCurrent
  <2>4. r \in recovering => run[r].epoch # e
    BY <2>1, LaneTypes
  <2>5. CASE Resumes(r, e)
    <3>1. /\ run' = [run EXCEPT ![r] = [run[r] EXCEPT !.status = "running", !.wait = "none"]]
          /\ Executing(r)
      BY <1>14, <2>5 DEF AckStart, Resumes, MayDispatch
    <3>2. /\ run'[r].status = "running" /\ run'[r].wait = "none"
          /\ run'[r].cleanup = "none" /\ run'[r].epoch = run[r].epoch
          /\ \A s \in Run \ {r} : run'[s] = run[s]
      BY <3>1, LaneTypes DEF RunRow, TypeOK
    <3> QED
      BY <2>1, <2>2, <2>3, <2>4, <3>1, <3>2, LaneTypes
  <2>6. CASE ~Resumes(r, e)
    <3>1. UNCHANGED run
      BY <1>14, <2>6 DEF AckStart
    <3>2. Executing(r) => run[r].wait # "delivery_unknown"
      BY <2>1, <2>3, <2>6, LaneTypes DEF Resumes, MayDispatch
    <3> QED
      BY <2>1, <2>2, <2>3, <2>4, <3>1, <3>2, LaneTypes
  <2> QED
    BY <2>5, <2>6
<1>15. ASSUME NEW r \in Run, MarkNetworkRecovery(r) PROVE InputInv'
  <2>1. /\ run' = [run EXCEPT ![r] = [run[r] EXCEPT !.status = "waiting",
                                                    !.wait = "network_recovery"]]
        /\ recovering' = recovering \cup {r} /\ UNCHANGED <<start, steer, steerRun>>
        /\ run[r].status = "running" /\ Executing(r) /\ StartStatus(r) = "not_accepted"
    BY <1>15 DEF MarkNetworkRecovery
  <2>2. /\ run'[r].status = "waiting" /\ run'[r].wait = "network_recovery"
        /\ run'[r].cleanup = "none" /\ run'[r].epoch = run[r].epoch
        /\ \A s \in Run \ {r} : run'[s] = run[s]
    BY <2>1, LaneTypes DEF RunRow, TypeOK
  <2> QED
    BY <2>1, <2>2, LaneTypes
<1>16. ASSUME NEW r \in Run, ArmNetworkRecovery(r) PROVE InputInv'
  <2> DEFINE w == IF NetworkInputSafe(r) THEN "runtime_recovery" ELSE "network_blocked"
  <2>1. /\ run' = [run EXCEPT ![r] = [run[r] EXCEPT !.wait = w]]
        /\ r \in recovering /\ UNCHANGED <<start, steer, steerRun, recovering>>
    BY <1>16 DEF ArmNetworkRecovery
  <2>2. /\ run'[r].status = run[r].status /\ run'[r].wait # "delivery_unknown"
        /\ run'[r].cleanup = run[r].cleanup /\ run'[r].epoch = run[r].epoch
        /\ \A s \in Run \ {r} : run'[s] = run[s]
    BY <2>1, LaneTypes DEF RunRow, TypeOK
  <2>3. StartStatus(r) = "not_accepted"
    BY <2>1
  <2> QED
    BY <2>1, <2>2, <2>3, LaneTypes
<1>17. ASSUME NEW r \in Run, AckCleanup(r) PROVE InputInv'
  <2>1. /\ run' = [run EXCEPT ![r] = [run[r] EXCEPT !.cleanup = "acked"]]
        /\ run[r].cleanup = "pending" /\ UNCHANGED <<start, steer, steerRun, recovering>>
    BY <1>17 DEF AckCleanup
  <2>2. /\ run'[r].status = run[r].status /\ run'[r].cleanup = "acked"
        /\ run'[r].epoch = run[r].epoch
        /\ \A s \in Run \ {r} : run'[s] = run[s]
    BY <2>1, LaneTypes DEF RunRow, TypeOK
  <2> QED
    BY <2>1, <2>2, LaneTypes
<1>18. ASSUME NEW d \in Delivery, PrepareSupplement(d) PROVE InputInv'
  <2>1. UNCHANGED <<run, start, recovering>>
    BY <1>18 DEF PrepareSupplement
  <2>2. CASE UNCHANGED <<steer, steerRun>>
    BY <1>q, <2>1, <2>2
  <2>3. CASE /\ steer' = [steer EXCEPT ![d] = "prepared"]
             /\ steerRun' = [steerRun EXCEPT ![d] = sender[d].run]
             /\ Executing(sender[d].run)
    <3>1. sender[d].run \in Run
      BY <1>18 DEF PrepareSupplement, At, TypeOK, SenderRow
    <3>2. OpenSteers'
      BY <2>1, <2>3, <3>1, LaneTypes DEF TypeOK
    <3> QED
      BY <1>s, <2>1, <3>2
  <2> QED
    BY <1>18, <2>2, <2>3 DEF PrepareSupplement
<1>19. ASSUME NEW d \in Delivery,
              \/ DispatchSupplement(d) \/ SupplementAccepted(d) \/ SupplementRefused(d)
              \/ SupplementUnknown(d) \/ ReconcileSupplement(d)
       PROVE  InputInv'
  <2>1. UNCHANGED <<run, start, recovering, steerRun>>
    BY <1>19 DEF DispatchSupplement, SupplementAccepted, SupplementRefused, SupplementUnknown,
        ReconcileSupplement
  <2>2. \A c \in Delivery : steer'[c] \in {"prepared", "sent"} => steer[c] \in {"prepared", "sent"}
    BY <1>19 DEF DispatchSupplement, SupplementAccepted, SupplementRefused, SupplementUnknown,
        ReconcileSupplement, TypeOK
  <2>3. OpenSteers'
    BY <2>1, <2>2
  <2> QED
    BY <1>s, <2>1, <2>3
<1>20. ASSUME Crash PROVE InputInv'
  <2>1. /\ \A r \in Run, e \in Epoch : start'[r][e] = Recovered(start[r][e])
        /\ \A d \in Delivery : steer'[d] = Recovered(steer[d])
        /\ \A r \in Run : run'[r] = RecoveredRun(r)
        /\ recovering' = {}
    BY <1>20 DEF Crash
  <2>2. /\ \A r \in Run, e \in Epoch : /\ start'[r][e] \notin {"prepared", "sent"}
                                       /\ start'[r][e] # "none" => start[r][e] # "none"
        /\ \A d \in Delivery : steer'[d] \notin {"prepared", "sent"}
    BY <2>1, RecoveredInput, LaneTypes DEF InputStatus
  <2>3. \A r \in Run : run'[r].epoch = run[r].epoch
    BY <1>20, CrashEffect
  <2>4. ASSUME NEW r \in Run, Executing(r)'
        PROVE  /\ Executing(r) /\ run'[r].wait # "delivery_unknown"
               /\ \A e \in Epoch : /\ start'[r][e] = start[r][e]
                                   /\ start[r][e] \in {"none", "not_accepted"}
    <3>1. ~Lost(r)
      BY <1>20, <2>4, CrashEffect DEF Active
    <3>2. run[r] \in RunRow
      BY LaneTypes
    <3>3. /\ Executing(r)
          /\ run'[r].wait # run[r].wait => run'[r].wait = "runtime_recovery"
      <4>1. CASE run[r].status = "running" \/ run[r].wait = "network_recovery"
        <5>1. run'[r] = [run[r] EXCEPT !.status = "waiting", !.wait = "runtime_recovery"]
          BY <2>1, <3>1, <4>1 DEF RecoveredRun
        <5>2. /\ run'[r].wait = "runtime_recovery" /\ run'[r].cleanup = run[r].cleanup
              /\ run[r].status \in {"running", "waiting"}
          BY <3>2, <4>1, <5>1 DEF RunRow
        <5> QED
          BY <2>4, <5>2
      <4>2. CASE ~(run[r].status = "running" \/ run[r].wait = "network_recovery")
        BY <2>1, <2>4, <3>1, <4>2 DEF RecoveredRun
      <4> QED
        BY <4>1, <4>2
    <3>4. \A e \in Epoch : Recovered(start[r][e]) \notin {"accepted", "unknown"}
      BY <3>1, <3>3 DEF Lost, InputsOf
    <3>5. \A e \in Epoch : /\ start[r][e] \in {"none", "not_accepted"}
                           /\ start'[r][e] = start[r][e]
      BY <2>1, <3>4, RecoveredInput, LaneTypes DEF InputStatus
    <3>6. run[r].wait # "delivery_unknown"
      <4>1. StartStatus(r) # "unknown"
        BY <3>5, LaneTypes
      <4> QED
        BY <3>3, <4>1
    <3> QED
      BY <3>3, <3>5, <3>6
  <2>5. StartsDispatched' /\ RecoveringSafe' /\ OpenStarts' /\ OpenSteers'
    BY <2>1, <2>2, <2>3
  <2>6. OldEpochsSettled'
    BY <2>3, <2>4, LaneTypes
  <2>7. UnknownStartWaits'
    BY <2>3, <2>4, LaneTypes
  <2> QED
    BY <2>5, <2>6, <2>7
<1>21. ASSUME NEW d \in Delivery,
              SendMessage(d) \/ Withdraw(d) \/ CheckSupplement(d) \/ PreparationFails(d)
       PROVE  InputInv'
  BY <1>q, <1>21 DEF SendMessage, Withdraw, CheckSupplement, PreparationFails
<1>22. ASSUME NEW d \in Delivery, NEW r \in Run,
              \/ SendSupplement(d, r) \/ Continue(d, r) \/ NativeSteer(d, r)
              \/ PickSupplement(d, r)
       PROVE  InputInv'
  BY <1>q, <1>22 DEF SendSupplement, Continue, NativeSteer, PickSupplement
<1>23. ASSUME NEW r \in Run, \/ StartHost(r) \/ LaunchDone(r) \/ NativeTurnEnds(r)
                             \/ HostExit(r) \/ StopHost(r)
       PROVE  InputInv'
  BY <1>q, <1>23 DEF StartHost, LaunchDone, NativeTurnEnds, HostExit, StopHost
<1>24. ASSUME NEW r \in Run, NEW e \in Epoch, NativeStart(r, e) PROVE InputInv'
  BY <1>q, <1>24 DEF NativeStart
<1>25. ASSUME CompleteMission \/ CancelContinuations \/ UNCHANGED vars PROVE InputInv'
  BY <1>q, <1>25 DEF CompleteMission, CancelContinuations
<1> HIDE DEF InputInv
<1> QED
  BY <1>1, <1>2, <1>3, <1>4, <1>5, <1>6, <1>8, <1>9, <1>10, <1>11, <1>12, <1>13, <1>14, <1>15,
     <1>16, <1>17, <1>18, <1>19, <1>20, <1>21, <1>22, <1>23, <1>24, <1>25
  DEF Next, UserStep, SchedulerStep, LaunchStep, NativeStep, RuntimeEvent, RecoveryStep,
      CleanupStep, SupplementStep, SenderMove

\* The inputs of every reachable state.
LEMMA InputInvHolds == Spec => []InputInv
<1>1. Init => InputInv
  BY LaneTypes, InitTyped DEF Init, NoRun
<1> QED
  BY <1>1, InputStep, TypeCorrect, PTL DEF Spec

\* An execution whose start input is in doubt waits for evidence, and only such an execution
\* does: the acknowledgement, the loss of the Host, the network retry and the recovery after a
\* crash agree on it.
THEOREM UnknownStartWaitsHolds == Spec => []UnknownStartWaits
BY InputInvHolds, PTL

\* A run is dispatched again only when no earlier epoch can still have reached the Runtime.
THEOREM OldEpochsSettledHolds == Spec => []OldEpochsSettled
BY InputInvHolds, PTL

\* Whatever ends a run closes its inputs: none can be dispatched afterwards and none keeps an
\* outcome nobody recorded.
THEOREM TerminalInputsClosedHolds == Spec => []TerminalInputsClosed
<1>1. InputInv => TerminalInputsClosed
  <2> SUFFICES ASSUME InputInv, NEW r \in Run, run[r].status \in Ended
               PROVE  InputsOf(r) \cap {"prepared", "sent"} = {}
    BY DEF TerminalInputsClosed
  <2>1. ~Executing(r)
    BY DEF Ended
  <2> QED
    BY <2>1 DEF InputsOf, Steers
<1> QED
  BY <1>1, InputInvHolds, PTL

\* The three together: what is known of the inputs agrees with the runs in every reachable
\* state.
THEOREM InputsSettledHolds == Spec => []InputsSettled
BY UnknownStartWaitsHolds, TerminalInputsClosedHolds, OldEpochsSettledHolds, PTL
   DEF InputsSettled

HIDE DEF InputInv, StartsDispatched, RecoveringSafe, OldEpochsSettled, UnknownStartWaits,
        OpenStarts, OpenSteers, Executing, NotCancelled, StartStatus, Current

-----------------------------------------------------------------------------
(* What links the rows to the Runtime: the inductive invariant of the      *)
(* refinement of InputOnce.                                                *)

InDoubt == {"sent", "unknown"}     \* submitted, with no answer recorded

\* A start input the Runtime holds was dispatched and has no answer; one it took is not known
\* to be refused.
StartFate ==
    \A r \in Run, e \in Epoch :
        /\ startFate[r][e] = "open" => start[r][e] \in InDoubt
        /\ startFate[r][e] = "taken" => start[r][e] \in Uncertain

\* One epoch of a run at most has reached the Runtime, even after the run has ended.
OneUncertainStart ==
    \A r \in Run, e, f \in Epoch :
        start[r][e] \in Uncertain /\ start[r][f] \in Uncertain => e = f

\* A supplement the Runtime holds or took is still a supplement.
SteerFate ==
    \A d \in Delivery : steerFate[d] \in {"open", "taken"} =>
        steer[d] \in Uncertain /\ delivery[d].mode = "steer"

\* The sender works for a dispatched run, and while that executes on its own Delivery.
SenderOwns ==
    \A d \in Delivery : ~At(d, "none") =>
        /\ run[sender[d].run].status \notin {"absent", "queued"}
        /\ Executing(sender[d].run) =>
               delivery[d].mode = "steer" /\ delivery[d].run = sender[d].run

FateInv == StartFate /\ OneUncertainStart /\ SteerFate /\ SenderOwns

-----------------------------------------------------------------------------
(* What a step does to a Delivery. *)


Shut == {"settled", "cancelled", "failed"}

Same(d) == delivery'[d] = delivery[d]

Arrives(d) ==
    /\ delivery[d].status = "absent" /\ delivery'[d].status \in {"waiting", "claimed"}
    /\ delivery'[d].mode = "steer" \/ delivery'[d].run = None

LeavesQueue(d) ==
    /\ delivery[d].status = "waiting" /\ delivery'[d].status \in {"claimed"} \cup Shut
    /\ delivery'[d].mode = "start"
    /\ \/ delivery'[d].run = None
       \/ delivery'[d].run \in Run /\ run[delivery'[d].run].status = "absent"

Closes(d) ==
    /\ delivery[d].status \notin {"absent", "waiting"} /\ delivery'[d].status \in Shut
    /\ delivery'[d].mode = delivery[d].mode /\ delivery'[d].run = delivery[d].run

Returned(d) ==
    /\ delivery'[d] = Waiting
    /\ delivery[d].mode = "steer" /\ delivery[d].status \notin {"absent", "waiting"}
    /\ steerFate[d] \notin {"open", "taken"}
    /\ At(d, "none")' \/ \E r \in Run : delivery[d].run = r /\ ~Executing(r)'

Moved(d) == Same(d) \/ Arrives(d) \/ LeavesQueue(d) \/ Closes(d) \/ Returned(d)

\* What a terminal makes of a Delivery: back to the queue, or closed with its run and mode.
LEMMA SettledShape ==
  ASSUME delivery \in [Delivery -> DeliveryRow], NEW d \in Delivery, NEW outcome \in Ended
  PROVE  \/ SettledDelivery(d, outcome) = Waiting /\ ReturnsToQueue(d, outcome)
         \/ /\ SettledDelivery(d, outcome).status \in Shut
            /\ SettledDelivery(d, outcome).mode = delivery[d].mode
            /\ SettledDelivery(d, outcome).run = delivery[d].run
<1>1. delivery[d] \in DeliveryRow /\ Settled[outcome] \in Shut
  BY DEF Settled, Shut, Ended
<1>2. CASE ReturnsToQueue(d, outcome)
  BY <1>2 DEF SettledDelivery
<1>3. CASE ~ReturnsToQueue(d, outcome) /\ delivery[d].mode = "steer"
           /\ Closed(steer[d]) = "unknown"
  <2>1. SettledDelivery(d, outcome) = [delivery[d] EXCEPT !.status = "failed", !.code = "unknown"]
    BY <1>3 DEF SettledDelivery
  <2> QED
    BY <1>1, <2>1 DEF DeliveryRow, Shut
<1>4. CASE ~ReturnsToQueue(d, outcome)
           /\ ~(delivery[d].mode = "steer" /\ Closed(steer[d]) = "unknown")
  <2>1. SettledDelivery(d, outcome) =
          [delivery[d] EXCEPT !.status = Settled[outcome],
                              !.code = IF outcome = "succeeded" THEN "none" ELSE "run"]
    BY <1>4 DEF SettledDelivery
  <2> QED
    BY <1>1, <2>1 DEF DeliveryRow, Shut
<1> QED
  BY <1>2, <1>3, <1>4

\* The steps of a Delivery: it arrives, leaves the queue, is closed or is given back, and it is
\* given back only when the Runtime neither holds nor took it.
LEMMA DeliverySteps ==
  ASSUME TypeOK, TypeOK', SteerFate, [Next]_vars, NEW d \in Delivery
  PROVE  Moved(d)
<1>t. /\ delivery \in [Delivery -> DeliveryRow] /\ delivery[d] \in DeliveryRow
      /\ \A c \in Delivery : delivery[c] \in DeliveryRow
      /\ \A row \in DeliveryRow : row.status \in {"absent", "waiting"} =>
             row.mode = "start" /\ row.run = None
      /\ \A row \in DeliveryRow : row.status \in {"absent", "waiting", "claimed"} \cup Shut
  BY DEF TypeOK, DeliveryRow, NoDelivery, DeliveryStatus, Shut
<1>1. ASSUME UNCHANGED delivery PROVE Moved(d)
  BY <1>1 DEF Moved, Same
<1>2. ASSUME NEW r \in Run, NEW outcome \in Ended, NEW cleanup \in Cleanup,
             EndRun(r, outcome, cleanup)
      PROVE  Moved(d)
  <2>1. CASE delivery[d].run = r /\ delivery[d].status = "claimed"
    <3>1. delivery'[d] = SettledDelivery(d, outcome)
      BY <1>2, <2>1 DEF EndRun
    <3>2. ~Executing(r)'
      BY <1>2, EndRunEffect DEF Executing, Ended
    <3>3. ReturnsToQueue(d, outcome) =>
            delivery[d].mode = "steer" /\ steerFate[d] \notin {"open", "taken"}
      BY DEF ReturnsToQueue, SteerFate
    <3>4. CASE SettledDelivery(d, outcome) = Waiting /\ ReturnsToQueue(d, outcome)
      BY <2>1, <3>1, <3>2, <3>3, <3>4 DEF Moved, Returned
    <3>5. CASE /\ SettledDelivery(d, outcome).status \in Shut
               /\ SettledDelivery(d, outcome).mode = delivery[d].mode
               /\ SettledDelivery(d, outcome).run = delivery[d].run
      BY <2>1, <3>1, <3>5 DEF Moved, Closes
    <3> QED
      BY <1>t, <3>4, <3>5, SettledShape
  <2>2. CASE ~(delivery[d].run = r /\ delivery[d].status = "claimed")
    BY <1>2, <2>2 DEF EndRun, Moved, Same
  <2> QED
    BY <2>1, <2>2
<1>3. ASSUME NEW c \in Delivery, delivery[c].status = "absent",
             delivery' = [delivery EXCEPT ![c] = Waiting]
      PROVE  Moved(d)
  BY <1>3, <1>t, QueueRows DEF Moved, Same, Arrives
<1>4. ASSUME NEW c \in Delivery, NEW s \in InputStatus, ReturnToQueue(c, s), StopSender(c),
             s \notin Uncertain => steerFate[c] \notin {"open", "taken"}
      PROVE  Moved(d)
  <2>1. CASE UNCHANGED delivery
    BY <1>1, <2>1
  <2>2. CASE Returnable(c) /\ s \notin Uncertain /\ delivery' = [delivery EXCEPT ![c] = Waiting]
    <3>1. c # d => Same(d)
      BY <2>2, <1>t DEF Same
    <3>2. At(c, "none")'
      BY <1>4 DEF StopSender, At, Idle, TypeOK
    <3>3. c = d => Returned(d)
      BY <1>4, <2>2, <3>2, <1>t DEF Returned, Returnable
    <3> QED
      BY <3>1, <3>3 DEF Moved
  <2> QED
    BY <1>4, <2>1, <2>2 DEF ReturnToQueue
<1>5. ASSUME NEW c \in Delivery, delivery[c].status \notin {"absent", "waiting"},
             NEW s \in Shut, NEW code,
             delivery' = [delivery EXCEPT ![c] = [delivery[c] EXCEPT !.status = s, !.code = code]]
      PROVE  Moved(d)
  <2>1. c # d => Same(d)
    BY <1>5, <1>t DEF Same
  <2>2. c = d => Closes(d)
    BY <1>5, <1>t DEF Closes, DeliveryRow
  <2> QED
    BY <2>1, <2>2 DEF Moved
<1>6. ASSUME NEW c \in Delivery, AckDelivery(c) PROVE Moved(d)
  BY <1>1, <1>5, <1>6 DEF AckDelivery, Shut
<1>7. ASSUME NEW c \in Delivery, SendMessage(c) PROVE Moved(d)
  BY <1>3, <1>7 DEF SendMessage, NextDelivery
<1>8. ASSUME NEW c \in Delivery, NEW r \in Run, Continue(c, r) PROVE Moved(d)
  BY <1>3, <1>8 DEF Continue, NextDelivery
<1>9. ASSUME NEW c \in Delivery, NEW r \in Run, SendSupplement(c, r) PROVE Moved(d)
  <2> DEFINE row == [Waiting EXCEPT !.status = "claimed", !.mode = "steer", !.run = r,
                                    !.epoch = SupplementEpoch(r)]
  <2>1. delivery' = [delivery EXCEPT ![c] = row] /\ delivery[c].status = "absent"
    BY <1>9 DEF SendSupplement, NextDelivery
  <2>2. row.status = "claimed" /\ row.mode = "steer"
    BY DEF Waiting, NoDelivery
  <2> HIDE DEF row
  <2> QED
    BY <1>t, <2>1, <2>2 DEF Moved, Same, Arrives
<1>10. ASSUME NEW c \in Delivery, Withdraw(c) PROVE Moved(d)
  <2> DEFINE row == [delivery[c] EXCEPT !.status = "cancelled"]
  <2>1. delivery' = [delivery EXCEPT ![c] = row] /\ delivery[c].status = "waiting"
    BY <1>10 DEF Withdraw
  <2>2. row.status \in Shut /\ row.mode = "start" /\ row.run = None
    <3>1. row.status = "cancelled" /\ row.mode = delivery[c].mode /\ row.run = delivery[c].run
      BY <1>t DEF DeliveryRow
    <3> QED
      BY <1>t, <2>1, <3>1 DEF Shut
  <2> HIDE DEF row
  <2> QED
    BY <1>t, <2>1, <2>2 DEF Moved, Same, LeavesQueue
<1>11. ASSUME d \in WaitingSet,
              delivery'[d] = [delivery[d] EXCEPT !.status = "cancelled", !.code = "unavailable"]
       PROVE  Moved(d)
  <2>1. /\ delivery'[d].status = "cancelled" /\ delivery'[d].mode = delivery[d].mode
        /\ delivery'[d].run = delivery[d].run
    BY <1>t, <1>11 DEF DeliveryRow
  <2> QED
    BY <1>t, <1>11, <2>1 DEF Moved, LeavesQueue, WaitingSet, Shut
<1>12. ASSUME NEW r \in Run, ClaimBatch(r) \/ RejectBatch(r) PROVE Moved(d)
  <2>1. PICK last \in Pending, rs \in {"queued", "failed"}, ds \in {"claimed", "failed"},
             c \in FailureCode : InsertBatchRun(r, last, rs, ds, c)
    BY <1>12 DEF ClaimBatch, RejectBatch, Selectable, IsFirst, FailureCode
  <2>2. run[r].status = "absent"
    BY <1>12 DEF ClaimBatch, RejectBatch, NextRun
  <2>3. /\ \A x \in Prefix(last) : x \notin Expired /\ x \in WaitingSet
        /\ \A x \in Expired : x \in WaitingSet
    BY DEF Prefix, Pending, Expired
  <2>4. CASE d \in Expired
    BY <1>11, <2>1, <2>3, <2>4 DEF InsertBatchRun, CancelExpired
  <2>5. CASE d \notin Expired /\ d \in Prefix(last)
    <3>1. delivery'[d] = [delivery[d] EXCEPT !.status = ds, !.run = r, !.code = c]
      BY <2>1, <2>5 DEF InsertBatchRun
    <3>2. delivery[d].status = "waiting"
      BY <2>3, <2>5 DEF WaitingSet
    <3>3. /\ delivery'[d].status = ds /\ delivery'[d].run = r
          /\ delivery'[d].mode = delivery[d].mode
      BY <1>t, <3>1 DEF DeliveryRow
    <3> QED
      BY <1>t, <2>2, <3>2, <3>3 DEF Moved, LeavesQueue, Shut
  <2>6. CASE d \notin Expired /\ d \notin Prefix(last)
    BY <2>1, <2>6 DEF InsertBatchRun, Moved, Same
  <2> QED
    BY <2>4, <2>5, <2>6
<1>13. ASSUME CancelContinuations PROVE Moved(d)
  <2>1. CASE d \in Expired
    BY <1>11, <1>13, <2>1 DEF CancelContinuations, CancelExpired, Expired
  <2>2. CASE d \notin Expired
    BY <1>13, <2>2 DEF CancelContinuations, Moved, Same
  <2> QED
    BY <2>1, <2>2
<1>14. ASSUME NEW r \in Run, Stop(r) PROVE Moved(d)
  BY <1>2, <1>14 DEF Stop, StopCleanup, Ended, Cleanup
<1>15. ASSUME NEW r \in Run, RejectDispatch(r) \/ Succeed(r) PROVE Moved(d)
  BY <1>2, <1>15 DEF RejectDispatch, Succeed, Ended, Cleanup
<1>16. ASSUME NEW r \in Run, FailLaunch(r) PROVE Moved(d)
  BY <1>1, <1>2, <1>16 DEF FailLaunch, FailLost, Ended, Cleanup
<1>17. ASSUME NEW r \in Run, FailNative(r) PROVE Moved(d)
  BY <1>2, <1>17 DEF FailNative, TerminalCleanup, Ended, Cleanup
<1>18. ASSUME NEW r \in Run, ReconcileLoss(r) PROVE Moved(d)
  BY <1>1, <1>2, <1>18 DEF ReconcileLoss, FailLost, Ended, Cleanup
<1>19. ASSUME NEW c \in Delivery, SenderMove(c) PROVE Moved(d)
  <2>0. /\ steer[c] \in InputStatus /\ "not_accepted" \in InputStatus
        /\ steer[c] \notin Uncertain => steerFate[c] \notin {"open", "taken"}
    BY DEF TypeOK, InputStatus, SteerFate
  <2>1. CASE CheckSupplement(c) \/ PrepareSupplement(c)
    BY <1>1, <1>4, <2>0, <2>1 DEF CheckSupplement, PrepareSupplement
  <2>2. CASE PreparationFails(c)
    BY <1>1, <1>5, <2>2 DEF PreparationFails, FailsPreparation, Shut
  <2>3. CASE DispatchSupplement(c) \/ SupplementUnknown(c)
    BY <1>1, <2>3 DEF DispatchSupplement, SupplementUnknown
  <2>4. CASE SupplementAccepted(c)
    BY <1>6, <2>4 DEF SupplementAccepted
  <2>5. CASE SupplementRefused(c)
    BY <1>4, <2>0, <2>5 DEF SupplementRefused
  <2> QED
    BY <1>19, <2>1, <2>2, <2>3, <2>4, <2>5 DEF SenderMove
<1>20. ASSUME NEW c \in Delivery, ReconcileSupplement(c) PROVE Moved(d)
  BY <1>6, <1>20 DEF ReconcileSupplement
<1>21. ASSUME Crash PROVE Moved(d)
  <2>1. delivery'[d] = RecoveredDelivery(d)
    BY <1>21 DEF Crash
  <2>2. CASE RecoveredDelivery(d) = delivery[d]
    BY <2>1, <2>2 DEF Moved, Same
  <2>3. CASE RecoveredDelivery(d) # delivery[d]
    <3>1. /\ delivery[d].status = "claimed"
          /\ RecoveredDelivery(d) =
               [delivery[d] EXCEPT !.status = "failed",
                  !.code = IF delivery[d].mode = "steer" /\ Recovered(steer[d]) = "unknown"
                           THEN "unknown" ELSE "run"]
      BY <2>3 DEF RecoveredDelivery
    <3>2. /\ RecoveredDelivery(d).status = "failed"
          /\ RecoveredDelivery(d).mode = delivery[d].mode
          /\ RecoveredDelivery(d).run = delivery[d].run
      BY <1>t, <3>1 DEF DeliveryRow
    <3> QED
      BY <2>1, <3>1, <3>2 DEF Moved, Closes, Shut
  <2> QED
    BY <2>2, <2>3
<1>22. ASSUME NEW r \in Run, NEW e \in Epoch,
              \/ PrepareStart(r, e) \/ DispatchStart(r, e) \/ NativeStart(r, e)
              \/ AckStart(r, e) \/ StartRefused(r, e) \/ StartUnknown(r, e)
       PROVE  Moved(d)
  BY <1>1, <1>22 DEF PrepareStart, DispatchStart, NativeStart, AckStart, StartRefused,
      StartUnknown
<1>23. ASSUME NEW r \in Run,
              \/ ClaimRun(r) \/ StartHost(r) \/ LaunchDone(r) \/ NativeTurnEnds(r)
              \/ HostExit(r) \/ MarkNetworkRecovery(r) \/ ArmNetworkRecovery(r)
              \/ StopHost(r) \/ AckCleanup(r)
       PROVE  Moved(d)
  BY <1>1, <1>23 DEF ClaimRun, StartHost, LaunchDone, NativeTurnEnds, HostExit,
      MarkNetworkRecovery, ArmNetworkRecovery, StopHost, AckCleanup
<1>24. ASSUME NEW c \in Delivery, NEW r \in Run, NativeSteer(c, r) \/ PickSupplement(c, r)
       PROVE  Moved(d)
  BY <1>1, <1>24 DEF NativeSteer, PickSupplement
<1>25. ASSUME CompleteMission \/ UNCHANGED vars PROVE Moved(d)
  BY <1>1, <1>25 DEF CompleteMission
<1> QED
  BY <1>7, <1>8, <1>9, <1>10, <1>12, <1>13, <1>14, <1>15, <1>16, <1>17, <1>18, <1>19, <1>20,
     <1>21, <1>22, <1>23, <1>24, <1>25
  DEF Next, UserStep, SchedulerStep, LaunchStep, NativeStep, RuntimeEvent, RecoveryStep,
      CleanupStep, SupplementStep

-----------------------------------------------------------------------------
(* What links the rows to the Runtime is kept. *)

\* A terminal and a recovery leave an input that may have reached the Runtime in that state.
LEMMA StillUncertain ==
  ASSUME NEW s \in InputStatus
  PROVE  /\ Closed(s) \in Uncertain <=> s \in Uncertain
         /\ s \in InDoubt => Closed(s) \in InDoubt /\ Recovered(s) \in InDoubt
         /\ s \in Uncertain => Recovered(s) \in Uncertain
         /\ Recovered(s) \in Uncertain => s \in Uncertain \cup {"prepared"}
BY DEF Closed, Recovered, Uncertain, InDoubt, InputStatus

\* The start inputs.
LEMMA StartFateStep ==
  TypeOK /\ InputInv /\ StartFate /\ OneUncertainStart /\ [Next]_vars
      => StartFate' /\ OneUncertainStart'
<1> SUFFICES ASSUME TypeOK, InputInv, StartFate, OneUncertainStart, [Next]_vars
             PROVE  StartFate' /\ OneUncertainStart'
  OBVIOUS
<1> DEFINE Goal == StartFate' /\ OneUncertainStart'
<1>k. ASSUME \A r \in Run, e \in Epoch :
               /\ start'[r][e] \in Uncertain <=> start[r][e] \in Uncertain
               /\ startFate[r][e] = "open" /\ start[r][e] \in InDoubt => start'[r][e] \in InDoubt
               /\ startFate'[r][e] = "open" => startFate[r][e] = "open"
               /\ startFate'[r][e] = "taken" => startFate[r][e] \in {"open", "taken"}
      PROVE  Goal
  <2>1. OneUncertainStart'
    BY <1>k DEF OneUncertainStart
  <2>2. StartFate'
    BY <1>k DEF StartFate, Uncertain, InDoubt
  <2> QED
    BY <2>1, <2>2
<1>q. ASSUME UNCHANGED <<start, startFate>> PROVE Goal
  BY <1>k, <1>q
<1>c. ASSUME NEW r \in Run, CloseStarts(r), UNCHANGED startFate PROVE Goal
  <2>1. \A s \in Run, e \in Epoch : /\ start'[s][e] \in Uncertain <=> start[s][e] \in Uncertain
                                    /\ start[s][e] \in InDoubt => start'[s][e] \in InDoubt
    <3>1. start' = [start EXCEPT ![r] = [e \in Epoch |-> Closed(start[r][e])]]
      BY <1>c DEF CloseStarts
    <3>2. \A e \in Epoch : /\ Closed(start[r][e]) \in Uncertain <=> start[r][e] \in Uncertain
                           /\ start[r][e] \in InDoubt => Closed(start[r][e]) \in InDoubt
      BY StillUncertain, LaneTypes
    <3> QED
      BY <3>1, <3>2 DEF TypeOK
  <2> QED
    BY <1>c, <1>k, <2>1
<1>h. ASSUME NEW r \in Run, HostGone(r), UNCHANGED start PROVE Goal
  <2>1. \A s \in Run, e \in Epoch : startFate'[s][e] \in {"open", "taken"} =>
                                        startFate'[s][e] = startFate[s][e]
    BY <1>h DEF HostGone, SetFate, TypeOK
  <2> QED
    BY <1>h, <1>k, <2>1
<1>1. ASSUME NEW r \in Run, Stop(r) PROVE Goal
  BY <1>c, <1>1 DEF Stop
<1>2. ASSUME NEW r \in Run, FailLaunch(r) PROVE Goal
  BY <1>c, <1>q, <1>2 DEF FailLaunch, FailLost
<1>3. ASSUME NEW r \in Run, ReconcileLoss(r) PROVE Goal
  BY <1>c, <1>q, <1>3 DEF ReconcileLoss, FailLost
<1>4. ASSUME NEW r \in Run, HostExit(r) \/ StopHost(r) PROVE Goal
  BY <1>h, <1>4 DEF HostExit, StopHost
<1>5. ASSUME NEW r \in Run, NEW e \in Epoch, PrepareStart(r, e) PROVE Goal
  BY <1>k, <1>5 DEF PrepareStart, Uncertain, InDoubt, TypeOK
<1>6. ASSUME NEW r \in Run, NEW e \in Epoch, DispatchStart(r, e) PROVE Goal
  <2>1. /\ start' = [start EXCEPT ![r][e] = "sent"] /\ start[r][e] = "prepared"
        /\ startFate' = [startFate EXCEPT ![r][e] = "open"]
    BY <1>6 DEF DispatchStart
  <2>2. /\ start'[r][e] = "sent"
        /\ \A s \in Run, f \in Epoch : s # r \/ f # e =>
               start'[s][f] = start[s][f] /\ startFate'[s][f] = startFate[s][f]
    BY <2>1 DEF TypeOK
  <2>3. Executing(r)
    BY <2>1 DEF InputInv, OpenStarts
  <2>4. \A f \in Epoch : start[r][f] \in Uncertain => f = e
    <3> SUFFICES ASSUME NEW f \in Epoch, start[r][f] \in Uncertain PROVE f = e
      OBVIOUS
    <3>1. e = run[r].epoch
      BY <2>1, <2>3, UnsettledIsCurrent
    <3>2. f = run[r].epoch
      BY <2>3, UnsettledIsCurrent DEF Uncertain
    <3> QED
      BY <3>1, <3>2
  <2> QED
    BY <2>2, <2>4 DEF StartFate, OneUncertainStart, Uncertain, InDoubt
<1>7. ASSUME NEW r \in Run, NEW e \in Epoch, StartRefused(r, e) PROVE Goal
  <2>1. /\ start' = [start EXCEPT ![r][e] = "not_accepted"] /\ UNCHANGED startFate
        /\ startFate[r][e] = "refused"
    BY <1>7 DEF StartRefused
  <2>2. /\ start'[r][e] = "not_accepted"
        /\ \A s \in Run, f \in Epoch : s # r \/ f # e => start'[s][f] = start[s][f]
    BY <2>1 DEF TypeOK
  <2> QED
    BY <2>1, <2>2 DEF StartFate, OneUncertainStart, Uncertain
<1>8. ASSUME NEW r \in Run, NEW e \in Epoch, AckStart(r, e) \/ StartUnknown(r, e) PROVE Goal
  <2>1. PICK x \in Uncertain : start' = [start EXCEPT ![r][e] = x]
    BY <1>8 DEF AckStart, StartUnknown, Uncertain
  <2>2. start[r][e] \in Uncertain /\ UNCHANGED startFate
    BY <1>8 DEF AckStart, StartUnknown, Uncertain
  <2>3. start'[r][e] \in InDoubt \/ startFate[r][e] = "taken"
    BY <1>8 DEF AckStart, StartUnknown, InDoubt, TypeOK
  <2>4. \A s \in Run, f \in Epoch :
            /\ start'[s][f] \in Uncertain <=> start[s][f] \in Uncertain
            /\ s # r \/ f # e => start'[s][f] = start[s][f]
    BY <2>1, <2>2 DEF TypeOK
  <2> QED
    BY <1>k, <2>2, <2>3, <2>4
<1>9. ASSUME NEW r \in Run, NEW e \in Epoch, NativeStart(r, e) PROVE Goal
  <2>1. PICK x \in {"taken", "refused"} : startFate' = [startFate EXCEPT ![r][e] = x]
    BY <1>9 DEF NativeStart
  <2>2. startFate[r][e] = "open" /\ UNCHANGED start
    BY <1>9 DEF NativeStart
  <2>3. \A s \in Run, f \in Epoch :
            /\ startFate'[s][f] = "open" => startFate[s][f] = "open"
            /\ startFate'[s][f] = "taken" => startFate[s][f] \in {"open", "taken"}
    BY <2>1, <2>2 DEF TypeOK
  <2> QED
    BY <1>k, <2>2, <2>3
<1>10. ASSUME Crash PROVE Goal
  <2>1. \A r \in Run, e \in Epoch : start'[r][e] = Recovered(start[r][e])
    BY <1>10 DEF Crash
  <2>2. StartFate'
    BY <1>10, <2>1, StillUncertain, LaneTypes DEF Crash, StartFate
  <2>3. ASSUME NEW r \in Run, NEW e \in Epoch, NEW f \in Epoch,
               start'[r][e] \in Uncertain, start'[r][f] \in Uncertain
        PROVE  e = f
    <3>1. /\ start[r][e] \in Uncertain \cup {"prepared"}
          /\ start[r][f] \in Uncertain \cup {"prepared"}
      BY <2>1, <2>3, StillUncertain, LaneTypes
    <3>2. CASE Executing(r)
      BY <3>1, <3>2, UnsettledIsCurrent DEF Uncertain
    <3>3. CASE ~Executing(r)
      BY <3>1, <3>3 DEF InputInv, OpenStarts, OneUncertainStart
    <3> QED
      BY <3>2, <3>3
  <2> QED
    BY <2>2, <2>3 DEF OneUncertainStart
<1>11. ASSUME NEW r \in Run,
              \/ ClaimBatch(r) \/ RejectBatch(r) \/ ClaimRun(r) \/ RejectDispatch(r)
              \/ StartHost(r) \/ LaunchDone(r) \/ NativeTurnEnds(r) \/ Succeed(r) \/ FailNative(r)
              \/ MarkNetworkRecovery(r) \/ ArmNetworkRecovery(r) \/ AckCleanup(r)
       PROVE  Goal
  BY <1>q, <1>11 DEF ClaimBatch, RejectBatch, InsertBatchRun, ClaimRun, RejectDispatch, StartHost,
      LaunchDone, NativeTurnEnds, Succeed, FailNative, MarkNetworkRecovery, ArmNetworkRecovery,
      AckCleanup
<1>12. ASSUME NEW d \in Delivery,
              \/ SendMessage(d) \/ Withdraw(d) \/ SenderMove(d) \/ ReconcileSupplement(d)
       PROVE  Goal
  BY <1>q, <1>12 DEF SendMessage, Withdraw, SenderMove, CheckSupplement, PrepareSupplement,
      PreparationFails, DispatchSupplement, SupplementAccepted, SupplementRefused,
      SupplementUnknown, ReconcileSupplement
<1>13. ASSUME NEW d \in Delivery, NEW r \in Run,
              \/ SendSupplement(d, r) \/ Continue(d, r) \/ NativeSteer(d, r)
              \/ PickSupplement(d, r)
       PROVE  Goal
  BY <1>q, <1>13 DEF SendSupplement, Continue, NativeSteer, PickSupplement
<1>14. ASSUME CompleteMission \/ CancelContinuations \/ UNCHANGED vars PROVE Goal
  BY <1>q, <1>14 DEF CompleteMission, CancelContinuations
<1> HIDE DEF Goal
<1>15. Goal
  BY <1>1, <1>2, <1>3, <1>4, <1>5, <1>6, <1>7, <1>8, <1>9, <1>10, <1>11, <1>12, <1>13, <1>14
  DEF Next, UserStep, SchedulerStep, LaunchStep, NativeStep, RuntimeEvent, RecoveryStep,
      CleanupStep, SupplementStep
<1> QED
  BY <1>15 DEF Goal

\* The sender.
LEMMA SenderOwnsStep ==
  TypeOK /\ TypeOK' /\ SteerFate /\ SenderOwns /\ [Next]_vars => SenderOwns'
<1> SUFFICES ASSUME TypeOK, TypeOK', SteerFate, SenderOwns, [Next]_vars PROVE SenderOwns'
  OBVIOUS
<1>t. \A d \in Delivery : /\ sender[d] \in SenderRow /\ delivery[d] \in DeliveryRow
                          /\ ~At(d, "none") => sender[d].run \in Run
                          /\ delivery[d].status \in {"absent", "waiting"} =>
                                 delivery[d].mode = "start"
  <2>1. \A d \in Delivery : sender[d] \in SenderRow /\ delivery[d] \in DeliveryRow
    BY DEF TypeOK
  <2>2. \A row \in SenderRow : row.pc # "none" => row.run \in Run
    BY DEF SenderRow
  <2>3. \A row \in DeliveryRow : row.status \in {"absent", "waiting"} => row.mode = "start"
    BY DEF DeliveryRow, NoDelivery
  <2> QED
    BY <2>1, <2>2, <2>3 DEF At
<1>g. ASSUME \A d \in Delivery : ~At(d, "none")' =>
                 ~At(d, "none") /\ sender'[d].run = sender[d].run
      PROVE  SenderOwns'
  <2> SUFFICES ASSUME NEW d \in Delivery, ~At(d, "none")'
               PROVE  /\ run'[sender'[d].run].status \notin {"absent", "queued"}
                      /\ Executing(sender[d].run)' =>
                             /\ delivery'[d].mode = "steer"
                             /\ delivery'[d].run = sender'[d].run
    BY DEF SenderOwns
  <2>1. PICK r \in Run : r = sender[d].run /\ sender'[d].run = r
    BY <1>g, <1>t
  <2>2. ~At(d, "none")
    BY <1>g
  <2>3. run[r].status \notin {"absent", "queued"}
    BY <2>1, <2>2 DEF SenderOwns
  <2>4. /\ run'[r].status \notin {"absent", "queued"}
        /\ Executing(r)' => Executing(r)
    BY <2>3, RunMoves
  <2>5. ASSUME Executing(r)' PROVE delivery'[d].mode = "steer" /\ delivery'[d].run = r
    <3>1. delivery[d].mode = "steer" /\ delivery[d].run = r
      BY <2>1, <2>2, <2>4, <2>5 DEF SenderOwns
    <3>2. ~Arrives(d) /\ ~LeavesQueue(d)
      BY <1>t, <3>1 DEF Arrives, LeavesQueue
    <3>3. ~Returned(d)
      BY <2>5, <3>1 DEF Returned
    <3> QED
      BY <3>1, <3>2, <3>3, DeliverySteps DEF Moved, Same, Closes
  <2>6. Executing(sender[d].run)' <=> Executing(r)'
    BY <2>1 DEF Executing, NotCancelled
  <2> QED
    BY <2>1, <2>4, <2>5, <2>6
<1>q. ASSUME UNCHANGED sender PROVE SenderOwns'
  BY <1>g, <1>q DEF At
<1>s. ASSUME NEW d \in Delivery, StopSender(d) PROVE SenderOwns'
  <2>1. \A c \in Delivery : ~At(c, "none")' => ~At(c, "none") /\ sender'[c].run = sender[c].run
    BY <1>s DEF StopSender, At, Idle, TypeOK
  <2> QED
    BY <1>g, <2>1
<1>m. ASSUME NEW d \in Delivery, NEW pc, ~At(d, "none"), MoveSender(d, pc) PROVE SenderOwns'
  <2>1. sender' = [sender EXCEPT ![d] = [sender[d] EXCEPT !.pc = pc]]
    BY <1>m DEF MoveSender
  <2>2. [sender[d] EXCEPT !.pc = pc].run = sender[d].run
    BY <1>t DEF SenderRow
  <2>3. \A c \in Delivery : ~At(c, "none")' => ~At(c, "none") /\ sender'[c].run = sender[c].run
    BY <1>m, <2>1, <2>2 DEF At, TypeOK
  <2> QED
    BY <1>g, <2>3
<1>1. ASSUME NEW d \in Delivery, NEW r \in Run, PickSupplement(d, r) PROVE SenderOwns'
  <2>1. /\ delivery[d].mode = "steer" /\ delivery[d].run = r /\ Executing(r)
        /\ sender' = [sender EXCEPT ![d] = [pc |-> "picked", run |-> r, epoch |-> run[r].epoch]]
        /\ UNCHANGED <<delivery, run>>
    BY <1>1 DEF PickSupplement, Sendable
  <2>2. \A c \in Delivery : c # d => sender'[c] = sender[c]
    BY <2>1 DEF TypeOK
  <2>3. sender'[d].run = r
    BY <2>1 DEF TypeOK
  <2> QED
    BY <2>1, <2>2, <2>3 DEF SenderOwns, At, Executing, NotCancelled
<1>2. ASSUME NEW d \in Delivery, SenderMove(d) PROVE SenderOwns'
  BY <1>2, <1>s, <1>m DEF SenderMove, CheckSupplement, PrepareSupplement, PreparationFails,
      DispatchSupplement, SupplementAccepted, SupplementRefused, SupplementUnknown, At
<1>3. ASSUME Crash PROVE SenderOwns'
  <2>1. \A d \in Delivery : At(d, "none")'
    BY <1>3 DEF Crash, At, Idle
  <2> QED
    BY <1>g, <2>1
<1>4. ASSUME NEW d \in Delivery, SendMessage(d) \/ Withdraw(d) \/ ReconcileSupplement(d)
      PROVE  SenderOwns'
  BY <1>q, <1>4 DEF SendMessage, Withdraw, ReconcileSupplement
<1>5. ASSUME NEW d \in Delivery, NEW r \in Run,
             SendSupplement(d, r) \/ Continue(d, r) \/ NativeSteer(d, r)
      PROVE  SenderOwns'
  BY <1>q, <1>5 DEF SendSupplement, Continue, NativeSteer
<1>6. ASSUME NEW r \in Run,
             \/ Stop(r) \/ ClaimBatch(r) \/ RejectBatch(r) \/ ClaimRun(r) \/ RejectDispatch(r)
             \/ StartHost(r) \/ LaunchDone(r) \/ FailLaunch(r) \/ NativeTurnEnds(r)
             \/ HostExit(r) \/ Succeed(r) \/ FailNative(r) \/ ReconcileLoss(r)
             \/ MarkNetworkRecovery(r) \/ ArmNetworkRecovery(r) \/ StopHost(r) \/ AckCleanup(r)
      PROVE  SenderOwns'
  BY <1>q, <1>6 DEF Stop, ClaimBatch, RejectBatch, InsertBatchRun, ClaimRun, RejectDispatch,
      StartHost, LaunchDone, FailLaunch, NativeTurnEnds, HostExit, Succeed, FailNative,
      ReconcileLoss, MarkNetworkRecovery, ArmNetworkRecovery, StopHost, AckCleanup
<1>7. ASSUME NEW r \in Run, NEW e \in Epoch,
             \/ PrepareStart(r, e) \/ DispatchStart(r, e) \/ NativeStart(r, e)
             \/ AckStart(r, e) \/ StartRefused(r, e) \/ StartUnknown(r, e)
      PROVE  SenderOwns'
  BY <1>q, <1>7 DEF PrepareStart, DispatchStart, NativeStart, AckStart, StartRefused,
      StartUnknown
<1>8. ASSUME CompleteMission \/ CancelContinuations \/ UNCHANGED vars PROVE SenderOwns'
  BY <1>q, <1>8 DEF CompleteMission, CancelContinuations
<1> QED
  BY <1>1, <1>2, <1>3, <1>4, <1>5, <1>6, <1>7, <1>8
  DEF Next, UserStep, SchedulerStep, LaunchStep, NativeStep, RuntimeEvent, RecoveryStep,
      CleanupStep, SupplementStep

\* The supplements.
LEMMA SteerFateStep ==
  TypeOK /\ TypeOK' /\ SteerFate /\ SenderOwns /\ [Next]_vars => SteerFate'
<1> SUFFICES ASSUME TypeOK, TypeOK', SteerFate, SenderOwns, [Next]_vars PROVE SteerFate'
  OBVIOUS
<1>t. \A d \in Delivery : delivery[d].status \in {"absent", "waiting"} => delivery[d].mode = "start"
  <2>1. \A row \in DeliveryRow : row.status \in {"absent", "waiting"} => row.mode = "start"
    BY DEF DeliveryRow, NoDelivery
  <2> QED
    BY <2>1 DEF TypeOK
<1>m. ASSUME NEW d \in Delivery, steerFate[d] \in {"open", "taken"}
      PROVE  delivery'[d].mode = "steer"
  <2>1. delivery[d].mode = "steer"
    BY <1>m DEF SteerFate
  <2>2. ~Arrives(d) /\ ~LeavesQueue(d) /\ ~Returned(d)
    BY <1>m, <1>t, <2>1 DEF Arrives, LeavesQueue, Returned
  <2> QED
    BY <2>1, <2>2, DeliverySteps DEF Moved, Same, Closes
<1>k. ASSUME \A d \in Delivery :
               /\ steer[d] \in Uncertain => steer'[d] \in Uncertain
               /\ steerFate'[d] \in {"open", "taken"} => steerFate[d] \in {"open", "taken"}
      PROVE  SteerFate'
  BY <1>k, <1>m DEF SteerFate
<1>q. ASSUME UNCHANGED <<steer, steerFate>> PROVE SteerFate'
  BY <1>k, <1>q
<1>e. ASSUME NEW r \in Run, NEW outcome \in Ended, NEW cleanup \in Cleanup,
             EndRun(r, outcome, cleanup), UNCHANGED steerFate
      PROVE  SteerFate'
  <2>1. \A d \in Delivery : steer[d] \in Uncertain => steer'[d] \in Uncertain
    BY <1>e, StillUncertain DEF EndRun, TypeOK
  <2> QED
    BY <1>e, <1>k, <2>1
<1>h. ASSUME NEW r \in Run, HostGone(r), UNCHANGED steer PROVE SteerFate'
  <2>1. \A d \in Delivery : steerFate'[d] \in {"open", "taken"} => steerFate[d] \in {"open", "taken"}
    BY <1>h DEF HostGone, SetFate
  <2> QED
    BY <1>h, <1>k, <2>1
<1>1. ASSUME NEW r \in Run, Stop(r) PROVE SteerFate'
  BY <1>e, <1>1 DEF Stop, StopCleanup, Ended, Cleanup
<1>2. ASSUME NEW r \in Run, RejectDispatch(r) \/ Succeed(r) PROVE SteerFate'
  BY <1>e, <1>2 DEF RejectDispatch, Succeed, Ended, Cleanup
<1>3. ASSUME NEW r \in Run, FailLaunch(r) PROVE SteerFate'
  BY <1>e, <1>q, <1>3 DEF FailLaunch, FailLost, Ended, Cleanup
<1>4. ASSUME NEW r \in Run, FailNative(r) PROVE SteerFate'
  BY <1>e, <1>4 DEF FailNative, TerminalCleanup, Ended, Cleanup
<1>5. ASSUME NEW r \in Run, ReconcileLoss(r) PROVE SteerFate'
  BY <1>e, <1>q, <1>5 DEF ReconcileLoss, FailLost, Ended, Cleanup
<1>6. ASSUME NEW r \in Run, HostExit(r) \/ StopHost(r) PROVE SteerFate'
  BY <1>h, <1>6 DEF HostExit, StopHost
<1>7. ASSUME NEW d \in Delivery, NEW r \in Run, NativeSteer(d, r) PROVE SteerFate'
  <2>1. /\ \A c \in Delivery : steerFate'[c] \in {"open", "taken"} =>
                                   steerFate[c] \in {"open", "taken"}
        /\ UNCHANGED steer
    BY <1>7 DEF NativeSteer, TypeOK
  <2> QED
    BY <1>k, <2>1
<1>8. ASSUME NEW d \in Delivery, DispatchSupplement(d) PROVE SteerFate'
  <2>1. CASE UNCHANGED <<steer, steerFate>>
    BY <1>q, <2>1
  <2>2. CASE /\ steer' = [steer EXCEPT ![d] = "sent"] /\ Executing(sender[d].run)
             /\ steerFate' = [steerFate EXCEPT ![d] =
                    IF host[sender[d].run] \in {"idle", "turn"} THEN "open" ELSE "lost"]
    <3>1. delivery[d].mode = "steer" /\ UNCHANGED delivery
      BY <1>8, <2>2 DEF DispatchSupplement, SenderOwns, At
    <3>2. \A c \in Delivery : c # d => steer'[c] = steer[c] /\ steerFate'[c] = steerFate[c]
      BY <2>2 DEF TypeOK
    <3>3. steer'[d] \in Uncertain
      BY <2>2 DEF TypeOK, Uncertain
    <3> QED
      BY <3>1, <3>2, <3>3 DEF SteerFate
  <2> QED
    BY <1>8, <2>1, <2>2 DEF DispatchSupplement, MayDispatch
<1>9. ASSUME NEW d \in Delivery, PrepareSupplement(d) PROVE SteerFate'
  <2>1. \A c \in Delivery : steer[c] \in Uncertain => steer'[c] \in Uncertain
    BY <1>9 DEF PrepareSupplement, Uncertain, TypeOK
  <2> QED
    BY <1>9, <1>k, <2>1 DEF PrepareSupplement
<1>10. ASSUME NEW d \in Delivery,
              SupplementAccepted(d) \/ SupplementUnknown(d) \/ ReconcileSupplement(d)
       PROVE  SteerFate'
  <2>1. \A c \in Delivery : steer[c] \in Uncertain => steer'[c] \in Uncertain
    BY <1>10 DEF SupplementAccepted, SupplementUnknown, ReconcileSupplement, Uncertain, TypeOK
  <2> QED
    BY <1>10, <1>k, <2>1 DEF SupplementAccepted, SupplementUnknown, ReconcileSupplement
<1>11. ASSUME NEW d \in Delivery, SupplementRefused(d) PROVE SteerFate'
  <2>1. steerFate[d] = "refused" /\ steer' = [steer EXCEPT ![d] = "not_accepted"]
        /\ UNCHANGED steerFate
    BY <1>11 DEF SupplementRefused
  <2>2. \A c \in Delivery : c # d => steer'[c] = steer[c]
    BY <2>1 DEF TypeOK
  <2> QED
    BY <1>m, <2>1, <2>2 DEF SteerFate
<1>12. ASSUME Crash PROVE SteerFate'
  <2>1. \A d \in Delivery : steer[d] \in Uncertain => steer'[d] \in Uncertain
    BY <1>12, StillUncertain DEF Crash, TypeOK
  <2> QED
    BY <1>12, <1>k, <2>1 DEF Crash
<1>13. ASSUME NEW d \in Delivery,
              SendMessage(d) \/ Withdraw(d) \/ CheckSupplement(d) \/ PreparationFails(d)
       PROVE  SteerFate'
  BY <1>q, <1>13 DEF SendMessage, Withdraw, CheckSupplement, PreparationFails
<1>14. ASSUME NEW d \in Delivery, NEW r \in Run,
              SendSupplement(d, r) \/ Continue(d, r) \/ PickSupplement(d, r)
       PROVE  SteerFate'
  BY <1>q, <1>14 DEF SendSupplement, Continue, PickSupplement
<1>15. ASSUME NEW r \in Run,
              \/ ClaimBatch(r) \/ RejectBatch(r) \/ ClaimRun(r) \/ StartHost(r) \/ LaunchDone(r)
              \/ NativeTurnEnds(r) \/ MarkNetworkRecovery(r) \/ ArmNetworkRecovery(r)
              \/ AckCleanup(r)
       PROVE  SteerFate'
  BY <1>q, <1>15 DEF ClaimBatch, RejectBatch, InsertBatchRun, ClaimRun, StartHost, LaunchDone,
      NativeTurnEnds, MarkNetworkRecovery, ArmNetworkRecovery, AckCleanup
<1>16. ASSUME NEW r \in Run, NEW e \in Epoch,
              \/ PrepareStart(r, e) \/ DispatchStart(r, e) \/ NativeStart(r, e)
              \/ AckStart(r, e) \/ StartRefused(r, e) \/ StartUnknown(r, e)
       PROVE  SteerFate'
  BY <1>q, <1>16 DEF PrepareStart, DispatchStart, NativeStart, AckStart, StartRefused,
      StartUnknown
<1>17. ASSUME CompleteMission \/ CancelContinuations \/ UNCHANGED vars PROVE SteerFate'
  BY <1>q, <1>17 DEF CompleteMission, CancelContinuations
<1> QED
  BY <1>1, <1>2, <1>3, <1>4, <1>5, <1>6, <1>7, <1>8, <1>9, <1>10, <1>11, <1>12, <1>13, <1>14,
     <1>15, <1>16, <1>17
  DEF Next, UserStep, SchedulerStep, LaunchStep, NativeStep, RuntimeEvent, RecoveryStep,
      CleanupStep, SupplementStep, SenderMove

\* What links the rows to the Runtime holds in every reachable state.
LEMMA FateInvHolds == Spec => []FateInv
<1>1. Init => FateInv
  BY DEF Init, Idle, FateInv, StartFate, OneUncertainStart, SteerFate, SenderOwns, At, Uncertain
<1>2. TypeOK /\ TypeOK' /\ InputInv /\ FateInv /\ [Next]_vars => FateInv'
  BY StartFateStep, SenderOwnsStep, SteerFateStep DEF FateInv
<1> QED
  BY <1>1, <1>2, TypeCorrect, InputInvHolds, PTL DEF Spec

-----------------------------------------------------------------------------
(* The refinement. *)

TakenStarts(r) == {e \in Epoch : startFate[r][e] = "taken"}

\* Only a turn of the Runtime consumes an input.
LEMMA FateMoves ==
  ASSUME TypeOK, FateInv, [Next]_vars
  PROVE  \/ \E r \in Run, e \in Epoch :
                NativeStart(r, e) /\ startFate' = [startFate EXCEPT ![r][e] = "taken"]
         \/ \E d \in Delivery, r \in Run :
                NativeSteer(d, r) /\ steerFate' = [steerFate EXCEPT ![d] = "taken"]
         \/ /\ \A r \in Run : TakenStarts(r)' = TakenStarts(r)
            /\ \A d \in Delivery : steerFate'[d] = "taken" <=> steerFate[d] = "taken"
<1> DEFINE Still == /\ \A r \in Run : TakenStarts(r)' = TakenStarts(r)
                    /\ \A d \in Delivery : steerFate'[d] = "taken" <=> steerFate[d] = "taken"
           Turn == \/ \E r \in Run, e \in Epoch :
                          NativeStart(r, e) /\ startFate' = [startFate EXCEPT ![r][e] = "taken"]
                   \/ \E d \in Delivery, r \in Run :
                          NativeSteer(d, r) /\ steerFate' = [steerFate EXCEPT ![d] = "taken"]
<1>q. ASSUME UNCHANGED <<startFate, steerFate>> PROVE Still
  BY <1>q DEF TakenStarts
<1>h. ASSUME NEW r \in Run, HostGone(r) PROVE Still
  BY <1>h DEF HostGone, SetFate, TakenStarts, TypeOK
<1>1. ASSUME NEW r \in Run, NEW e \in Epoch, NativeStart(r, e) PROVE Turn \/ Still
  <2>1. CASE startFate' = [startFate EXCEPT ![r][e] = "taken"]
    BY <1>1, <2>1
  <2>2. CASE startFate' = [startFate EXCEPT ![r][e] = "refused"]
    <3>1. startFate[r][e] = "open" /\ UNCHANGED steerFate
      BY <1>1 DEF NativeStart
    <3> QED
      BY <2>2, <3>1 DEF TakenStarts, TypeOK
  <2> QED
    BY <1>1, <2>1, <2>2 DEF NativeStart
<1>2. ASSUME NEW d \in Delivery, NEW r \in Run, NativeSteer(d, r) PROVE Turn \/ Still
  <2>1. CASE steerFate' = [steerFate EXCEPT ![d] = "taken"]
    BY <1>2, <2>1
  <2>2. CASE steerFate' = [steerFate EXCEPT ![d] = "refused"]
    <3>1. steerFate[d] = "open" /\ UNCHANGED startFate
      BY <1>2 DEF NativeSteer
    <3> QED
      BY <2>2, <3>1 DEF TakenStarts, TypeOK
  <2> QED
    BY <1>2, <2>1, <2>2 DEF NativeSteer
<1>3. ASSUME NEW r \in Run, NEW e \in Epoch, DispatchStart(r, e) PROVE Still
  <2>1. /\ startFate' = [startFate EXCEPT ![r][e] = "open"] /\ UNCHANGED steerFate
        /\ start[r][e] = "prepared"
    BY <1>3 DEF DispatchStart
  <2>2. startFate[r][e] # "taken"
    BY <2>1 DEF FateInv, StartFate, Uncertain
  <2> QED
    BY <2>1, <2>2 DEF TakenStarts, TypeOK
<1>4. ASSUME NEW d \in Delivery, DispatchSupplement(d) PROVE Still
  <2>1. CASE UNCHANGED <<startFate, steerFate>>
    BY <1>q, <2>1
  <2>2. CASE ~UNCHANGED <<startFate, steerFate>>
    <3>1. PICK x \in {"open", "lost"} : steerFate' = [steerFate EXCEPT ![d] = x]
      BY <1>4, <2>2 DEF DispatchSupplement
    <3>2. steer[d] = "prepared" /\ UNCHANGED startFate
      BY <1>4, <2>2 DEF DispatchSupplement
    <3>3. steerFate[d] # "taken"
      BY <3>2 DEF FateInv, SteerFate, Uncertain
    <3> QED
      BY <3>1, <3>2, <3>3 DEF TakenStarts, TypeOK
  <2> QED
    BY <2>1, <2>2
<1>5. ASSUME NEW r \in Run, HostExit(r) \/ StopHost(r) PROVE Still
  BY <1>h, <1>5 DEF HostExit, StopHost
<1>6. ASSUME NEW r \in Run,
             \/ Stop(r) \/ ClaimBatch(r) \/ RejectBatch(r) \/ ClaimRun(r) \/ RejectDispatch(r)
             \/ StartHost(r) \/ LaunchDone(r) \/ FailLaunch(r) \/ NativeTurnEnds(r)
             \/ Succeed(r) \/ FailNative(r) \/ ReconcileLoss(r)
             \/ MarkNetworkRecovery(r) \/ ArmNetworkRecovery(r) \/ AckCleanup(r)
      PROVE  Still
  BY <1>q, <1>6 DEF Stop, ClaimBatch, RejectBatch, InsertBatchRun, ClaimRun, RejectDispatch,
      StartHost, LaunchDone, FailLaunch, NativeTurnEnds, Succeed, FailNative,
      ReconcileLoss, MarkNetworkRecovery, ArmNetworkRecovery, AckCleanup
<1>7. ASSUME NEW r \in Run, NEW e \in Epoch,
             PrepareStart(r, e) \/ AckStart(r, e) \/ StartRefused(r, e) \/ StartUnknown(r, e)
      PROVE  Still
  BY <1>q, <1>7 DEF PrepareStart, AckStart, StartRefused, StartUnknown
<1>8. ASSUME NEW d \in Delivery, NEW r \in Run,
             SendSupplement(d, r) \/ Continue(d, r) \/ PickSupplement(d, r)
      PROVE  Still
  BY <1>q, <1>8 DEF SendSupplement, Continue, PickSupplement
<1>9. ASSUME NEW d \in Delivery,
             \/ SendMessage(d) \/ Withdraw(d) \/ CheckSupplement(d) \/ PrepareSupplement(d)
             \/ PreparationFails(d) \/ SupplementAccepted(d) \/ SupplementRefused(d)
             \/ SupplementUnknown(d) \/ ReconcileSupplement(d)
      PROVE  Still
  BY <1>q, <1>9 DEF SendMessage, Withdraw, CheckSupplement, PrepareSupplement, PreparationFails,
      SupplementAccepted, SupplementRefused, SupplementUnknown, ReconcileSupplement
<1>10. ASSUME CompleteMission \/ CancelContinuations \/ Crash \/ UNCHANGED vars PROVE Still
  BY <1>q, <1>10 DEF CompleteMission, CancelContinuations, Crash
<1> HIDE DEF Still, Turn
<1>11. Turn \/ Still
  BY <1>1, <1>2, <1>3, <1>4, <1>5, <1>6, <1>7, <1>8, <1>9, <1>10
  DEF Next, UserStep, SchedulerStep, LaunchStep, NativeStep, RuntimeEvent, RecoveryStep,
      CleanupStep, SupplementStep, SenderMove
<1> QED
  BY <1>11 DEF Turn, Still

\* A step that is no turn of the Runtime consumes nothing.
LEMMA ConsumedStill ==
  ASSUME TypeOK, TypeOK', InputInv, FateInv, FateInv', [Next]_vars,
         \A r \in Run : TakenStarts(r)' = TakenStarts(r),
         \A d \in Delivery : steerFate'[d] = "taken" <=> steerFate[d] = "taken",
         NEW d \in Delivery
  PROVE  Consumed(d)' = Consumed(d)
<1>t. /\ delivery[d] \in DeliveryRow /\ delivery'[d] \in DeliveryRow
      /\ \A row \in DeliveryRow : /\ row.status \in {"absent", "waiting"} =>
                                         row.mode = "start" /\ row.run = None
                                  /\ row.run \in Run \cup {None}
                                  /\ row.mode \in {"start", "steer"}
  BY DEF TypeOK, DeliveryRow, NoDelivery
<1>1. CASE delivery'[d].mode = delivery[d].mode /\ delivery'[d].run = delivery[d].run
  <2>1. CASE delivery[d].run = None
    BY <1>1, <2>1 DEF Consumed
  <2>2. CASE delivery[d].run # None
    <3>1. PICK r \in Run : delivery[d].run = r /\ delivery'[d].run = r
      BY <1>1, <1>t, <2>2
    <3>2. /\ Consumed(d) = (IF steerFate[d] = "taken" THEN 1 ELSE 0)
                + (IF delivery[d].mode = "start" /\ r # None
                   THEN Cardinality(TakenStarts(r)) ELSE 0)
          /\ Consumed(d)' = (IF steerFate'[d] = "taken" THEN 1 ELSE 0)
                + (IF delivery'[d].mode = "start" /\ r # None
                   THEN Cardinality(TakenStarts(r)') ELSE 0)
      BY <3>1 DEF Consumed, TakenStarts
    <3> QED
      BY <1>1, <3>2
  <2> QED
    BY <2>1, <2>2
<1>2. CASE Arrives(d)
  <2>1. delivery[d].mode = "start" /\ delivery[d].run = None
    BY <1>2, <1>t DEF Arrives
  <2>2. steerFate[d] # "taken" /\ steerFate'[d] # "taken"
    BY <2>1 DEF FateInv, SteerFate
  <2> QED
    BY <1>2, <2>1, <2>2 DEF Arrives, Consumed
<1>3. CASE LeavesQueue(d)
  <2>1. delivery[d].mode = "start" /\ delivery[d].run = None
    BY <1>3, <1>t DEF LeavesQueue
  <2>2. steerFate[d] # "taken" /\ steerFate'[d] # "taken"
    BY <2>1 DEF FateInv, SteerFate
  <2>3. Consumed(d) = 0
    BY <2>1, <2>2 DEF Consumed
  <2>4. CASE delivery'[d].run = None
    BY <2>2, <2>3, <2>4 DEF Consumed
  <2>5. CASE delivery'[d].run \in Run /\ run[delivery'[d].run].status = "absent"
    <3>1. PICK r \in Run : delivery'[d].run = r /\ run[r].status = "absent"
      BY <2>5
    <3>2. TakenStarts(r) = {}
      <4>1. run[r].epoch = None
        BY <3>1, LaneTypes DEF RunRow
      <4>2. \A e \in Epoch : start[r][e] = "none"
        BY <4>1, LaneTypes DEF InputInv, StartsDispatched
      <4> QED
        BY <4>2 DEF FateInv, StartFate, Uncertain, TakenStarts
    <3>3. Cardinality(TakenStarts(r)') = 0
      BY <3>2, FS_EmptySet
    <3>4. Consumed(d)' = 0 + (IF delivery'[d].mode = "start" /\ r # None
                              THEN Cardinality(TakenStarts(r)') ELSE 0)
      BY <2>2, <3>1 DEF Consumed, TakenStarts
    <3> QED
      BY <2>3, <3>3, <3>4
  <2> QED
    BY <1>3, <2>4, <2>5 DEF LeavesQueue
<1>4. CASE Returned(d)
  <2>1. /\ delivery'[d].run = None /\ delivery[d].mode = "steer"
        /\ steerFate[d] # "taken" /\ steerFate'[d] # "taken"
    BY <1>4, QueueRows DEF Returned
  <2> QED
    BY <2>1 DEF Consumed
<1> QED
  BY <1>1, <1>2, <1>3, <1>4, DeliverySteps DEF Moved, Same, Closes, FateInv

\* Where a Delivery is, by its status.
LEMMA PlaceCases ==
  ASSUME TypeOK, NEW d \in Delivery
  PROVE  /\ delivery[d].status = "absent" => Place(d) = "nobody"
         /\ delivery[d].status = "waiting" => Place(d) = "queue"
         /\ delivery[d].status = "claimed" => Place(d) = "run"
         /\ delivery[d].status \in Shut => Place(d) = "closed"
         /\ delivery[d].status \in {"absent", "waiting", "claimed"} \cup Shut
         /\ Place(d) \in InputOnce!Place
<1>1. delivery[d].status \in {"absent", "waiting", "claimed"} \cup Shut
  BY DEF TypeOK, DeliveryRow, DeliveryStatus, Shut
<1> QED
  BY <1>1 DEF Place, InputOnce!Place, Shut

\* A step that is no turn moves Deliveries as InputOnce allows.
LEMMA MoveStep ==
  ASSUME TypeOK, TypeOK', InputInv, FateInv, FateInv', [Next]_vars,
         \A r \in Run : TakenStarts(r)' = TakenStarts(r),
         \A d \in Delivery : steerFate'[d] = "taken" <=> steerFate[d] = "taken"
  PROVE  InputOnce!Move
<1> DEFINE place == [d \in Delivery |-> Place(d)]
           taken == [d \in Delivery |-> Consumed(d)]
<1>1. taken' = taken
  BY ConsumedStill
<1>t. \A d \in Delivery : delivery'[d].status \in {"absent", "waiting", "claimed"} \cup Shut
  BY DEF TypeOK, DeliveryRow, DeliveryStatus, Shut
<1>2. place' \in [Delivery -> InputOnce!Place]
  <2>1. \A d \in Delivery : Place(d)' \in InputOnce!Place
    BY <1>t DEF Place, InputOnce!Place
  <2> QED
    BY <2>1
<1>3. ASSUME NEW d \in Delivery, Place(d)' # Place(d)
      PROVE  \/ Place(d) = "nobody" /\ Place(d)' \in {"queue", "run"}
             \/ Place(d) = "queue" /\ Place(d)' \in {"run", "closed"}
             \/ Place(d) = "run" /\ Place(d)' = "closed"
             \/ Place(d) \in {"run", "closed"} /\ Place(d)' = "queue" /\ Consumed(d) = 0
  <2>1. /\ delivery'[d].status = "absent" => Place(d)' = "nobody"
        /\ delivery'[d].status = "waiting" => Place(d)' = "queue"
        /\ delivery'[d].status = "claimed" => Place(d)' = "run"
        /\ delivery'[d].status \in Shut => Place(d)' = "closed"
        /\ delivery'[d].status \in {"absent", "waiting", "claimed"} \cup Shut
    BY <1>t DEF Place, Shut
  <2>2. ~Same(d)
    BY <1>3 DEF Same, Place
  <2>3. CASE Arrives(d)
    BY <2>1, <2>3, PlaceCases DEF Arrives
  <2>4. CASE LeavesQueue(d)
    BY <2>1, <2>4, PlaceCases DEF LeavesQueue
  <2>5. CASE Closes(d)
    BY <1>3, <2>1, <2>5, PlaceCases DEF Closes
  <2>6. CASE Returned(d)
    <3>1. delivery'[d].status = "waiting"
      BY <2>6, QueueRows DEF Returned
    <3>2. Consumed(d) = 0
      BY <2>6 DEF Returned, Consumed
    <3>3. Place(d) \in {"run", "closed"}
      BY <2>6, PlaceCases DEF Returned
    <3> QED
      BY <2>1, <3>1, <3>2, <3>3
  <2> QED
    BY <2>2, <2>3, <2>4, <2>5, <2>6, DeliverySteps DEF Moved, FateInv
<1> QED
  BY <1>1, <1>2, <1>3 DEF InputOnce!Move, InputOnce!MayMove

\* A turn that takes a start input consumes the batch of its run.
LEMMA TakeBatch ==
  ASSUME TypeOK, InputInv, FateInv, NEW r \in Run, NEW e \in Epoch, NativeStart(r, e),
         startFate' = [startFate EXCEPT ![r][e] = "taken"]
  PROVE  InputOnce!Take({d \in Delivery : delivery[d].mode = "start" /\ delivery[d].run = r})
<1> DEFINE items == {d \in Delivery : delivery[d].mode = "start" /\ delivery[d].run = r}
<1>1. UNCHANGED <<delivery, steerFate>> /\ startFate[r][e] = "open"
  BY DEF NativeStart
<1>2. TakenStarts(r) = {} /\ TakenStarts(r)' = {e}
  <2>1. \A f \in Epoch : f # e => startFate[r][f] # "taken"
    BY <1>1 DEF FateInv, StartFate, OneUncertainStart, InDoubt, Uncertain
  <2> QED
    BY <1>1, <2>1 DEF TakenStarts, TypeOK
<1>3. Cardinality(TakenStarts(r)) = 0 /\ Cardinality(TakenStarts(r)') = 1
  BY <1>2, FS_EmptySet, FS_Singleton
<1>4. \A s \in Run : s # r => TakenStarts(s)' = TakenStarts(s)
  BY DEF TakenStarts, TypeOK
<1>5. r # None
  BY LaneTypes
<1>6. ASSUME NEW d \in items
      PROVE  Place(d) \in {"run", "closed"} /\ Consumed(d) = 0 /\ Consumed(d)' = 1
  <2>1. delivery[d].mode = "start" /\ delivery[d].run = r /\ d \in Delivery
    OBVIOUS
  <2>2. delivery[d].status \notin {"absent", "waiting"}
    <3>1. delivery[d] \in DeliveryRow
      BY <2>1 DEF TypeOK
    <3> QED
      BY <1>5, <2>1, <3>1 DEF DeliveryRow, NoDelivery
  <2>3. steerFate[d] # "taken" /\ steerFate'[d] # "taken"
    BY <1>1, <2>1 DEF FateInv, SteerFate
  <2>4. /\ Consumed(d) = 0 + Cardinality(TakenStarts(r))
        /\ Consumed(d)' = 0 + Cardinality(TakenStarts(r)')
    BY <1>1, <1>5, <2>1, <2>3 DEF Consumed, TakenStarts
  <2>5. Place(d) \in {"run", "closed"}
    BY <2>1, <2>2, PlaceCases
  <2> QED
    BY <1>3, <2>4, <2>5
<1>7. ASSUME NEW d \in Delivery, d \notin items
      PROVE  Consumed(d)' = Consumed(d)
  <2>1. delivery[d].run \in Run \cup {None}
    BY DEF TypeOK, DeliveryRow
  <2>2. CASE delivery[d].mode # "start" \/ delivery[d].run = None
    BY <1>1, <2>2 DEF Consumed
  <2>3. CASE delivery[d].mode = "start" /\ delivery[d].run # None
    <3>1. PICK s \in Run : delivery[d].run = s /\ s # r
      BY <1>7, <2>1, <2>3
    <3>2. /\ Consumed(d) = (IF steerFate[d] = "taken" THEN 1 ELSE 0)
                               + Cardinality(TakenStarts(s))
          /\ Consumed(d)' = (IF steerFate[d] = "taken" THEN 1 ELSE 0)
                                + Cardinality(TakenStarts(s)')
      BY <1>1, <2>3, <3>1 DEF Consumed, TakenStarts
    <3> QED
      BY <1>4, <3>1, <3>2
  <2> QED
    BY <2>2, <2>3
<1>8. \A d \in Delivery : Place(d)' = Place(d)
  BY <1>1 DEF Place
<1> QED
  BY <1>6, <1>7, <1>8 DEF InputOnce!Take

\* A turn that takes a supplement consumes that supplement.
LEMMA TakeSupplement ==
  ASSUME TypeOK, FateInv, NEW d \in Delivery, NEW r \in Run, NativeSteer(d, r),
         steerFate' = [steerFate EXCEPT ![d] = "taken"]
  PROVE  InputOnce!Take({d})
<1>1. UNCHANGED <<delivery, startFate>> /\ steerFate[d] = "open"
  BY DEF NativeSteer
<1>2. delivery[d].mode = "steer" /\ steerFate'[d] = "taken"
  BY <1>1 DEF FateInv, SteerFate, TypeOK
<1>3. delivery[d].status \notin {"absent", "waiting"}
  BY <1>2 DEF TypeOK, DeliveryRow, NoDelivery
<1>4. Place(d) \in {"run", "closed"}
  BY <1>3, PlaceCases
<1>5. Consumed(d) = 0 /\ Consumed(d)' = 1
  BY <1>1, <1>2 DEF Consumed
<1>6. ASSUME NEW c \in Delivery, c # d PROVE Consumed(c)' = Consumed(c)
  <2>1. steerFate'[c] = steerFate[c]
    BY <1>6 DEF TypeOK
  <2> QED
    BY <1>1, <2>1 DEF Consumed
<1>7. \A c \in Delivery : Place(c)' = Place(c)
  BY <1>1 DEF Place
<1> QED
  BY <1>4, <1>5, <1>6, <1>7 DEF InputOnce!Take

\* The queue, the batch claim, the supplements, the terminals and the recovery implement
\* InputOnce: a Delivery is consumed by one native turn at most, and it never goes back to the
\* queue when the Runtime took it, whatever is refused, lost, retried or interrupted by a crash.
THEOREM ConsumedOnceHolds == Spec => ConsumedOnce
<1>1. Init => InputOnce!Init
  <2> SUFFICES ASSUME Init PROVE InputOnce!Init
    OBVIOUS
  <2>1. \A d \in Delivery : Place(d) = "nobody" /\ Consumed(d) = 0
    BY DEF Init, NoDelivery, Place, Consumed
  <2> QED
    BY <2>1 DEF InputOnce!Init
<1>2. TypeOK /\ TypeOK' /\ InputInv /\ FateInv /\ FateInv' /\ [Next]_vars
        => [InputOnce!Next]_InputOnce!vars
  <2> SUFFICES ASSUME TypeOK, TypeOK', InputInv, FateInv, FateInv', [Next]_vars
               PROVE  InputOnce!Next
    OBVIOUS
  <2>1. CASE /\ \A r \in Run : TakenStarts(r)' = TakenStarts(r)
             /\ \A d \in Delivery : steerFate'[d] = "taken" <=> steerFate[d] = "taken"
    BY <2>1, MoveStep DEF InputOnce!Next
  <2>2. ASSUME NEW r \in Run, NEW e \in Epoch, NativeStart(r, e),
               startFate' = [startFate EXCEPT ![r][e] = "taken"]
        PROVE  InputOnce!Next
    <3> DEFINE items == {d \in Delivery : delivery[d].mode = "start" /\ delivery[d].run = r}
    <3>1. InputOnce!Take(items) /\ items \in SUBSET Delivery
      BY <2>2, TakeBatch
    <3> QED
      BY <3>1 DEF InputOnce!Next
  <2>3. ASSUME NEW d \in Delivery, NEW r \in Run, NativeSteer(d, r),
               steerFate' = [steerFate EXCEPT ![d] = "taken"]
        PROVE  InputOnce!Next
    <3>1. InputOnce!Take({d}) /\ {d} \in SUBSET Delivery
      BY <2>3, TakeSupplement
    <3> QED
      BY <3>1 DEF InputOnce!Next
  <2> QED
    BY <2>1, <2>2, <2>3, FateMoves
<1> QED
  BY <1>1, <1>2, TypeCorrect, InputInvHolds, FateInvHolds, PTL
  DEF Spec, ConsumedOnce, InputOnce!Spec

-----------------------------------------------------------------------------
(* One live turn: a run of this generation that neither executes nor owes  *)
(* its cleanup has no turn and gets none.                                  *)

\* A turn took a start input.
TurnTaken == \A r \in Run : host[r] = "turn" => TakenStarts(r) # {}

\* The lane waits for this run: it executes, or its process may still be there.
Busy(r) == run[r].status \in {"running", "waiting"} \/ run[r].cleanup = "pending"

\* No turn of the run is live, and none can begin.
Quiet(r) == /\ host[r] # "turn"
            /\ CleanupProven(r) \/ \A e \in Epoch : startFate[r][e] # "open"

QuietBehind == \A r \in owned : Busy(r) \/ Quiet(r)

OneBusy == \A r, s \in owned : Busy(r) /\ Busy(s) => r = s

TurnInv == TurnTaken /\ QuietBehind /\ OneBusy

\* A run whose start inputs were all refused, answered or never sent is quiet: what the
\* Runtime holds is in doubt and what it took is not known to be refused.
LEMMA QuietInputs ==
  ASSUME StartFate, TurnTaken, NEW r \in Run,
         \A e \in Epoch : start[r][e] \notin InDoubt,
         host[r] # "turn" \/ \A e \in Epoch : start[r][e] # "accepted"
  PROVE  Quiet(r)
<1>1. \A e \in Epoch : startFate[r][e] # "open"
  BY DEF StartFate
<1>2. host[r] # "turn"
  <2> SUFFICES ASSUME host[r] = "turn" PROVE FALSE
    OBVIOUS
  <2>1. PICK e \in Epoch : startFate[r][e] = "taken"
    BY DEF TurnTaken, TakenStarts
  <2>2. start[r][e] \in Uncertain
    BY <2>1 DEF StartFate
  <2> QED
    BY <2>2 DEF Uncertain, InDoubt
<1> QED
  BY <1>1, <1>2 DEF Quiet


\* The process of a run changes by its launch, its turns and its end only.
LEMMA HostMoves ==
  ASSUME [Next]_vars
  PROVE  \/ UNCHANGED host
         \/ \E r \in Run : \/ HostGone(r) \/ StartHost(r) \/ NativeTurnEnds(r)
                           \/ \E e \in Epoch : NativeStart(r, e)
<1> DEFINE Moves == \/ UNCHANGED host
                    \/ \E r \in Run : \/ HostGone(r) \/ StartHost(r) \/ NativeTurnEnds(r)
                                      \/ \E e \in Epoch : NativeStart(r, e)
<1>1. ASSUME NEW r \in Run,
             \/ Stop(r) \/ ClaimBatch(r) \/ RejectBatch(r) \/ ClaimRun(r) \/ RejectDispatch(r)
             \/ LaunchDone(r) \/ FailLaunch(r) \/ Succeed(r) \/ FailNative(r) \/ ReconcileLoss(r)
             \/ MarkNetworkRecovery(r) \/ ArmNetworkRecovery(r) \/ AckCleanup(r)
      PROVE  UNCHANGED host
  BY <1>1 DEF Stop, ClaimBatch, RejectBatch, InsertBatchRun, ClaimRun, RejectDispatch,
      LaunchDone, FailLaunch, Succeed, FailNative, ReconcileLoss, MarkNetworkRecovery,
      ArmNetworkRecovery, AckCleanup
<1>2. ASSUME NEW r \in Run, NEW e \in Epoch,
             \/ PrepareStart(r, e) \/ DispatchStart(r, e) \/ AckStart(r, e)
             \/ StartRefused(r, e) \/ StartUnknown(r, e)
      PROVE  UNCHANGED host
  BY <1>2 DEF PrepareStart, DispatchStart, AckStart, StartRefused, StartUnknown
<1>3. ASSUME NEW d \in Delivery, NEW r \in Run,
             SendSupplement(d, r) \/ Continue(d, r) \/ PickSupplement(d, r) \/ NativeSteer(d, r)
      PROVE  UNCHANGED host
  BY <1>3 DEF SendSupplement, Continue, PickSupplement, NativeSteer
<1>4. ASSUME NEW d \in Delivery,
             SendMessage(d) \/ Withdraw(d) \/ SenderMove(d) \/ ReconcileSupplement(d)
      PROVE  UNCHANGED host
  BY <1>4 DEF SendMessage, Withdraw, SenderMove, CheckSupplement, PrepareSupplement,
      PreparationFails, DispatchSupplement, SupplementAccepted, SupplementRefused,
      SupplementUnknown, ReconcileSupplement
<1>5. ASSUME CompleteMission \/ CancelContinuations \/ Crash \/ UNCHANGED vars
      PROVE  UNCHANGED host
  BY <1>5 DEF CompleteMission, CancelContinuations, Crash
<1>6. ASSUME NEW r \in Run, HostExit(r) \/ StopHost(r) PROVE HostGone(r)
  BY <1>6 DEF HostExit, StopHost
<1> QED
  BY <1>1, <1>2, <1>3, <1>4, <1>5, <1>6
  DEF Next, UserStep, SchedulerStep, LaunchStep, NativeStep, RuntimeEvent, RecoveryStep,
      CleanupStep, SupplementStep

\* A turn begins only when the Runtime takes a start input, and no step untakes one.
LEMMA TurnTakenStep == TypeOK /\ FateInv /\ TurnTaken /\ [Next]_vars => TurnTaken'
<1> SUFFICES ASSUME TypeOK, FateInv, TurnTaken, [Next]_vars,
                    NEW s \in Run, host'[s] = "turn"
             PROVE  TakenStarts(s)' # {}
  BY DEF TurnTaken
<1>1. ASSUME NEW e \in Epoch, startFate' = [startFate EXCEPT ![s][e] = "taken"]
      PROVE  TakenStarts(s)' # {}
  <2>1. startFate'[s][e] = "taken"
    BY <1>1 DEF TypeOK
  <2> QED
    BY <2>1 DEF TakenStarts
<1>2. host[s] = "turn" \/ \E e \in Epoch : startFate' = [startFate EXCEPT ![s][e] = "taken"]
  BY HostMoves DEF HostGone, StartHost, NativeTurnEnds, NativeStart, TypeOK
<1>3. ASSUME host[s] = "turn" PROVE TakenStarts(s)' # {}
  <2>1. PICK f \in Epoch : startFate[s][f] = "taken"
    BY <1>3 DEF TurnTaken, TakenStarts
  <2>2. CASE \A r \in Run : TakenStarts(r)' = TakenStarts(r)
    BY <1>3, <2>2 DEF TurnTaken
  <2>3. CASE \E d \in Delivery, r \in Run : NativeSteer(d, r)
    BY <2>1, <2>3 DEF NativeSteer, TakenStarts
  <2>4. ASSUME NEW r \in Run, NEW e \in Epoch, startFate' = [startFate EXCEPT ![r][e] = "taken"]
        PROVE  TakenStarts(s)' # {}
    <3>1. startFate'[s][f] = "taken"
      BY <2>1, <2>4 DEF TypeOK
    <3> QED
      BY <3>1 DEF TakenStarts
  <2> QED
    BY <2>2, <2>3, <2>4, FateMoves
<1> QED
  BY <1>1, <1>2, <1>3

\* Only a dispatch lets the lane wait for a run, and it stops waiting when the run is quiet.
LEMMA BusyMoves ==
  ASSUME TypeOK, InputInv, FateInv, TurnTaken, [Next]_vars, NEW s \in Run
  PROVE  /\ Busy(s)' => Busy(s) \/ ClaimRun(s)
         /\ Busy(s) => Busy(s)' \/ Quiet(s)'
<1> DEFINE Goal == /\ Busy(s)' => Busy(s) \/ ClaimRun(s)
                   /\ Busy(s) => Busy(s)' \/ Quiet(s)'
<1>t. run \in [Run -> RunRow]
  BY DEF TypeOK
<1>q. ASSUME UNCHANGED run PROVE Goal
  BY <1>q DEF Busy
<1>o. ASSUME NEW r \in Run, NEW outcome \in Ended, NEW cleanup \in Cleanup,
             EndRun(r, outcome, cleanup)
      PROVE  /\ run'[r].status \notin {"running", "waiting"} /\ run'[r].cleanup = cleanup
             /\ s # r => run'[s] = run[s]
  BY <1>t, <1>o DEF EndRun, RunRow, Ended
<1>p. ASSUME NEW r \in Run, NEW outcome \in Ended, EndRun(r, outcome, "pending"), Busy(r)
      PROVE  Goal
  BY <1>o, <1>p DEF Busy, Cleanup
<1>n. ASSUME NEW r \in Run, NEW outcome \in Ended, NEW cleanup \in Cleanup \ {"pending"},
             EndRun(r, outcome, cleanup), Quiet(r)'
      PROVE  Goal
  BY <1>o, <1>n DEF Busy
<1>l. ASSUME NEW r \in Run, FailLost(r), Executing(r) PROVE Goal
  BY <1>l, <1>p DEF FailLost, Busy, Ended, Executing
<1>w. ASSUME NEW r \in Run, run[r].status \in {"running", "waiting"},
             run'[r].status \in {"running", "waiting"}, \A x \in Run \ {r} : run'[x] = run[x]
      PROVE  Goal
  BY <1>w DEF Busy
<1>h. ASSUME NEW r \in Run, UNCHANGED <<host, launch, startFate>>, Quiet(r) PROVE Quiet(r)'
  BY <1>h DEF Quiet, CleanupProven
<1>1. ASSUME NEW r \in Run, Stop(r) PROVE Goal
  <2>1. EndRun(r, "cancelled", StopCleanup(r)) /\ "cancelled" \in Ended
    BY <1>1 DEF Stop, Ended
  <2>2. CASE run[r].status = "queued"
    <3>1. ~Busy(r) /\ StopCleanup(r) = "acked"
      BY <1>1, <2>2 DEF Stop, Busy, StopCleanup, NotCancelled
    <3> QED
      BY <1>o, <2>1, <3>1 DEF Busy, Cleanup
  <2>3. CASE run[r].status # "queued"
    <3>1. Busy(r) /\ StopCleanup(r) = "pending"
      BY <1>1, <2>3 DEF Stop, Busy, StopCleanup, Active
    <3> QED
      BY <1>p, <2>1, <3>1
  <2> QED
    BY <2>2, <2>3
<1>2. ASSUME NEW r \in Run, ClaimBatch(r) \/ RejectBatch(r) PROVE Goal
  <2>1. PICK status \in {"queued", "failed"} : run' = [run EXCEPT ![r].status = status]
    BY <1>2 DEF ClaimBatch, RejectBatch, InsertBatchRun
  <2>2. run[r].status = "absent" /\ run[r].cleanup = "none"
    BY <1>2, <1>t DEF ClaimBatch, RejectBatch, NextRun, RunRow, Ended
  <2>3. /\ run'[r].status \notin {"running", "waiting"} /\ run'[r].cleanup = "none"
        /\ s # r => run'[s] = run[s]
    BY <1>t, <2>1, <2>2 DEF RunRow
  <2> QED
    BY <2>2, <2>3 DEF Busy
<1>3. ASSUME NEW r \in Run, ClaimRun(r) PROVE Goal
  <2>1. run'[r].status = "running" /\ (s # r => run'[s] = run[s])
    BY <1>3, <1>t DEF ClaimRun, RunRow
  <2> QED
    BY <1>3, <2>1 DEF Busy
<1>4. ASSUME NEW r \in Run, RejectDispatch(r) PROVE Goal
  <2>1. \A e \in Epoch : start[r][e] \in {"none", "not_accepted"}
    BY <1>4, DispatchableInputs DEF RejectDispatch
  <2>2. Quiet(r)
    BY <2>1, QuietInputs DEF FateInv, InDoubt
  <2>3. Quiet(r)' /\ EndRun(r, "failed", "none")
    BY <1>4, <1>h, <2>2 DEF RejectDispatch
  <2> QED
    BY <1>n, <2>3 DEF Ended, Cleanup
<1>5. ASSUME NEW r \in Run, TerminalValid(r, run[r].epoch), host[r] = "idle",
             UNCHANGED <<host, launch, startFate>>,
             NEW outcome \in {"succeeded", "failed"}, NEW cleanup \in {"none", "pending"},
             EndRun(r, outcome, cleanup)
      PROVE  Goal
  <2>1. \A e \in Epoch : start[r][e] \notin InDoubt
    BY <1>5 DEF TerminalValid, StartUnsettled, InDoubt
  <2>2. Quiet(r)'
    BY <1>5, <1>h, <2>1, QuietInputs DEF FateInv
  <2>3. Busy(r)
    BY <1>5 DEF TerminalValid, Busy
  <2> QED
    BY <1>5, <1>n, <1>p, <2>2, <2>3 DEF Ended, Cleanup
<1>6. ASSUME NEW r \in Run, Succeed(r) PROVE Goal
  BY <1>5, <1>6 DEF Succeed
<1>7. ASSUME NEW r \in Run, FailNative(r) PROVE Goal
  BY <1>5, <1>7 DEF FailNative, TerminalCleanup
<1>8. ASSUME NEW r \in Run, FailLaunch(r) PROVE Goal
  BY <1>l, <1>p, <1>q, <1>8 DEF FailLaunch, TerminalValid, Busy, Ended
<1>9. ASSUME NEW r \in Run, ReconcileLoss(r) PROVE Goal
  <2>1. CASE FailLost(r)
    BY <1>9, <1>l, <2>1 DEF ReconcileLoss
  <2>2. CASE ~FailLost(r)
    <3>1. /\ run[r].status = "running"
          /\ run' = [run EXCEPT ![r] = [run[r] EXCEPT !.status = "waiting",
                                                      !.wait = "runtime_recovery"]]
      BY <1>9, <2>2 DEF ReconcileLoss
    <3>2. run'[r].status = "waiting" /\ \A x \in Run \ {r} : run'[x] = run[x]
      BY <1>t, <3>1 DEF RunRow
    <3> QED
      BY <1>w, <3>1, <3>2
  <2> QED
    BY <2>1, <2>2
<1>10. ASSUME NEW r \in Run, NEW e \in Epoch, AckStart(r, e) PROVE Goal
  <2>1. CASE UNCHANGED run
    BY <1>q, <2>1
  <2>2. CASE Resumes(r, e)
    <3>1. /\ run[r].status \in {"running", "waiting"}
          /\ run' = [run EXCEPT ![r] = [run[r] EXCEPT !.status = "running", !.wait = "none"]]
      BY <1>10, <2>2 DEF AckStart, Resumes, MayDispatch, Executing
    <3>2. run'[r].status = "running" /\ \A x \in Run \ {r} : run'[x] = run[x]
      BY <1>t, <3>1 DEF RunRow
    <3> QED
      BY <1>w, <3>1, <3>2
  <2> QED
    BY <1>10, <2>1, <2>2 DEF AckStart
<1>11. ASSUME NEW r \in Run, NEW e \in Epoch, StartUnknown(r, e) PROVE Goal
  <2>1. CASE UNCHANGED run
    BY <1>q, <2>1
  <2>2. CASE MayDispatch(r, e)
    <3>1. /\ run[r].status \in {"running", "waiting"}
          /\ run' = [run EXCEPT ![r] = [run[r] EXCEPT !.status = "waiting",
                                                      !.wait = "delivery_unknown"]]
      BY <1>11, <2>2 DEF StartUnknown, MayDispatch, Executing
    <3>2. run'[r].status = "waiting" /\ \A x \in Run \ {r} : run'[x] = run[x]
      BY <1>t, <3>1 DEF RunRow
    <3> QED
      BY <1>w, <3>1, <3>2
  <2> QED
    BY <1>11, <2>1, <2>2 DEF StartUnknown
<1>12. ASSUME NEW r \in Run, MarkNetworkRecovery(r) PROVE Goal
  <2>1. /\ run[r].status = "running"
        /\ run' = [run EXCEPT ![r] = [run[r] EXCEPT !.status = "waiting",
                                                    !.wait = "network_recovery"]]
    BY <1>12 DEF MarkNetworkRecovery
  <2>2. run'[r].status = "waiting" /\ \A x \in Run \ {r} : run'[x] = run[x]
    BY <1>t, <2>1 DEF RunRow
  <2> QED
    BY <1>w, <2>1, <2>2
<1>13. ASSUME NEW r \in Run, ArmNetworkRecovery(r) PROVE Goal
  <2> DEFINE w == IF NetworkInputSafe(r) THEN "runtime_recovery" ELSE "network_blocked"
  <2>1. run[r].status = "waiting" /\ run' = [run EXCEPT ![r] = [run[r] EXCEPT !.wait = w]]
    BY <1>13 DEF ArmNetworkRecovery
  <2>2. run'[r].status = "waiting" /\ \A x \in Run \ {r} : run'[x] = run[x]
    BY <1>t, <2>1 DEF RunRow
  <2> QED
    BY <1>w, <2>1, <2>2
<1>14. ASSUME NEW r \in Run, AckCleanup(r) PROVE Goal
  <2>1. /\ CleanupProven(r) /\ UNCHANGED <<host, launch>> /\ Busy(r)
        /\ run' = [run EXCEPT ![r] = [run[r] EXCEPT !.cleanup = "acked"]]
    BY <1>14 DEF AckCleanup, Busy
  <2>2. s # r => run'[s] = run[s]
    BY <1>t, <2>1 DEF RunRow
  <2>3. Quiet(r)'
    BY <2>1 DEF CleanupProven, Quiet
  <2> QED
    BY <2>1, <2>2, <2>3 DEF Busy
<1>15. ASSUME Crash PROVE Goal
  <2>1. run'[s] = RecoveredRun(s)
    BY <1>15 DEF Crash
  <2>2. run[s] \in RunRow
    BY <1>t
  <2>3. Busy(s)' <=> Busy(s)
    BY <2>1, <2>2 DEF RecoveredRun, Lost, Busy, RunRow, NotCancelled
  <2> QED
    BY <2>3
<1>16. ASSUME NEW d \in Delivery, NEW r \in Run,
              \/ SendSupplement(d, r) \/ Continue(d, r) \/ PickSupplement(d, r)
              \/ NativeSteer(d, r)
       PROVE  Goal
  BY <1>q, <1>16 DEF SendSupplement, Continue, PickSupplement, NativeSteer
<1>17. ASSUME NEW d \in Delivery,
              SendMessage(d) \/ Withdraw(d) \/ SenderMove(d) \/ ReconcileSupplement(d)
       PROVE  Goal
  BY <1>q, <1>17 DEF SendMessage, Withdraw, SenderMove, CheckSupplement, PrepareSupplement,
      PreparationFails, DispatchSupplement, SupplementAccepted, SupplementRefused,
      SupplementUnknown, ReconcileSupplement
<1>18. ASSUME NEW r \in Run, \/ StartHost(r) \/ LaunchDone(r) \/ NativeTurnEnds(r)
                             \/ HostExit(r) \/ StopHost(r)
       PROVE  Goal
  BY <1>q, <1>18 DEF StartHost, LaunchDone, NativeTurnEnds, HostExit, StopHost
<1>19. ASSUME NEW r \in Run, NEW e \in Epoch,
              PrepareStart(r, e) \/ DispatchStart(r, e) \/ StartRefused(r, e) \/ NativeStart(r, e)
       PROVE  Goal
  BY <1>q, <1>19 DEF PrepareStart, DispatchStart, StartRefused, NativeStart
<1>20. ASSUME CompleteMission \/ CancelContinuations \/ UNCHANGED vars PROVE Goal
  BY <1>q, <1>20 DEF CompleteMission, CancelContinuations
<1> HIDE DEF Goal
<1>21. Goal
  BY <1>1, <1>2, <1>3, <1>4, <1>6, <1>7, <1>8, <1>9, <1>10, <1>11, <1>12, <1>13, <1>14,
     <1>15, <1>16, <1>17, <1>18, <1>19, <1>20
  DEF Next, UserStep, SchedulerStep, LaunchStep, NativeStep, RuntimeEvent, RecoveryStep,
      CleanupStep, SupplementStep
<1> QED
  BY <1>21 DEF Goal

\* A quiet run stays quiet until it is dispatched again: it has no launch that could start a
\* process when an input is still open, and no open input when a process is still there.
LEMMA QuietMoves ==
  ASSUME TypeOK, [Next]_vars, NEW s \in Run, Quiet(s), ~Busy(s)
  PROVE  Quiet(s)' \/ ClaimRun(s)
<1>t. host \in [Run -> {"none", "idle", "turn", "gone"}] /\ startFate \in [Run -> [Epoch -> Fate]]
      /\ launch \in [Run -> Epoch \cup {None}]
  BY DEF TypeOK
<1>q. ASSUME UNCHANGED <<host, startFate, launch>> PROVE Quiet(s)'
  BY <1>q DEF Quiet, CleanupProven
<1>l. ASSUME UNCHANGED <<host, startFate>>, launch'[s] = launch[s] \/ launch'[s] = None
      PROVE  Quiet(s)'
  BY <1>l DEF Quiet, CleanupProven
<1>1. ASSUME NEW r \in Run, HostGone(r), UNCHANGED launch PROVE Quiet(s)'
  <2>1. /\ host'[s] # "turn" /\ (host[s] \in {"none", "gone"} => host'[s] \in {"none", "gone"})
        /\ \A e \in Epoch : startFate'[s][e] = "open" => startFate[s][e] = "open"
    BY <1>t, <1>1 DEF HostGone, SetFate, Quiet
  <2> QED
    BY <1>1, <2>1 DEF Quiet, CleanupProven
<1>2. ASSUME NEW r \in Run, StartHost(r) PROVE Quiet(s)'
  <2>1. host'[s] # "turn" /\ (s # r => host'[s] = host[s]) /\ UNCHANGED <<startFate, launch>>
    BY <1>t, <1>2 DEF StartHost, Quiet
  <2>2. launch[r] # None
    BY <1>2 DEF StartHost
  <2> QED
    BY <2>1, <2>2 DEF Quiet, CleanupProven
<1>3. ASSUME NEW r \in Run, NativeTurnEnds(r) PROVE Quiet(s)'
  <2>1. s # r /\ host' = [host EXCEPT ![r] = "idle"] /\ UNCHANGED <<startFate, launch>>
    BY <1>3 DEF NativeTurnEnds, Quiet
  <2>2. host'[s] = host[s]
    BY <1>t, <2>1
  <2> QED
    BY <2>1, <2>2 DEF Quiet, CleanupProven
<1>4. ASSUME NEW r \in Run, NEW e \in Epoch, NativeStart(r, e) PROVE Quiet(s)'
  <2>1. s # r
    BY <1>4 DEF NativeStart, Quiet, CleanupProven
  <2>2. host'[s] = host[s] /\ startFate'[s] = startFate[s] /\ UNCHANGED launch
    BY <1>t, <1>4, <2>1 DEF NativeStart
  <2> QED
    BY <2>2 DEF Quiet, CleanupProven
<1>5. ASSUME NEW r \in Run, NEW e \in Epoch, DispatchStart(r, e) PROVE Quiet(s)'
  <2>1. s # r
    BY <1>5 DEF DispatchStart, MayDispatch, Executing, Busy
  <2>2. startFate'[s] = startFate[s] /\ UNCHANGED <<host, launch>>
    BY <1>t, <1>5, <2>1 DEF DispatchStart
  <2> QED
    BY <2>2 DEF Quiet, CleanupProven
<1>6. ASSUME NEW r \in Run, ClaimRun(r) PROVE Quiet(s)' \/ ClaimRun(s)
  <2>1. CASE s # r
    <3>1. launch'[s] = launch[s] /\ UNCHANGED <<host, startFate>>
      BY <1>t, <1>6, <2>1 DEF ClaimRun
    <3> QED
      BY <1>l, <3>1
  <2> QED
    BY <1>6, <2>1
<1>7. ASSUME NEW r \in Run, LaunchDone(r) \/ FailLaunch(r) PROVE Quiet(s)'
  <2>1. launch' = [launch EXCEPT ![r] = None] /\ UNCHANGED <<host, startFate>>
    BY <1>7 DEF LaunchDone, FailLaunch
  <2>2. launch'[s] = launch[s] \/ launch'[s] = None
    BY <1>t, <2>1
  <2> QED
    BY <1>l, <2>1, <2>2
<1>8. ASSUME Crash PROVE Quiet(s)'
  <2>1. launch'[s] = None /\ UNCHANGED <<host, startFate>>
    BY <1>8 DEF Crash
  <2> QED
    BY <1>l, <2>1
<1>9. ASSUME NEW r \in Run, HostExit(r) \/ StopHost(r) PROVE Quiet(s)'
  BY <1>1, <1>9 DEF HostExit, StopHost
<1>10. ASSUME NEW r \in Run,
              \/ Stop(r) \/ ClaimBatch(r) \/ RejectBatch(r) \/ RejectDispatch(r) \/ Succeed(r)
              \/ FailNative(r) \/ ReconcileLoss(r) \/ MarkNetworkRecovery(r)
              \/ ArmNetworkRecovery(r) \/ AckCleanup(r)
       PROVE  Quiet(s)'
  BY <1>q, <1>10 DEF Stop, ClaimBatch, RejectBatch, InsertBatchRun, RejectDispatch, Succeed,
      FailNative, ReconcileLoss, MarkNetworkRecovery, ArmNetworkRecovery, AckCleanup
<1>11. ASSUME NEW r \in Run, NEW e \in Epoch,
              PrepareStart(r, e) \/ AckStart(r, e) \/ StartRefused(r, e) \/ StartUnknown(r, e)
       PROVE  Quiet(s)'
  BY <1>q, <1>11 DEF PrepareStart, AckStart, StartRefused, StartUnknown
<1>12. ASSUME NEW d \in Delivery, NEW r \in Run,
              \/ SendSupplement(d, r) \/ Continue(d, r) \/ PickSupplement(d, r)
              \/ NativeSteer(d, r)
       PROVE  Quiet(s)'
  BY <1>q, <1>12 DEF SendSupplement, Continue, PickSupplement, NativeSteer
<1>13. ASSUME NEW d \in Delivery,
              SendMessage(d) \/ Withdraw(d) \/ SenderMove(d) \/ ReconcileSupplement(d)
       PROVE  Quiet(s)'
  BY <1>q, <1>13 DEF SendMessage, Withdraw, SenderMove, CheckSupplement, PrepareSupplement,
      PreparationFails, DispatchSupplement, SupplementAccepted, SupplementRefused,
      SupplementUnknown, ReconcileSupplement
<1>14. ASSUME CompleteMission \/ CancelContinuations \/ UNCHANGED vars PROVE Quiet(s)'
  BY <1>q, <1>14 DEF CompleteMission, CancelContinuations
<1> QED
  BY <1>2, <1>3, <1>4, <1>5, <1>6, <1>7, <1>8, <1>9, <1>10, <1>11, <1>12, <1>13, <1>14
  DEF Next, UserStep, SchedulerStep, LaunchStep, NativeStep, RuntimeEvent, RecoveryStep,
      CleanupStep, SupplementStep

\* This generation owns what it dispatched, and nothing after a crash.
LEMMA OwnedMoves ==
  ASSUME [Next]_vars
  PROVE  \/ owned' \subseteq owned
         \/ \E r \in Run : ClaimRun(r)
<1>1. ASSUME NEW r \in Run,
             \/ Stop(r) \/ ClaimBatch(r) \/ RejectBatch(r) \/ RejectDispatch(r) \/ StartHost(r)
             \/ LaunchDone(r) \/ FailLaunch(r) \/ NativeTurnEnds(r) \/ HostExit(r) \/ Succeed(r)
             \/ FailNative(r) \/ ReconcileLoss(r) \/ MarkNetworkRecovery(r)
             \/ ArmNetworkRecovery(r) \/ StopHost(r) \/ AckCleanup(r)
      PROVE  owned' = owned
  BY <1>1 DEF Stop, ClaimBatch, RejectBatch, InsertBatchRun, RejectDispatch, StartHost,
      LaunchDone, FailLaunch, NativeTurnEnds, HostExit, Succeed, FailNative, ReconcileLoss,
      MarkNetworkRecovery, ArmNetworkRecovery, StopHost, AckCleanup
<1>2. ASSUME NEW r \in Run, NEW e \in Epoch,
             \/ PrepareStart(r, e) \/ DispatchStart(r, e) \/ NativeStart(r, e) \/ AckStart(r, e)
             \/ StartRefused(r, e) \/ StartUnknown(r, e)
      PROVE  owned' = owned
  BY <1>2 DEF PrepareStart, DispatchStart, NativeStart, AckStart, StartRefused, StartUnknown
<1>3. ASSUME NEW d \in Delivery, NEW r \in Run,
             \/ SendSupplement(d, r) \/ Continue(d, r) \/ PickSupplement(d, r)
             \/ NativeSteer(d, r)
      PROVE  owned' = owned
  BY <1>3 DEF SendSupplement, Continue, PickSupplement, NativeSteer
<1>4. ASSUME NEW d \in Delivery,
             SendMessage(d) \/ Withdraw(d) \/ SenderMove(d) \/ ReconcileSupplement(d)
      PROVE  owned' = owned
  BY <1>4 DEF SendMessage, Withdraw, SenderMove, CheckSupplement, PrepareSupplement,
      PreparationFails, DispatchSupplement, SupplementAccepted, SupplementRefused,
      SupplementUnknown, ReconcileSupplement
<1>5. ASSUME CompleteMission \/ CancelContinuations \/ UNCHANGED vars PROVE owned' = owned
  BY <1>5 DEF CompleteMission, CancelContinuations
<1>6. ASSUME Crash PROVE owned' \subseteq owned
  BY <1>6 DEF Crash
<1> QED
  BY <1>1, <1>2, <1>3, <1>4, <1>5, <1>6
  DEF Next, UserStep, SchedulerStep, LaunchStep, NativeStep, RuntimeEvent, RecoveryStep,
      CleanupStep, SupplementStep

\* The runs of this generation behind the busy one stay quiet.
LEMMA TurnInvHolds == Spec => []TurnInv
<1>1. Init => TurnInv
  BY DEF Init, TurnInv, TurnTaken, QuietBehind, OneBusy
<1>2. TypeOK /\ InputInv /\ FateInv /\ TurnInv /\ [Next]_vars => TurnInv'
  <2> SUFFICES ASSUME TypeOK, InputInv, FateInv, TurnInv, [Next]_vars PROVE TurnInv'
    OBVIOUS
  <2>t. /\ TurnTaken /\ QuietBehind /\ OneBusy /\ owned \subseteq Run
        /\ run \in [Run -> RunRow]
    BY DEF TurnInv, TypeOK
  <2>1. TurnTaken'
    BY <2>t, TurnTakenStep
  <2>2. ASSUME NEW s \in Run, Busy(s) \/ Quiet(s) PROVE (Busy(s) \/ Quiet(s))' \/ ClaimRun(s)
    BY <2>t, <2>2, BusyMoves, QuietMoves
  <2>3. CASE owned' \subseteq owned /\ \A r \in Run : ~ClaimRun(r)
    <3>1. QuietBehind'
      BY <2>t, <2>2, <2>3 DEF QuietBehind
    <3>2. \A s \in owned : Busy(s)' => Busy(s)
      BY <2>t, <2>3, BusyMoves
    <3>3. OneBusy'
      BY <2>t, <2>3, <3>2 DEF OneBusy
    <3> QED
      BY <2>1, <3>1, <3>3 DEF TurnInv
  <2>4. ASSUME NEW r \in Run, ClaimRun(r) PROVE TurnInv'
    <3>1. /\ owned' = owned \cup {r} /\ run'[r].status = "running"
          /\ \A s \in Run \ {r} : run'[s] = run[s]
      BY <2>t, <2>4 DEF ClaimRun, RunRow
    <3>2. \A s \in owned \ {r} : ~Busy(s)
      BY <2>t, <2>4 DEF ClaimRun, CleanupBlocked, Busy
    <3>3. \A s \in owned \ {r} : ~Busy(s)'
      BY <2>t, <3>1, <3>2 DEF Busy
    <3>4. OneBusy'
      BY <3>1, <3>3 DEF OneBusy
    <3>5. ASSUME NEW s \in owned \ {r} PROVE Quiet(s)'
      <4>1. Quiet(s) /\ ~Busy(s) /\ s \in Run
        BY <2>t, <3>2, <3>5 DEF QuietBehind
      <4>2. UNCHANGED <<host, startFate>> /\ launch'[s] = launch[s]
        BY <2>4, <4>1, <3>5 DEF ClaimRun, TypeOK
      <4> QED
        BY <4>1, <4>2 DEF Quiet, CleanupProven
    <3>6. Busy(r)'
      BY <3>1 DEF Busy
    <3>7. QuietBehind'
      BY <3>1, <3>5, <3>6 DEF QuietBehind
    <3> QED
      BY <2>1, <3>4, <3>7 DEF TurnInv
  <2> QED
    BY <2>3, <2>4, OwnedMoves
<1> QED
  BY <1>1, <1>2, TypeCorrect, InputInvHolds, FateInvHolds, PTL DEF Spec

\* Two turns of one generation never run at once, for any number of runs, epochs and crashes:
\* a turn can only be live in the run the lane waits for, and the lane waits for one.
THEOREM OneLiveTurnHolds == Spec => []OneLiveTurn
<1>1. TurnInv => OneLiveTurn
  BY DEF TurnInv, QuietBehind, OneBusy, OneLiveTurn, Quiet
<1> QED
  BY <1>1, TurnInvHolds, PTL
=============================================================================
