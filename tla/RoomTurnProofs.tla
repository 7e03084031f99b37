--------------------------- MODULE RoomTurnProofs ---------------------------
(***************************************************************************)
(* Types and safety of the turn queue, for every number of turns, workers, *)
(* replicas, calls and hosts and every budget, with or without stalls: the *)
(* quota hold and the provider ledger agree, the queue keeps TurnPromise, a*)
(* cancel wins, at most one operation of a turn is unknown; and, while no  *)
(* failed attempt was charged and the database answers, one executor asks  *)
(* the model for a turn and the reply shown is the one that was charged.   *)
(* A retry budget is kept but for a turn that was claimed between the read *)
(* and the commit of a reconcile request (stale_reconcile.cfg).  The       *)
(* theorem about leases leaves that request out (Hosts = {}); those about  *)
(* leases and executors need replicas that do not stall past their leases. *)
(***************************************************************************)
EXTENDS RoomTurnJobs, FiniteSetTheorems, TLAPS

USE DEF jobVars, leaseVars, budgetVars, resultVars, moneyVars, screenVars, localVars,
        workerVars, boundVars

-----------------------------------------------------------------------------
(* Types.                                                                  *)

\* A worker past its claim works on a turn.
Busy == \A w \in Workers : pc[w] \notin {"idle", "dead"} => task[w] \in Jobs

\* A reconcile request under way looks up calls of a turn that were dispatched.
Looking == \A h \in Hosts : seen[h] # NoReading =>
               seen[h].job \in Jobs /\ seen[h].calls \subseteq Rows(seen[h].job)

\* The records executors hold and save are results; the empty chain is a chain.
LEMMA ResultTypes ==
    /\ NoResult \in Result
    /\ \A k \in {"reply", "malformed", "handoff"}, n \in 0..MaxTokens : Answer(k, n) \in Result
    /\ \A j : Recovered(j) \in Result
    /\ NoChain \in Chain
BY ConstantsAssumption DEF NoResult, Result, Answer, Recovered, Returned, Open, NoChain, Chain

\* Every variable stays in its type, every worker past its claim has a turn
\* (_worker_loop hands the executor the id it has just claimed), and a reconcile
\* request looks up calls whose receipts exist (report_room_operation never
\* deletes one).
THEOREM TypeCorrect == Spec => [](TypeOK /\ Busy /\ Looking)
<1>1. Init => TypeOK /\ Busy /\ Looking
  BY ResultTypes, ConstantsAssumption
  DEF Init, TypeOK, Busy, Looking, Status, Active, Terminal, Owner, HoldState, TriggerState,
      OpState, Label, Failure, Reading, NoReading
<1>2. TypeOK /\ Busy /\ [Next]_vars => TypeOK'
  <2> SUFFICES ASSUME TypeOK, Busy, [Next]_vars PROVE TypeOK'
    OBVIOUS
  <2>1. ASSUME NEW j \in Jobs, SubmitAction(j)
       PROVE  TypeOK'
    BY <2>1 DEF SubmitAction, TypeOK, Status, TriggerState
  <2>2. ASSUME NEW j \in Jobs, Cancel(j)
       PROVE  TypeOK'
    <3>1. cancelRequested' \in [Jobs -> BOOLEAN]
      BY <2>2 DEF Cancel, TypeOK
    <3>2. status' \in [Jobs -> Status]
      <4>1. status \in [Jobs -> Status]
        BY DEF TypeOK
      <4>2. status' = status \/ status' = [status EXCEPT ![j] = "cancelled"]
        BY <2>2 DEF Cancel
      <4> QED
        BY <4>1, <4>2 DEF Status, Terminal
    <3>3. errorCode' \in [Jobs -> {"none", "operation_result_unknown"}]
      BY <2>2 DEF Cancel, TypeOK
    <3>4. owner' \in [Jobs -> Owner]
      BY <2>2, ConstantsAssumption, ZenonT(30) DEF Cancel, TypeOK, Owner
    <3>5. fresh' \in [Jobs -> BOOLEAN]
      BY <2>2 DEF Cancel, TypeOK
    <3>6. hold' \in [Jobs -> HoldState]
      <4>1. hold \in [Jobs -> HoldState]
        BY DEF TypeOK
      <4>2. hold' = hold \/ hold' = [hold EXCEPT ![j] = Released(j)]
        BY <2>2 DEF Cancel
      <4> QED
        BY <4>1, <4>2 DEF HoldState, Released
    <3>7. trigger' \in [Jobs -> TriggerState]
      BY <2>2 DEF Cancel, TypeOK, TriggerState
    <3> QED
      BY <2>2, <3>1, <3>2, <3>3, <3>4, <3>5, <3>6, <3>7 DEF Cancel, TypeOK
  <2>3. ASSUME NEW j \in Jobs, LeaseLapses(j)
       PROVE  TypeOK'
    BY <2>3 DEF LeaseLapses, TypeOK
  <2>4. ASSUME NEW j \in Jobs, AgentStops(j)
       PROVE  TypeOK'
    BY <2>4 DEF AgentStops, TypeOK
  <2>5. ASSUME NEW w \in Workers, NEW E \in SUBSET Abandoned, RecoverExpired(w, E)
       PROVE  TypeOK'
    BY <2>5, ConstantsAssumption DEF RecoverExpired, RecoveredStatus, Resting, Released, Lapsed,
       TypeOK, Status, Active, Terminal, Owner, HoldState, TriggerState
  <2>6. ASSUME NEW w \in Workers, NEW j \in Jobs, Claim(w, j)
       PROVE  TypeOK'
    <3>1. status' \in [Jobs -> Status] /\ attempt' \in [Jobs -> Nat]
      BY <2>6 DEF Claim, TypeOK, Status, Active
    <3>2. owner' \in [Jobs -> Owner]
      BY <2>6, ConstantsAssumption DEF Claim, TypeOK, Owner
    <3>3. pc' \in [Workers -> Label] /\ task' \in [Workers -> Jobs \cup {NoJob}]
      BY <2>6 DEF Claim, TypeOK, Label
    <3> QED
      BY <2>6, <3>1, <3>2, <3>3 DEF Claim, TypeOK
  <2>7. ASSUME NEW w \in Workers, Heartbeat(w)
       PROVE  TypeOK'
    BY <2>7 DEF Heartbeat, TypeOK
  <2>8. ASSUME NEW w \in Workers, HeartbeatLost(w)
       PROVE  TypeOK'
    BY <2>8 DEF HeartbeatLost, TypeOK
  <2>9. ASSUME NEW w \in Workers, RecordFailure(w)
       PROVE  TypeOK'
    <3>1. status' \in [Jobs -> Status]
      <4>1. status \in [Jobs -> Status]
        BY DEF TypeOK
      <4>2. status' = status \/ status' = [status EXCEPT ![task[w]] = FailedStatus(task[w], failure[w])]
        BY <2>9 DEF RecordFailure
      <4> QED
        BY <4>1, <4>2 DEF FailedStatus, Resting, Status, Terminal, Active
    <3>2. errorCode' \in [Jobs -> {"none", "operation_result_unknown"}]
      BY <2>9 DEF RecordFailure, FailedStatus, Resting, Released, EndProcess, TypeOK
    <3>3. owner' \in [Jobs -> Owner]
      BY <2>9, ConstantsAssumption DEF RecordFailure, FailedStatus, Resting, Released, EndProcess,
         TypeOK, Owner
    <3>4. fresh' \in [Jobs -> BOOLEAN]
      BY <2>9 DEF RecordFailure, FailedStatus, Resting, Released, EndProcess, TypeOK
    <3>5. trigger' \in [Jobs -> TriggerState]
      <4> DEFINE n == FailedStatus(task[w], failure[w])
      <4>1. trigger \in [Jobs -> TriggerState]
        BY DEF TypeOK
      <4>2. n \in Terminal => n \in {"failed", "cancelled"}
        BY DEF FailedStatus, Resting, Terminal
      <4>3. trigger' = trigger \/ trigger' = [trigger EXCEPT ![task[w]] = IF n \in Terminal THEN n ELSE @]
        BY <2>9 DEF RecordFailure
      <4> HIDE DEF n
      <4> QED
        BY <4>1, <4>2, <4>3 DEF TriggerState
    <3>6. hold' \in [Jobs -> HoldState]
      <4> DEFINE n == FailedStatus(task[w], failure[w])
      <4>1. hold \in [Jobs -> HoldState]
        BY DEF TypeOK
      <4>2. hold' = hold \/ hold' = [hold EXCEPT ![task[w]] =
                                      IF n \in Terminal THEN Released(task[w]) ELSE @]
        BY <2>9 DEF RecordFailure
      <4> HIDE DEF n
      <4> QED
        BY <4>1, <4>2 DEF Released, HoldState
    <3>7. pc' \in [Workers -> Label]
      BY <2>9 DEF RecordFailure, FailedStatus, Resting, Released, EndProcess, TypeOK, Label
    <3>8. task' \in [Workers -> Jobs \cup {NoJob}]
      BY <2>9, ConstantsAssumption DEF RecordFailure, FailedStatus, Resting, Released, EndProcess,
         TypeOK
    <3>9. beat' \in [Workers -> {"on", "off", "lost"}]
      BY <2>9 DEF RecordFailure, FailedStatus, Resting, Released, EndProcess, TypeOK
    <3>10. given' \in [Workers -> Chain]
      BY <2>9, ResultTypes DEF RecordFailure, FailedStatus, Resting, Released, EndProcess, TypeOK
    <3>11. held' \in [Workers -> Result]
      BY <2>9, ResultTypes DEF RecordFailure, FailedStatus, Resting, Released, EndProcess, TypeOK
    <3>12. unknown' \in [Workers -> BOOLEAN]
      BY <2>9 DEF RecordFailure, FailedStatus, Resting, Released, EndProcess, TypeOK
    <3>13. failure' \in [Workers -> Failure]
      BY <2>9 DEF RecordFailure, FailedStatus, Resting, Released, EndProcess, TypeOK, Failure
    <3> QED
      BY <2>9, <3>1, <3>2, <3>3, <3>4, <3>5, <3>6, <3>7, <3>8, <3>9, <3>10, <3>11, <3>12, <3>13 DEF
         RecordFailure, FailedStatus, Resting, Released, EndProcess, TypeOK
  <2>10. ASSUME NEW w \in Workers, RecordFailureRaises(w)
       PROVE  TypeOK'
    <3>1. outages' \in Nat
      BY <2>10 DEF RecordFailureRaises, TypeOK
    <3>2. pc' \in [Workers -> Label]
      BY <2>10 DEF RecordFailureRaises, TypeOK, Label
    <3>3. task' \in [Workers -> Jobs \cup {NoJob}]
      BY <2>10, ConstantsAssumption DEF RecordFailureRaises, TypeOK
    <3>4. beat' \in [Workers -> {"on", "off", "lost"}]
      BY <2>10 DEF RecordFailureRaises, TypeOK
    <3>5. given' \in [Workers -> Chain]
      BY <2>10, ResultTypes DEF RecordFailureRaises, TypeOK
    <3>6. held' \in [Workers -> Result]
      BY <2>10, ResultTypes DEF RecordFailureRaises, TypeOK
    <3>7. unknown' \in [Workers -> BOOLEAN]
      BY <2>10 DEF RecordFailureRaises, TypeOK
    <3>8. failure' \in [Workers -> Failure]
      BY <2>10 DEF RecordFailureRaises, TypeOK, Failure
    <3> QED
      BY <2>10, <3>1, <3>2, <3>3, <3>4, <3>5, <3>6, <3>7, <3>8 DEF RecordFailureRaises, TypeOK
  <2>11. ASSUME NEW p \in Processes, Crash(p)
       PROVE  TypeOK'
    <3>1. crashes' \in Nat
      BY <2>11 DEF Crash, TypeOK
    <3>2. orphan' \in [Jobs -> BOOLEAN]
      BY <2>11 DEF Crash, TypeOK
    <3>3. owner' \in [Jobs -> Owner]
      BY <2>11, ConstantsAssumption DEF Crash, TypeOK, Owner
    <3>4. pc' \in [Workers -> Label]
      BY <2>11 DEF Crash, TypeOK, Label
    <3>5. task' \in [Workers -> Jobs \cup {NoJob}]
      BY <2>11, ConstantsAssumption DEF Crash, TypeOK
    <3>6. beat' \in [Workers -> {"on", "off", "lost"}]
      BY <2>11 DEF Crash, TypeOK
    <3>7. given' \in [Workers -> Chain]
      BY <2>11, ResultTypes DEF Crash, TypeOK
    <3>8. held' \in [Workers -> Result]
      BY <2>11, ResultTypes DEF Crash, TypeOK
    <3>9. unknown' \in [Workers -> BOOLEAN]
      BY <2>11 DEF Crash, TypeOK
    <3>10. failure' \in [Workers -> Failure]
      BY <2>11 DEF Crash, TypeOK, Failure
    <3> QED
      BY <2>11, <3>1, <3>2, <3>3, <3>4, <3>5, <3>6, <3>7, <3>8, <3>9, <3>10 DEF Crash, TypeOK
  <2>12. ASSUME NEW w \in Workers, NEW f \in {"retryable", "final"}, Fails(w, f)
       PROVE  TypeOK'
    BY <2>12 DEF Fails, Raise, TypeOK, Label, Failure
  <2>13. ASSUME NEW w \in Workers, Load(w)
       PROVE  TypeOK'
    <3>1. pc' \in [Workers -> Label]
      <4>1. pc \in [Workers -> Label]
        BY DEF TypeOK
      <4>2. pc' = [pc EXCEPT ![w] = "raise"] \/ pc' = [pc EXCEPT ![w] = "prepare"]
        BY <2>13 DEF Load, Goto, Raise
      <4> QED
        BY <4>1, <4>2 DEF Label
    <3>2. failure' \in [Workers -> Failure]
      BY <2>13 DEF Load, Raise, Goto, TypeOK, Failure
    <3>3. given' \in [Workers -> Chain]
      <4>1. given \in [Workers -> Chain]
        BY DEF TypeOK
      <4>2. given' = given \/ given' = [given EXCEPT ![w] = handoff[task[w]]]
        BY <2>13 DEF Load
      <4>3. task[w] \in Jobs /\ handoff \in [Jobs -> Chain] /\ agentResult \in [Jobs -> Result]
        BY <2>13 DEF TypeOK, Busy, Load
      <4> QED
        BY <4>1, <4>2, <4>3
    <3>4. held' \in [Workers -> Result]
      <4>1. held \in [Workers -> Result]
        BY DEF TypeOK
      <4>2. held' = held \/ held' = [held EXCEPT ![w] = agentResult[task[w]]]
        BY <2>13 DEF Load
      <4>3. task[w] \in Jobs /\ handoff \in [Jobs -> Chain] /\ agentResult \in [Jobs -> Result]
        BY <2>13 DEF TypeOK, Busy, Load
      <4> QED
        BY <4>1, <4>2, <4>3
    <3> QED
      BY <2>13, <3>1, <3>2, <3>3, <3>4 DEF Load, Raise, Goto, TypeOK
  <2>14. ASSUME NEW w \in Workers, NEW E \in SUBSET Abandoned, Prepare(w, E)
       PROVE  TypeOK'
    BY <2>14 DEF Prepare, Goto, TypeOK, Label, HoldState
  <2>15. ASSUME NEW w \in Workers, NEW E \in SUBSET Abandoned, PrepareRefused(w, E)
       PROVE  TypeOK'
    BY <2>15 DEF PrepareRefused, Raise, TypeOK, Label, Failure, TriggerState, HoldState
  <2>16. ASSUME NEW w \in Workers, ResumeOperations(w)
       PROVE  TypeOK'
    <3>1. pc' \in [Workers -> Label]
      <4>1. pc \in [Workers -> Label]
        BY DEF TypeOK
      <4>2. pc' = [pc EXCEPT ![w] = "select"] \/ pc' = [pc EXCEPT ![w] = "check"]
        BY <2>16 DEF ResumeOperations, Goto
      <4> QED
        BY <4>1, <4>2 DEF Label
    <3>2. held' \in [Workers -> Result]
      <4>1. held \in [Workers -> Result]
        BY DEF TypeOK
      <4>2. held' = held \/ held' = [held EXCEPT ![w] = Recovered(task[w])]
        BY <2>16 DEF ResumeOperations
      <4> QED
        BY <4>1, <4>2, ResultTypes
    <3>3. agentResult' \in [Jobs -> Result]
      <4>1. agentResult \in [Jobs -> Result]
        BY DEF TypeOK
      <4>2. agentResult' = agentResult \/ agentResult' = [agentResult EXCEPT ![task[w]] = Recovered(task[w])]
        BY <2>16 DEF ResumeOperations
      <4> QED
        BY <4>1, <4>2, ResultTypes
    <3>4. hold' \in [Jobs -> HoldState]
      <4>1. hold \in [Jobs -> HoldState]
        BY DEF TypeOK
      <4>2. hold' = hold \/ hold' = [hold EXCEPT ![task[w]] = Released(task[w])]
        BY <2>16 DEF ResumeOperations
      <4> QED
        BY <4>1, <4>2 DEF HoldState, Released
    <3> QED
      BY <2>16, <3>1, <3>2, <3>3, <3>4 DEF ResumeOperations, Goto, Released, TypeOK
  <2>17. ASSUME NEW w \in Workers, SelectTools(w)
       PROVE  TypeOK'
    <3>1. pc' \in [Workers -> Label]
      <4>1. pc \in [Workers -> Label]
        BY DEF TypeOK
      <4>2. pc' = [pc EXCEPT ![w] = "raise"] \/ pc' = [pc EXCEPT ![w] = "call"]
        BY <2>17 DEF SelectTools, Goto, Raise
      <4> QED
        BY <4>1, <4>2 DEF Label
    <3>2. failure' \in [Workers -> Failure]
      BY <2>17 DEF SelectTools, Goto, Raise, TypeOK, Failure
    <3>3. selected' \in [Jobs -> BOOLEAN]
      BY <2>17 DEF SelectTools, Goto, Raise, TypeOK
    <3> QED
      BY <2>17, <3>1, <3>2, <3>3 DEF SelectTools, Goto, Raise, TypeOK
  <2>18. ASSUME NEW w \in Workers, CallAgent(w)
       PROVE  TypeOK'
    BY <2>18 DEF CallAgent, Goto, TypeOK, Label
  <2>19. ASSUME NEW w \in Workers, NEW k \in {"reply", "malformed", "handoff"}, NEW n \in 0..MaxTokens, AgentReturns(w, k, n)
       PROVE  TypeOK'
    <3>1. pc' \in [Workers -> Label]
      BY <2>19 DEF AgentReturns, Goto, TypeOK, Label
    <3>2. held' \in [Workers -> Result]
      BY <2>19, ResultTypes DEF AgentReturns, Goto, TypeOK
    <3> QED
      BY <2>19, <3>1, <3>2 DEF AgentReturns, Goto, TypeOK
  <2>20. ASSUME NEW w \in Workers, NEW n \in Unbilled..MaxTokens, NEW g \in BOOLEAN, NEW f \in {"retryable", "final"}, AgentFails(w, n, f, g)
       PROVE  TypeOK'
    <3>1. orphan' \in [Jobs -> BOOLEAN]
      BY <2>20 DEF AgentFails, Raise, Account, AtMost, TypeOK
    <3>2. pc' \in [Workers -> Label]
      <4>1. pc \in [Workers -> Label]
        BY DEF TypeOK
      <4>2. pc' = [pc EXCEPT ![w] = "raise"]
        BY <2>20 DEF AgentFails, Raise
      <4> QED
        BY <4>1, <4>2 DEF Label
    <3>3. failure' \in [Workers -> Failure]
      BY <2>20 DEF AgentFails, Raise, Account, AtMost, TypeOK, Failure
    <3>4. provider' \in [Jobs -> Nat \cup {Unbilled}]
      <4>1. provider \in [Jobs -> Nat \cup {Unbilled}]
        BY DEF TypeOK
      <4>2. provider' = provider \/ provider' = [provider EXCEPT ![task[w]] = IF provider[task[w]] = Unbilled THEN n ELSE provider[task[w]]]
        BY <2>20 DEF AgentFails, Account
      <4> QED
        BY <4>1, <4>2, ConstantsAssumption DEF Unbilled
    <3>5. charge' \in [Jobs -> Nat \cup {Unbilled}]
      <4>1. charge \in [Jobs -> Nat \cup {Unbilled}]
        BY DEF TypeOK
      <4>2. charge' = charge \/ charge' = [charge EXCEPT ![task[w]] = AtMost(n, Reserved)]
        BY <2>20 DEF AgentFails, Account
      <4> QED
        BY <4>1, <4>2, ConstantsAssumption DEF AtMost, Unbilled
    <3>6. hold' \in [Jobs -> HoldState]
      BY <2>20 DEF AgentFails, Raise, Account, AtMost, TypeOK, HoldState
    <3>7. partial' \in [Jobs -> BOOLEAN]
      BY <2>20 DEF AgentFails, Raise, Account, TypeOK, moneyVars
    <3>8. UNCHANGED <<jobVars, screenVars, op, task, beat, localVars, seen, boundVars>>
      BY <2>20 DEF AgentFails
    <3> QED
      BY <3>1, <3>2, <3>3, <3>4, <3>5, <3>6, <3>7, <3>8
      DEF TypeOK, jobVars, budgetVars, leaseVars, resultVars, screenVars, localVars, boundVars
  <2>21. ASSUME NEW w \in Workers, Handoff(w)
       PROVE  TypeOK'
    <3>1. handoff' \in [Jobs -> Chain]
      <4>1. handoff \in [Jobs -> Chain]
        BY DEF TypeOK
      <4>2. \/ handoff' = handoff
          \/ handoff' = [handoff EXCEPT ![task[w]] = 
             [count |-> handoff[task[w]].count + 1, calls |-> Rows(task[w])]]
        BY <2>21 DEF Handoff
      <4>3. task[w] \in Jobs /\ handoff \in [Jobs -> Chain] /\ agentResult \in [Jobs -> Result]
        BY <2>21 DEF TypeOK, Busy, Handoff
      <4> QED
        BY <4>1, <4>2, <4>3 DEF Chain, Rows
    <3>2. selected' \in [Jobs -> BOOLEAN]
      BY <2>21 DEF Handoff, Raise, AtLeast, TypeOK
    <3>3. maxAttempts' \in [Jobs -> Nat]
      BY <2>21 DEF Handoff, Raise, AtLeast, TypeOK
    <3>4. pc' \in [Workers -> Label]
      <4>1. pc \in [Workers -> Label]
        BY DEF TypeOK
      <4>2. pc' = [pc EXCEPT ![w] = "raise"]
        BY <2>21 DEF Handoff, Raise
      <4> QED
        BY <4>1, <4>2 DEF Label
    <3>5. failure' \in [Workers -> Failure]
      BY <2>21 DEF Handoff, Raise, AtLeast, TypeOK, Failure
    <3> QED
      BY <2>21, <3>1, <3>2, <3>3, <3>4, <3>5 DEF Handoff, Raise, AtLeast, TypeOK
  <2>22. ASSUME NEW w \in Workers, Persist(w)
       PROVE  TypeOK'
    <3>1. pc' \in [Workers -> Label]
      <4>1. pc \in [Workers -> Label]
        BY DEF TypeOK
      <4>2. pc' = [pc EXCEPT ![w] = "check"] \/ pc' = [pc EXCEPT ![w] = "raise"]
        BY <2>22 DEF Persist, Goto, Raise
      <4> QED
        BY <4>1, <4>2 DEF Label
    <3>2. failure' \in [Workers -> Failure]
      BY <2>22 DEF Persist, Goto, Raise, Account, AtMost, TypeOK, Failure
    <3>3. status' \in [Jobs -> Status]
      BY <2>22 DEF Persist, Goto, Raise, Account, AtMost, TypeOK, Status, Terminal, Active
    <3>4. agentResult' \in [Jobs -> Result]
      <4>1. agentResult \in [Jobs -> Result]
        BY DEF TypeOK
      <4>2. agentResult' = agentResult \/ agentResult' = [agentResult EXCEPT ![task[w]] = held[w]]
        BY <2>22 DEF Persist
      <4>3. held[w] \in Result
        BY DEF TypeOK
      <4> QED
        BY <4>1, <4>2, <4>3
    <3>5. errorCode' \in [Jobs -> {"none", "operation_result_unknown"}]
      BY <2>22 DEF Persist, Goto, Raise, Account, AtMost, TypeOK
    <3>6. provider' \in [Jobs -> Nat \cup {Unbilled}]
      <4>1. provider \in [Jobs -> Nat \cup {Unbilled}]
        BY DEF TypeOK
      <4>2. provider' = provider \/ provider' = [provider EXCEPT ![task[w]] = IF provider[task[w]] = Unbilled THEN held[w].tokens ELSE provider[task[w]]]
        BY <2>22 DEF Persist, Account
      <4>3. held[w] \in Result
        BY DEF TypeOK
      <4> QED
        BY <4>1, <4>2, <4>3, ConstantsAssumption DEF Result, Unbilled
    <3>7. charge' \in [Jobs -> Nat \cup {Unbilled}]
      <4>1. charge \in [Jobs -> Nat \cup {Unbilled}]
        BY DEF TypeOK
      <4>2. charge' = charge \/ charge' = [charge EXCEPT ![task[w]] = AtMost(held[w].tokens, Reserved)]
        BY <2>22 DEF Persist, Account
      <4>3. held[w] \in Result
        BY DEF TypeOK
      <4> QED
        BY <4>1, <4>2, ConstantsAssumption, <4>3 DEF AtMost, Result, Unbilled
    <3>8. hold' \in [Jobs -> HoldState]
      BY <2>22, ZenonT(30) DEF Persist, Goto, Raise, Account, AtMost, TypeOK, HoldState
    <3> QED
      BY <2>22, <3>1, <3>2, <3>3, <3>4, <3>5, <3>6, <3>7, <3>8 DEF Persist, Goto, Raise, Account,
         AtMost, TypeOK
  <2>23. ASSUME NEW w \in Workers, CheckOperations(w)
       PROVE  TypeOK'
    <3>1. unknown' \in [Workers -> BOOLEAN]
      BY <2>23 DEF CheckOperations, Goto, Raise, TypeOK
    <3>2. pc' \in [Workers -> Label]
      <4>1. pc \in [Workers -> Label]
        BY DEF TypeOK
      <4>2. pc' = [pc EXCEPT ![w] = "project"] \/ pc' = [pc EXCEPT ![w] = "raise"]
        BY <2>23 DEF CheckOperations, Goto, Raise
      <4> QED
        BY <4>1, <4>2 DEF Label
    <3>3. failure' \in [Workers -> Failure]
      BY <2>23 DEF CheckOperations, Goto, Raise, TypeOK, Failure
    <3>4. held' \in [Workers -> Result]
      <4>1. held \in [Workers -> Result]
        BY DEF TypeOK
      <4>2. held' = held \/ held' = [held EXCEPT ![w] = Recovered(task[w])]
        BY <2>23 DEF CheckOperations
      <4> QED
        BY <4>1, <4>2, ResultTypes
    <3> QED
      BY <2>23, <3>1, <3>2, <3>3, <3>4 DEF CheckOperations, Goto, Raise, TypeOK
  <2>24. ASSUME NEW w \in Workers, Project(w)
       PROVE  TypeOK'
    BY <2>24 DEF Project, Goto, TypeOK, Label
  <2>25. ASSUME NEW w \in Workers, Settle(w)
       PROVE  TypeOK'
    <3>1. status' \in [Jobs -> Status]
      <4>1. status \in [Jobs -> Status]
        BY DEF TypeOK
      <4>2. status' = status \/ status' = [status EXCEPT ![task[w]] = "running"] \/ status' = [status EXCEPT ![task[w]] = "succeeded"]
        BY <2>25 DEF Settle
      <4> QED
        BY <4>1, <4>2 DEF Status, Terminal, Active
    <3>2. owner' \in [Jobs -> Owner]
      BY <2>25, ConstantsAssumption DEF Settle, Raise, EndProcess, TypeOK, Owner
    <3>3. fresh' \in [Jobs -> BOOLEAN]
      BY <2>25 DEF Settle, Raise, EndProcess, TypeOK
    <3>4. published' \in [Jobs -> SUBSET Result]
      BY <2>25 DEF Settle, Raise, EndProcess, TypeOK
    <3>5. trigger' \in [Jobs -> TriggerState]
      BY <2>25 DEF Settle, Raise, EndProcess, TypeOK, TriggerState
    <3>6. pc' \in [Workers -> Label]
      BY <2>25 DEF Settle, Raise, EndProcess, TypeOK, Label
    <3>7. task' \in [Workers -> Jobs \cup {NoJob}]
      BY <2>25, ConstantsAssumption DEF Settle, Raise, EndProcess, TypeOK
    <3>8. beat' \in [Workers -> {"on", "off", "lost"}]
      BY <2>25 DEF Settle, Raise, EndProcess, TypeOK
    <3>9. given' \in [Workers -> Chain]
      BY <2>25, ResultTypes DEF Settle, Raise, EndProcess, TypeOK
    <3>10. held' \in [Workers -> Result]
      BY <2>25, ResultTypes DEF Settle, Raise, EndProcess, TypeOK
    <3>11. unknown' \in [Workers -> BOOLEAN]
      <4>1. unknown \in [Workers -> BOOLEAN]
        BY DEF TypeOK
      <4>2. unknown' = unknown \/ unknown' = [unknown EXCEPT ![w] = FALSE]
        BY <2>25 DEF Settle, EndProcess
      <4> QED
        BY <4>1, <4>2
    <3>12. failure' \in [Workers -> Failure]
      <4>1. failure \in [Workers -> Failure]
        BY DEF TypeOK
      <4>2. \E f \in Failure : failure' = [failure EXCEPT ![w] = f]
        BY <2>25 DEF Settle, EndProcess, Raise, Failure
      <4> QED
        BY <4>1, <4>2
    <3> QED
      BY <2>25, <3>1, <3>2, <3>3, <3>4, <3>5, <3>6, <3>7, <3>8, <3>9, <3>10, <3>11, <3>12 DEF
         Settle, Raise, EndProcess, TypeOK
  <2>26. ASSUME NEW j \in Jobs, NEW c \in Calls, ReportDispatched(j, c)
       PROVE  TypeOK'
    BY <2>26 DEF ReportDispatched, TypeOK, OpState
  <2>27. ASSUME NEW j \in Jobs, NEW c \in Calls, ReportReturned(j, c)
       PROVE  TypeOK'
    <3>1. op' \in [Jobs -> [Calls -> OpState]]
      BY <2>27 DEF ReportReturned, AtLeast, TypeOK, OpState
    <3>2. status' \in [Jobs -> Status]
      BY <2>27 DEF ReportReturned, AtLeast, TypeOK, Status, Terminal, Active
    <3>3. agentResult' \in [Jobs -> Result]
      BY <2>27, ResultTypes DEF ReportReturned, AtLeast, TypeOK
    <3>4. errorCode' \in [Jobs -> {"none", "operation_result_unknown"}]
      BY <2>27 DEF ReportReturned, AtLeast, TypeOK
    <3>5. maxAttempts' \in [Jobs -> Nat]
      <4>1. maxAttempts \in [Jobs -> Nat]
        BY DEF TypeOK
      <4>2. maxAttempts' = maxAttempts \/ maxAttempts' = [maxAttempts EXCEPT ![j] = AtLeast(maxAttempts[j], attempt[j] + 1)]
        BY <2>27 DEF ReportReturned
      <4>3. attempt \in [Jobs -> Nat]
        BY DEF TypeOK
      <4> QED
        BY <4>1, <4>2, <4>3 DEF AtLeast
    <3> QED
      BY <2>27, <3>1, <3>2, <3>3, <3>4, <3>5 DEF ReportReturned, AtLeast, TypeOK
  <2>28. ASSUME NEW h \in Hosts, NEW j \in Jobs, ReconcileStart(h, j)
       PROVE  TypeOK'
    <3>1. seen' \in [Hosts -> Reading]
      <4>1. seen \in [Hosts -> Reading]
        BY DEF TypeOK
      <4>2. seen' = [seen EXCEPT ![h] = [job |-> j, attempt |-> attempt[j],
                                        maxAttempts |-> maxAttempts[j], calls |-> Open(j)]]
        BY <2>28 DEF ReconcileStart
      <4>3. attempt \in [Jobs -> Nat]
        BY DEF TypeOK
      <4>4. maxAttempts \in [Jobs -> Nat]
        BY DEF TypeOK
      <4> QED
        BY <4>1, <4>2, <4>3, <4>4 DEF Reading, Open
    <3> QED
      BY <2>28, <3>1 DEF ReconcileStart, TypeOK
  <2>29. ASSUME NEW h \in Hosts, NEW F \in SUBSET Calls, ReconcileFinish(h, F)
       PROVE  TypeOK'
    <3>1. op' \in [Jobs -> [Calls -> OpState]]
      <4>1. op \in [Jobs -> [Calls -> OpState]]
        BY DEF TypeOK
      <4>2. op' = [op EXCEPT ![seen[h].job] =
                      [c \in Calls |-> IF c \in F THEN "returned" ELSE op[seen[h].job][c]]]
        BY <2>29 DEF ReconcileFinish
      <4> QED
        BY <4>1, <4>2 DEF OpState
    <3>2. seen' \in [Hosts -> Reading]
      <4>1. seen \in [Hosts -> Reading]
        BY DEF TypeOK
      <4>2. seen' = [seen EXCEPT ![h] = NoReading]
        BY <2>29 DEF ReconcileFinish
      <4> QED
        BY <4>1, <4>2 DEF Reading, NoReading
    <3>3. status' \in [Jobs -> Status]
      BY <2>29 DEF ReconcileFinish, AtLeast, TypeOK, Status, Terminal, Active
    <3>4. agentResult' \in [Jobs -> Result]
      BY <2>29, ResultTypes DEF ReconcileFinish, AtLeast, TypeOK
    <3>5. errorCode' \in [Jobs -> {"none", "operation_result_unknown"}]
      BY <2>29 DEF ReconcileFinish, AtLeast, TypeOK
    <3>6. maxAttempts' \in [Jobs -> Nat]
      <4>1. maxAttempts \in [Jobs -> Nat]
        BY DEF TypeOK
      <4>2. \/ maxAttempts' = maxAttempts
          \/ maxAttempts' = [maxAttempts EXCEPT ![seen[h].job] = 
             LET budget == AtLeast(seen[h].maxAttempts, seen[h].attempt + 1)
             IN IF budget # seen[h].maxAttempts THEN budget ELSE maxAttempts[seen[h].job]]
        BY <2>29 DEF ReconcileFinish
      <4>3. seen[h] \in Reading
        BY DEF TypeOK
      <4> QED
        BY <4>1, <4>2, <4>3 DEF AtLeast, Reading
    <3> QED
      BY <2>29, <3>1, <3>2, <3>3, <3>4, <3>5, <3>6 DEF ReconcileFinish, AtLeast, TypeOK
  <2>30. ASSUME UNCHANGED vars
       PROVE  TypeOK'
    BY <2>30 DEF vars, TypeOK
  <2> QED
    BY <2>1, <2>2, <2>3, <2>4, <2>5, <2>6, <2>7, <2>8, <2>9, <2>10, <2>11, <2>12, <2>13, <2>14,
       <2>15, <2>16, <2>17, <2>18, <2>19, <2>20, <2>21, <2>22, <2>23, <2>24, <2>25, <2>26, <2>27,
       <2>28, <2>29, <2>30 DEF Next, Poll, Agent, Work
<1>3. TypeOK /\ Busy /\ [Next]_vars => Busy'
  <2> SUFFICES ASSUME TypeOK, Busy, [Next]_vars PROVE Busy'
    OBVIOUS
  <2>1. ASSUME NEW j \in Jobs, SubmitAction(j)
       PROVE  Busy'
    BY <2>1 DEF SubmitAction, Busy, TypeOK
  <2>2. ASSUME NEW j \in Jobs, Cancel(j)
       PROVE  Busy'
    BY <2>2 DEF Cancel, Busy, TypeOK
  <2>3. ASSUME NEW j \in Jobs, LeaseLapses(j)
       PROVE  Busy'
    BY <2>3 DEF LeaseLapses, Busy, TypeOK
  <2>4. ASSUME NEW j \in Jobs, AgentStops(j)
       PROVE  Busy'
    BY <2>4 DEF AgentStops, Busy, TypeOK
  <2>5. ASSUME NEW w \in Workers, NEW E \in SUBSET Abandoned, RecoverExpired(w, E)
       PROVE  Busy'
    BY <2>5 DEF RecoverExpired, Busy, TypeOK
  <2>6. ASSUME NEW w \in Workers, NEW j \in Jobs, Claim(w, j)
       PROVE  Busy'
    BY <2>6 DEF Claim, Busy, TypeOK
  <2>7. ASSUME NEW w \in Workers, Heartbeat(w)
       PROVE  Busy'
    BY <2>7 DEF Heartbeat, Busy, TypeOK
  <2>8. ASSUME NEW w \in Workers, HeartbeatLost(w)
       PROVE  Busy'
    BY <2>8 DEF HeartbeatLost, Busy, TypeOK
  <2>9. ASSUME NEW w \in Workers, RecordFailure(w)
       PROVE  Busy'
    BY <2>9 DEF RecordFailure, EndProcess, Busy, TypeOK
  <2>10. ASSUME NEW w \in Workers, RecordFailureRaises(w)
       PROVE  Busy'
    BY <2>10 DEF RecordFailureRaises, Busy, TypeOK
  <2>11. ASSUME NEW p \in Processes, Crash(p)
       PROVE  Busy'
    BY <2>11 DEF Crash, Busy, TypeOK
  <2>12. ASSUME NEW w \in Workers, NEW f \in {"retryable", "final"}, Fails(w, f)
       PROVE  Busy'
    BY <2>12 DEF Fails, Raise, Busy, TypeOK
  <2>13. ASSUME NEW w \in Workers, Load(w)
       PROVE  Busy'
    BY <2>13, SMTT(30) DEF Load, Raise, Goto, Busy, TypeOK
  <2>14. ASSUME NEW w \in Workers, NEW E \in SUBSET Abandoned, Prepare(w, E)
       PROVE  Busy'
    BY <2>14 DEF Prepare, Goto, Busy, TypeOK
  <2>15. ASSUME NEW w \in Workers, NEW E \in SUBSET Abandoned, PrepareRefused(w, E)
       PROVE  Busy'
    BY <2>15 DEF PrepareRefused, Raise, Busy, TypeOK
  <2>16. ASSUME NEW w \in Workers, ResumeOperations(w)
       PROVE  Busy'
    <3>1. pc[w] = "resume" /\ task' = task
      BY <2>16 DEF ResumeOperations
    <3>2. \E s \in {"select", "check"} : pc' = [pc EXCEPT ![w] = s]
      BY <2>16 DEF ResumeOperations, Goto
    <3> QED
      BY <3>1, <3>2 DEF Busy, TypeOK
  <2>17. ASSUME NEW w \in Workers, SelectTools(w)
       PROVE  Busy'
    BY <2>17, SMTT(30) DEF SelectTools, Goto, Raise, Busy, TypeOK
  <2>18. ASSUME NEW w \in Workers, CallAgent(w)
       PROVE  Busy'
    BY <2>18 DEF CallAgent, Goto, Busy, TypeOK
  <2>19. ASSUME NEW w \in Workers, NEW k \in {"reply", "malformed", "handoff"}, NEW n \in 0..MaxTokens, AgentReturns(w, k, n)
       PROVE  Busy'
    BY <2>19 DEF AgentReturns, Goto, Busy, TypeOK
  <2>20. ASSUME NEW w \in Workers, NEW n \in Unbilled..MaxTokens, NEW g \in BOOLEAN, NEW f \in {"retryable", "final"}, AgentFails(w, n, f, g)
       PROVE  Busy'
    BY <2>20 DEF AgentFails, Raise, Busy, TypeOK
  <2>21. ASSUME NEW w \in Workers, Handoff(w)
       PROVE  Busy'
    BY <2>21 DEF Handoff, Raise, Busy, TypeOK
  <2>22. ASSUME NEW w \in Workers, Persist(w)
       PROVE  Busy'
    <3>1. pc' = [pc EXCEPT ![w] = "check"] \/ pc' = [pc EXCEPT ![w] = "raise"]
      BY <2>22 DEF Persist, Goto, Raise
    <3>2. pc[w] = "persist" /\ task' = task
      BY <2>22 DEF Persist
    <3> QED
      BY <3>1, <3>2 DEF Busy, TypeOK
  <2>23. ASSUME NEW w \in Workers, CheckOperations(w)
       PROVE  Busy'
    BY <2>23 DEF CheckOperations, Goto, Raise, Busy, TypeOK
  <2>24. ASSUME NEW w \in Workers, Project(w)
       PROVE  Busy'
    BY <2>24 DEF Project, Goto, Busy, TypeOK
  <2>25. ASSUME NEW w \in Workers, Settle(w)
       PROVE  Busy'
    <3>1. \/ pc' = [pc EXCEPT ![w] = "raise"] /\ task' = task
          \/ (\E l \in {"idle", "dead"} : pc' = [pc EXCEPT ![w] = l]) /\ task' = [task EXCEPT ![w] = NoJob]
      <4>1. CASE EndProcess(w)
        BY <4>1 DEF EndProcess
      <4>2. CASE Raise(w, "final") /\ task' = task
        BY <4>2 DEF Raise
      <4>3. CASE Raise(w, "unknown") /\ task' = task
        BY <4>3 DEF Raise
      <4> QED
        BY <2>25, <4>1, <4>2, <4>3 DEF Settle
    <3>2. pc[w] = "settle"
      BY <2>25 DEF Settle
    <3> QED
      BY <3>1, <3>2 DEF Busy, TypeOK
  <2>26. ASSUME NEW j \in Jobs, NEW c \in Calls, ReportDispatched(j, c)
       PROVE  Busy'
    BY <2>26 DEF ReportDispatched, Busy, TypeOK
  <2>27. ASSUME NEW j \in Jobs, NEW c \in Calls, ReportReturned(j, c)
       PROVE  Busy'
    BY <2>27 DEF ReportReturned, Busy, TypeOK
  <2>28. ASSUME NEW h \in Hosts, NEW j \in Jobs, ReconcileStart(h, j)
       PROVE  Busy'
    BY <2>28 DEF ReconcileStart, Busy, TypeOK
  <2>29. ASSUME NEW h \in Hosts, NEW F \in SUBSET Calls, ReconcileFinish(h, F)
       PROVE  Busy'
    BY <2>29 DEF ReconcileFinish, Busy, TypeOK
  <2>30. ASSUME UNCHANGED vars
       PROVE  Busy'
    BY <2>30 DEF vars, Busy
  <2> QED
    BY <2>1, <2>2, <2>3, <2>4, <2>5, <2>6, <2>7, <2>8, <2>9, <2>10, <2>11, <2>12, <2>13, <2>14,
       <2>15, <2>16, <2>17, <2>18, <2>19, <2>20, <2>21, <2>22, <2>23, <2>24, <2>25, <2>26, <2>27,
       <2>28, <2>29, <2>30 DEF Next, Poll, Agent, Work
<1>4. TypeOK /\ Looking /\ [Next]_vars => Looking'
  <2> SUFFICES ASSUME TypeOK, Looking, [Next]_vars PROVE Looking'
    OBVIOUS
  <2>1. ASSUME NEW j \in Jobs, NEW c \in Calls, ReportDispatched(j, c)
       PROVE  Looking'
    <3>1. op' = [op EXCEPT ![j][c] = "dispatched"] /\ seen' = seen
      BY <2>1 DEF ReportDispatched
    <3> QED
      BY <3>1 DEF Looking, Rows, TypeOK
  <2>2. ASSUME NEW j \in Jobs, NEW c \in Calls, ReportReturned(j, c)
       PROVE  Looking'
    <3>1. op' = [op EXCEPT ![j][c] = "returned"] /\ seen' = seen
      BY <2>2 DEF ReportReturned
    <3> QED
      BY <3>1 DEF Looking, Rows, TypeOK
  <2>3. ASSUME NEW h \in Hosts, NEW j \in Jobs, ReconcileStart(h, j)
       PROVE  Looking'
    <3>1. /\ seen' = [seen EXCEPT ![h] = [job |-> j, attempt |-> attempt[j],
                                          maxAttempts |-> maxAttempts[j], calls |-> Open(j)]]
          /\ op' = op
      BY <2>3 DEF ReconcileStart
    <3> QED
      BY <3>1 DEF Looking, Rows, Open, TypeOK
  <2>4. ASSUME NEW h \in Hosts, NEW F \in SUBSET Calls, ReconcileFinish(h, F)
       PROVE  Looking'
    <3>1. /\ op' = [op EXCEPT ![seen[h].job] =
                       [c \in Calls |-> IF c \in F THEN "returned" ELSE op[seen[h].job][c]]]
          /\ seen' = [seen EXCEPT ![h] = NoReading]
      BY <2>4 DEF ReconcileFinish
    <3>2. \A j \in Jobs : Rows(j) \subseteq Rows(j)'
      BY <3>1 DEF Rows, TypeOK
    <3> QED
      BY <3>1, <3>2 DEF Looking, TypeOK
  <2>5. ASSUME UNCHANGED <<op, seen>>
       PROVE  Looking'
    BY <2>5 DEF Looking, Rows
  <2>6. ASSUME NEW w \in Workers, Work(w) \/ Heartbeat(w)
       PROVE  UNCHANGED <<op, seen>>
    BY <2>6
    DEF Work, Heartbeat, RecordFailure, Fails, Load, Prepare, PrepareRefused, ResumeOperations,
        SelectTools, CallAgent, Handoff, Persist, CheckOperations, Project, Settle
  <2>7. ASSUME NEW w \in Workers, Poll(w) \/ Agent(w) \/ HeartbeatLost(w) \/ RecordFailureRaises(w)
       PROVE  UNCHANGED <<op, seen>>
    BY <2>7
    DEF Poll, Agent, RecoverExpired, Claim, AgentReturns, AgentFails, HeartbeatLost,
        RecordFailureRaises
  <2>8. ASSUME NEW j \in Jobs, SubmitAction(j) \/ Cancel(j) \/ LeaseLapses(j) \/ AgentStops(j)
       PROVE  UNCHANGED <<op, seen>>
    BY <2>8 DEF SubmitAction, Cancel, LeaseLapses, AgentStops
  <2>9. ASSUME NEW p \in Processes, Crash(p)
       PROVE  UNCHANGED <<op, seen>>
    BY <2>9 DEF Crash
  <2>10. ASSUME UNCHANGED vars
       PROVE  UNCHANGED <<op, seen>>
    BY <2>10 DEF vars
  <2> QED
    BY <2>1, <2>2, <2>3, <2>4, <2>5, <2>6, <2>7, <2>8, <2>9, <2>10 DEF Next
<1> QED
  BY <1>1, <1>2, <1>3, <1>4, PTL DEF Spec

-----------------------------------------------------------------------------
(* Cancellation.                                                           *)

\* A cancel request is never taken back.
LEMMA CancelSteps ==
    ASSUME TypeOK, [Next]_vars, NEW j \in Jobs
    PROVE  Promise!CancelStep(j)
<1>1. ASSUME NEW i \in Jobs, Cancel(i) PROVE Promise!CancelStep(j)
  BY <1>1 DEF Cancel, Promise!CancelStep, TypeOK
<1>2. ASSUME cancelRequested' = cancelRequested PROVE Promise!CancelStep(j)
  BY <1>2 DEF Promise!CancelStep
<1>3. ASSUME NEW w \in Workers, Work(w) PROVE cancelRequested' = cancelRequested
  BY <1>3
  DEF Work, Fails, Load, Prepare, PrepareRefused, ResumeOperations, SelectTools, CallAgent,
      Handoff, Persist, CheckOperations, Project, Settle, RecordFailure
<1>4. ASSUME NEW w \in Workers, Poll(w) \/ Agent(w) \/ Heartbeat(w) \/ HeartbeatLost(w)
                                 \/ RecordFailureRaises(w)
      PROVE  cancelRequested' = cancelRequested
  BY <1>4
  DEF Poll, RecoverExpired, Claim, Agent, AgentReturns, AgentFails, Heartbeat, HeartbeatLost,
      RecordFailureRaises
<1>5. ASSUME UNCHANGED vars PROVE cancelRequested' = cancelRequested
  BY <1>5 DEF vars
<1> QED
  BY <1>1, <1>2, <1>3, <1>4, <1>5
  DEF Next, SubmitAction, LeaseLapses, AgentStops, Crash, ReportDispatched, ReportReturned,
      ReconcileStart, ReconcileFinish

\* Receipts change only in report_room_operation and in a host's reconcile request.
LEMMA OpSteps ==
    ASSUME [Next]_vars
    PROVE  \/ op' = op
           \/ \E j \in Jobs, c \in Calls : ReportDispatched(j, c) \/ ReportReturned(j, c)
           \/ \E h \in Hosts, found \in SUBSET Calls : ReconcileFinish(h, found)
<1>1. ASSUME NEW w \in Workers, Work(w) PROVE op' = op
  BY <1>1
  DEF Work, Fails, Load, Prepare, PrepareRefused, ResumeOperations, SelectTools, CallAgent,
      Handoff, Persist, CheckOperations, Project, Settle, RecordFailure
<1>2. ASSUME NEW w \in Workers, Poll(w) \/ Agent(w) \/ Heartbeat(w) \/ HeartbeatLost(w)
                                 \/ RecordFailureRaises(w)
      PROVE  op' = op
  BY <1>2
  DEF Poll, RecoverExpired, Claim, Agent, AgentReturns, AgentFails, Heartbeat, HeartbeatLost,
      RecordFailureRaises
<1>3. ASSUME UNCHANGED vars PROVE op' = op
  BY <1>3 DEF vars
<1> QED
  BY <1>1, <1>2, <1>3
  DEF Next, SubmitAction, Cancel, LeaseLapses, AgentStops, Crash, ReconcileStart

\* What holds of a turn whose cancel was accepted, and of every failed turn.
CancelInv == \A j \in Jobs : cancelRequested[j] => status[j] \notin {"succeeded", "failed"}

\* No step breaks it.
LEMMA CancelCorrect == Spec => []CancelInv
<1>1. Init => CancelInv
  BY DEF Init, CancelInv
<1>2. TypeOK /\ Busy /\ CancelInv /\ [Next]_vars => CancelInv'
  <2> SUFFICES ASSUME TypeOK, Busy, CancelInv, [Next]_vars PROVE CancelInv'
    OBVIOUS
  <2>1. ASSUME NEW j \in Jobs, SubmitAction(j) PROVE CancelInv'
    BY <2>1 DEF SubmitAction, CancelInv, TypeOK
  <2>2. ASSUME NEW j \in Jobs, Cancel(j) PROVE CancelInv'
    <3>1. status[j] \notin Terminal
      BY <2>2 DEF Cancel
    <3>2. cancelRequested' = [cancelRequested EXCEPT ![j] = TRUE]
      BY <2>2 DEF Cancel
    <3>3. status' = status \/ status' = [status EXCEPT ![j] = "cancelled"]
      BY <2>2 DEF Cancel
    <3> QED
      BY <3>1, <3>2, <3>3 DEF CancelInv, TypeOK, Terminal
  <2>3. ASSUME NEW w \in Workers, NEW E \in SUBSET Abandoned, RecoverExpired(w, E) PROVE CancelInv'
    BY <2>3 DEF RecoverExpired, RecoveredStatus, Resting, CancelInv, TypeOK
  <2>4. ASSUME NEW w \in Workers, NEW j \in Jobs, Claim(w, j) PROVE CancelInv'
    BY <2>4 DEF Claim, CancelInv, TypeOK
  <2>5. ASSUME NEW w \in Workers, RecordFailure(w) PROVE CancelInv'
    <3>1. cancelRequested' = cancelRequested /\ task[w] \in Jobs
      BY <2>5 DEF RecordFailure, Busy
    <3>2. \/ status' = status
          \/ status' = [status EXCEPT ![task[w]] = FailedStatus(task[w], failure[w])]
      BY <2>5 DEF RecordFailure
    <3> QED
      BY <3>1, <3>2 DEF FailedStatus, Resting, CancelInv, TypeOK
  <2>6. ASSUME NEW w \in Workers, Persist(w) PROVE CancelInv'
    <3>1. /\ cancelRequested' = cancelRequested
          /\ status' = status \/ status' = [status EXCEPT ![task[w]] = "running"]
      BY <2>6 DEF Persist
    <3> QED
      BY <3>1 DEF CancelInv, TypeOK
  <2>7. ASSUME NEW w \in Workers, Settle(w) PROVE CancelInv'
    <3>1. cancelRequested' = cancelRequested
      BY <2>7 DEF Settle
    <3>2. \/ status' = status
          \/ /\ Publishable(task[w])
             /\ \E s \in {"running", "succeeded"} : status' = [status EXCEPT ![task[w]] = s]
      BY <2>7 DEF Settle
    <3> QED
      BY <3>1, <3>2 DEF Publishable, CancelInv, TypeOK
  <2>8. ASSUME NEW j \in Jobs, NEW c \in Calls, ReportReturned(j, c) PROVE CancelInv'
    BY <2>8 DEF ReportReturned, CancelInv, TypeOK
  <2>9. ASSUME NEW h \in Hosts, NEW F \in SUBSET Calls, ReconcileFinish(h, F) PROVE CancelInv'
    <3>1. /\ cancelRequested' = cancelRequested
          /\ status' = status \/ status' = [status EXCEPT ![seen[h].job] = "queued"]
      BY <2>9 DEF ReconcileFinish
    <3> QED
      BY <3>1 DEF CancelInv, TypeOK
  <2>10. ASSUME UNCHANGED <<status, cancelRequested>> PROVE CancelInv'
    BY <2>10 DEF CancelInv
  <2>11. ASSUME NEW w \in Workers, Agent(w) \/ Heartbeat(w) \/ HeartbeatLost(w) \/ RecordFailureRaises(w)
         PROVE UNCHANGED <<status, cancelRequested>>
    BY <2>11
    DEF Agent, AgentReturns, AgentFails, Heartbeat, HeartbeatLost, RecordFailureRaises
  <2>12. ASSUME NEW w \in Workers, Work(w) PROVE CancelInv'
    BY <2>5, <2>6, <2>7, <2>10, <2>12
    DEF Work, Fails, Load, Prepare, PrepareRefused, ResumeOperations,
        SelectTools, CallAgent, Handoff, CheckOperations, Project
  <2>13. ASSUME UNCHANGED vars PROVE CancelInv'
    BY <2>10, <2>13 DEF vars
  <2> QED
    BY <2>1, <2>2, <2>3, <2>4, <2>8, <2>9, <2>10, <2>11, <2>12, <2>13
    DEF Next, Poll, LeaseLapses, AgentStops, Crash, ReportDispatched, ReconcileStart
<1> QED
  BY <1>1, <1>2, TypeCorrect, PTL DEF Spec

\* A turn that failed had not been cancelled: recovery and _record_failure ask
\* cancel_requested before they call a turn failed, and cancel_room_turn_job
\* refuses a turn that is over.
THEOREM FailedNotCancelled == Spec => []FailedWasNotCancelled
<1>1. CancelInv => FailedWasNotCancelled
  BY DEF CancelInv, FailedWasNotCancelled
<1> QED
  BY <1>1, CancelCorrect, PTL

\* Once a cancel is accepted no step makes the turn a success or lets its Agent start
\* another operation: publication and dispatch ask under the row's lock.
THEOREM CancelAlwaysWins == Spec => CancelWins
<1>1. TypeOK /\ Busy /\ Looking /\ CancelInv /\ CancelInv' /\ [Next]_vars
        => \A j \in Jobs : cancelRequested[j] => status'[j] # "succeeded" /\ Rows(j)' = Rows(j)
  <2> SUFFICES ASSUME TypeOK, Busy, Looking, CancelInv, CancelInv', [Next]_vars,
                      NEW j \in Jobs, cancelRequested[j]
               PROVE  status'[j] # "succeeded" /\ Rows(j)' = Rows(j)
    OBVIOUS
  <2>1. cancelRequested'[j]
    <3>1. Promise!CancelStep(j)
      BY CancelSteps
    <3> QED
      BY <3>1 DEF Promise!CancelStep
  <2>2. status'[j] # "succeeded"
    BY <2>1 DEF CancelInv
  <2>3. ASSUME NEW i \in Jobs, NEW c \in Calls, ReportDispatched(i, c) PROVE Rows(j)' = Rows(j)
    <3>1. op' = [op EXCEPT ![i][c] = "dispatched"] /\ i # j
      BY <2>3 DEF ReportDispatched, MayDispatch
    <3> QED
      BY <3>1 DEF Rows, TypeOK
  <2>4. ASSUME NEW i \in Jobs, NEW c \in Calls, ReportReturned(i, c) PROVE Rows(j)' = Rows(j)
    <3>1. op' = [op EXCEPT ![i][c] = "returned"] /\ op[i][c] # "absent"
      BY <2>4 DEF ReportReturned
    <3> QED
      BY <3>1 DEF Rows, TypeOK
  <2>5. ASSUME NEW h \in Hosts, NEW F \in SUBSET Calls, ReconcileFinish(h, F)
        PROVE  Rows(j)' = Rows(j)
    <3>1. /\ op' = [op EXCEPT ![seen[h].job] =
                      [c \in Calls |-> IF c \in F THEN "returned" ELSE op[seen[h].job][c]]]
          /\ F \subseteq Rows(seen[h].job)
      BY <2>5 DEF ReconcileFinish, Looking
    <3> QED
      BY <3>1 DEF Rows, TypeOK
  <2>6. op' = op => Rows(j)' = Rows(j)
    BY DEF Rows
  <2> QED
    BY <2>2, <2>3, <2>4, <2>5, <2>6, OpSteps
<1> QED
  BY <1>1, TypeCorrect, CancelCorrect, PTL DEF Spec, CancelWins

-----------------------------------------------------------------------------
(* Money.                                                                  *)

\* All that a step may do to the money of turn j: take the hold, give it back, or
\* charge a first consumption of n tokens to an open hold.
MoneyStep(j) ==
    \/ hold'[j] = hold[j] /\ provider'[j] = provider[j] /\ charge'[j] = charge[j]
    \/ /\ hold[j] = "none" /\ hold'[j] = "reserved"
       /\ provider'[j] = provider[j] /\ charge'[j] = charge[j]
    \/ /\ hold[j] = "reserved" /\ hold'[j] \in {"released", "expired"}
       /\ provider'[j] = provider[j] /\ charge'[j] = charge[j]
    \/ /\ hold[j] = "reserved" /\ hold'[j] = "settled" /\ provider[j] = Unbilled
       /\ \E n \in 0..MaxTokens : provider'[j] = n /\ charge'[j] = AtMost(n, Reserved)

\* Accounting for the same answer twice changes nothing (the idempotency keys of
\* record_provider_consumption and settle).
LEMMA AccountStep ==
    ASSUME TypeOK, ChargeMatchesConsumption, NEW j \in Jobs, NEW n \in 0..MaxTokens,
           Accountable(j, n), Account(j, n)
    PROVE  \A i \in Jobs : MoneyStep(i)
<1>1. \A i \in Jobs \ {j} : MoneyStep(i)
  BY DEF Account, MoneyStep, TypeOK
<1>2. CASE charge[j] = Unbilled
  <2>1. hold[j] = "reserved" /\ provider[j] = Unbilled
    BY <1>2, ConstantsAssumption
    DEF Accountable, ChargeMatchesConsumption, AtMost, TypeOK, Unbilled
  <2>2. hold'[j] = "settled" /\ provider'[j] = n /\ charge'[j] = AtMost(n, Reserved)
    BY <2>1 DEF Account, TypeOK
  <2> QED
    BY <1>1, <2>1, <2>2 DEF MoneyStep
<1>3. CASE charge[j] # Unbilled
  <2>1. hold[j] = "settled" /\ provider[j] # Unbilled /\ charge[j] = AtMost(n, Reserved)
    BY <1>3, ConstantsAssumption
    DEF Accountable, ChargeMatchesConsumption, AtMost, TypeOK, Unbilled
  <2>2. hold'[j] = hold[j] /\ provider'[j] = provider[j] /\ charge'[j] = charge[j]
    BY <2>1 DEF Account, TypeOK
  <2> QED
    BY <1>1, <2>2 DEF MoneyStep
<1> QED
  BY <1>2, <1>3

\* Every step of the queue is a MoneyStep of every turn.
LEMMA MoneySteps ==
    ASSUME TypeOK, Busy, ChargeMatchesConsumption, [Next]_vars
    PROVE  \A i \in Jobs : MoneyStep(i)
<1>1. ASSUME NEW j \in Jobs, Cancel(j) PROVE \A i \in Jobs : MoneyStep(i)
  <2>1. /\ provider' = provider /\ charge' = charge
        /\ hold' = hold \/ hold' = [hold EXCEPT ![j] = Released(j)]
    BY <1>1 DEF Cancel
  <2> QED
    BY <2>1 DEF Released, MoneyStep, TypeOK
<1>2. ASSUME NEW w \in Workers, NEW E \in SUBSET Abandoned, RecoverExpired(w, E)
      PROVE  \A i \in Jobs : MoneyStep(i)
  BY <1>2 DEF RecoverExpired, Abandoned, Released, MoneyStep, TypeOK
<1>3. ASSUME NEW w \in Workers, RecordFailure(w) PROVE \A i \in Jobs : MoneyStep(i)
  <2> DEFINE n == FailedStatus(task[w], failure[w])
  <2>1. provider' = provider /\ charge' = charge
    BY <1>3 DEF RecordFailure
  <2>2. hold' = hold \/ hold' = [hold EXCEPT ![task[w]] =
                                   IF n \in Terminal THEN Released(task[w]) ELSE @]
    BY <1>3 DEF RecordFailure
  <2> HIDE DEF n
  <2> QED
    BY <2>1, <2>2 DEF Released, MoneyStep, TypeOK
<1>4. ASSUME NEW w \in Workers, NEW E \in SUBSET Abandoned,
             Prepare(w, E) \/ PrepareRefused(w, E)
      PROVE  \A i \in Jobs : MoneyStep(i)
  BY <1>4 DEF Prepare, PrepareRefused, Abandoned, MoneyStep, TypeOK
<1>5. ASSUME NEW w \in Workers, ResumeOperations(w) PROVE \A i \in Jobs : MoneyStep(i)
  <2>1. /\ provider' = provider /\ charge' = charge
        /\ hold' = hold \/ hold' = [hold EXCEPT ![task[w]] = Released(task[w])]
    BY <1>5 DEF ResumeOperations
  <2> QED
    BY <2>1 DEF Released, MoneyStep, TypeOK
<1>6. ASSUME NEW w \in Workers, NEW n \in Unbilled..MaxTokens, NEW f, NEW g \in BOOLEAN,
             AgentFails(w, n, f, g)
      PROVE  \A i \in Jobs : MoneyStep(i)
  <2>1. task[w] \in Jobs
    BY <1>6 DEF AgentFails, Busy
  <2>2. \/ UNCHANGED <<hold, provider, charge>>
        \/ n # Unbilled /\ Accountable(task[w], n) /\ Account(task[w], n)
    BY <1>6 DEF AgentFails
  <2>3. CASE UNCHANGED <<hold, provider, charge>>
    BY <2>3 DEF MoneyStep
  <2>4. CASE n # Unbilled /\ Accountable(task[w], n) /\ Account(task[w], n)
    <3>1. n \in 0..MaxTokens
      BY <2>4, ConstantsAssumption DEF Unbilled
    <3> QED
      BY <2>1, <2>4, <3>1, AccountStep
  <2> QED
    BY <2>2, <2>3, <2>4
<1>7. ASSUME NEW w \in Workers, Persist(w) PROVE \A i \in Jobs : MoneyStep(i)
  <2>1. task[w] \in Jobs /\ held[w].tokens \in 0..MaxTokens
    BY <1>7 DEF Persist, Busy, TypeOK, Result
  <2>2. \/ UNCHANGED <<hold, provider, charge>>
        \/ Accountable(task[w], held[w].tokens) /\ Account(task[w], held[w].tokens)
    BY <1>7 DEF Persist
  <2>3. CASE UNCHANGED <<hold, provider, charge>>
    BY <2>3 DEF MoneyStep
  <2> QED
    BY <2>1, <2>2, <2>3, AccountStep
<1>8. ASSUME UNCHANGED <<hold, provider, charge>> PROVE \A i \in Jobs : MoneyStep(i)
  BY <1>8 DEF MoneyStep
<1>9. ASSUME NEW w \in Workers, Work(w) PROVE \A i \in Jobs : MoneyStep(i)
  BY <1>3, <1>4, <1>5, <1>7, <1>8, <1>9
  DEF Work, Fails, Load, SelectTools, CallAgent, Handoff, CheckOperations, Project, Settle
<1>10. ASSUME NEW w \in Workers, Agent(w) PROVE \A i \in Jobs : MoneyStep(i)
  BY <1>6, <1>8, <1>10 DEF Agent, AgentReturns
<1>11. ASSUME NEW w \in Workers, Poll(w) PROVE \A i \in Jobs : MoneyStep(i)
  BY <1>2, <1>8, <1>11 DEF Poll, Claim
<1>12. ASSUME NEW w \in Workers, Heartbeat(w) \/ HeartbeatLost(w) \/ RecordFailureRaises(w)
       PROVE UNCHANGED <<hold, provider, charge>>
  BY <1>12 DEF Heartbeat, HeartbeatLost, RecordFailureRaises
<1>13. ASSUME UNCHANGED vars PROVE UNCHANGED <<hold, provider, charge>>
  BY <1>13 DEF vars
<1> QED
  BY <1>1, <1>8, <1>9, <1>10, <1>11, <1>12, <1>13
  DEF Next, SubmitAction, LeaseLapses, AgentStops, Crash, ReportDispatched, ReportReturned,
      ReconcileStart, ReconcileFinish

\* All that a step may do to worker v: carry on to the next phase of its turn with
\* what that phase leaves behind, give up, finish, or nothing.
Phase(v, from, to) == pc[v] = from /\ pc'[v] = to /\ task'[v] = task[v]
WorkerStep(v) ==
    \/ pc'[v] = pc[v] /\ task'[v] = task[v] /\ held'[v] = held[v]
    \/ pc'[v] \in {"idle", "dead", "raise", "load"}
    \/ Phase(v, "load", "prepare") /\ held'[v] = agentResult[task[v]]
    \/ /\ Phase(v, "prepare", IF held[v] = NoResult THEN "resume" ELSE "check")
       /\ held'[v] = held[v] /\ hold'[task[v]] # "none"
    \/ Phase(v, "resume", "select")
    \/ Phase(v, "resume", "check") /\ hold'[task[v]] = Released(task[v])
    \/ Phase(v, "select", "call") \/ Phase(v, "call", "waiting")
    \/ Phase(v, "waiting", "handoff")
    \/ Phase(v, "waiting", "persist")
    \/ /\ Phase(v, "persist", "check")
       /\ agentResult[task[v]] # NoResult \/ hold'[task[v]] = "settled"
    \/ Phase(v, "check", "project") \/ Phase(v, "project", "settle")

\* Every step of the queue is a WorkerStep of every worker.
LEMMA WorkerSteps ==
    ASSUME TypeOK, Busy, [Next]_vars, NEW v \in Workers
    PROVE  WorkerStep(v)
<1>1. ASSUME NEW w \in Workers, EndProcess(w) PROVE WorkerStep(v)
  BY <1>1 DEF EndProcess, WorkerStep, TypeOK
<1>2. ASSUME NEW w \in Workers, NEW f, Raise(w, f), task' = task, held' = held PROVE WorkerStep(v)
  BY <1>2 DEF Raise, WorkerStep, TypeOK
<1>3. ASSUME UNCHANGED <<pc, task, held>> PROVE WorkerStep(v)
  BY <1>3 DEF WorkerStep
<1>4. ASSUME NEW w \in Workers, NEW j \in Jobs, Claim(w, j) PROVE WorkerStep(v)
  BY <1>4 DEF Claim, WorkerStep, TypeOK
<1>5. ASSUME NEW p \in Processes, Crash(p) PROVE WorkerStep(v)
  BY <1>5 DEF Crash, WorkerStep, TypeOK
<1>6. ASSUME NEW w \in Workers, RecordFailureRaises(w) PROVE WorkerStep(v)
  BY <1>6 DEF RecordFailureRaises, WorkerStep, TypeOK
<1>7. ASSUME NEW w \in Workers, Load(w) PROVE WorkerStep(v)
  <2>1. CASE Raise(w, "final") /\ task' = task /\ held' = held
    BY <1>2, <2>1
  <2>2. CASE Goto(w, "prepare") /\ task' = task /\ held' = [held EXCEPT ![w] = agentResult[task[w]]]
    BY <1>7, <2>2 DEF Load, Goto, WorkerStep, Phase, TypeOK
  <2> QED
    BY <1>7, <2>1, <2>2 DEF Load
<1>8. ASSUME NEW w \in Workers, NEW E \in SUBSET Abandoned, Prepare(w, E) PROVE WorkerStep(v)
  <2>1. /\ pc[w] = "prepare" /\ task[w] \in Jobs /\ task' = task /\ held' = held
        /\ hold'[task[w]] # "none"
        /\ pc' = [pc EXCEPT ![w] = IF held[w] = NoResult THEN "resume" ELSE "check"]
    BY <1>8 DEF Prepare, Goto, NeedsAgent, Busy, TypeOK
  <2> QED
    BY <2>1 DEF WorkerStep, Phase, TypeOK
<1>9. ASSUME NEW w \in Workers, ResumeOperations(w) PROVE WorkerStep(v)
  <2>1. pc[w] = "resume" /\ task' = task /\ task[w] \in Jobs
    BY <1>9 DEF ResumeOperations, Busy
  <2>2. CASE Goto(w, "select") /\ held' = held
    BY <2>1, <2>2 DEF Goto, WorkerStep, Phase, TypeOK
  <2>3. CASE /\ Goto(w, "check") /\ hold' = [hold EXCEPT ![task[w]] = Released(task[w])]
             /\ held' = [held EXCEPT ![w] = Recovered(task[w])]
    <3>1. pc' = [pc EXCEPT ![w] = "check"] /\ hold'[task[w]] = Released(task[w])
      BY <2>1, <2>3 DEF Goto, TypeOK
    <3> QED
      BY <2>1, <2>3, <3>1 DEF WorkerStep, Phase, TypeOK
  <2> QED
    BY <1>9, <2>2, <2>3 DEF ResumeOperations
<1>10. ASSUME NEW w \in Workers, SelectTools(w) \/ CallAgent(w) PROVE WorkerStep(v)
  <2>1. task' = task /\ held' = held
    BY <1>10 DEF SelectTools, CallAgent
  <2>2. CASE \/ pc[w] = "select" /\ Goto(w, "call")
             \/ pc[w] = "call" /\ Goto(w, "waiting")
    BY <2>1, <2>2 DEF Goto, WorkerStep, Phase, TypeOK
  <2> QED
    BY <1>2, <1>10, <2>1, <2>2 DEF SelectTools, CallAgent
<1>11. ASSUME NEW w \in Workers, NEW k \in {"reply", "malformed", "handoff"},
              NEW n \in 0..MaxTokens, AgentReturns(w, k, n)
       PROVE  WorkerStep(v)
  <2>1. /\ pc[w] = "waiting" /\ task' = task /\ held' = [held EXCEPT ![w] = Answer(k, n)]
        /\ pc' = [pc EXCEPT ![w] = "handoff"] \/ pc' = [pc EXCEPT ![w] = "persist"]
    BY <1>11 DEF AgentReturns, Goto
  <2> QED
    BY <2>1 DEF Answer, WorkerStep, Phase, TypeOK
<1>12. ASSUME NEW w \in Workers, NEW n \in Unbilled..MaxTokens, NEW f, NEW g \in BOOLEAN,
              AgentFails(w, n, f, g)
       PROVE  WorkerStep(v)
  <2>1. task' = task /\ held' = held /\ \E e : Raise(w, e)
    BY <1>12 DEF AgentFails
  <2> QED
    BY <1>2, <2>1
<1>13. ASSUME NEW w \in Workers, Handoff(w) PROVE WorkerStep(v)
  <2>1. task' = task /\ held' = held /\ (Raise(w, "final") \/ Raise(w, "retryable"))
    BY <1>13 DEF Handoff
  <2> QED
    BY <1>2, <2>1
<1>14. ASSUME NEW w \in Workers, Persist(w) PROVE WorkerStep(v)
  <2>1. pc[w] = "persist" /\ task' = task /\ held' = held /\ task[w] \in Jobs
    BY <1>14 DEF Persist, Busy
  <2>2. CASE Raise(w, "retryable")
    BY <1>2, <2>1, <2>2
  <2>3. CASE Goto(w, "check") /\ agentResult[task[w]] # NoResult
    BY <2>1, <2>3 DEF Goto, WorkerStep, Phase, TypeOK
  <2>4. CASE Goto(w, "check") /\ hold' = [hold EXCEPT ![task[w]] = "settled"]
    <3>1. pc' = [pc EXCEPT ![w] = "check"] /\ hold'[task[w]] = "settled"
      BY <2>1, <2>4 DEF Goto, TypeOK
    <3> QED
      BY <2>1, <3>1 DEF WorkerStep, Phase, TypeOK
  <2> QED
    BY <1>14, <2>2, <2>3, <2>4 DEF Persist, Account
<1>15. ASSUME NEW w \in Workers, CheckOperations(w) PROVE WorkerStep(v)
  <2>1. pc[w] = "check" /\ task' = task
    BY <1>15 DEF CheckOperations
  <2>2. CASE Raise(w, "final") /\ held' = held
    BY <1>2, <2>1, <2>2
  <2>3. CASE /\ Goto(w, "project")
             /\ held' = held \/ held' = [held EXCEPT ![w] = Recovered(task[w])]
    BY <2>1, <2>3 DEF Goto, WorkerStep, Phase, TypeOK
  <2> QED
    BY <1>15, <2>2, <2>3 DEF CheckOperations
<1>16. ASSUME NEW w \in Workers, Project(w) PROVE WorkerStep(v)
  BY <1>16 DEF Project, Goto, WorkerStep, Phase, TypeOK
<1>17. ASSUME NEW w \in Workers, Settle(w) PROVE WorkerStep(v)
  BY <1>1, <1>2, <1>17 DEF Settle
<1>18. ASSUME NEW w \in Workers, Work(w) PROVE WorkerStep(v)
  <2>1. CASE \E f \in {"retryable", "final"} : Fails(w, f)
    BY <1>2, <2>1 DEF Fails
  <2>2. CASE \E E \in SUBSET Abandoned : PrepareRefused(w, E)
    BY <1>2, <2>2 DEF PrepareRefused
  <2>3. CASE RecordFailure(w)
    BY <1>1, <2>3 DEF RecordFailure
  <2> QED
    BY <1>7, <1>8, <1>9, <1>10, <1>13, <1>14, <1>15, <1>16, <1>17, <1>18, <2>1, <2>2, <2>3 DEF Work
<1>19. ASSUME NEW w \in Workers, Agent(w) PROVE WorkerStep(v)
  BY <1>11, <1>12, <1>19 DEF Agent
<1>20. ASSUME NEW w \in Workers, Poll(w) PROVE WorkerStep(v)
  BY <1>3, <1>4, <1>20 DEF Poll, RecoverExpired
<1>21. ASSUME NEW w \in Workers, Heartbeat(w) \/ HeartbeatLost(w) PROVE UNCHANGED <<pc, task, held>>
  BY <1>21 DEF Heartbeat, HeartbeatLost
<1>22. ASSUME UNCHANGED vars PROVE UNCHANGED <<pc, task, held>>
  BY <1>22 DEF vars
<1> QED
  BY <1>3, <1>5, <1>6, <1>18, <1>19, <1>20, <1>21, <1>22
  DEF Next, SubmitAction, Cancel, LeaseLapses, AgentStops, ReportDispatched, ReportReturned,
      ReconcileStart, ReconcileFinish

\* The charge of every turn is its provider consumption capped at the reservation,
\* and its hold is settled exactly when there is a charge.
THEOREM ChargeCorrect == Spec => []ChargeMatchesConsumption
<1>1. Init => ChargeMatchesConsumption
  BY ConstantsAssumption DEF Init, ChargeMatchesConsumption, AtMost, Unbilled
<1>2. TypeOK /\ Busy /\ ChargeMatchesConsumption /\ [Next]_vars => ChargeMatchesConsumption'
  <2> SUFFICES ASSUME TypeOK, Busy, ChargeMatchesConsumption, [Next]_vars, NEW j \in Jobs
               PROVE  /\ charge'[j] = AtMost(provider'[j], Reserved)
                      /\ charge'[j] # Unbilled <=> hold'[j] = "settled"
    BY DEF ChargeMatchesConsumption
  <2>1. MoneyStep(j)
    BY MoneySteps
  <2> QED
    BY <2>1, ConstantsAssumption DEF MoneyStep, ChargeMatchesConsumption, AtMost, TypeOK, Unbilled
<1> QED
  BY <1>1, <1>2, TypeCorrect, PTL DEF Spec

-----------------------------------------------------------------------------
(* Refinement: the queue keeps TurnPromise.                                *)

\* A saved result has been paid for or given away, and so has the turn of a worker
\* on its way to publish; a worker on its way to the Agent holds a reservation.
SavedIsClosed == \A j \in Jobs : agentResult[j] # NoResult => hold[j] \in Promise!Closed
PhasesPaid ==
    \A w \in Workers :
        /\ pc[w] \in {"resume", "select", "call", "waiting", "handoff", "persist"} =>
              hold[task[w]] # "none"
        /\ pc[w] \in {"check", "project", "settle"} => hold[task[w]] \in Promise!Closed
        /\ pc[w] = "prepare" /\ held[w] # NoResult => hold[task[w]] \in Promise!Closed
Paid == SavedIsClosed /\ PhasesPaid

\* What a step may do to the saved result of a turn.
LEMMA SavedSteps ==
    ASSUME TypeOK, Busy, [Next]_vars, NEW j \in Jobs, PhasesPaid
    PROVE  \/ agentResult'[j] = agentResult[j]
           \/ agentResult'[j] = NoResult
           \/ hold'[j] \in Promise!Closed
<1> DEFINE SavedStep(i) == \/ agentResult'[i] = agentResult[i]
                           \/ agentResult'[i] = NoResult
                           \/ hold'[i] \in Promise!Closed
<1>1. ASSUME NEW w \in Workers, ResumeOperations(w) PROVE SavedStep(j)
  <2>1. task[w] \in Jobs /\ hold[task[w]] # "none"
    BY <1>1 DEF ResumeOperations, Busy, PhasesPaid
  <2>2. \/ agentResult' = agentResult
        \/ /\ agentResult' = [agentResult EXCEPT ![task[w]] = Recovered(task[w])]
           /\ hold' = [hold EXCEPT ![task[w]] = Released(task[w])]
    BY <1>1 DEF ResumeOperations
  <2> QED
    BY <2>1, <2>2 DEF Released, Promise!Closed, HoldState, TypeOK
<1>2. ASSUME NEW w \in Workers, Persist(w) PROVE SavedStep(j)
  <2>1. task[w] \in Jobs
    BY <1>2 DEF Persist, Busy
  <2>2. \/ agentResult' = agentResult
        \/ /\ agentResult' = [agentResult EXCEPT ![task[w]] = held[w]]
           /\ hold' = [hold EXCEPT ![task[w]] = "settled"]
    BY <1>2 DEF Persist, Account
  <2> QED
    BY <2>1, <2>2 DEF Promise!Closed, TypeOK
<1>3. ASSUME NEW i \in Jobs, NEW c \in Calls, ReportReturned(i, c) PROVE SavedStep(j)
  BY <1>3 DEF ReportReturned, TypeOK
<1>4. ASSUME NEW h \in Hosts, NEW F \in SUBSET Calls, ReconcileFinish(h, F) PROVE SavedStep(j)
  <2>1. \/ agentResult' = agentResult
        \/ agentResult' = [agentResult EXCEPT ![seen[h].job] = NoResult]
    BY <1>4 DEF ReconcileFinish
  <2> QED
    BY <2>1 DEF TypeOK
<1>5. ASSUME agentResult' = agentResult PROVE SavedStep(j)
  BY <1>5
<1>6. ASSUME NEW w \in Workers, Work(w) PROVE SavedStep(j)
  BY <1>1, <1>2, <1>5, <1>6
  DEF Work, Fails, Load, Prepare, PrepareRefused, SelectTools, CallAgent, Handoff,
      CheckOperations, Project, Settle, RecordFailure
<1>7. ASSUME NEW w \in Workers, Poll(w) \/ Agent(w) \/ Heartbeat(w) \/ HeartbeatLost(w)
                                 \/ RecordFailureRaises(w)
      PROVE  agentResult' = agentResult
  BY <1>7
  DEF Poll, RecoverExpired, Claim, Agent, AgentReturns, AgentFails, Heartbeat, HeartbeatLost,
      RecordFailureRaises
<1>8. ASSUME UNCHANGED vars PROVE agentResult' = agentResult
  BY <1>8 DEF vars
<1> QED
  BY <1>3, <1>4, <1>5, <1>6, <1>7, <1>8
  DEF Next, SubmitAction, Cancel, LeaseLapses, AgentStops, Crash, ReportDispatched, ReconcileStart

\* The strengthening that makes the refinement inductive.
LEMMA PaidCorrect == Spec => []Paid
<1>1. Init => Paid
  BY DEF Init, Paid, SavedIsClosed, PhasesPaid
<1>2. TypeOK /\ Busy /\ ChargeMatchesConsumption /\ Paid /\ [Next]_vars => Paid'
  <2> SUFFICES ASSUME TypeOK, Busy, ChargeMatchesConsumption, Paid, [Next]_vars
               PROVE  Paid'
    OBVIOUS
  <2>1. ASSUME NEW j \in Jobs
        PROVE  /\ hold[j] # "none" => hold'[j] # "none"
               /\ hold[j] \in Promise!Closed => hold'[j] \in Promise!Closed
    <3>1. MoneyStep(j)
      BY MoneySteps
    <3> QED
      BY <3>1 DEF MoneyStep, Promise!Closed
  <2>2. SavedIsClosed'
    <3> SUFFICES ASSUME NEW j \in Jobs, agentResult'[j] # NoResult
                 PROVE  hold'[j] \in Promise!Closed
      BY DEF SavedIsClosed, Promise!Closed
    <3>1. \/ agentResult'[j] = agentResult[j]
          \/ hold'[j] \in Promise!Closed
      BY SavedSteps DEF Paid
    <3> QED
      BY <2>1, <3>1 DEF Paid, SavedIsClosed
  <2>3. PhasesPaid'
    <3> SUFFICES ASSUME NEW v \in Workers
                 PROVE  /\ pc'[v] \in {"resume", "select", "call", "waiting", "handoff", "persist"} =>
                              hold'[task'[v]] # "none"
                        /\ pc'[v] \in {"check", "project", "settle"} => hold'[task'[v]] \in Promise!Closed
                        /\ pc'[v] = "prepare" /\ held'[v] # NoResult => hold'[task'[v]] \in Promise!Closed
      BY DEF PhasesPaid, Promise!Closed
    <3>1. WorkerStep(v)
      BY WorkerSteps
    <3>2. pc[v] \notin {"idle", "dead"} => task[v] \in Jobs
      BY DEF Busy
    <3> QED
      BY <2>1, <3>1, <3>2 DEF WorkerStep, Phase, Paid, PhasesPaid, SavedIsClosed, Released,
         Promise!Closed, HoldState, TypeOK
  <2> QED
    BY <2>2, <2>3 DEF Paid
<1> QED
  BY <1>1, <1>2, TypeCorrect, ChargeCorrect, PTL DEF Spec

\* Presentations appear only where the publication transaction commits one.
LEMMA ShowSteps ==
    ASSUME TypeOK, Busy, Paid, [Next]_vars, NEW j \in Jobs
    PROVE  Promise!ShowStep(j)
<1>1. ASSUME NEW w \in Workers, Settle(w) PROVE Promise!ShowStep(j)
  <2>1. task[w] \in Jobs /\ hold[task[w]] \in Promise!Closed /\ held[w] \in Result
    BY <1>1 DEF Settle, Busy, Paid, PhasesPaid, TypeOK
  <2>2. \/ published' = published
        \/ /\ ~cancelRequested[task[w]]
           /\ published' = [published EXCEPT ![task[w]] = @ \cup {held[w]}]
    BY <1>1 DEF Settle, Publishable
  <2> QED
    BY <2>1, <2>2 DEF Promise!ShowStep, TypeOK
<1>2. ASSUME published' = published PROVE Promise!ShowStep(j)
  BY <1>2 DEF Promise!ShowStep
<1>3. ASSUME NEW w \in Workers, Work(w) PROVE Promise!ShowStep(j)
  BY <1>1, <1>2, <1>3
  DEF Work, Fails, Load, Prepare, PrepareRefused, ResumeOperations, SelectTools, CallAgent,
      Handoff, Persist, CheckOperations, Project, RecordFailure
<1>4. ASSUME NEW w \in Workers, Poll(w) \/ Agent(w) \/ Heartbeat(w) \/ HeartbeatLost(w)
                                 \/ RecordFailureRaises(w)
      PROVE  published' = published
  BY <1>4
  DEF Poll, RecoverExpired, Claim, Agent, AgentReturns, AgentFails, Heartbeat, HeartbeatLost,
      RecordFailureRaises
<1>5. ASSUME UNCHANGED vars PROVE published' = published
  BY <1>5 DEF vars
<1> QED
  BY <1>2, <1>3, <1>4, <1>5
  DEF Next, SubmitAction, Cancel, LeaseLapses, AgentStops, Crash, ReportDispatched, ReportReturned,
      ReconcileStart, ReconcileFinish

\* The queue implements TurnPromise: whatever workers, replicas, Agents, receipts and
\* hosts do, a turn's hold is taken once and closed once, by a charge of at most the
\* reservation or by giving it back, and nothing is presented before that or after
\* a cancel.
THEOREM PromiseKept == Spec => KeepsPromise
<1>1. Init => Promise!Init
  BY DEF Init, Promise!Init, Unbilled, Promise!Unbilled
<1>2. TypeOK /\ Busy /\ ChargeMatchesConsumption /\ Paid /\ [Next]_vars
        => [Promise!Next]_Promise!vars
  <2> SUFFICES ASSUME TypeOK, Busy, ChargeMatchesConsumption, Paid, [Next]_vars,
                      NEW j \in Jobs
               PROVE  Promise!HoldStep(j) /\ Promise!ShowStep(j) /\ Promise!CancelStep(j)
    BY DEF Promise!Next
  <2>1. Promise!HoldStep(j)
    <3>1. MoneyStep(j)
      BY MoneySteps
    <3>2. \A n \in 0..MaxTokens : AtMost(n, Reserved) \in 0..Reserved
      BY ConstantsAssumption DEF AtMost
    <3> QED
      BY <3>1, <3>2 DEF MoneyStep, Promise!HoldStep
  <2> QED
    BY <2>1, ShowSteps, CancelSteps
<1> QED
  BY <1>1, <1>2, TypeCorrect, ChargeCorrect, PaidCorrect, PTL DEF Spec, KeepsPromise, Promise!Spec

-----------------------------------------------------------------------------
(* Operations.                                                             *)

\* Any two open receipts of a turn are the same one.
OpenInv == \A j \in Jobs : \A c, d \in Open(j) : c = d

\* At most one operation of a turn has an unknown outcome, whichever of its Agents
\* asks: report_room_operation refuses to dispatch while another receipt is open.
THEOREM OneOpenOperation == Spec => []OneUnknownOperation
<1>1. Init => OpenInv
  BY DEF Init, OpenInv, Open
<1>2. TypeOK /\ OpenInv /\ [Next]_vars => OpenInv'
  <2> SUFFICES ASSUME TypeOK, OpenInv, [Next]_vars PROVE OpenInv'
    OBVIOUS
  <2>1. ASSUME NEW j \in Jobs, NEW c \in Calls, ReportDispatched(j, c) PROVE OpenInv'
    <3>1. op' = [op EXCEPT ![j][c] = "dispatched"] /\ Open(j) = {}
      BY <2>1 DEF ReportDispatched, MayDispatch
    <3> QED
      BY <3>1 DEF OpenInv, Open, TypeOK
  <2>2. ASSUME NEW j \in Jobs, NEW c \in Calls, ReportReturned(j, c) PROVE OpenInv'
    <3>1. op' = [op EXCEPT ![j][c] = "returned"]
      BY <2>2 DEF ReportReturned
    <3> QED
      BY <3>1 DEF OpenInv, Open, TypeOK
  <2>3. ASSUME NEW h \in Hosts, NEW F \in SUBSET Calls, ReconcileFinish(h, F) PROVE OpenInv'
    <3>1. op' = [op EXCEPT ![seen[h].job] =
                   [c \in Calls |-> IF c \in F THEN "returned" ELSE op[seen[h].job][c]]]
      BY <2>3 DEF ReconcileFinish
    <3> QED
      BY <3>1 DEF OpenInv, Open, TypeOK
  <2>4. op' = op => OpenInv'
    BY DEF OpenInv, Open
  <2> QED
    BY <2>1, <2>2, <2>3, <2>4, OpSteps
<1>3. OpenInv => OneUnknownOperation
  <2> SUFFICES ASSUME OpenInv, NEW j \in Jobs PROVE Cardinality(Open(j)) <= 1
    BY DEF OneUnknownOperation
  <2>1. CASE Open(j) = {}
    BY <2>1, FS_EmptySet
  <2>2. CASE Open(j) # {}
    <3>1. PICK c \in Open(j) : TRUE
      BY <2>2
    <3>2. Open(j) = {c}
      BY <3>1 DEF OpenInv
    <3> QED
      BY <3>2, FS_Singleton, SMTT(30)
  <2> QED
    BY <2>1, <2>2
<1> QED
  BY <1>1, <1>2, <1>3, TypeCorrect, PTL DEF Spec

-----------------------------------------------------------------------------
(* Retry budget.                                                           *)

\* A turn that may be claimed, now or once it is submitted, has an attempt left.
AttemptLeft ==
    \A j \in Jobs : ~revived[j] =>
        /\ attempt[j] <= maxAttempts[j]
        /\ status[j] \in {"absent", "queued", "waiting"} => attempt[j] < maxAttempts[j]

\* A reconcile request that read the present attempt has read no budget that would
\* leave an attempt, unless the turn has one.
ReadingsFit ==
    \A h \in Hosts : seen[h] # NoReading =>
        /\ seen[h].attempt <= attempt[seen[h].job]
        /\ /\ ~revived[seen[h].job] /\ seen[h].attempt = attempt[seen[h].job]
           /\ seen[h].maxAttempts > seen[h].attempt
           => maxAttempts[seen[h].job] > attempt[seen[h].job]

BudgetInv == AttemptLeft /\ ReadingsFit

\* The larger of two numbers is a number, and at least each of them.
LEMMA AtLeastBounds ==
    \A a, b \in Nat : AtLeast(a, b) \in Nat /\ AtLeast(a, b) >= a /\ AtLeast(a, b) >= b
BY DEF AtLeast

\* A budget only changes to one that leaves an attempt.
Raises ==
    /\ attempt' = attempt /\ revived' = revived /\ seen' = seen
    /\ \A i \in Jobs : \/ maxAttempts'[i] = maxAttempts[i]
                       \/ maxAttempts'[i] \in Nat /\ maxAttempts'[i] > attempt[i]

LEMMA RaisesFits ==
    ASSUME TypeOK, Looking, ReadingsFit, Raises PROVE ReadingsFit'
<1> SUFFICES ASSUME NEW h \in Hosts, seen[h] # NoReading
             PROVE  /\ seen[h].attempt <= attempt[seen[h].job]
                    /\ /\ ~revived[seen[h].job] /\ seen[h].attempt = attempt[seen[h].job]
                       /\ seen[h].maxAttempts > seen[h].attempt
                       => maxAttempts'[seen[h].job] > attempt[seen[h].job]
  BY DEF ReadingsFit, Raises
<1>1. seen[h].job \in Jobs
  BY DEF Looking
<1> QED
  BY <1>1 DEF ReadingsFit, Raises

\* No turn is claimed more often than its budget allows, although claim never looks
\* at it: whatever puts a turn back in the queue has looked, a reconcile request at
\* what it read before its awaits, which is enough unless the turn was claimed again
\* meanwhile.
THEOREM BudgetKept == Spec => []AttemptBudget
<1>1. Init => BudgetInv
  BY ConstantsAssumption DEF Init, BudgetInv, AttemptLeft, ReadingsFit
<1>2. TypeOK /\ Busy /\ Looking /\ BudgetInv /\ [Next]_vars => BudgetInv'
  <2> SUFFICES ASSUME TypeOK, Busy, Looking, BudgetInv, [Next]_vars PROVE BudgetInv'
    OBVIOUS
  <2>0. /\ AttemptLeft /\ ReadingsFit
        /\ \A i \in Jobs : attempt[i] \in Nat /\ maxAttempts[i] \in Nat
    BY DEF BudgetInv, TypeOK
  <2>1. ASSUME NEW j \in Jobs, SubmitAction(j) \/ Cancel(j) PROVE BudgetInv'
    <3>1. /\ UNCHANGED <<attempt, maxAttempts, revived, seen>>
          /\ \/ status' = status \/ status' = [status EXCEPT ![j] = "cancelled"]
             \/ status[j] = "absent" /\ status' = [status EXCEPT ![j] = "queued"]
      BY <2>1 DEF SubmitAction, Cancel
    <3>2. AttemptLeft'
      BY <2>0, <3>1 DEF AttemptLeft, TypeOK
    <3> QED
      BY <2>0, <3>1, <3>2, RaisesFits DEF Raises, BudgetInv
  <2>2. ASSUME NEW w \in Workers, NEW E \in SUBSET Abandoned, RecoverExpired(w, E) PROVE BudgetInv'
    <3>1. UNCHANGED <<attempt, maxAttempts, revived, seen>>
      BY <2>2 DEF RecoverExpired
    <3>2. AttemptLeft'
      BY <2>0, <2>2, <3>1 DEF RecoverExpired, RecoveredStatus, Resting, AttemptLeft, TypeOK
    <3> QED
      BY <2>0, <3>1, <3>2, RaisesFits DEF Raises, BudgetInv
  <2>3. ASSUME NEW w \in Workers, NEW j \in Jobs, Claim(w, j) PROVE BudgetInv'
    <3>1. /\ status[j] \in {"queued", "waiting"} /\ UNCHANGED <<maxAttempts, revived, seen>>
          /\ status' = [status EXCEPT ![j] = "running"] /\ attempt' = [attempt EXCEPT ![j] = @ + 1]
      BY <2>3 DEF Claim, Claimable
    <3>2. AttemptLeft'
      BY <2>0, <3>1 DEF AttemptLeft, TypeOK
    <3>3. ASSUME NEW h \in Hosts, seen[h] # NoReading
          PROVE  /\ seen[h].attempt <= attempt'[seen[h].job]
                 /\ /\ ~revived[seen[h].job] /\ seen[h].attempt = attempt'[seen[h].job]
                    /\ seen[h].maxAttempts > seen[h].attempt
                    => maxAttempts[seen[h].job] > attempt'[seen[h].job]
      <4>1. /\ seen[h].job \in Jobs /\ seen[h].attempt \in Nat
            /\ seen[h].attempt <= attempt[seen[h].job]
        BY <2>0, <3>3 DEF Looking, ReadingsFit, TypeOK, Reading
      <4>2. CASE seen[h].job # j
        BY <2>0, <3>1, <3>3, <4>1, <4>2 DEF ReadingsFit, TypeOK
      <4>3. CASE seen[h].job = j
        <5>1. attempt'[j] = attempt[j] + 1
          BY <3>1 DEF TypeOK
        <5> QED
          BY <2>0, <4>1, <4>3, <5>1
      <4> QED
        BY <4>2, <4>3
    <3>4. ReadingsFit'
      BY <3>1, <3>3 DEF ReadingsFit
    <3> QED
      BY <3>2, <3>4 DEF BudgetInv
  <2>4. ASSUME NEW w \in Workers, RecordFailure(w) PROVE BudgetInv'
    <3>1. /\ UNCHANGED <<attempt, maxAttempts, revived, seen>>
          /\ \/ status' = status
             \/ status' = [status EXCEPT ![task[w]] = FailedStatus(task[w], failure[w])]
      BY <2>4 DEF RecordFailure
    <3>2. AttemptLeft'
      BY <2>0, <3>1 DEF FailedStatus, Resting, AttemptLeft, TypeOK
    <3> QED
      BY <2>0, <3>1, <3>2, RaisesFits DEF Raises, BudgetInv
  <2>5. ASSUME NEW w \in Workers, Persist(w) \/ Settle(w) PROVE BudgetInv'
    <3>1. UNCHANGED <<attempt, maxAttempts, revived, seen>>
      BY <2>5 DEF Persist, Settle
    <3>2. status' = status \/ \E s \in {"running", "succeeded"} : status' = [status EXCEPT ![task[w]] = s]
      BY <2>5 DEF Persist, Settle
    <3>3. AttemptLeft'
      BY <2>0, <3>1, <3>2 DEF AttemptLeft, TypeOK
    <3> QED
      BY <2>0, <3>1, <3>3, RaisesFits DEF Raises, BudgetInv
  <2>6. ASSUME NEW w \in Workers, Handoff(w) PROVE BudgetInv'
    <3>0. UNCHANGED <<attempt, status, revived, seen>>
      BY <2>6 DEF Handoff
    <3>1. \/ maxAttempts' = maxAttempts
          \/ maxAttempts' = [maxAttempts EXCEPT ![task[w]] = AtLeast(@, attempt[task[w]] + 1)]
      BY <2>6 DEF Handoff
    <3>2. \A i \in Jobs : maxAttempts'[i] \in {maxAttempts[i], AtLeast(maxAttempts[i], attempt[i] + 1)}
      BY <3>1 DEF TypeOK
    <3>3. \A i \in Jobs : /\ maxAttempts'[i] \in Nat /\ maxAttempts'[i] >= maxAttempts[i]
                          /\ maxAttempts'[i] = maxAttempts[i] \/ maxAttempts'[i] > attempt[i]
      <4> SUFFICES ASSUME NEW i \in Jobs
                   PROVE  /\ maxAttempts'[i] \in Nat /\ maxAttempts'[i] >= maxAttempts[i]
                          /\ maxAttempts'[i] = maxAttempts[i] \/ maxAttempts'[i] > attempt[i]
        OBVIOUS
      <4>1. attempt[i] \in Nat /\ maxAttempts[i] \in Nat /\ attempt[i] + 1 \in Nat
        BY <2>0
      <4>2. /\ AtLeast(maxAttempts[i], attempt[i] + 1) \in Nat
            /\ AtLeast(maxAttempts[i], attempt[i] + 1) >= maxAttempts[i]
            /\ AtLeast(maxAttempts[i], attempt[i] + 1) >= attempt[i] + 1
        BY <4>1, AtLeastBounds
      <4> QED
        BY <3>2, <4>1, <4>2
    <3>4. AttemptLeft'
      <4> SUFFICES ASSUME NEW i \in Jobs, ~revived[i]
                   PROVE  /\ attempt[i] <= maxAttempts'[i]
                          /\ status[i] \in {"absent", "queued", "waiting"} => attempt[i] < maxAttempts'[i]
        BY <3>0 DEF AttemptLeft
      <4> QED
        BY <2>0, <3>3 DEF AttemptLeft
    <3>5. Raises
      BY <3>0, <3>3 DEF Raises
    <3> QED
      BY <2>0, <3>4, <3>5, RaisesFits DEF BudgetInv
  <2>7. ASSUME NEW j \in Jobs, NEW c \in Calls, ReportReturned(j, c) PROVE BudgetInv'
    <3>1. /\ UNCHANGED <<attempt, revived, seen>>
          /\ \/ status' = status /\ maxAttempts' = maxAttempts
             \/ /\ status' = [status EXCEPT ![j] = "queued"]
                /\ maxAttempts' = [maxAttempts EXCEPT ![j] = AtLeast(@, attempt[j] + 1)]
      BY <2>7 DEF ReportReturned
    <3>2. \A i \in Jobs : \/ status'[i] = status[i] /\ maxAttempts'[i] = maxAttempts[i]
                          \/ maxAttempts'[i] = AtLeast(maxAttempts[i], attempt[i] + 1)
      BY <3>1 DEF TypeOK
    <3>3. \A i \in Jobs : AtLeast(maxAttempts[i], attempt[i] + 1) \in Nat
                          /\ AtLeast(maxAttempts[i], attempt[i] + 1) > attempt[i]
      BY <2>0 DEF AtLeast
    <3>4. AttemptLeft'
      BY <2>0, <3>1, <3>2, <3>3 DEF AttemptLeft
    <3> QED
      BY <2>0, <3>1, <3>2, <3>3, <3>4, RaisesFits DEF Raises, BudgetInv
  <2>8. ASSUME UNCHANGED <<status, attempt, maxAttempts, revived, seen>> PROVE BudgetInv'
    BY <2>8 DEF BudgetInv, AttemptLeft, ReadingsFit
  <2>9. ASSUME NEW w \in Workers, Work(w) PROVE BudgetInv'
    BY <2>4, <2>5, <2>6, <2>8, <2>9
    DEF Work, Fails, Load, Prepare, PrepareRefused, ResumeOperations, SelectTools, CallAgent,
        CheckOperations, Project
  <2>10. ASSUME NEW w \in Workers, Agent(w) \/ Heartbeat(w) \/ HeartbeatLost(w) \/ RecordFailureRaises(w)
         PROVE  UNCHANGED <<status, attempt, maxAttempts, revived, seen>>
    BY <2>10 DEF Agent, AgentReturns, AgentFails, Heartbeat, HeartbeatLost, RecordFailureRaises
  <2>11. ASSUME UNCHANGED vars PROVE UNCHANGED <<status, attempt, maxAttempts, revived, seen>>
    BY <2>11 DEF vars
  <2>12. ASSUME NEW h \in Hosts, NEW j \in Jobs, ReconcileStart(h, j) PROVE BudgetInv'
    <3>1. /\ UNCHANGED <<status, attempt, maxAttempts, revived>>
          /\ seen' = [seen EXCEPT ![h] = [job |-> j, attempt |-> attempt[j],
                                          maxAttempts |-> maxAttempts[j], calls |-> Open(j)]]
      BY <2>12 DEF ReconcileStart
    <3>2. AttemptLeft'
      BY <2>0, <3>1 DEF AttemptLeft
    <3>3. ASSUME NEW g \in Hosts, seen'[g] # NoReading
          PROVE  /\ seen'[g].attempt <= attempt[seen'[g].job]
                 /\ /\ ~revived[seen'[g].job] /\ seen'[g].attempt = attempt[seen'[g].job]
                    /\ seen'[g].maxAttempts > seen'[g].attempt
                    => maxAttempts[seen'[g].job] > attempt[seen'[g].job]
      <4>1. CASE g = h
        <5>1. /\ seen'[g].job = j /\ seen'[g].attempt = attempt[j]
              /\ seen'[g].maxAttempts = maxAttempts[j]
          BY <3>1, <4>1 DEF TypeOK
        <5> QED
          BY <2>0, <5>1
      <4>2. CASE g # h
        <5>1. seen'[g] = seen[g]
          BY <3>1, <4>2 DEF TypeOK
        <5> QED
          BY <2>0, <3>3, <5>1 DEF ReadingsFit
      <4> QED
        BY <4>1, <4>2
    <3>4. ReadingsFit'
      BY <3>1, <3>3 DEF ReadingsFit
    <3> QED
      BY <3>2, <3>4 DEF BudgetInv
  <2>13. ASSUME NEW h \in Hosts, NEW F \in SUBSET Calls, ReconcileFinish(h, F) PROVE BudgetInv'
    <3> DEFINE j == seen[h].job
               budget == AtLeast(seen[h].maxAttempts, seen[h].attempt + 1)
    <3>1. /\ j \in Jobs /\ seen[h].attempt \in Nat /\ seen[h].maxAttempts \in Nat
          /\ seen[h] # NoReading
      BY <2>13 DEF ReconcileFinish, Looking, TypeOK, Reading
    <3>2. /\ attempt' = attempt /\ seen' = [seen EXCEPT ![h] = NoReading]
          /\ \/ UNCHANGED <<status, maxAttempts, revived>>
             \/ /\ status' = [status EXCEPT ![j] = "queued"]
                /\ maxAttempts' = [maxAttempts EXCEPT ![j] =
                                     IF budget # seen[h].maxAttempts THEN budget ELSE @]
                /\ revived' = [revived EXCEPT ![j] = @ \/ attempt[j] # seen[h].attempt]
      BY <2>13 DEF ReconcileFinish
    <3>3. \A i \in Jobs \ {j} : /\ status'[i] = status[i] /\ maxAttempts'[i] = maxAttempts[i]
                                /\ revived'[i] = revived[i]
      BY <3>2 DEF TypeOK
    <3>4. /\ budget \in Nat /\ budget > seen[h].attempt
          /\ budget = seen[h].maxAttempts => seen[h].maxAttempts > seen[h].attempt
      BY <3>1 DEF AtLeast
    <3>5. \/ /\ status'[j] = status[j] /\ maxAttempts'[j] = maxAttempts[j]
             /\ revived'[j] = revived[j]
          \/ revived'[j] \/ maxAttempts'[j] > attempt[j]
      <4>1. CASE UNCHANGED <<status, maxAttempts, revived>>
        BY <4>1
      <4>2. CASE /\ maxAttempts' = [maxAttempts EXCEPT ![j] =
                                     IF budget # seen[h].maxAttempts THEN budget ELSE @]
                 /\ revived' = [revived EXCEPT ![j] = @ \/ attempt[j] # seen[h].attempt]
        <5>1. /\ maxAttempts'[j] = IF budget # seen[h].maxAttempts THEN budget ELSE maxAttempts[j]
              /\ revived'[j] = (revived[j] \/ attempt[j] # seen[h].attempt)
          BY <3>1, <4>2 DEF TypeOK
        <5>2. CASE revived[j] \/ attempt[j] # seen[h].attempt
          BY <5>1, <5>2
        <5>3. CASE ~revived[j] /\ attempt[j] = seen[h].attempt
          <6>1. seen[h].maxAttempts > seen[h].attempt => maxAttempts[j] > attempt[j]
            BY <2>0, <3>1, <5>3 DEF ReadingsFit
          <6> QED
            BY <3>4, <5>1, <5>3, <6>1
        <5> QED
          BY <5>2, <5>3
      <4> QED
        BY <3>2, <4>1, <4>2
    <3> HIDE DEF budget
    <3>6. AttemptLeft'
      <4> SUFFICES ASSUME NEW i \in Jobs, ~revived'[i]
                   PROVE  /\ attempt[i] <= maxAttempts'[i]
                          /\ status'[i] \in {"absent", "queued", "waiting"} => attempt[i] < maxAttempts'[i]
        BY <3>2 DEF AttemptLeft
      <4>1. maxAttempts'[i] \in Nat
        BY <2>0, <3>1, <3>2, <3>4 DEF TypeOK
      <4>2. CASE i # j
        BY <2>0, <3>3, <4>2 DEF AttemptLeft
      <4>3. CASE i = j
        BY <2>0, <3>5, <4>1, <4>3 DEF AttemptLeft
      <4> QED
        BY <4>2, <4>3
    <3>7. ReadingsFit'
      <4> SUFFICES ASSUME NEW g \in Hosts, seen'[g] # NoReading
                   PROVE  /\ seen'[g].attempt <= attempt[seen'[g].job]
                          /\ /\ ~revived'[seen'[g].job] /\ seen'[g].attempt = attempt[seen'[g].job]
                             /\ seen'[g].maxAttempts > seen'[g].attempt
                             => maxAttempts'[seen'[g].job] > attempt[seen'[g].job]
        BY <3>2 DEF ReadingsFit
      <4>1. g # h /\ seen'[g] = seen[g] /\ seen[g].job \in Jobs
        <5>1. g # h /\ seen'[g] = seen[g]
          BY <3>2 DEF TypeOK
        <5> QED
          BY <5>1 DEF Looking
      <4>2. /\ seen[g].attempt <= attempt[seen[g].job]
            /\ /\ ~revived[seen[g].job] /\ seen[g].attempt = attempt[seen[g].job]
               /\ seen[g].maxAttempts > seen[g].attempt
               => maxAttempts[seen[g].job] > attempt[seen[g].job]
        BY <2>0, <4>1 DEF ReadingsFit
      <4>3. CASE seen[g].job # j
        BY <3>3, <4>1, <4>2, <4>3
      <4>4. CASE seen[g].job = j
        BY <3>5, <4>1, <4>2, <4>4
      <4> QED
        BY <4>3, <4>4
    <3> QED
      BY <3>6, <3>7 DEF BudgetInv
  <2> QED
    BY <2>1, <2>2, <2>3, <2>7, <2>8, <2>9, <2>10, <2>11, <2>12, <2>13
    DEF Next, Poll, LeaseLapses, AgentStops, Crash, ReportDispatched
<1>3. BudgetInv => AttemptBudget
  BY DEF BudgetInv, AttemptLeft, AttemptBudget
<1> QED
  BY <1>1, <1>2, <1>3, TypeCorrect, PTL DEF Spec

-----------------------------------------------------------------------------
(* Leases.                                                                 *)

\* Only an active turn is leased.
OwnedIsActive == \A j \in Jobs : owner[j] # Nobody => status[j] \in Active

\* A turn whose result is unknown is not leased and waits in no queue.
UnknownIsIdle ==
    \A j \in Jobs : errorCode[j] = "operation_result_unknown" =>
        owner[j] = Nobody /\ status[j] \notin {"absent", "queued", "waiting"}

\* A lease that lapsed is one nobody renews any more.
LapsedIsGone ==
    \A j \in Jobs, w \in Workers :
        owner[j] # Nobody /\ ~fresh[j] /\ task[w] = j /\ ProcessOf[w] = owner[j] => beat[w] # "on"

LeaseInv == OwnedIsActive /\ UnknownIsIdle /\ LapsedIsGone

Leased(j) == status[j] \in Active /\ owner[j] # Nobody /\ fresh[j]

\* All that a step other than a claim may do to the lease of turn i: nothing, drop
\* it, let it lapse when nobody renews it, leave it to a dead owner, or save a
\* result under it.
LeaseStep(i) ==
    \/ /\ owner'[i] = owner[i] /\ fresh'[i] = fresh[i]
       /\ status'[i] = status[i] /\ errorCode'[i] = errorCode[i]
    \/ /\ owner'[i] = Nobody
       /\ errorCode'[i] = "operation_result_unknown" =>
            status'[i] \notin {"absent", "queued", "waiting"}
    \/ /\ owner'[i] = owner[i] /\ status'[i] = status[i] /\ errorCode'[i] = errorCode[i]
       /\ ~fresh'[i]
       /\ \A w \in Workers : task[w] = i /\ ProcessOf[w] = owner[i] => beat[w] # "on"
    \/ /\ owner[i] \in Processes /\ owner'[i] = Departed
       /\ fresh'[i] = fresh[i] /\ status'[i] = status[i] /\ errorCode'[i] = errorCode[i]
    \/ /\ owner'[i] = owner[i] /\ fresh'[i] = fresh[i]
       /\ status'[i] = "running" /\ errorCode'[i] = "none"

\* ... and to worker v: it takes no turn up and no stopped heartbeat starts again.
BeatStep(v) ==
    task'[v] \in Jobs => task'[v] = task[v] /\ (beat'[v] = "on" => beat[v] = "on")

\* A step keeps LeaseInv and leases no turn.
NoNewLease == LeaseInv' /\ \A j \in Jobs : Leased(j)' => Leased(j)

\* Such steps keep LeaseInv and lease nothing.
LEMMA StepsKeepLeases ==
    ASSUME LeaseInv, \A i \in Jobs : LeaseStep(i), \A v \in Workers : BeatStep(v)
    PROVE  NoNewLease
<1>1. ASSUME NEW i \in Jobs
      PROVE  /\ owner'[i] # Nobody => status'[i] \in Active
             /\ errorCode'[i] = "operation_result_unknown" =>
                  owner'[i] = Nobody /\ status'[i] \notin {"absent", "queued", "waiting"}
             /\ Leased(i)' => Leased(i)
  <2>1. LeaseStep(i)
    OBVIOUS
  <2>2. Nobody \notin Processes
    BY ConstantsAssumption
  <2> QED
    BY <2>1, <2>2 DEF LeaseStep, LeaseInv, OwnedIsActive, UnknownIsIdle, Leased, Active
<1>2. ASSUME NEW i \in Jobs, NEW w \in Workers, owner'[i] # Nobody, ~fresh'[i],
             task'[w] = i, ProcessOf[w] = owner'[i]
      PROVE  beat'[w] # "on"
  <2>1. LeaseStep(i) /\ BeatStep(w)
    OBVIOUS
  <2>2. ProcessOf[w] # Departed
    BY ConstantsAssumption
  <2> QED
    BY <1>2, <2>1, <2>2 DEF LeaseStep, BeatStep, LeaseInv, LapsedIsGone
<1> QED
  BY <1>1, <1>2 DEF NoNewLease, LeaseInv, OwnedIsActive, UnknownIsIdle, LapsedIsGone

\* Every step but a claim is such a step.  A late receipt re-queues only a turn nobody
\* leases, and a heartbeat that renews finds a lease that has not lapsed.
LEMMA LeaseSteps ==
    ASSUME Hosts = {}, ~Stalls, TypeOK, Busy, LeaseInv, [Next]_vars,
           ~ \E w \in Workers, j \in Jobs : Claim(w, j)
    PROVE  (\A i \in Jobs : LeaseStep(i)) /\ (\A v \in Workers : BeatStep(v))
<1> DEFINE Goal == (\A i \in Jobs : LeaseStep(i)) /\ (\A v \in Workers : BeatStep(v))
<1>1. ASSUME UNCHANGED <<task, beat>> PROVE \A v \in Workers : BeatStep(v)
  BY <1>1 DEF BeatStep
<1>2. ASSUME NEW w \in Workers, EndProcess(w) PROVE \A v \in Workers : BeatStep(v)
  BY <1>2, ConstantsAssumption DEF EndProcess, BeatStep, TypeOK
<1>3. ASSUME UNCHANGED <<status, errorCode, owner, fresh>> PROVE \A i \in Jobs : LeaseStep(i)
  BY <1>3 DEF LeaseStep
<1>4. ASSUME NEW j \in Jobs, SubmitAction(j) PROVE Goal
  <2>1. /\ UNCHANGED <<owner, fresh, errorCode, task, beat>> /\ status[j] = "absent"
        /\ status' = [status EXCEPT ![j] = "queued"]
    BY <1>4 DEF SubmitAction
  <2>2. owner[j] = Nobody /\ errorCode[j] # "operation_result_unknown"
    BY <2>1 DEF LeaseInv, OwnedIsActive, UnknownIsIdle, Active
  <2> QED
    BY <1>1, <2>1, <2>2 DEF LeaseStep, TypeOK
<1>5. ASSUME NEW j \in Jobs, Cancel(j) PROVE Goal
  <2>1. UNCHANGED <<task, beat>>
    BY <1>5 DEF Cancel
  <2>2. \/ UNCHANGED <<status, errorCode, owner, fresh>>
        \/ /\ status' = [status EXCEPT ![j] = "cancelled"]
           /\ errorCode' = [errorCode EXCEPT ![j] = "none"]
           /\ owner' = [owner EXCEPT ![j] = Nobody]
           /\ fresh' = [fresh EXCEPT ![j] = FALSE]
    BY <1>5 DEF Cancel
  <2> QED
    BY <1>1, <1>3, <2>1, <2>2 DEF LeaseStep, TypeOK
<1>6. ASSUME NEW j \in Jobs, LeaseLapses(j) PROVE Goal
  <2>1. /\ UNCHANGED <<status, errorCode, owner, task, beat>>
        /\ fresh' = [fresh EXCEPT ![j] = FALSE]
        /\ \A w \in Workers : task[w] = j /\ ProcessOf[w] = owner[j] => beat[w] # "on"
    BY <1>6 DEF LeaseLapses, KeepsLease
  <2> QED
    BY <1>1, <2>1 DEF LeaseStep, TypeOK
<1>7. ASSUME NEW w \in Workers, NEW E \in SUBSET Abandoned, RecoverExpired(w, E) PROVE Goal
  <2>1. /\ UNCHANGED <<task, beat>>
        /\ \A j \in Jobs \ Lapsed : /\ status'[j] = status[j] /\ errorCode'[j] = errorCode[j]
                                    /\ owner'[j] = owner[j] /\ fresh'[j] = fresh[j]
        /\ \A j \in Lapsed : owner'[j] = Nobody /\ errorCode'[j] \in {errorCode[j], "none"}
    BY <1>7 DEF RecoverExpired, Lapsed, TypeOK
  <2>2. \A j \in Lapsed : errorCode[j] # "operation_result_unknown"
    BY DEF Lapsed, LeaseInv, UnknownIsIdle
  <2> QED
    BY <1>1, <2>1, <2>2 DEF LeaseStep
<1>8. ASSUME NEW w \in Workers, Heartbeat(w) PROVE Goal
  <2> DEFINE renews == /\ owner[task[w]] = ProcessOf[w] /\ status[task[w]] \in Active
                       /\ hold[task[w]] \in {"none", "reserved"}
  <2>1. /\ UNCHANGED <<status, errorCode, owner, task>> /\ beat[w] = "on"
        /\ fresh' = [fresh EXCEPT ![task[w]] = @ \/ renews]
        /\ beat' = [beat EXCEPT ![w] = IF renews /\ ~cancelRequested[task[w]] THEN "on" ELSE "off"]
    BY <1>8 DEF Heartbeat
  <2>2. \A v \in Workers : BeatStep(v)
    BY <2>1 DEF BeatStep, TypeOK
  <2>3. task[w] \in Jobs /\ renews => fresh[task[w]]
    <3>1. ProcessOf[w] # Nobody
      BY ConstantsAssumption
    <3>2. fresh[task[w]] \in BOOLEAN \/ task[w] \notin Jobs
      BY DEF TypeOK
    <3> QED
      BY <2>1, <3>1, <3>2 DEF LeaseInv, LapsedIsGone
  <2>4. \A i \in Jobs : fresh'[i] = fresh[i]
    <3> HIDE DEF renews
    <3>1. ASSUME NEW i \in Jobs, i # task[w] PROVE fresh'[i] = fresh[i]
      BY <2>1, <3>1 DEF TypeOK
    <3>2. ASSUME task[w] \in Jobs PROVE fresh'[task[w]] = fresh[task[w]]
      <4>1. fresh'[task[w]] = (fresh[task[w]] \/ renews)
        BY <2>1, <3>2 DEF TypeOK
      <4>2. fresh[task[w]] \in BOOLEAN
        BY <3>2 DEF TypeOK
      <4> QED
        BY <2>3, <3>2, <4>1, <4>2
    <3> QED
      BY <3>1, <3>2
  <2> QED
    BY <2>1, <2>2, <2>4 DEF LeaseStep
<1>9. ASSUME NEW w \in Workers, HeartbeatLost(w) PROVE Goal
  BY <1>3, <1>9 DEF HeartbeatLost, BeatStep, TypeOK
<1>10. ASSUME NEW w \in Workers, RecordFailure(w) PROVE Goal
  <2>1. \/ UNCHANGED <<status, errorCode, owner, fresh>>
        \/ /\ status' = [status EXCEPT ![task[w]] = FailedStatus(task[w], failure[w])]
           /\ errorCode' = [errorCode EXCEPT ![task[w]] =
                IF failure[w] = "unknown" THEN "operation_result_unknown" ELSE "none"]
           /\ owner' = [owner EXCEPT ![task[w]] = Nobody]
           /\ fresh' = [fresh EXCEPT ![task[w]] = FALSE]
    BY <1>10 DEF RecordFailure
  <2>2. failure[w] = "unknown" => FailedStatus(task[w], failure[w]) \in {"cancelled", "failed"}
    BY DEF FailedStatus
  <2>3. \A i \in Jobs : LeaseStep(i)
    BY <1>3, <2>1, <2>2 DEF LeaseStep, TypeOK
  <2>4. EndProcess(w)
    BY <1>10 DEF RecordFailure
  <2> QED
    BY <1>2, <2>3, <2>4
<1>11. ASSUME NEW w \in Workers, RecordFailureRaises(w) PROVE Goal
  BY <1>3, <1>11, ConstantsAssumption DEF RecordFailureRaises, BeatStep, TypeOK
<1>12. ASSUME NEW p \in Processes, Crash(p) PROVE Goal
  <2>1. /\ UNCHANGED <<status, errorCode, fresh>>
        /\ owner' = [j \in Jobs |-> IF owner[j] = p THEN Departed ELSE owner[j]]
    BY <1>12 DEF Crash
  <2>2. \A v \in Workers : BeatStep(v)
    BY <1>12, ConstantsAssumption DEF Crash, BeatStep, TypeOK
  <2> QED
    BY <2>1, <2>2 DEF LeaseStep
<1>13. ASSUME NEW w \in Workers, Persist(w) PROVE Goal
  <2>1. /\ UNCHANGED <<owner, fresh, task, beat>>
        /\ \/ UNCHANGED <<status, errorCode>>
           \/ /\ status' = [status EXCEPT ![task[w]] = "running"]
              /\ errorCode' = [errorCode EXCEPT ![task[w]] = "none"]
    BY <1>13 DEF Persist
  <2> QED
    BY <1>1, <1>3, <2>1 DEF LeaseStep, TypeOK
<1>14. ASSUME NEW w \in Workers, Settle(w) PROVE Goal
  <2>1. /\ errorCode' = errorCode
        /\ \/ UNCHANGED <<status, owner, fresh>>
           \/ /\ \E s \in {"running", "succeeded"} : status' = [status EXCEPT ![task[w]] = s]
              /\ owner' = [owner EXCEPT ![task[w]] = Nobody]
              /\ fresh' = [fresh EXCEPT ![task[w]] = FALSE]
    BY <1>14 DEF Settle
  <2>2. \/ UNCHANGED <<task, beat>>
        \/ EndProcess(w)
    BY <1>14 DEF Settle
  <2>3. \A i \in Jobs : LeaseStep(i)
    BY <1>3, <2>1 DEF LeaseStep, TypeOK
  <2> QED
    BY <1>1, <1>2, <2>2, <2>3
<1>15. ASSUME NEW j \in Jobs, NEW c \in Calls, ReportReturned(j, c) PROVE Goal
  <2>1. /\ UNCHANGED <<owner, fresh, task, beat>>
        /\ \/ UNCHANGED <<status, errorCode>>
           \/ /\ errorCode[j] = "operation_result_unknown"
              /\ status' = [status EXCEPT ![j] = "queued"]
              /\ errorCode' = [errorCode EXCEPT ![j] = "none"]
    BY <1>15 DEF ReportReturned, Resumes
  <2>2. errorCode[j] = "operation_result_unknown" => owner[j] = Nobody
    BY DEF LeaseInv, UnknownIsIdle
  <2> QED
    BY <1>1, <1>3, <2>1, <2>2 DEF LeaseStep, TypeOK
<1>16. ASSUME UNCHANGED <<status, errorCode, owner, fresh, task, beat>> PROVE Goal
  BY <1>1, <1>3, <1>16
<1> HIDE DEF Goal
<1>17. ASSUME NEW w \in Workers, Work(w) PROVE Goal
  BY <1>10, <1>13, <1>14, <1>16, <1>17
  DEF Work, Fails, Load, Prepare, PrepareRefused, ResumeOperations, SelectTools, CallAgent,
      Handoff, CheckOperations, Project
<1>18. ASSUME NEW w \in Workers, Agent(w) PROVE Goal
  BY <1>16, <1>18 DEF Agent, AgentReturns, AgentFails
<1>19. ASSUME UNCHANGED vars PROVE Goal
  BY <1>16, <1>19 DEF vars
<1>20. Goal
  BY <1>4, <1>5, <1>6, <1>7, <1>8, <1>9, <1>11, <1>12, <1>15, <1>16, <1>17, <1>18, <1>19
  DEF Next, Poll, AgentStops, ReportDispatched
<1> QED
  BY <1>20 DEF Goal

\* The limit, and what counting needs.
RoomsInv == \A r \in Rooms : IsFiniteSet(LeasedIn(r)) /\ Cardinality(LeasedIn(r)) <= PerRoom

\* The unexpired leases of a room never exceed its limit, across all replicas: a
\* renewal never revives a lease that the limit no longer counts.
THEOREM LeaseLimitKept == ASSUME Hosts = {}, ~Stalls PROVE Spec => []LeaseLimit
<1>1. Init => LeaseInv /\ RoomsInv
  <2> SUFFICES ASSUME Init PROVE LeaseInv /\ RoomsInv
    OBVIOUS
  <2>1. LeaseInv
    BY ConstantsAssumption DEF Init, LeaseInv, OwnedIsActive, UnknownIsIdle, LapsedIsGone
  <2>2. \A r \in Rooms : LeasedIn(r) = {}
    BY DEF Init, LeasedIn
  <2>3. RoomsInv
    BY <2>2, FS_EmptySet, ConstantsAssumption DEF RoomsInv
  <2> QED
    BY <2>1, <2>3
<1>2. TypeOK /\ Busy /\ LeaseInv /\ RoomsInv /\ [Next]_vars => LeaseInv' /\ RoomsInv'
  <2> SUFFICES ASSUME TypeOK, Busy, LeaseInv, RoomsInv, [Next]_vars PROVE LeaseInv' /\ RoomsInv'
    OBVIOUS
  <2>1. CASE \E w \in Workers, j \in Jobs : Claim(w, j)
    <3>1. PICK w \in Workers, j \in Jobs : Claim(w, j)
      BY <2>1
    <3>2. LeaseInv'
      BY <3>1, ConstantsAssumption
      DEF Claim, Claimable, LeaseInv, OwnedIsActive, UnknownIsIdle, LapsedIsGone, Active, TypeOK
    <3>3. \A r \in Rooms : \/ LeasedIn(r)' = LeasedIn(r)
                           \/ r = RoomOf[j] /\ LeasedIn(r)' = LeasedIn(r) \cup {j}
      <4>1. /\ status' = [status EXCEPT ![j] = "running"]
            /\ owner' = [owner EXCEPT ![j] = ProcessOf[w]] /\ fresh' = [fresh EXCEPT ![j] = TRUE]
        BY <3>1 DEF Claim
      <4>2. RoomOf[j] \in Rooms /\ ProcessOf[w] # Nobody
        BY ConstantsAssumption
      <4>3. \A i \in Jobs \ {j} : Leased(i)' <=> Leased(i)
        BY <4>1 DEF Leased, TypeOK
      <4>4. Leased(j)'
        BY <4>1, <4>2 DEF Leased, Active, TypeOK
      <4>5. \A r \in Rooms : LeasedIn(r) = {i \in Jobs : RoomOf[i] = r /\ Leased(i)}
        BY DEF LeasedIn, Leased
      <4>6. \A r \in Rooms : LeasedIn(r)' = {i \in Jobs : RoomOf[i] = r /\ Leased(i)'}
        BY DEF LeasedIn, Leased
      <4> QED
        BY <4>3, <4>4, <4>5, <4>6
    <3>4. Cardinality(LeasedIn(RoomOf[j])) < PerRoom
      BY <3>1 DEF Claim, Claimable
    <3>5. ASSUME NEW r \in Rooms
          PROVE  IsFiniteSet(LeasedIn(r))' /\ (Cardinality(LeasedIn(r)) <= PerRoom)'
      <4>1. IsFiniteSet(LeasedIn(r)) /\ Cardinality(LeasedIn(r)) <= PerRoom
        BY DEF RoomsInv
      <4>2. CASE LeasedIn(r)' = LeasedIn(r)
        BY <4>1, <4>2
      <4>3. CASE r = RoomOf[j] /\ LeasedIn(r)' = LeasedIn(r) \cup {j}
        <5>1. /\ IsFiniteSet(LeasedIn(r) \cup {j})
              /\ Cardinality(LeasedIn(r) \cup {j}) \in {Cardinality(LeasedIn(r)), Cardinality(LeasedIn(r)) + 1}
          BY <4>1, FS_AddElement
        <5>2. Cardinality(LeasedIn(r)) \in Nat
          BY <4>1, FS_CardinalityType
        <5> QED
          BY <3>4, <4>3, <5>1, <5>2, ConstantsAssumption
      <4> QED
        BY <3>3, <4>2, <4>3
    <3> QED
      BY <3>2, <3>5 DEF RoomsInv
  <2>2. CASE ~ \E w \in Workers, j \in Jobs : Claim(w, j)
    <3>1. NoNewLease
      BY <2>2, LeaseSteps, StepsKeepLeases
    <3>2. \A r \in Rooms : LeasedIn(r)' \subseteq LeasedIn(r)
      BY <3>1 DEF NoNewLease, Leased, LeasedIn
    <3>3. ASSUME NEW r \in Rooms
          PROVE  IsFiniteSet(LeasedIn(r)') /\ Cardinality(LeasedIn(r)') <= PerRoom
      <4>1. IsFiniteSet(LeasedIn(r)) /\ Cardinality(LeasedIn(r)) <= PerRoom
        BY DEF RoomsInv
      <4>2. IsFiniteSet(LeasedIn(r)') /\ Cardinality(LeasedIn(r)') <= Cardinality(LeasedIn(r))
        BY <3>2, <4>1, FS_Subset
      <4>3. Cardinality(LeasedIn(r)) \in Nat /\ Cardinality(LeasedIn(r)') \in Nat
        BY <4>1, <4>2, FS_CardinalityType
      <4> QED
        BY <4>1, <4>2, <4>3, ConstantsAssumption
    <3> QED
      BY <3>1, <3>3 DEF NoNewLease, RoomsInv
  <2> QED
    BY <2>1, <2>2
<1>3. RoomsInv => LeaseLimit
  BY DEF RoomsInv, LeaseLimit
<1> QED
  BY <1>1, <1>2, <1>3, TypeCorrect, PTL DEF Spec
-----------------------------------------------------------------------------
(* Workers between turns.                                                  *)

\* A worker without a turn remembers none; what is about to be saved is an answer.
Locals ==
    \A w \in Workers :
        /\ pc[w] \in {"idle", "dead"} =>
              /\ task[w] = NoJob /\ given[w] = NoChain
              /\ failure[w] = "none" /\ ~unknown[w]
        /\ pc[w] = "persist" => held[w] # NoResult

\* EndProcess, a lost failure record and a crash leave nothing of a turn behind.
LEMMA LocalsCorrect == Spec => []Locals
<1>1. Init => Locals
  BY DEF Init, Locals
<1>2. TypeOK /\ Locals /\ [Next]_vars => Locals'
  <2> SUFFICES ASSUME TypeOK, Locals, [Next]_vars PROVE Locals'
    OBVIOUS
  <2> DEFINE At(w, label) == pc' = [pc EXCEPT ![w] = label]
  <2>1. ASSUME NEW w \in Workers, NEW label, At(w, label), label \notin {"idle", "dead", "persist"},
               \A v \in Workers \ {w} : /\ task'[v] = task[v] /\ given'[v] = given[v]
                                        /\ failure'[v] = failure[v] /\ unknown'[v] = unknown[v]
                                        /\ held'[v] = held[v]
        PROVE  Locals'
    BY <2>1 DEF Locals, TypeOK
  <2>2. ASSUME NEW w \in Workers, EndProcess(w) PROVE Locals'
    BY <2>2 DEF EndProcess, Locals, TypeOK
  <2>3. ASSUME NEW w \in Workers, NEW f, Raise(w, f),
               UNCHANGED <<task, given, held, unknown>> PROVE Locals'
    BY <2>1, <2>3 DEF Raise, TypeOK
  <2>4. ASSUME NEW w \in Workers, NEW label, Goto(w, label),
               label \notin {"idle", "dead", "persist"}, UNCHANGED <<task, given, held, unknown>>
        PROVE  Locals'
    BY <2>1, <2>4 DEF Goto
  <2>5. ASSUME UNCHANGED <<pc, task, given, held, unknown, failure>> PROVE Locals'
    BY <2>5 DEF Locals
  <2>6. ASSUME NEW w \in Workers, NEW j \in Jobs, Claim(w, j) PROVE Locals'
    BY <2>1, <2>6 DEF Claim, TypeOK
  <2>7. ASSUME NEW w \in Workers, Load(w) PROVE Locals'
    <3>1. CASE Goto(w, "prepare")
      BY <2>1, <2>7, <3>1 DEF Load, Goto, TypeOK
    <3> QED
      BY <2>3, <2>7, <3>1 DEF Load
  <2>8. ASSUME NEW w \in Workers, NEW E \in SUBSET Abandoned, Prepare(w, E) PROVE Locals'
    BY <2>4, <2>8 DEF Prepare
  <2>9. ASSUME NEW w \in Workers, ResumeOperations(w) PROVE Locals'
    <3>1. CASE Goto(w, "check")
      BY <2>1, <2>9, <3>1 DEF ResumeOperations, Goto, TypeOK
    <3> QED
      BY <2>4, <2>9, <3>1 DEF ResumeOperations
  <2>10. ASSUME NEW w \in Workers, SelectTools(w) \/ CallAgent(w) \/ Project(w) PROVE Locals'
    BY <2>3, <2>4, <2>10 DEF SelectTools, CallAgent, Project
  <2>11. ASSUME NEW w \in Workers, NEW k \in {"reply", "malformed", "handoff"},
                NEW n \in 0..MaxTokens, AgentReturns(w, k, n)
         PROVE  Locals'
    <3>1. /\ pc' = [pc EXCEPT ![w] = IF k = "handoff" THEN "handoff" ELSE "persist"]
          /\ held' = [held EXCEPT ![w] = Answer(k, n)]
          /\ UNCHANGED <<task, given, unknown, failure>>
      BY <2>11 DEF AgentReturns, Goto
    <3>2. Answer(k, n) # NoResult
      BY DEF Answer, NoResult
    <3> QED
      BY <3>1, <3>2 DEF Locals, TypeOK
  <2>12. ASSUME NEW w \in Workers, NEW n \in Unbilled..MaxTokens, NEW f, NEW g \in BOOLEAN,
                AgentFails(w, n, f, g)
         PROVE  Locals'
    <3>1. UNCHANGED <<task, given, held, unknown>> /\ (Raise(w, f) \/ Raise(w, "retryable"))
      BY <2>12 DEF AgentFails
    <3> QED
      BY <2>3, <3>1
  <2>13. ASSUME NEW w \in Workers, Handoff(w) PROVE Locals'
    <3>1. UNCHANGED <<task, given, held, unknown>> /\ (Raise(w, "final") \/ Raise(w, "retryable"))
      BY <2>13 DEF Handoff
    <3> QED
      BY <2>3, <3>1
  <2>14. ASSUME NEW w \in Workers, Persist(w) PROVE Locals'
    <3>1. UNCHANGED <<task, given, held, unknown>> /\ (Goto(w, "check") \/ Raise(w, "retryable"))
      BY <2>14 DEF Persist
    <3> QED
      BY <2>3, <2>4, <3>1
  <2>15. ASSUME NEW w \in Workers, CheckOperations(w) PROVE Locals'
    <3>1. /\ pc' = [pc EXCEPT ![w] = "project"] \/ pc' = [pc EXCEPT ![w] = "raise"]
          /\ held' = held \/ held' = [held EXCEPT ![w] = Recovered(task[w])]
          /\ failure' = failure \/ failure' = [failure EXCEPT ![w] = "final"]
          /\ unknown' = [unknown EXCEPT ![w] = Open(task[w]) # {}]
          /\ UNCHANGED <<task, given>>
      BY <2>15 DEF CheckOperations, Goto, Raise
    <3> QED
      BY <2>1, <3>1 DEF TypeOK
  <2>16. ASSUME NEW w \in Workers, Settle(w) PROVE Locals'
    BY <2>2, <2>3, <2>16 DEF Settle
  <2>17. ASSUME NEW w \in Workers, RecordFailureRaises(w) PROVE Locals'
    BY <2>17 DEF RecordFailureRaises, Locals, TypeOK
  <2>18. ASSUME NEW p \in Processes, Crash(p) PROVE Locals'
    BY <2>18 DEF Crash, Locals, TypeOK
  <2>19. ASSUME NEW w \in Workers, Work(w) PROVE Locals'
    <3>1. ASSUME NEW f \in {"retryable", "final"}, Fails(w, f) PROVE Locals'
      BY <2>3, <3>1 DEF Fails
    <3>2. ASSUME NEW E \in SUBSET Abandoned, PrepareRefused(w, E) PROVE Locals'
      BY <2>3, <3>2 DEF PrepareRefused
    <3>3. ASSUME RecordFailure(w) PROVE Locals'
      BY <2>2, <3>3 DEF RecordFailure
    <3> QED
      BY <2>7, <2>8, <2>9, <2>10, <2>13, <2>14, <2>15, <2>16, <2>19, <3>1, <3>2, <3>3 DEF Work
  <2>20. ASSUME NEW w \in Workers, Agent(w) PROVE Locals'
    BY <2>11, <2>12, <2>20 DEF Agent
  <2>21. ASSUME NEW w \in Workers, Poll(w) \/ Heartbeat(w) \/ HeartbeatLost(w) PROVE Locals'
    BY <2>5, <2>6, <2>21 DEF Poll, RecoverExpired, Heartbeat, HeartbeatLost
  <2>22. ASSUME UNCHANGED vars PROVE Locals'
    BY <2>5, <2>22 DEF vars
  <2> QED
    BY <2>5, <2>17, <2>18, <2>19, <2>20, <2>21, <2>22
    DEF Next, SubmitAction, Cancel, LeaseLapses, AgentStops, ReportDispatched, ReportReturned,
        ReconcileStart, ReconcileFinish
<1> QED
  BY <1>1, <1>2, TypeCorrect, PTL DEF Spec

-----------------------------------------------------------------------------
(* Running turns.                                                          *)

\* Until a replica crashes or a failure record is lost, a running turn that nobody
\* leases is still the task of a worker: what leaves a turn (the failure record, the
\* publication) takes it out of "running", and what clears the lease of a running
\* turn goes on to record its failure.
THEOREM RunningDriven == Spec => [](crashes = 0 /\ outages = 0 => RunningIsDriven)
<1> DEFINE Driven == crashes = 0 /\ outages = 0 => RunningIsDriven
           Adrift(j) == status[j] = "running" /\ owner[j] = Nobody
<1>1. Init => Driven
  BY DEF Init, RunningIsDriven
<1>2. TypeOK /\ Busy /\ Locals /\ Driven /\ [Next]_vars => Driven'
  <2> SUFFICES ASSUME TypeOK, Busy, Locals, Driven, [Next]_vars, crashes' = 0, outages' = 0
               PROVE  RunningIsDriven'
    OBVIOUS
  <2>1. ASSUME NEW w \in Workers, HeartbeatLost(w) \/ RecordFailureRaises(w) PROVE FALSE
    BY <2>1 DEF HeartbeatLost, RecordFailureRaises, TypeOK
  <2>2. ASSUME NEW p \in Processes, Crash(p) PROVE FALSE
    BY <2>2 DEF Crash, TypeOK
  <2>3. crashes = 0 /\ outages = 0
    <3>1. ASSUME NEW w \in Workers, Work(w) PROVE UNCHANGED <<crashes, outages>>
      BY <3>1 DEF Work, Fails, Load, Prepare, PrepareRefused, ResumeOperations, SelectTools,
         CallAgent, Handoff, Persist, CheckOperations, Project, Settle, RecordFailure
    <3>2. ASSUME NEW w \in Workers, Poll(w) \/ Agent(w) \/ Heartbeat(w)
          PROVE  UNCHANGED <<crashes, outages>>
      BY <3>2 DEF Poll, RecoverExpired, Claim, Agent, AgentReturns, AgentFails, Heartbeat
    <3>3. UNCHANGED vars => UNCHANGED <<crashes, outages>>
      BY DEF vars
    <3> QED
      BY <2>1, <2>2, <3>1, <3>2, <3>3
      DEF Next, SubmitAction, Cancel, LeaseLapses, AgentStops, ReportDispatched, ReportReturned,
          ReconcileStart, ReconcileFinish
  <2>4. \A j \in Jobs : Adrift(j) => \E v \in Workers : task[v] = j
    BY <2>3 DEF RunningIsDriven
  \* A step that drops no task and sets no turn adrift.
  <2>5. ASSUME task' = task, \A j \in Jobs : Adrift(j)' => Adrift(j) PROVE RunningIsDriven'
    BY <2>4, <2>5 DEF RunningIsDriven
  <2>6. ASSUME NEW j \in Jobs, SubmitAction(j) \/ Cancel(j) \/ LeaseLapses(j) PROVE RunningIsDriven'
    BY <2>5, <2>6 DEF SubmitAction, Cancel, LeaseLapses, TypeOK
  <2>7. ASSUME NEW w \in Workers, NEW E \in SUBSET Abandoned, RecoverExpired(w, E)
        PROVE  RunningIsDriven'
    BY <2>5, <2>7 DEF RecoverExpired, RecoveredStatus, Resting, TypeOK
  <2>8. ASSUME NEW w \in Workers, NEW j \in Jobs, Claim(w, j) PROVE RunningIsDriven'
    <3>1. /\ task' = [task EXCEPT ![w] = j] /\ ProcessOf[w] # Nobody /\ task[w] \notin Jobs
          /\ status' = [status EXCEPT ![j] = "running"] /\ owner' = [owner EXCEPT ![j] = ProcessOf[w]]
      BY <2>8, ConstantsAssumption DEF Claim, Locals
    <3> QED
      BY <2>4, <3>1 DEF RunningIsDriven, TypeOK
  <2>9. ASSUME NEW w \in Workers, RecordFailure(w) PROVE RunningIsDriven'
    <3>1. task[w] \in Jobs /\ task' = [task EXCEPT ![w] = NoJob]
      BY <2>9 DEF RecordFailure, EndProcess, Busy
    <3>2. \/ UNCHANGED <<status, owner>> /\ status[task[w]] \in Terminal
          \/ /\ status' = [status EXCEPT ![task[w]] = FailedStatus(task[w], failure[w])]
             /\ owner' = [owner EXCEPT ![task[w]] = Nobody]
      BY <2>9 DEF RecordFailure
    <3>3. FailedStatus(task[w], failure[w]) # "running"
      BY DEF FailedStatus, Resting
    <3>4. status'[task[w]] # "running" /\ \A j \in Jobs \ {task[w]} : Adrift(j)' => Adrift(j)
      BY <3>1, <3>2, <3>3 DEF Terminal, TypeOK
    <3> QED
      BY <2>4, <3>1, <3>4 DEF RunningIsDriven, TypeOK
  <2>10. ASSUME NEW w \in Workers, Persist(w) PROVE RunningIsDriven'
    <3>1. /\ task[w] \in Jobs /\ task' = task /\ owner' = owner
          /\ status' = status \/ status' = [status EXCEPT ![task[w]] = "running"]
      BY <2>10 DEF Persist, Busy
    <3> QED
      BY <2>4, <3>1 DEF RunningIsDriven, TypeOK
  <2>11. ASSUME NEW w \in Workers, Settle(w) PROVE RunningIsDriven'
    <3>1. task[w] \in Jobs
      BY <2>11 DEF Settle, Busy
    <3>2. \/ /\ task' = task
             /\ \/ UNCHANGED <<status, owner>>
                \/ /\ status' = [status EXCEPT ![task[w]] = "running"]
                   /\ owner' = [owner EXCEPT ![task[w]] = Nobody]
          \/ /\ task' = [task EXCEPT ![w] = NoJob]
             /\ \/ UNCHANGED <<status, owner>> /\ status[task[w]] = "succeeded"
                \/ /\ status' = [status EXCEPT ![task[w]] = "succeeded"]
                   /\ owner' = [owner EXCEPT ![task[w]] = Nobody]
      BY <2>11 DEF Settle, EndProcess, Raise
    <3> QED
      BY <2>4, <3>1, <3>2 DEF RunningIsDriven, TypeOK
  <2>12. ASSUME NEW j \in Jobs, NEW c \in Calls, ReportReturned(j, c) PROVE RunningIsDriven'
    BY <2>5, <2>12 DEF ReportReturned, TypeOK
  <2>13. ASSUME NEW h \in Hosts, NEW F \in SUBSET Calls, ReconcileFinish(h, F) PROVE RunningIsDriven'
    <3>1. /\ task' = task /\ owner' = owner
          /\ status' = status \/ status' = [status EXCEPT ![seen[h].job] = "queued"]
      BY <2>13 DEF ReconcileFinish
    <3> QED
      BY <2>5, <3>1 DEF TypeOK
  <2>14. ASSUME UNCHANGED <<status, owner, task>> PROVE RunningIsDriven'
    BY <2>5, <2>14
  <2>15. ASSUME NEW w \in Workers, Work(w) PROVE RunningIsDriven'
    BY <2>9, <2>10, <2>11, <2>14, <2>15
    DEF Work, Fails, Load, Prepare, PrepareRefused, ResumeOperations, SelectTools, CallAgent,
        Handoff, CheckOperations, Project
  <2>16. ASSUME NEW w \in Workers, Agent(w) \/ Heartbeat(w) PROVE UNCHANGED <<status, owner, task>>
    BY <2>16 DEF Agent, AgentReturns, AgentFails, Heartbeat
  <2>17. ASSUME UNCHANGED vars PROVE UNCHANGED <<status, owner, task>>
    BY <2>17 DEF vars
  <2> QED
    BY <2>1, <2>2, <2>6, <2>7, <2>8, <2>12, <2>13, <2>14, <2>15, <2>16, <2>17
    DEF Next, Poll, AgentStops, ReportDispatched, ReconcileStart
<1> QED
  BY <1>1, <1>2, TypeCorrect, LocalsCorrect, PTL DEF Spec
-----------------------------------------------------------------------------
(* One executor at a time.                                                 *)

\* Phases in which a worker asks the Agent for a reply, and those before them.
Seeking  == {"select", "call", "waiting", "handoff", "persist"}
Starting == {"load", "prepare", "resume"}

\* The hold is not yet closed, so the heartbeat renews the lease.
Unspent(j) == hold[j] \in {"none", "reserved"}

\* A chain that does not account for every call of the turn: a retry with it
\* presents the receipts and asks no model (recover_operations).
Ahead(j, chain) == ~(Rows(j) \subseteq chain.calls)
Beyond(j) == Ahead(j, handoff[j]) /\ \A w \in Workers : task[w] = j => Ahead(j, given[w])

\* While the hold is open the worker of a turn has its lease and renews it.
Sole(w, j) ==
    Unspent(j) /\ (~cancelRequested[j] \/ pc[w] \in Starting) =>
        /\ owner[j] = ProcessOf[w] /\ fresh[j] /\ status[j] = "running"
        /\ ~cancelRequested[j] => beat[w] = "on"

\* ... no other worker has the turn, and no result is saved.
Alone(w, j) ==
    pc[w] \in Seeking \/ Unspent(j) =>
        agentResult[j] = NoResult /\ \A v \in Workers : task[v] = j => v = w

\* Once it is closed nobody asks the Agent: who starts has the saved result or
\* receipts to present.
Spent(w, j) ==
    ~Unspent(j) =>
        /\ ~cancelRequested[j] => pc[w] \notin Seeking
        /\ pc[w] = "prepare" => held[w] # NoResult \/ Ahead(j, given[w])
        /\ pc[w] = "resume" => Ahead(j, given[w])

\* A reply that is on its way to the players has been paid for.
HeldPaid(w, j) ==
    pc[w] \in {"prepare", "check", "project", "settle"} /\ held[w].kind = "reply" =>
        held[w].tokens = provider[j]

\* A turn that is over as unknown, or about to be, has receipts to present.
Marked(j) == errorCode[j] = "operation_result_unknown"
             \/ \E w \in Workers : task[w] = j /\ (unknown[w] \/ failure[w] = "unknown")
Unfinished(j) == ~cancelRequested[j] /\ Marked(j) => ~Unspent(j) /\ Beyond(j)

\* A closed turn without a result is over for good or has receipts to present.
Lasting(j) ==
    ~Unspent(j) /\ ~cancelRequested[j] /\ agentResult[j] = NoResult =>
        Beyond(j) \/ (status[j] \in Terminal /\ errorCode[j] = "none")

\* Receipts will be presented, come what may: nobody asks the Agent any more.
Answered(j) ==
    ~Unspent(j) /\ Beyond(j) /\ \A w \in Workers : task[w] = j => pc[w] \notin Seeking

\* A reconcile request looks at a turn that has receipts to present, and only such a
\* turn can be in a queue although it was cancelled.
Kept(j) ==
    /\ \A h \in Hosts : seen[h] # NoReading /\ seen[h].job = j => Answered(j)
    /\ cancelRequested[j] => status[j] \in {"running", "cancelled"} \/ Answered(j)

Attempts(j) ==
    /\ Unfinished(j) /\ Lasting(j) /\ Kept(j)
    /\ \A w \in Workers : task[w] = j => Sole(w, j) /\ Alone(w, j) /\ Spent(w, j) /\ HeldPaid(w, j)
    /\ \A r \in published[j] : r.kind = "reply" => r.tokens = provider[j]

\* The database has answered and no attempt that failed was charged.
Calm(j) == outages = 0 /\ ~partial[j]

\* A continuation lists returned calls only, a saved reply is the one charged; and,
\* in calm, one executor at a time.
Chained(j) ==
    /\ handoff[j].calls \subseteq Returned(j)
    /\ \A w \in Workers : task[w] = j => given[w].calls \subseteq Returned(j)
SavedPaid(j) == agentResult[j].kind = "reply" => agentResult[j].tokens = provider[j]
TurnInv(j) == Chained(j) /\ SavedPaid(j) /\ (Calm(j) => Attempts(j))

\* What concerns turn j in its rows, and in worker v.
RowSame(j) ==
    /\ status'[j] = status[j] /\ owner'[j] = owner[j] /\ fresh'[j] = fresh[j]
    /\ cancelRequested'[j] = cancelRequested[j] /\ agentResult'[j] = agentResult[j]
    /\ handoff'[j] = handoff[j] /\ errorCode'[j] = errorCode[j]
    /\ published'[j] = published[j] /\ hold'[j] = hold[j]
    /\ provider'[j] = provider[j] /\ partial'[j] = partial[j] /\ op'[j] = op[j]
WorkerSame(v) ==
    /\ task'[v] = task[v] /\ pc'[v] = pc[v] /\ beat'[v] = beat[v] /\ given'[v] = given[v]
    /\ held'[v] = held[v] /\ unknown'[v] = unknown[v] /\ failure'[v] = failure[v]

\* Receipts of an unchanged row say the same.
LEMMA SameReceipts ==
    ASSUME NEW j \in Jobs, op'[j] = op[j]
    PROVE  Rows(j)' = Rows(j) /\ Returned(j)' = Returned(j) /\ Open(j)' = Open(j)
BY DEF Rows, Returned, Open

\* A step that resumes no turn keeps it so.
LEMMA KeptStays ==
    ASSUME NEW j \in Jobs, Kept(j), seen' = seen,
           cancelRequested'[j] => \/ cancelRequested[j] /\ status'[j] = status[j]
                                  \/ status'[j] \in {"running", "cancelled"},
           Answered(j) => ~Unspent(j)' /\ Beyond(j)',
           \A v \in Workers : task'[v] = j /\ pc'[v] \in Seeking =>
                                  Unspent(j) \/ (task[v] = j /\ pc[v] \in Seeking)
    PROVE  Kept(j)'
BY DEF Kept, Answered

\* A step that leaves the rows of a turn and all who go on with it as they were.
LEMMA Untouched ==
    ASSUME NEW j \in Jobs, TurnInv(j), RowSame(j), outages' = 0 => outages = 0, seen' = seen,
           \A v \in Workers : task'[v] = j => WorkerSame(v)
    PROVE  TurnInv(j)'
<1> USE SameReceipts DEF RowSame, WorkerSame
<1>1. Chained(j)' /\ SavedPaid(j)'
  BY DEF TurnInv, Chained, SavedPaid
<1>2. ASSUME Calm(j)' PROVE Attempts(j)'
  <2>1. Attempts(j)
    BY <1>2 DEF Calm, TurnInv
  <2>2. Beyond(j) => Beyond(j)'
    BY DEF Beyond, Ahead
  <2>3. Marked(j)' => Marked(j)
    BY DEF Marked
  <2>4. Unfinished(j)' /\ Lasting(j)'
    BY <2>1, <2>2, <2>3 DEF Attempts, Unfinished, Lasting, Unspent
  <2>5. ASSUME NEW w \in Workers, task'[w] = j
        PROVE  Sole(w, j)' /\ Alone(w, j)' /\ Spent(w, j)' /\ HeldPaid(w, j)'
    <3>1. Sole(w, j) /\ Alone(w, j) /\ Spent(w, j) /\ HeldPaid(w, j)
      BY <2>1, <2>5 DEF Attempts
    <3> QED
      BY <2>5, <3>1 DEF Sole, Alone, Spent, HeldPaid, Unspent, Ahead
  <2>6. Kept(j)'
    BY <2>1, <2>2, KeptStays DEF Attempts, Answered, Unspent
  <2> QED
    BY <2>1, <2>4, <2>5, <2>6 DEF Attempts
<1> QED
  BY <1>1, <1>2 DEF TurnInv

\* A worker of the turn goes on to another phase and changes no row of it.
LEMMA PhaseStep ==
    ASSUME NEW j \in Jobs, TurnInv(j), RowSame(j), outages' = outages, seen' = seen,
           NEW w \in Workers, task[w] = j, task' = task, beat' = beat,
           \A v \in Workers \ {w} : WorkerSame(v),
           given'[w] = given[w] \/ given'[w] = handoff[j],
           Calm(j) /\ Attempts(j) =>
               /\ pc'[w] \in Seeking => Unspent(j) \/ pc[w] \in Seeking
               /\ ~cancelRequested[j] /\ (unknown'[w] \/ failure'[w] = "unknown") =>
                     ~Unspent(j) /\ Beyond(j)
               /\ Sole(w, j)' /\ Alone(w, j)' /\ Spent(w, j)' /\ HeldPaid(w, j)'
    PROVE  TurnInv(j)'
<1> USE SameReceipts DEF RowSame
<1>1. Chained(j)' /\ SavedPaid(j)'
  BY DEF TurnInv, Chained, SavedPaid, WorkerSame
<1>2. ASSUME Calm(j)' PROVE Attempts(j)'
  <2>1. Attempts(j) /\ Calm(j)
    BY <1>2 DEF Calm, TurnInv
  <2>2. Beyond(j) => Beyond(j)'
    BY DEF Beyond, Ahead, WorkerSame
  <2>3. Unfinished(j)' /\ Lasting(j)'
    BY <2>1, <2>2 DEF Attempts, Unfinished, Lasting, Unspent, Marked, WorkerSame
  <2>4. ASSUME NEW v \in Workers \ {w}, task'[v] = j
        PROVE  Sole(v, j)' /\ Alone(v, j)' /\ Spent(v, j)' /\ HeldPaid(v, j)'
    <3>1. Sole(v, j) /\ Alone(v, j) /\ Spent(v, j) /\ HeldPaid(v, j)
      BY <2>1, <2>4 DEF Attempts
    <3> QED
      BY <2>4, <3>1 DEF Sole, Alone, Spent, HeldPaid, Unspent, Ahead, WorkerSame
  <2>5. Kept(j)'
    BY <2>1, <2>2, KeptStays DEF Attempts, Answered, Unspent, WorkerSame
  <2> QED
    BY <2>1, <2>3, <2>4, <2>5 DEF Attempts
<1> QED
  BY <1>1, <1>2 DEF TurnInv

\* A worker leaves the turn: what remains is the row it leaves behind.
LEMMA Leaves ==
    ASSUME NEW j \in Jobs, TurnInv(j), TypeOK, NEW w \in Workers, EndProcess(w), task[w] = j,
           outages' = outages, seen' = seen, cancelRequested'[j] = cancelRequested[j],
           cancelRequested[j] => status'[j] \in {status[j], "running", "cancelled"},
           agentResult'[j] = agentResult[j], handoff'[j] = handoff[j], op'[j] = op[j],
           provider'[j] = provider[j], partial'[j] = partial[j],
           Unspent(j)' => Unspent(j),
           Calm(j) /\ Attempts(j) =>
              /\ Unfinished(j)' /\ Lasting(j)'
              /\ \A r \in published'[j] : r.kind = "reply" => r.tokens = provider[j]
    PROVE  TurnInv(j)'
<1> USE SameReceipts
<1>1. task'[w] # j /\ \A v \in Workers \ {w} : WorkerSame(v)
  BY ConstantsAssumption DEF EndProcess, WorkerSame, TypeOK
<1>2. Chained(j)' /\ SavedPaid(j)'
  BY <1>1 DEF TurnInv, Chained, SavedPaid, WorkerSame
<1>3. ASSUME Calm(j)' PROVE Attempts(j)'
  <2>1. Attempts(j) /\ Calm(j)
    BY <1>3 DEF Calm, TurnInv
  <2>2. ASSUME NEW v \in Workers \ {w}, task'[v] = j
        PROVE  Sole(v, j)' /\ Alone(v, j)' /\ Spent(v, j)' /\ HeldPaid(v, j)'
    <3>1. /\ Alone(v, j) /\ Spent(v, j) /\ HeldPaid(v, j)
          /\ task[v] = j /\ WorkerSame(v)
      BY <1>1, <2>1, <2>2 DEF Attempts, WorkerSame
    <3>2. ~Unspent(j) /\ pc[v] \notin Seeking
      BY <3>1 DEF Alone
    <3> QED
      BY <3>1, <3>2 DEF Sole, Alone, Spent, HeldPaid, Ahead, WorkerSame
  <2>3. Kept(j)'
    <3>1. Beyond(j) => Beyond(j)'
      BY <1>1 DEF Beyond, Ahead, WorkerSame
    <3> QED
      BY <1>1, <2>1, <3>1, KeptStays DEF Attempts, Answered, WorkerSame
  <2> QED
    BY <1>1, <2>1, <2>2, <2>3 DEF Attempts
<1> QED
  BY <1>2, <1>3 DEF TurnInv

\* A reservation is reaped once its turn is over: no worker has the turn any more
\* (in calm) and nothing but its hold changes.
LEMMA Reaped ==
    ASSUME NEW j \in Jobs, TypeOK, TurnInv(j), j \in Abandoned, hold'[j] = "expired",
           status'[j] = status[j], cancelRequested'[j] = cancelRequested[j],
           agentResult'[j] = agentResult[j], handoff'[j] = handoff[j],
           errorCode'[j] = errorCode[j], published'[j] = published[j],
           provider'[j] = provider[j], partial'[j] = partial[j], op'[j] = op[j],
           outages' = outages, seen' = seen, \A v \in Workers : task'[v] = j => WorkerSame(v)
    PROVE  TurnInv(j)'
<1> USE SameReceipts DEF WorkerSame
<1>1. Chained(j)' /\ SavedPaid(j)'
  BY DEF TurnInv, Chained, SavedPaid
<1>2. ASSUME Calm(j)' PROVE Attempts(j)'
  <2>1. Attempts(j) /\ Calm(j)
    BY <1>2 DEF Calm, TurnInv
  <2>2. status[j] \in Terminal /\ Unspent(j) /\ ~Unspent(j)'
    BY DEF Abandoned, Unspent
  <2>3. ASSUME NEW v \in Workers, task'[v] = j
        PROVE  Sole(v, j)' /\ Alone(v, j)' /\ Spent(v, j)' /\ HeldPaid(v, j)'
    <3>1. Sole(v, j) /\ Alone(v, j) /\ HeldPaid(v, j)
      BY <2>1, <2>3 DEF Attempts
    <3>2. cancelRequested[j] /\ pc[v] \notin Starting
      BY <2>2, <3>1 DEF Sole, Terminal
    <3> QED
      BY <2>2, <2>3, <3>1, <3>2 DEF Sole, Alone, Spent, HeldPaid, Starting
  <2>4. ~cancelRequested[j] => ~Marked(j)
    BY <2>1, <2>2 DEF Attempts, Unfinished
  <2>5. ~cancelRequested[j] => ~Marked(j)' /\ errorCode[j] = "none"
    BY <2>4 DEF Marked, TypeOK
  <2>6. Unfinished(j)' /\ Lasting(j)'
    BY <2>2, <2>5 DEF Unfinished, Lasting
  <2>7. Kept(j)'
    BY <2>1, <2>2, KeptStays DEF Attempts, Answered
  <2> QED
    BY <2>1, <2>3, <2>6, <2>7 DEF Attempts
<1> QED
  BY <1>1, <1>2 DEF TurnInv

\* recover_expired: a turn that is still attended has not lapsed, so in calm nobody
\* has the turns it takes out of their lease.
LEMMA RecoveryKeeps ==
    ASSUME NEW j \in Jobs, TypeOK, TurnInv(j),
           NEW w \in Workers, NEW E \in SUBSET Abandoned, RecoverExpired(w, E)
    PROVE  TurnInv(j)'
<1>1. /\ UNCHANGED <<cancelRequested, agentResult, handoff, published, provider, partial, op,
                     task, pc, beat, given, held, unknown, failure, outages, seen>>
      /\ \A v \in Workers : WorkerSame(v)
  BY DEF RecoverExpired, WorkerSame
<1>2. CASE j \notin Lapsed /\ j \notin E
  <2>1. RowSame(j)
    BY <1>1, <1>2 DEF RecoverExpired, RowSame, TypeOK
  <2> QED
    BY <1>1, <2>1, Untouched
<1>3. CASE j \notin Lapsed /\ j \in E
  <2>1. j \in Abandoned
    BY <1>3
  <2>2. hold'[j] = "expired" /\ status'[j] = status[j] /\ errorCode'[j] = errorCode[j]
    BY <1>3 DEF RecoverExpired, TypeOK
  <2> QED
    BY <1>1, <2>1, <2>2, Reaped
<1>4. CASE j \in Lapsed
  <2> USE SameReceipts
  <2>1. /\ status[j] \in Active /\ ~fresh[j] /\ owner[j] # Nobody
        /\ status'[j] = RecoveredStatus(j)
        /\ errorCode'[j] = IF RecoveredStatus(j) \in Terminal /\ ~cancelRequested[j]
                           THEN "none" ELSE errorCode[j]
    BY <1>4 DEF RecoverExpired, Lapsed, TypeOK
  <2>2. hold'[j] = IF RecoveredStatus(j) \in Terminal THEN Released(j) ELSE hold[j]
    <3>1. j \notin Abandoned
      BY <2>1 DEF Abandoned, Active, Terminal
    <3> QED
      BY <1>4, <3>1 DEF RecoverExpired
  <2>3. Unspent(j)' => Unspent(j)
    BY <2>2 DEF Unspent, Released
  <2>4. Chained(j)' /\ SavedPaid(j)'
    BY <1>1, <2>1 DEF TurnInv, Chained, SavedPaid, RecoveredStatus
  <2>5. ASSUME Calm(j)' PROVE Attempts(j)'
    <3>1. Attempts(j) /\ Calm(j)
      BY <1>1, <2>5 DEF Calm, TurnInv
    <3>2. ASSUME NEW v \in Workers, task[v] = j, Unspent(j)
          PROVE  cancelRequested[j] /\ pc[v] \notin Starting
      BY <2>1, <3>1, <3>2 DEF Attempts, Sole
    <3>3. ASSUME NEW v \in Workers, task'[v] = j
          PROVE  Sole(v, j)' /\ Alone(v, j)' /\ Spent(v, j)' /\ HeldPaid(v, j)'
      <4>1. Sole(v, j) /\ Alone(v, j) /\ Spent(v, j) /\ HeldPaid(v, j) /\ task[v] = j
        BY <1>1, <3>1, <3>3 DEF Attempts
      <4>2. Unspent(j) => cancelRequested[j] /\ pc[v] \notin Starting
        BY <3>2, <4>1
      <4> QED
        BY <1>1, <2>3, <4>1, <4>2 DEF Sole, Alone, Spent, HeldPaid, Starting, Ahead
    <3>4. Beyond(j) => Beyond(j)'
      BY <1>1 DEF Beyond, Ahead
    <3>5. Marked(j)' => Marked(j)
      BY <1>1, <2>1 DEF Marked
    <3>6. Unfinished(j)'
      BY <1>1, <2>3, <3>1, <3>4, <3>5 DEF Attempts, Unfinished
    <3>7. Lasting(j)'
      <4> SUFFICES ASSUME ~Unspent(j)', ~cancelRequested[j], agentResult[j] = NoResult
                   PROVE  Beyond(j) \/ (status'[j] \in Terminal /\ errorCode'[j] = "none")
        BY <1>1, <3>4 DEF Lasting
      <4>1. CASE Unspent(j)
        BY <2>1, <2>2, <4>1 DEF Unspent
      <4>2. CASE ~Unspent(j)
        BY <2>1, <3>1, <4>2 DEF Attempts, Lasting, Active, Terminal
      <4> QED
        BY <4>1, <4>2
    <3>8. Kept(j)'
      BY <1>1, <2>1, <2>3, <3>1, <3>4, KeptStays DEF Attempts, Answered, RecoveredStatus
    <3> QED
      BY <1>1, <3>1, <3>3, <3>6, <3>7, <3>8 DEF Attempts
  <2> QED
    BY <2>4, <2>5 DEF TurnInv
<1> QED
  BY <1>2, <1>3, <1>4

\* A claim finds a turn nobody leases, hence nobody has it unless its hold is closed.
LEMMA ClaimKeeps ==
    ASSUME NEW j \in Jobs, TypeOK, Locals, Paid, TurnInv(j),
           NEW w \in Workers, NEW i \in Jobs, Claim(w, i)
    PROVE  TurnInv(j)'
<1> USE SameReceipts
<1>1. /\ UNCHANGED <<cancelRequested, agentResult, handoff, errorCode, published, hold, provider,
                     partial, op, given, held, unknown, failure, outages, seen>>
      /\ task' = [task EXCEPT ![w] = i] /\ pc' = [pc EXCEPT ![w] = "load"]
      /\ beat' = [beat EXCEPT ![w] = "on"]
      /\ status' = [status EXCEPT ![i] = "running"]
      /\ owner' = [owner EXCEPT ![i] = ProcessOf[w]] /\ fresh' = [fresh EXCEPT ![i] = TRUE]
      /\ status[i] \in {"queued", "waiting"}
      /\ given[w] = NoChain /\ failure[w] = "none" /\ ~unknown[w]
  BY DEF Claim, Claimable, Locals
<1>2. \A v \in Workers \ {w} : WorkerSame(v)
  BY <1>1 DEF WorkerSame, TypeOK
<1>3. CASE j # i
  <2>1. RowSame(j)
    BY <1>1, <1>3 DEF RowSame, TypeOK
  <2>2. \A v \in Workers : task'[v] = j => WorkerSame(v)
    BY <1>1, <1>2, <1>3 DEF TypeOK
  <2> QED
    BY <1>1, <2>1, <2>2, Untouched
<1>4. CASE j = i
  <2>1. status'[j] = "running"
    BY <1>1, <1>4 DEF TypeOK
  <2>2. /\ task'[w] = j /\ pc'[w] = "load" /\ beat'[w] = "on" /\ given'[w] = NoChain
        /\ owner'[j] = ProcessOf[w] /\ fresh'[j]
    BY <1>1, <1>4 DEF TypeOK
  <2>3. Chained(j)' /\ SavedPaid(j)'
    BY <1>1, <1>2, <2>1, <2>2
    DEF TurnInv, Chained, SavedPaid, WorkerSame, NoChain
  <2>4. ASSUME Calm(j)' PROVE Attempts(j)'
    <3>1. Attempts(j) /\ Calm(j)
      BY <1>1, <2>4 DEF Calm, TurnInv
    <3>2. ASSUME NEW v \in Workers, task[v] = j PROVE ~Unspent(j)
      BY <1>1, <1>4, <3>1, <3>2 DEF Attempts, Sole, Kept, Answered
    <3>3. Beyond(j) => Beyond(j)'
      BY <1>1, <1>2, <2>2 DEF Beyond, Ahead, NoChain, WorkerSame
    <3>4. Marked(j)' => Marked(j)
      BY <1>1, <1>2, <2>2 DEF Marked, WorkerSame
    <3>5. Unfinished(j)' /\ Lasting(j)'
      <4>1. Unfinished(j)'
        BY <1>1, <3>1, <3>3, <3>4 DEF Attempts, Unfinished, Unspent
      <4>2. Lasting(j)'
        BY <1>1, <1>4, <3>1, <3>3 DEF Attempts, Lasting, Unspent, Terminal
      <4> QED
        BY <4>1, <4>2
    <3>6. ASSUME NEW v \in Workers \ {w}, task'[v] = j
          PROVE  Sole(v, j)' /\ Alone(v, j)' /\ Spent(v, j)' /\ HeldPaid(v, j)'
      <4>1. /\ Sole(v, j) /\ Alone(v, j) /\ Spent(v, j) /\ HeldPaid(v, j)
            /\ task[v] = j /\ WorkerSame(v)
        BY <1>2, <3>1, <3>6 DEF Attempts, WorkerSame
      <4>2. ~Unspent(j) /\ pc[v] \notin Seeking
        BY <1>1, <1>4, <3>1, <3>2, <4>1 DEF Attempts, Spent, Kept, Answered
      <4> QED
        BY <1>1, <2>1, <4>1, <4>2 DEF Sole, Alone, Spent, HeldPaid, WorkerSame, Ahead, Unspent
    <3>7. Sole(w, j)' /\ Alone(w, j)' /\ Spent(w, j)' /\ HeldPaid(w, j)'
      <4>1. Unspent(j) => agentResult[j] = NoResult
        BY DEF Paid, SavedIsClosed, Unspent, Promise!Closed
      <4>2. Unspent(j) => \A v \in Workers : task'[v] = j => v = w
        BY <1>2, <3>2 DEF WorkerSame
      <4> QED
        BY <1>1, <2>1, <2>2, <4>1, <4>2
        DEF Sole, Alone, Spent, HeldPaid, Unspent, Seeking
    <3>8. Kept(j)'
      BY <1>1, <1>2, <2>1, <2>2, <3>1, <3>3, KeptStays
      DEF Attempts, Answered, Unspent, WorkerSame, Seeking
    <3> QED
      BY <1>1, <3>1, <3>5, <3>6, <3>7, <3>8 DEF Attempts
  <2> QED
    BY <2>3, <2>4 DEF TurnInv
<1> QED
  BY <1>3, <1>4

\* Requests of players, the clock, crashes and receipts.
LEMMA RequestKeeps ==
    ASSUME NEW j \in Jobs, TypeOK, TurnInv(j), NEW i \in Jobs, SubmitAction(i) \/ Cancel(i)
    PROVE  TurnInv(j)'
<1> USE SameReceipts
<1>1. /\ UNCHANGED <<agentResult, handoff, published, provider, partial, op, outages, seen>>
      /\ \A v \in Workers : WorkerSame(v)
  BY DEF SubmitAction, Cancel, WorkerSame
<1>2. CASE j # i
  <2>1. RowSame(j)
    BY <1>2 DEF SubmitAction, Cancel, RowSame, TypeOK
  <2> QED
    BY <1>1, <2>1, Untouched
<1>3. CASE j = i /\ SubmitAction(i)
  <2>1. /\ status[j] = "absent" /\ status'[j] = "queued"
        /\ UNCHANGED <<cancelRequested, errorCode, hold>>
    BY <1>3 DEF SubmitAction, TypeOK
  <2>3. Chained(j)' /\ SavedPaid(j)'
    BY <1>1, <2>1 DEF TurnInv, Chained, SavedPaid, WorkerSame
  <2>4. ASSUME Calm(j)' PROVE Attempts(j)'
    <3>1. Attempts(j)
      BY <1>1, <2>4 DEF Calm, TurnInv
    <3>2. ASSUME NEW v \in Workers, task'[v] = j
          PROVE  Sole(v, j)' /\ Alone(v, j)' /\ Spent(v, j)' /\ HeldPaid(v, j)'
      <4>1. /\ Sole(v, j) /\ Alone(v, j) /\ Spent(v, j) /\ HeldPaid(v, j) /\ WorkerSame(v)
            /\ cancelRequested[j] => ~Unspent(j)
        BY <1>1, <2>1, <3>1, <3>2 DEF Attempts, WorkerSame, Kept, Answered
      <4> QED
        BY <1>1, <2>1, <4>1 DEF Sole, Alone, Spent, HeldPaid, Unspent, Ahead, WorkerSame
    <3>3. (Beyond(j) <=> Beyond(j)') /\ (Marked(j) <=> Marked(j)')
      BY <1>1, <2>1 DEF Beyond, Ahead, Marked, WorkerSame
    <3>4. Unfinished(j)' /\ Lasting(j)'
      BY <1>1, <2>1, <3>1, <3>3 DEF Attempts, Unfinished, Lasting, Unspent, Terminal
    <3>5. Kept(j)'
      BY <1>1, <2>1, <3>1, <3>3 DEF Attempts, Kept, Answered, Unspent, WorkerSame
    <3> QED
      BY <1>1, <3>1, <3>2, <3>4, <3>5 DEF Attempts
  <2> QED
    BY <2>3, <2>4 DEF TurnInv
<1>4. CASE j = i /\ Cancel(i)
  <2>1. /\ status[j] \notin Terminal \cup {"absent"} /\ cancelRequested'[j]
        /\ status'[j] = IF status[j] \in {"queued", "waiting"} THEN "cancelled" ELSE status[j]
        /\ hold'[j] = IF status[j] \in {"queued", "waiting"} THEN Released(j) ELSE hold[j]
        /\ status[j] \notin {"queued", "waiting"} => owner'[j] = owner[j] /\ fresh'[j] = fresh[j]
    BY <1>4 DEF Cancel, TypeOK
  <2>2. Chained(j)' /\ SavedPaid(j)'
    BY <1>1, <2>1
    DEF TurnInv, Chained, SavedPaid, WorkerSame
  <2>3. ASSUME Calm(j)' PROVE Attempts(j)'
    <3>1. Attempts(j)
      BY <1>1, <2>3 DEF Calm, TurnInv
    <3>2. ~cancelRequested[j]
      BY <1>4 DEF Cancel
    <3>3. ASSUME NEW v \in Workers, task'[v] = j
          PROVE  Sole(v, j)' /\ Alone(v, j)' /\ Spent(v, j)' /\ HeldPaid(v, j)'
      <4>1. /\ Sole(v, j) /\ Alone(v, j) /\ Spent(v, j) /\ HeldPaid(v, j)
            /\ task[v] = j /\ WorkerSame(v)
        BY <1>1, <3>1, <3>3 DEF Attempts, WorkerSame
      <4>2. Unspent(j)' <=> Unspent(j)
        BY <2>1, <3>2, <4>1 DEF Sole, Unspent, Released
      <4>3. Unspent(j) => status[j] \notin {"queued", "waiting"}
        BY <3>2, <4>1 DEF Sole
      <4> QED
        BY <1>1, <2>1, <3>2, <4>1, <4>2, <4>3
        DEF Sole, Alone, Spent, HeldPaid, Ahead, WorkerSame
    <3>4. Unfinished(j)' /\ Lasting(j)'
      BY <2>1 DEF Unfinished, Lasting
    <3>5. Kept(j)'
      <4>1. status'[j] \in {"running", "cancelled"}
        BY <2>1 DEF TypeOK, Status, Active, Terminal
      <4>2. (Beyond(j) => Beyond(j)') /\ (Unspent(j)' => Unspent(j))
        BY <1>1, <2>1 DEF Beyond, Ahead, WorkerSame, Unspent, Released
      <4> QED
        BY <1>1, <3>1, <4>1, <4>2, KeptStays DEF Attempts, Answered, WorkerSame
    <3> QED
      BY <1>1, <3>1, <3>3, <3>4, <3>5 DEF Attempts
  <2> QED
    BY <2>2, <2>3 DEF TurnInv
<1> QED
  BY <1>2, <1>3, <1>4

\* A lease that its worker renews does not lapse, and a worker of an open turn renews it.
LEMMA LapseKeeps ==
    ASSUME NEW j \in Jobs, TypeOK, TurnInv(j), ~Stalls, NEW i \in Jobs, LeaseLapses(i)
    PROVE  TurnInv(j)'
<1> USE SameReceipts
<1>1. /\ UNCHANGED <<status, owner, cancelRequested, agentResult, handoff, errorCode, published,
                     hold, provider, partial, op, outages, seen>>
      /\ fresh' = [fresh EXCEPT ![i] = FALSE]
      /\ \A v \in Workers : WorkerSame(v)
  BY DEF LeaseLapses, WorkerSame
<1>2. CASE j # i
  <2>1. RowSame(j)
    BY <1>1, <1>2 DEF RowSame, TypeOK
  <2> QED
    BY <1>1, <2>1, Untouched
<1>3. CASE j = i
  <2>1. Chained(j)' /\ SavedPaid(j)'
    BY <1>1 DEF TurnInv, Chained, SavedPaid, WorkerSame
  <2>2. ASSUME Calm(j)' PROVE Attempts(j)'
    <3>1. Attempts(j)
      BY <1>1, <2>2 DEF Calm, TurnInv
    <3>2. ASSUME NEW v \in Workers, task'[v] = j
          PROVE  Sole(v, j)' /\ Alone(v, j)' /\ Spent(v, j)' /\ HeldPaid(v, j)'
      <4>1. /\ Sole(v, j) /\ Alone(v, j) /\ Spent(v, j) /\ HeldPaid(v, j)
            /\ task[v] = j /\ WorkerSame(v)
        BY <1>1, <3>1, <3>2 DEF Attempts, WorkerSame
      <4>2. ~KeepsLease(v, j)
        BY <1>3 DEF LeaseLapses
      <4>3. Unspent(j) => cancelRequested[j] /\ pc[v] \notin Starting
        BY <4>1, <4>2 DEF Sole, KeepsLease, Starting, Awaits
      <4> QED
        BY <1>1, <4>1, <4>3 DEF Sole, Alone, Spent, HeldPaid, Unspent, Ahead, WorkerSame
    <3>3. (Beyond(j) <=> Beyond(j)') /\ (Marked(j) <=> Marked(j)')
      BY <1>1 DEF Beyond, Ahead, Marked, WorkerSame
    <3>4. Unfinished(j)' /\ Lasting(j)'
      BY <1>1, <3>1, <3>3 DEF Attempts, Unfinished, Lasting, Unspent
    <3>5. Kept(j)'
      BY <1>1, <3>1, <3>3 DEF Attempts, Kept, Answered, Unspent, WorkerSame
    <3> QED
      BY <1>1, <3>1, <3>2, <3>4, <3>5 DEF Attempts
  <2> QED
    BY <2>1, <2>2 DEF TurnInv
<1> QED
  BY <1>2, <1>3

\* A crash takes a replica's workers from their turns; nobody else's lease moves.
LEMMA CrashKeeps ==
    ASSUME NEW j \in Jobs, TypeOK, TurnInv(j), NEW p \in Processes, Crash(p)
    PROVE  TurnInv(j)'
<1> USE SameReceipts
<1>1. /\ UNCHANGED <<status, fresh, cancelRequested, agentResult, handoff, errorCode, published,
                     hold, provider, partial, op, outages, seen>>
      /\ owner'[j] = IF owner[j] = p THEN Departed ELSE owner[j]
      /\ \A v \in Workers : task'[v] = j => WorkerSame(v) /\ ProcessOf[v] # p
  BY ConstantsAssumption DEF Crash, WorkerSame, TypeOK
<1>2. Chained(j)' /\ SavedPaid(j)'
  BY <1>1 DEF TurnInv, Chained, SavedPaid, WorkerSame
<1>3. ASSUME Calm(j)' PROVE Attempts(j)'
  <2>1. Attempts(j)
    BY <1>1, <1>3 DEF Calm, TurnInv
  <2>2. ASSUME NEW v \in Workers, task'[v] = j
        PROVE  Sole(v, j)' /\ Alone(v, j)' /\ Spent(v, j)' /\ HeldPaid(v, j)'
    <3>1. /\ Sole(v, j) /\ Alone(v, j) /\ Spent(v, j) /\ HeldPaid(v, j)
          /\ task[v] = j /\ WorkerSame(v) /\ ProcessOf[v] # p
      BY <1>1, <2>1, <2>2 DEF Attempts, WorkerSame
    <3> QED
      BY <1>1, <3>1 DEF Sole, Alone, Spent, HeldPaid, Unspent, Ahead, WorkerSame
  <2>3. (Beyond(j) => Beyond(j)') /\ (Marked(j)' => Marked(j))
    BY <1>1 DEF Beyond, Ahead, Marked, WorkerSame
  <2>4. Unfinished(j)' /\ Lasting(j)'
    BY <1>1, <2>1, <2>3 DEF Attempts, Unfinished, Lasting, Unspent
  <2>5. Kept(j)'
    BY <1>1, <2>1, <2>3, KeptStays DEF Attempts, Answered, Unspent, WorkerSame
  <2> QED
    BY <1>1, <2>1, <2>2, <2>4, <2>5 DEF Attempts
<1> QED
  BY <1>2, <1>3 DEF TurnInv

\* A new receipt is one no chain accounts for; one that returns resumes a turn only
\* if there are receipts to present.
LEMMA ReceiptKeeps ==
    ASSUME NEW j \in Jobs, TypeOK, TurnInv(j), NEW i \in Jobs, NEW c \in Calls,
           ReportDispatched(i, c) \/ ReportReturned(i, c)
    PROVE  TurnInv(j)'
<1>1. /\ UNCHANGED <<owner, fresh, cancelRequested, handoff, published, hold, provider, partial,
                     outages, seen>>
      /\ \A v \in Workers : WorkerSame(v)
  BY DEF ReportDispatched, ReportReturned, WorkerSame
<1>2. CASE j # i
  <2>1. RowSame(j)
    BY <1>2 DEF ReportDispatched, ReportReturned, RowSame, TypeOK
  <2> QED
    BY <1>1, <2>1, Untouched
<1>3. CASE j = i
  <2>1. Rows(j) \subseteq Rows(j)' /\ Returned(j) \subseteq Returned(j)'
    BY <1>3 DEF ReportDispatched, MayDispatch, ReportReturned, Rows, Returned, TypeOK
  <2>2. \/ /\ status'[j] = status[j] /\ agentResult'[j] = agentResult[j]
           /\ errorCode'[j] = errorCode[j]
        \/ /\ errorCode[j] = "operation_result_unknown" /\ ~cancelRequested[j]
           /\ status'[j] = "queued" /\ agentResult'[j] = NoResult /\ errorCode'[j] = "none"
    BY <1>3 DEF ReportDispatched, ReportReturned, Resumes, TypeOK
  <2>3. Chained(j)' /\ SavedPaid(j)'
    BY <1>1, <2>1, <2>2 DEF TurnInv, Chained, SavedPaid, WorkerSame, NoResult
  <2>4. ASSUME Calm(j)' PROVE Attempts(j)'
    <3>1. Attempts(j)
      BY <1>1, <2>4 DEF Calm, TurnInv
    <3>2. Beyond(j) => Beyond(j)'
      BY <1>1, <2>1 DEF Beyond, Ahead, WorkerSame
    <3>3. Marked(j)' => Marked(j)
      BY <1>1, <2>2 DEF Marked, WorkerSame
    <3>4. errorCode[j] = "operation_result_unknown" /\ ~cancelRequested[j] =>
              ~Unspent(j) /\ Beyond(j)
      BY <3>1 DEF Attempts, Unfinished, Marked
    <3>5. Unfinished(j)' /\ Lasting(j)'
      BY <1>1, <2>2, <3>1, <3>2, <3>3, <3>4 DEF Attempts, Unfinished, Lasting, Unspent
    <3>6. ASSUME NEW v \in Workers, task'[v] = j
          PROVE  Sole(v, j)' /\ Alone(v, j)' /\ Spent(v, j)' /\ HeldPaid(v, j)'
      <4>1. /\ Sole(v, j) /\ Alone(v, j) /\ Spent(v, j) /\ HeldPaid(v, j)
            /\ task[v] = j /\ WorkerSame(v)
        BY <1>1, <3>1, <3>6 DEF Attempts, WorkerSame
      <4> QED
        BY <1>1, <2>1, <2>2, <3>4, <4>1
        DEF Sole, Alone, Spent, HeldPaid, Unspent, Ahead, WorkerSame
    <3>7. Kept(j)'
      BY <1>1, <2>2, <3>1, <3>2, KeptStays DEF Attempts, Answered, Unspent, WorkerSame
    <3> QED
      BY <1>1, <3>1, <3>5, <3>6, <3>7 DEF Attempts
  <2> QED
    BY <2>3, <2>4 DEF TurnInv
<1> QED
  BY <1>2, <1>3

\* A heartbeat ends with the hold, and renews a lease until then.
LEMMA BeatKeeps ==
    ASSUME NEW j \in Jobs, TypeOK, TurnInv(j), NEW w \in Workers, Heartbeat(w)
    PROVE  TurnInv(j)'
<1> USE SameReceipts
<1> DEFINE renews == /\ owner[task[w]] = ProcessOf[w] /\ status[task[w]] \in Active
                     /\ hold[task[w]] \in {"none", "reserved"}
<1>1. /\ UNCHANGED <<status, owner, cancelRequested, agentResult, handoff, errorCode, published,
                     hold, provider, partial, op, task, pc, given, held, unknown, failure, outages,
                     seen>>
      /\ fresh' = [fresh EXCEPT ![task[w]] = @ \/ renews]
      /\ beat' = [beat EXCEPT ![w] = IF renews /\ ~cancelRequested[task[w]] THEN "on" ELSE "off"]
  BY DEF Heartbeat
<1>2. \A v \in Workers \ {w} : WorkerSame(v)
  BY <1>1 DEF WorkerSame, TypeOK
<1>3. CASE task[w] # j
  <2>1. RowSame(j)
    BY <1>1, <1>3 DEF RowSame, TypeOK
  <2>2. \A v \in Workers : task'[v] = j => WorkerSame(v)
    BY <1>1, <1>2, <1>3
  <2> QED
    BY <1>1, <2>1, <2>2, Untouched
<1>4. CASE task[w] = j
  <2>1. Chained(j)' /\ SavedPaid(j)'
    BY <1>1 DEF TurnInv, Chained, SavedPaid
  <2>2. ASSUME Calm(j)' PROVE Attempts(j)'
    <3>1. Attempts(j)
      BY <1>1, <2>2 DEF Calm, TurnInv
    <3>2. /\ fresh[j] => fresh'[j]
          /\ renews /\ ~cancelRequested[j] => beat'[w] = "on"
          /\ \A v \in Workers \ {w} : beat'[v] = beat[v]
      BY <1>1, <1>4 DEF TypeOK
    <3>3. ASSUME NEW v \in Workers, task'[v] = j
          PROVE  Sole(v, j)' /\ Alone(v, j)' /\ Spent(v, j)' /\ HeldPaid(v, j)'
      <4>1. Sole(v, j) /\ Alone(v, j) /\ Spent(v, j) /\ HeldPaid(v, j) /\ task[v] = j
        BY <1>1, <3>1, <3>3 DEF Attempts
      <4>2. Sole(v, j)'
        BY <1>1, <1>4, <3>2, <4>1 DEF Sole, Unspent, Active
      <4> QED
        BY <1>1, <4>1, <4>2 DEF Alone, Spent, HeldPaid, Unspent, Ahead
    <3>4. (Beyond(j) <=> Beyond(j)') /\ (Marked(j) <=> Marked(j)')
      BY <1>1 DEF Beyond, Ahead, Marked
    <3>5. Unfinished(j)' /\ Lasting(j)'
      BY <1>1, <3>1, <3>4 DEF Attempts, Unfinished, Lasting, Unspent
    <3>6. Kept(j)'
      BY <1>1, <3>1, <3>4 DEF Attempts, Kept, Answered, Unspent
    <3> QED
      BY <1>1, <3>1, <3>3, <3>5, <3>6 DEF Attempts
  <2> QED
    BY <2>1, <2>2 DEF TurnInv
<1> QED
  BY <1>3, <1>4

\* A phase that fails leaves the turn to its failure record.
LEMMA RaiseKeeps ==
    ASSUME NEW j \in Jobs, TypeOK, TurnInv(j), NEW w \in Workers,
           NEW f \in Failure \ {"unknown"}, Raise(w, f),
           UNCHANGED <<task, beat, given, held, unknown, outages, seen>>, RowSame(j)
    PROVE  TurnInv(j)'
<1>1. /\ \A v \in Workers \ {w} : WorkerSame(v)
      /\ pc'[w] = "raise" /\ failure'[w] # "unknown"
  BY DEF Raise, WorkerSame, TypeOK
<1>2. CASE task[w] # j
  BY <1>1, <1>2, Untouched
<1>3. CASE task[w] = j
  <2>1. ASSUME Calm(j), Attempts(j)
        PROVE  /\ ~cancelRequested[j] /\ unknown'[w] => ~Unspent(j) /\ Beyond(j)
               /\ Sole(w, j)' /\ Alone(w, j)' /\ Spent(w, j)' /\ HeldPaid(w, j)'
    <3>1. Sole(w, j) /\ Alone(w, j) /\ Spent(w, j) /\ HeldPaid(w, j) /\ Unfinished(j)
      BY <1>3, <2>1 DEF Attempts
    <3>2. /\ Sole(w, j)' /\ Alone(w, j)' /\ Spent(w, j)' /\ HeldPaid(w, j)'
      BY <1>1, <3>1
      DEF RowSame, Sole, Alone, Spent, HeldPaid, Unspent, Starting, Seeking
    <3> QED
      BY <1>3, <3>1, <3>2 DEF Unfinished, Marked
  <2> QED
    BY <1>1, <1>3, <2>1, PhaseStep DEF Seeking
<1> QED
  BY <1>2, <1>3

\* From the selection of tools to the Agent's answer nothing of the row changes.
LEMMA SeekKeeps ==
    ASSUME NEW j \in Jobs, TypeOK, TurnInv(j), NEW w \in Workers, NEW label \in Seeking,
           pc[w] \in Seeking, Goto(w, label), RowSame(j),
           UNCHANGED <<task, beat, given, unknown, outages, seen>>,
           \A v \in Workers \ {w} : held'[v] = held[v]
    PROVE  TurnInv(j)'
<1>1. /\ \A v \in Workers \ {w} : WorkerSame(v)
      /\ pc'[w] = label /\ failure'[w] = failure[w]
  BY DEF Goto, WorkerSame, TypeOK
<1>2. CASE task[w] # j
  BY <1>1, <1>2, Untouched
<1>3. CASE task[w] = j
  <2>1. ASSUME Calm(j), Attempts(j)
        PROVE  /\ ~cancelRequested[j] /\ (unknown'[w] \/ failure'[w] = "unknown") =>
                     ~Unspent(j) /\ Beyond(j)
               /\ Sole(w, j)' /\ Alone(w, j)' /\ Spent(w, j)' /\ HeldPaid(w, j)'
    <3>1. Sole(w, j) /\ Alone(w, j) /\ Spent(w, j) /\ Unfinished(j)
      BY <1>3, <2>1 DEF Attempts
    <3>2. /\ Sole(w, j)' /\ Alone(w, j)' /\ Spent(w, j)' /\ HeldPaid(w, j)'
      BY <1>1, <3>1
      DEF RowSame, Sole, Alone, Spent, HeldPaid, Unspent, Starting, Seeking
    <3> QED
      BY <1>1, <1>3, <3>1, <3>2 DEF Unfinished, Marked
  <2> QED
    BY <1>1, <1>3, <2>1, PhaseStep DEF Seeking
<1> QED
  BY <1>2, <1>3

\* Load reads a row that is neither cancelled nor over, so a closed turn has its
\* result saved or receipts its continuation does not account for.
LEMMA LoadKeeps ==
    ASSUME NEW j \in Jobs, TypeOK, TurnInv(j), NEW w \in Workers, Load(w)
    PROVE  TurnInv(j)'
<1>1. RowSame(j) /\ UNCHANGED <<task, beat, unknown, outages, seen>>
  BY DEF Load, RowSame
<1>2. CASE Raise(w, "final") /\ UNCHANGED <<given, held>>
  BY <1>1, <1>2, RaiseKeeps DEF Failure
<1>3. CASE /\ Goto(w, "prepare") /\ status[task[w]] \notin Terminal /\ ~cancelRequested[task[w]]
           /\ given' = [given EXCEPT ![w] = handoff[task[w]]]
           /\ held' = [held EXCEPT ![w] = agentResult[task[w]]]
  <2>1. /\ \A v \in Workers \ {w} : WorkerSame(v)
        /\ pc[w] = "load" /\ pc'[w] = "prepare" /\ failure'[w] = failure[w]
        /\ given'[w] = handoff[task[w]] /\ held'[w] = agentResult[task[w]]
    BY <1>1, <1>3 DEF Load, Goto, WorkerSame, TypeOK
  <2>2. CASE task[w] # j
    BY <1>1, <2>1, <2>2, Untouched
  <2>3. CASE task[w] = j
    <3>1. ASSUME Calm(j), Attempts(j)
          PROVE  /\ unknown'[w] \/ failure'[w] = "unknown" => ~Unspent(j) /\ Beyond(j)
                 /\ Sole(w, j)' /\ Alone(w, j)' /\ Spent(w, j)' /\ HeldPaid(w, j)'
      <4>1. Sole(w, j) /\ Alone(w, j) /\ Unfinished(j) /\ Lasting(j) /\ SavedPaid(j)
        BY <2>3, <3>1 DEF Attempts, TurnInv
      <4>2. ~Unspent(j) /\ agentResult[j] = NoResult => Ahead(j, handoff[j])
        BY <1>3, <2>3, <4>1 DEF Lasting, Beyond
      <4>3. Ahead(j, handoff[j]) => Ahead(j, given[w])'
        BY <1>1, <2>1, <2>3, SameReceipts DEF Ahead, RowSame
      <4>4. Sole(w, j)' /\ Alone(w, j)'
        BY <1>1, <2>1, <2>3, <4>1 DEF RowSame, Sole, Alone, Unspent, Starting, Seeking
      <4>5. Spent(w, j)' /\ HeldPaid(w, j)'
        BY <1>1, <2>1, <2>3, <4>1, <4>2, <4>3
        DEF RowSame, SavedPaid, Spent, HeldPaid, Unspent, Seeking
      <4>6. ~cancelRequested[j]
        BY <1>3, <2>3
      <4> QED
        BY <1>1, <2>1, <2>3, <4>1, <4>4, <4>5, <4>6 DEF Unfinished, Marked
    <3> QED
      BY <1>1, <2>1, <2>3, <3>1, PhaseStep DEF Seeking
  <2> QED
    BY <2>2, <2>3
<1> QED
  BY <1>1, <1>2, <1>3 DEF Load

\* Prepare opens the hold of a new turn, and writes back the continuation it read: the
\* one every receipt of a closed turn is beyond.
LEMMA PrepareKeeps ==
    ASSUME NEW j \in Jobs, TypeOK, Busy, TurnInv(j), NEW w \in Workers,
           NEW E \in SUBSET Abandoned, Prepare(w, E)
    PROVE  TurnInv(j)'
<1> USE SameReceipts
<1>1. /\ UNCHANGED <<status, owner, fresh, cancelRequested, agentResult, errorCode, published,
                     provider, partial, op, task, beat, given, held, unknown, failure, outages,
                     seen>>
      /\ pc[w] = "prepare" /\ task[w] \in Jobs
      /\ pc' = [pc EXCEPT ![w] = IF held[w] = NoResult THEN "resume" ELSE "check"]
      /\ hold'[j] = IF j = task[w] /\ hold[j] = "none" THEN "reserved"
                    ELSE IF j \in E THEN "expired" ELSE hold[j]
      /\ handoff' = [handoff EXCEPT ![task[w]] = given[w]]
  BY DEF Prepare, Goto, NeedsAgent, Busy
<1>2. \A v \in Workers \ {w} : WorkerSame(v)
  BY <1>1 DEF WorkerSame, TypeOK
<1>3. CASE j # task[w] /\ j \notin E
  <2>1. RowSame(j)
    BY <1>1, <1>3 DEF RowSame, TypeOK
  <2> QED
    BY <1>1, <1>2, <1>3, <2>1, Untouched
<1>4. CASE j # task[w] /\ j \in E
  <2>1. j \in Abandoned /\ hold'[j] = "expired" /\ handoff'[j] = handoff[j]
    BY <1>1, <1>4 DEF TypeOK
  <2> QED
    BY <1>1, <1>2, <1>4, <2>1, Reaped
<1>5. CASE j = task[w]
  <2>1. hold'[j] = IF hold[j] = "none" THEN "reserved" ELSE hold[j]
    BY <1>1, <1>5 DEF Prepare, Reaps
  <2>2. Unspent(j)' <=> Unspent(j)
    BY <2>1 DEF Unspent
  <2>3. handoff'[j] = given[w]
    BY <1>1, <1>5 DEF TypeOK
  <2>4. Chained(j)' /\ SavedPaid(j)'
    BY <1>1, <1>5, <2>3 DEF TurnInv, Chained, SavedPaid
  <2>5. ASSUME Calm(j)' PROVE Attempts(j)'
    <3>1. Attempts(j)
      BY <1>1, <2>5 DEF Calm, TurnInv
    <3>2. (Beyond(j) => Beyond(j)') /\ (Marked(j)' => Marked(j))
      BY <1>1, <1>5, <2>3 DEF Beyond, Ahead, Marked
    <3>3. Unfinished(j)' /\ Lasting(j)'
      BY <1>1, <2>2, <3>1, <3>2 DEF Attempts, Unfinished, Lasting
    <3>4. ASSUME NEW v \in Workers, task'[v] = j
          PROVE  Sole(v, j)' /\ Alone(v, j)' /\ Spent(v, j)' /\ HeldPaid(v, j)'
      <4>1. Sole(v, j) /\ Alone(v, j) /\ Spent(v, j) /\ HeldPaid(v, j) /\ task[v] = j
        BY <1>1, <3>1, <3>4 DEF Attempts
      <4>2. CASE v # w
        <5>1. pc'[v] = pc[v]
          BY <1>1, <4>2 DEF TypeOK
        <5> QED
          BY <1>1, <2>2, <4>1, <5>1 DEF Sole, Alone, Spent, HeldPaid, Ahead
      <4>3. CASE v = w
        <5>1. pc'[v] = IF held[v] = NoResult THEN "resume" ELSE "check"
          BY <1>1, <4>3 DEF TypeOK
        <5> QED
          BY <1>1, <2>2, <4>1, <4>3, <5>1
          DEF Sole, Alone, Spent, HeldPaid, Ahead, Starting, Seeking
      <4> QED
        BY <4>2, <4>3
    <3>5. Kept(j)'
      BY <1>1, <2>2, <3>1, <3>2, KeptStays DEF Attempts, Answered, Seeking, TypeOK
    <3> QED
      BY <1>1, <3>1, <3>3, <3>4, <3>5 DEF Attempts
  <2> QED
    BY <2>4, <2>5 DEF TurnInv
<1> QED
  BY <1>3, <1>4, <1>5

\* A refusal changes nothing but the turns it finds abandoned.
LEMMA RefusalKeeps ==
    ASSUME NEW j \in Jobs, TypeOK, Busy, TurnInv(j), NEW w \in Workers,
           NEW E \in SUBSET Abandoned, PrepareRefused(w, E)
    PROVE  TurnInv(j)'
<1>1. /\ UNCHANGED <<jobVars, published, provider, partial, op, task, beat, localVars, outages,
                     seen>>
      /\ Raise(w, "final") /\ hold'[j] = IF j \in E THEN "expired" ELSE hold[j]
  BY DEF PrepareRefused
<1>2. CASE j \notin E
  <2>1. RowSame(j)
    BY <1>1, <1>2 DEF RowSame
  <2> QED
    BY <1>1, <2>1, RaiseKeeps DEF Failure
<1>3. CASE j \in E
  <2>1. j # task[w]
    BY <1>3 DEF PrepareRefused, Reaps, Abandoned
  <2>2. \A v \in Workers : task'[v] = j => WorkerSame(v)
    BY <1>1, <2>1 DEF Raise, WorkerSame, TypeOK
  <2>3. j \in Abandoned
    BY <1>3
  <2> QED
    BY <1>1, <1>3, <2>2, <2>3, Reaped
<1> QED
  BY <1>2, <1>3

\* recover_operations: a turn with receipts its chain does not account for presents
\* them, and gives the hold back; only an open turn goes on to the Agent.
LEMMA ResumeKeeps ==
    ASSUME NEW j \in Jobs, TypeOK, Busy, Paid, TurnInv(j), NEW w \in Workers, ResumeOperations(w)
    PROVE  TurnInv(j)'
<1> USE SameReceipts
<1>1. /\ UNCHANGED <<status, owner, fresh, cancelRequested, handoff, errorCode, published,
                     provider, partial, op, task, beat, given, unknown, failure, outages, seen>>
      /\ pc[w] = "resume" /\ task[w] \in Jobs /\ hold[task[w]] # "none"
  BY DEF ResumeOperations, Goto, Busy, Paid, PhasesPaid
<1>2. CASE Goto(w, "select") /\ NothingToRecover(task[w], given[w])
           /\ UNCHANGED <<held, agentResult, hold>>
  <2>1. RowSame(j)
    BY <1>1, <1>2 DEF RowSame
  <2>2. /\ \A v \in Workers \ {w} : WorkerSame(v)
        /\ pc'[w] = "select" /\ failure'[w] = failure[w]
    BY <1>1, <1>2 DEF Goto, WorkerSame, TypeOK
  <2>3. CASE task[w] # j
    BY <1>1, <2>1, <2>2, <2>3, Untouched
  <2>4. CASE task[w] = j
    <3>1. ASSUME Calm(j), Attempts(j)
          PROVE  /\ Unspent(j)
                 /\ ~cancelRequested[j] /\ (unknown'[w] \/ failure'[w] = "unknown") =>
                       ~Unspent(j) /\ Beyond(j)
                 /\ Sole(w, j)' /\ Alone(w, j)' /\ Spent(w, j)' /\ HeldPaid(w, j)'
      <4>1. Sole(w, j) /\ Alone(w, j) /\ Spent(w, j) /\ Unfinished(j)
        BY <2>4, <3>1 DEF Attempts
      <4>2. ~Ahead(j, given[w])
        BY <1>2, <2>4 DEF NothingToRecover, Ahead
      <4>3. Unspent(j)
        BY <1>1, <4>1, <4>2 DEF Spent
      <4>4. Sole(w, j)' /\ Alone(w, j)' /\ Spent(w, j)' /\ HeldPaid(w, j)'
        BY <1>1, <2>1, <2>2, <4>1, <4>3
        DEF RowSame, Sole, Alone, Spent, HeldPaid, Unspent, Starting
      <4> QED
        BY <1>1, <2>2, <2>4, <4>1, <4>3, <4>4 DEF Unfinished, Marked
    <3> QED
      BY <1>1, <2>1, <2>2, <2>4, <3>1, PhaseStep
  <2> QED
    BY <2>3, <2>4
<1>3. CASE /\ Goto(w, "check")
           /\ held' = [held EXCEPT ![w] = Recovered(task[w])]
           /\ agentResult' = [agentResult EXCEPT ![task[w]] = Recovered(task[w])]
           /\ hold' = [hold EXCEPT ![task[w]] = Released(task[w])]
  <2>1. \A v \in Workers \ {w} : WorkerSame(v)
    BY <1>1, <1>3 DEF Goto, WorkerSame, TypeOK
  <2>2. CASE task[w] # j
    <3>1. RowSame(j)
      BY <1>1, <1>3, <2>2 DEF RowSame, TypeOK
    <3> QED
      BY <1>1, <2>1, <2>2, <3>1, Untouched
  <2>3. CASE task[w] = j
    <3>1. /\ pc'[w] = "check" /\ held'[w] = Recovered(j) /\ agentResult'[j] = Recovered(j)
          /\ ~Unspent(j)'
      BY <1>1, <1>3, <2>3 DEF Goto, Released, Unspent, TypeOK
    <3>2. Recovered(j).kind = "recovered" /\ Recovered(j) # NoResult
      BY DEF Recovered, NoResult
    <3>3. Chained(j)' /\ SavedPaid(j)'
      BY <1>1, <3>1, <3>2 DEF TurnInv, Chained, SavedPaid
    <3>4. ASSUME Calm(j)' PROVE Attempts(j)'
      <4>1. Attempts(j)
        BY <1>1, <3>4 DEF Calm, TurnInv
      <4>2. (Beyond(j) => Beyond(j)') /\ (Marked(j)' => Marked(j))
        BY <1>1 DEF Beyond, Ahead, Marked
      <4>3. Unfinished(j)' /\ Lasting(j)'
        BY <1>1, <3>1, <3>2, <4>1, <4>2 DEF Attempts, Unfinished, Lasting
      <4>4. ASSUME NEW v \in Workers \ {w}, task'[v] = j
            PROVE  Sole(v, j)' /\ Alone(v, j)' /\ Spent(v, j)' /\ HeldPaid(v, j)'
        <5>1. /\ Alone(v, j) /\ Spent(v, j) /\ HeldPaid(v, j) /\ task[v] = j /\ WorkerSame(v)
          BY <2>1, <4>1, <4>4 DEF Attempts, WorkerSame
        <5>2. ~Unspent(j) /\ pc[v] \notin Seeking
          BY <2>3, <5>1 DEF Alone
        <5> QED
          BY <1>1, <3>1, <5>1, <5>2 DEF Sole, Alone, Spent, HeldPaid, Ahead, WorkerSame
      <4>5. Sole(w, j)' /\ Alone(w, j)' /\ Spent(w, j)' /\ HeldPaid(w, j)'
        BY <3>1, <3>2 DEF Sole, Alone, Spent, HeldPaid, Seeking
      <4>6. Kept(j)'
        BY <1>1, <2>1, <3>1, <4>1, <4>2, KeptStays DEF Attempts, Answered, Seeking, WorkerSame
      <4> QED
        BY <1>1, <4>1, <4>3, <4>4, <4>5, <4>6 DEF Attempts
    <3> QED
      BY <3>3, <3>4 DEF TurnInv
  <2> QED
    BY <2>2, <2>3
<1> QED
  BY <1>2, <1>3 DEF ResumeOperations

\* A failed attempt that is charged ends the calm; any other leaves the row alone.
LEMMA AgentFailKeeps ==
    ASSUME NEW j \in Jobs, TypeOK, Busy, ChargeMatchesConsumption, TurnInv(j), NEW w \in Workers,
           NEW n \in Unbilled..MaxTokens, NEW f \in {"retryable", "final"}, NEW lingers \in BOOLEAN,
           AgentFails(w, n, f, lingers)
    PROVE  TurnInv(j)'
<1> USE SameReceipts
<1>1. /\ UNCHANGED <<jobVars, published, op, task, beat, localVars, outages, seen>>
      /\ task[w] \in Jobs /\ (Raise(w, f) \/ Raise(w, "retryable"))
  BY DEF AgentFails, Busy
<1>2. CASE hold'[j] = hold[j] /\ provider'[j] = provider[j] /\ partial'[j] = partial[j]
  <2>1. RowSame(j)
    BY <1>1, <1>2 DEF RowSame
  <2>2. f \in Failure \ {"unknown"} /\ "retryable" \in Failure \ {"unknown"}
    BY DEF Failure
  <2> QED
    BY <1>1, <2>1, <2>2, RaiseKeeps
<1>3. CASE ~(hold'[j] = hold[j] /\ provider'[j] = provider[j] /\ partial'[j] = partial[j])
  <2>1. /\ n # Unbilled /\ Accountable(task[w], n) /\ Account(task[w], n)
        /\ partial' = [partial EXCEPT ![task[w]] = @ \/ charge[task[w]] = Unbilled]
    BY <1>3 DEF AgentFails
  <2>2. task[w] = j
    BY <1>1, <1>3, <2>1 DEF Account, TypeOK
  <2>3. charge[j] = Unbilled
    <3> SUFFICES ASSUME charge[j] # Unbilled PROVE FALSE
      OBVIOUS
    <3>1. hold[j] = "settled" /\ provider[j] # Unbilled
      BY ConstantsAssumption DEF ChargeMatchesConsumption, AtMost, TypeOK, Unbilled
    <3>2. hold'[j] = "settled" /\ provider'[j] = provider[j] /\ partial'[j] = partial[j]
      BY <1>1, <2>1, <2>2, <3>1 DEF Account, TypeOK
    <3> QED
      BY <1>3, <3>1, <3>2
  <2>4. partial'[j]
    BY <1>1, <2>1, <2>2, <2>3 DEF TypeOK
  <2>5. agentResult[j].tokens # provider[j]
    <3>1. provider[j] = -1
      BY <2>3, ConstantsAssumption DEF ChargeMatchesConsumption, AtMost, TypeOK, Unbilled
    <3>2. agentResult[j].tokens \in 0..MaxTokens
      BY DEF TypeOK, Result
    <3> QED
      BY <3>1, <3>2, ConstantsAssumption
  <2>6. Chained(j)' /\ SavedPaid(j)'
    BY <1>1, <2>5 DEF TurnInv, Chained, SavedPaid
  <2> QED
    BY <2>4, <2>6 DEF TurnInv, Calm
<1> QED
  BY <1>2, <1>3

\* A handoff is asked for by the only executor of an open turn, and its new chain
\* lists returned calls only.
LEMMA HandoffKeeps ==
    ASSUME NEW j \in Jobs, TypeOK, Busy, TurnInv(j), NEW w \in Workers, Handoff(w)
    PROVE  TurnInv(j)'
<1> USE SameReceipts
<1>1. /\ UNCHANGED <<status, owner, fresh, cancelRequested, agentResult, errorCode, published,
                     hold, provider, partial, op, task, beat, given, held, unknown, outages, seen>>
      /\ pc[w] = "handoff" /\ task[w] \in Jobs
  BY DEF Handoff, Busy
<1>2. CASE Raise(w, "final") /\ handoff' = handoff
  <2>1. RowSame(j)
    BY <1>1, <1>2 DEF RowSame
  <2> QED
    BY <1>1, <1>2, <2>1, RaiseKeeps DEF Failure
<1>3. CASE /\ Raise(w, "retryable") /\ Open(task[w]) = {}
           /\ handoff' = [handoff EXCEPT ![task[w]] =
                            [count |-> handoff[task[w]].count + 1, calls |-> Rows(task[w])]]
  <2>1. CASE task[w] # j
    <3>1. RowSame(j)
      BY <1>1, <1>3, <2>1 DEF RowSame, TypeOK
    <3> QED
      BY <1>1, <1>3, <3>1, RaiseKeeps DEF Failure
  <2>2. CASE task[w] = j
    <3>1. /\ handoff'[j].calls = Rows(j) /\ pc'[w] = "raise" /\ failure'[w] = "retryable"
          /\ \A v \in Workers \ {w} : WorkerSame(v)
      BY <1>1, <1>3, <2>2 DEF Raise, WorkerSame, TypeOK
    <3>2. Rows(j) \subseteq Returned(j)
      BY <1>3, <2>2 DEF Rows, Returned, Open, TypeOK, OpState
    <3>3. Chained(j)' /\ SavedPaid(j)'
      BY <1>1, <3>1, <3>2 DEF TurnInv, Chained, SavedPaid
    <3>4. ASSUME Calm(j)' PROVE Attempts(j)'
      <4>1. Attempts(j)
        BY <1>1, <3>4 DEF Calm, TurnInv
      <4>2. Sole(w, j) /\ Alone(w, j) /\ Spent(w, j)
        BY <2>2, <4>1 DEF Attempts
      <4>3. ~Unspent(j) => cancelRequested[j]
        BY <1>1, <4>2 DEF Spent, Seeking
      <4>4. Marked(j)' => Marked(j)
        BY <1>1, <2>2, <3>1 DEF Marked, WorkerSame
      <4>5. Unfinished(j)' /\ Lasting(j)'
        BY <1>1, <4>1, <4>3, <4>4 DEF Attempts, Unfinished, Lasting, Unspent
      <4>6. ASSUME NEW v \in Workers, task'[v] = j PROVE v = w
        BY <1>1, <4>2, <4>6 DEF Alone, Seeking
      <4>7. Sole(w, j)' /\ Alone(w, j)' /\ Spent(w, j)' /\ HeldPaid(w, j)'
        BY <1>1, <3>1, <4>2 DEF Sole, Alone, Spent, HeldPaid, Unspent, Starting, Seeking
      <4>8. Kept(j)'
        BY <1>1, <2>2, <3>1, <4>1, KeptStays DEF Attempts, Answered, Seeking, WorkerSame
      <4> QED
        BY <1>1, <4>1, <4>5, <4>6, <4>7, <4>8 DEF Attempts
    <3> QED
      BY <3>3, <3>4 DEF TurnInv
  <2> QED
    BY <2>1, <2>2
<1> QED
  BY <1>2, <1>3 DEF Handoff

\* The reply that is saved is the one that is charged, and the only one.
LEMMA PersistKeeps ==
    ASSUME NEW j \in Jobs, TypeOK, Busy, Locals, Paid, ChargeMatchesConsumption, TurnInv(j),
           NEW w \in Workers, Persist(w)
    PROVE  TurnInv(j)'
<1> USE SameReceipts
<1>1. /\ UNCHANGED <<owner, fresh, cancelRequested, handoff, published, partial, op, task, beat,
                     given, held, unknown, outages, seen>>
      /\ pc[w] = "persist" /\ task[w] \in Jobs /\ held[w] # NoResult
  BY DEF Persist, Busy, Locals
<1>2. CASE Raise(w, "retryable") /\ UNCHANGED <<status, agentResult, errorCode, moneyVars>>
  <2>1. RowSame(j)
    BY <1>1, <1>2 DEF RowSame
  <2> QED
    BY <1>1, <1>2, <2>1, RaiseKeeps DEF Failure
<1>3. CASE /\ Goto(w, "check") /\ agentResult[task[w]] # NoResult
           /\ UNCHANGED <<status, agentResult, errorCode, moneyVars>>
  <2>1. RowSame(j) /\ \A v \in Workers \ {w} : WorkerSame(v)
    BY <1>1, <1>3 DEF RowSame, Goto, WorkerSame, TypeOK
  <2>2. CASE task[w] # j
    BY <1>1, <2>1, <2>2, Untouched
  <2>3. CASE task[w] = j
    <3>1. ~(Calm(j) /\ Attempts(j))
      BY <1>1, <1>3, <2>3 DEF Attempts, Alone, Seeking
    <3> QED
      BY <1>1, <2>1, <2>3, <3>1, PhaseStep
  <2> QED
    BY <2>2, <2>3
<1>4. CASE /\ Goto(w, "check") /\ agentResult[task[w]] = NoResult
           /\ Accountable(task[w], held[w].tokens) /\ Account(task[w], held[w].tokens)
           /\ agentResult' = [agentResult EXCEPT ![task[w]] = held[w]]
           /\ status' = [status EXCEPT ![task[w]] = "running"]
           /\ errorCode' = [errorCode EXCEPT ![task[w]] = "none"]
  <2>1. \A v \in Workers \ {w} : WorkerSame(v)
    BY <1>1, <1>4 DEF Goto, WorkerSame, TypeOK
  <2>2. CASE task[w] # j
    <3>1. RowSame(j)
      BY <1>1, <1>4, <2>2 DEF RowSame, Account, TypeOK
    <3> QED
      BY <1>1, <2>1, <2>2, <3>1, Untouched
  <2>3. CASE task[w] = j
    <3>1. /\ pc'[w] = "check" /\ failure'[w] = failure[w] /\ agentResult'[j] = held[w]
          /\ status'[j] = "running" /\ errorCode'[j] = "none" /\ hold'[j] = "settled"
      BY <1>1, <1>4, <2>3 DEF Goto, Account, TypeOK
    <3>2. provider'[j] = held[w].tokens
      BY <1>1, <1>4, <2>3 DEF Accountable, Account, TypeOK
    <3>3. provider[j] # provider'[j] => provider[j] \notin Nat
      BY <1>4, <2>3, <3>2, ConstantsAssumption DEF Accountable, Unbilled
    <3>4. Chained(j)' /\ SavedPaid(j)'
      BY <1>1, <3>1, <3>2 DEF TurnInv, Chained, SavedPaid
    <3>5. ASSUME Calm(j)' PROVE Attempts(j)'
      <4>1. Attempts(j)
        BY <1>1, <3>5 DEF Calm, TurnInv
      <4>2. Alone(w, j) /\ Spent(w, j) /\ Unfinished(j)
        BY <2>3, <4>1 DEF Attempts
      <4>3. ~cancelRequested[j] => ~Marked(j)
        BY <1>1, <4>2 DEF Unfinished, Spent, Seeking
      <4>4. ~cancelRequested[j] => ~Marked(j)'
        BY <1>1, <2>1, <2>3, <3>1, <4>3 DEF Marked, WorkerSame
      <4>5. Unfinished(j)' /\ Lasting(j)'
        BY <1>1, <3>1, <4>4 DEF Unfinished, Lasting
      <4>6. ASSUME NEW v \in Workers, task'[v] = j PROVE v = w
        BY <1>1, <4>2, <4>6 DEF Alone, Seeking
      <4>7. Sole(w, j)' /\ Alone(w, j)' /\ Spent(w, j)' /\ HeldPaid(w, j)'
        BY <1>1, <3>1, <3>2 DEF Sole, Alone, Spent, HeldPaid, Unspent, Seeking
      <4>8. \A r \in published'[j] : r.kind = "reply" => r.tokens = provider'[j]
        <5> SUFFICES ASSUME NEW r \in published[j], r.kind = "reply" PROVE r.tokens = provider'[j]
          BY <1>1
        <5>1. r.tokens = provider[j] /\ r.tokens \in 0..MaxTokens
          BY <4>1 DEF Attempts, TypeOK, Result
        <5> QED
          BY <3>3, <5>1, ConstantsAssumption
      <4>9. Kept(j)'
        BY <1>1, <2>1, <2>3, <3>1, <4>1, KeptStays DEF Attempts, Answered, Seeking, WorkerSame
      <4> QED
        BY <4>5, <4>6, <4>7, <4>8, <4>9 DEF Attempts
    <3> QED
      BY <3>4, <3>5 DEF TurnInv
  <2> QED
    BY <2>2, <2>3
<1> QED
  BY <1>2, <1>3, <1>4 DEF Persist

\* A result is called unknown when a call is open, and no chain accounts for that call.
LEMMA CheckKeeps ==
    ASSUME NEW j \in Jobs, TypeOK, Busy, Paid, TurnInv(j), NEW w \in Workers, CheckOperations(w)
    PROVE  TurnInv(j)'
<1>1. /\ RowSame(j) /\ UNCHANGED <<task, beat, given, outages, seen>>
      /\ pc[w] = "check" /\ task[w] \in Jobs /\ hold[task[w]] \in Promise!Closed
      /\ unknown' = [unknown EXCEPT ![w] = Open(task[w]) # {}]
  BY DEF CheckOperations, RowSame, Busy, Paid, PhasesPaid
<1>2. /\ pc' = [pc EXCEPT ![w] = "project"] \/ pc' = [pc EXCEPT ![w] = "raise"]
      /\ failure' = failure \/ failure' = [failure EXCEPT ![w] = "final"]
      /\ held' = held \/ held' = [held EXCEPT ![w] = Recovered(task[w])]
  BY DEF CheckOperations, Goto, Raise
<1>3. \A v \in Workers \ {w} : WorkerSame(v)
  BY <1>1, <1>2 DEF WorkerSame, TypeOK
<1>4. CASE task[w] # j
  BY <1>1, <1>3, <1>4, Untouched
<1>5. CASE task[w] = j
  <2>1. /\ pc'[w] \in {"project", "raise"} /\ unknown'[w] = (Open(j) # {})
        /\ failure'[w] \in {failure[w], "final"} /\ held'[w] \in {held[w], Recovered(j)}
    BY <1>1, <1>2, <1>5 DEF TypeOK
  <2>2. ~Unspent(j)
    BY <1>1, <1>5 DEF Unspent, Promise!Closed
  <2>3. Open(j) # {} => Beyond(j)
    BY DEF TurnInv, Chained, Beyond, Ahead, Open, Rows, Returned
  <2>4. ASSUME Calm(j), Attempts(j)
        PROVE  /\ ~cancelRequested[j] /\ (unknown'[w] \/ failure'[w] = "unknown") =>
                     ~Unspent(j) /\ Beyond(j)
               /\ Sole(w, j)' /\ Alone(w, j)' /\ Spent(w, j)' /\ HeldPaid(w, j)'
    <3>1. HeldPaid(w, j) /\ Unfinished(j)
      BY <1>5, <2>4 DEF Attempts
    <3>2. Sole(w, j)' /\ Alone(w, j)' /\ Spent(w, j)'
      BY <1>1, <2>1, <2>2 DEF RowSame, Sole, Alone, Spent, Unspent, Seeking
    <3>3. HeldPaid(w, j)'
      BY <1>1, <2>1, <3>1 DEF RowSame, HeldPaid, Recovered
    <3> QED
      BY <1>5, <2>1, <2>2, <2>3, <3>1, <3>2, <3>3 DEF Unfinished, Marked
  <2> QED
    BY <1>1, <1>3, <1>5, <2>1, <2>4, PhaseStep DEF Seeking
<1> QED
  BY <1>4, <1>5

\* Rendering changes nothing of the turn.
LEMMA ProjectKeeps ==
    ASSUME NEW j \in Jobs, TypeOK, Busy, Paid, TurnInv(j), NEW w \in Workers, Project(w)
    PROVE  TurnInv(j)'
<1>1. /\ RowSame(j) /\ UNCHANGED <<task, beat, given, held, unknown, outages, seen>>
      /\ pc[w] = "project" /\ task[w] \in Jobs /\ hold[task[w]] \in Promise!Closed
      /\ \A v \in Workers \ {w} : WorkerSame(v)
      /\ pc'[w] = "settle" /\ failure'[w] = failure[w]
  BY DEF Project, Goto, RowSame, Busy, Paid, PhasesPaid, WorkerSame, TypeOK
<1>2. CASE task[w] # j
  BY <1>1, <1>2, Untouched
<1>3. CASE task[w] = j
  <2>1. ~Unspent(j)
    BY <1>1, <1>3 DEF Unspent, Promise!Closed
  <2>2. ASSUME Calm(j), Attempts(j)
        PROVE  /\ ~cancelRequested[j] /\ (unknown'[w] \/ failure'[w] = "unknown") => Beyond(j)
               /\ Sole(w, j)' /\ Alone(w, j)' /\ Spent(w, j)' /\ HeldPaid(w, j)'
    <3>1. HeldPaid(w, j) /\ Unfinished(j)
      BY <1>3, <2>2 DEF Attempts
    <3>2. Sole(w, j)' /\ Alone(w, j)' /\ Spent(w, j)' /\ HeldPaid(w, j)'
      BY <1>1, <2>1, <3>1 DEF RowSame, Sole, Alone, Spent, HeldPaid, Unspent, Seeking
    <3> QED
      BY <1>1, <1>3, <3>1, <3>2 DEF Unfinished, Marked
  <2> QED
    BY <1>1, <1>3, <2>1, <2>2, PhaseStep DEF Seeking
<1> QED
  BY <1>2, <1>3

\* The publication: a presentation that names an unknown call leaves the turn to its
\* failure record, with receipts to present; any other ends it.
LEMMA SettleKeeps ==
    ASSUME NEW j \in Jobs, TypeOK, Busy, Paid, TurnInv(j), NEW w \in Workers, Settle(w)
    PROVE  TurnInv(j)'
<1> USE SameReceipts
<1>1. /\ UNCHANGED <<cancelRequested, agentResult, handoff, errorCode, hold, provider, partial,
                     op, outages, seen>>
      /\ pc[w] = "settle" /\ task[w] \in Jobs /\ hold[task[w]] \in Promise!Closed
  BY DEF Settle, Busy, Paid, PhasesPaid
<1>2. \/ /\ EndProcess(w) /\ UNCHANGED <<status, owner, fresh, published>>
      \/ /\ Raise(w, "final") /\ UNCHANGED <<task, beat, given, held, unknown>>
         /\ UNCHANGED <<status, owner, fresh, published>>
      \/ /\ ~cancelRequested[task[w]]
         /\ published' = [published EXCEPT ![task[w]] = @ \cup {held[w]}]
         /\ status' = [status EXCEPT ![task[w]] = IF unknown[w] THEN "running" ELSE "succeeded"]
         /\ owner' = [owner EXCEPT ![task[w]] = Nobody]
         /\ fresh' = [fresh EXCEPT ![task[w]] = FALSE]
         /\ \/ ~unknown[w] /\ EndProcess(w)
            \/ unknown[w] /\ Raise(w, "unknown") /\ UNCHANGED <<task, beat, given, held, unknown>>
  BY DEF Settle, Publishable
<1>3. \A v \in Workers \ {w} : WorkerSame(v)
  BY <1>2 DEF EndProcess, Raise, WorkerSame, TypeOK
<1>4. CASE task[w] # j
  <2>1. RowSame(j)
    BY <1>1, <1>2, <1>4 DEF RowSame, TypeOK
  <2>2. task'[w] # j
    BY <1>2, <1>4, ConstantsAssumption DEF EndProcess, TypeOK
  <2> QED
    BY <1>1, <1>3, <2>1, <2>2, Untouched
<1>5. CASE task[w] = j
  <2>1. ~Unspent(j) /\ ~Unspent(j)'
    BY <1>1, <1>5 DEF Unspent, Promise!Closed
  <2>2. CASE Raise(w, "final") /\ UNCHANGED <<status, owner, fresh, published>>
             /\ UNCHANGED <<task, beat, given, held, unknown>>
    <3>1. RowSame(j)
      BY <1>1, <2>2 DEF RowSame
    <3> QED
      BY <1>1, <2>2, <3>1, RaiseKeeps DEF Failure
  <2>3. Calm(j) /\ Attempts(j) =>
          \A r \in published[j] \cup {held[w]} : r.kind = "reply" => r.tokens = provider[j]
    BY <1>1, <1>5 DEF Attempts, HeldPaid
  <2>4. CASE /\ EndProcess(w) /\ published'[j] \subseteq published[j] \cup {held[w]}
             /\ status'[j] = status[j] \/ (status'[j] = "succeeded" /\ ~cancelRequested[j])
    <3>1. ASSUME Attempts(j) PROVE Unfinished(j)' /\ Lasting(j)'
      <4>1. task'[w] # j
        BY <2>4, <1>1, ConstantsAssumption DEF EndProcess, TypeOK
      <4>2. (Marked(j)' => Marked(j)) /\ (Beyond(j) => Beyond(j)')
        BY <1>1, <1>3, <4>1 DEF Marked, Beyond, Ahead, WorkerSame
      <4> QED
        BY <1>1, <2>1, <2>4, <3>1, <4>2 DEF Attempts, Unfinished, Lasting, Terminal
    <3> QED
      BY <1>1, <1>5, <2>1, <2>3, <2>4, <3>1, Leaves
  <2>5. CASE /\ ~cancelRequested[j] /\ status'[j] = "running" /\ unknown[w]
             /\ Raise(w, "unknown") /\ UNCHANGED <<task, beat, given, held, unknown>>
             /\ published'[j] = published[j] \cup {held[w]}
    <3>1. pc'[w] = "raise"
      BY <2>5 DEF Raise, TypeOK
    <3>2. Chained(j)' /\ SavedPaid(j)'
      BY <1>1, <2>5 DEF TurnInv, Chained, SavedPaid
    <3>3. ASSUME Calm(j)' PROVE Attempts(j)'
      <4>1. Attempts(j) /\ Calm(j)
        BY <1>1, <3>3 DEF Calm, TurnInv
      <4>2. Beyond(j)
        BY <1>5, <2>5, <4>1 DEF Attempts, Unfinished, Marked
      <4>3. Beyond(j)'
        BY <1>1, <2>5, <4>2 DEF Beyond, Ahead
      <4>4. Unfinished(j)' /\ Lasting(j)'
        BY <2>1, <4>3 DEF Unfinished, Lasting
      <4>5. ASSUME NEW v \in Workers, task'[v] = j
            PROVE  Sole(v, j)' /\ Alone(v, j)' /\ Spent(v, j)' /\ HeldPaid(v, j)'
        <5>1. Alone(v, j) /\ Spent(v, j) /\ HeldPaid(v, j) /\ task[v] = j
          BY <2>5, <4>1, <4>5 DEF Attempts
        <5>2. v # w => pc'[v] = pc[v]
          BY <1>3 DEF WorkerSame
        <5>3. pc'[v] \notin Seeking
          BY <1>1, <1>5, <2>5, <3>1, <5>1, <5>2 DEF Spent, Seeking, Unspent, Promise!Closed
        <5> QED
          BY <1>1, <2>1, <2>5, <3>1, <5>1, <5>2, <5>3
          DEF Sole, Alone, Spent, HeldPaid, Ahead
      <4>6. Kept(j)'
        BY <1>1, <1>3, <2>1, <2>5, <3>1, <4>1, <4>3, KeptStays
        DEF Attempts, Answered, Seeking, WorkerSame
      <4> QED
        BY <1>1, <2>3, <2>5, <4>1, <4>4, <4>5, <4>6 DEF Attempts
    <3> QED
      BY <3>2, <3>3 DEF TurnInv
  <2>6. CASE EndProcess(w) /\ UNCHANGED <<status, owner, fresh, published>>
    BY <2>4, <2>6
  <2>7. CASE /\ ~cancelRequested[task[w]]
             /\ published' = [published EXCEPT ![task[w]] = @ \cup {held[w]}]
             /\ status' = [status EXCEPT ![task[w]] = IF unknown[w] THEN "running" ELSE "succeeded"]
             /\ \/ ~unknown[w] /\ EndProcess(w)
                \/ unknown[w] /\ Raise(w, "unknown") /\ UNCHANGED <<task, beat, given, held, unknown>>
    <3>1. /\ published'[j] = published[j] \cup {held[w]} /\ ~cancelRequested[j]
          /\ status'[j] = IF unknown[w] THEN "running" ELSE "succeeded"
      BY <1>5, <2>7 DEF TypeOK
    <3> QED
      BY <2>4, <2>5, <2>7, <3>1
  <2> QED
    BY <1>2, <2>2, <2>6, <2>7
<1> QED
  BY <1>4, <1>5

\* The failure record closes the hold of a turn it ends; one it ends as unknown has
\* receipts to present.
LEMMA RecordKeeps ==
    ASSUME NEW j \in Jobs, TypeOK, Busy, TurnInv(j), NEW w \in Workers, RecordFailure(w)
    PROVE  TurnInv(j)'
<1> USE SameReceipts
<1>1. /\ UNCHANGED <<cancelRequested, agentResult, handoff, published, provider, partial, op,
                     outages, seen>>
      /\ EndProcess(w) /\ task[w] \in Jobs
      /\ \A v \in Workers \ {w} : WorkerSame(v)
      /\ task'[w] = NoJob
  BY DEF RecordFailure, Busy, EndProcess, WorkerSame, TypeOK
<1>2. CASE task[w] # j
  <2>1. RowSame(j)
    <3>1. /\ status' = status \/ \E s : status' = [status EXCEPT ![task[w]] = s]
          /\ errorCode' = errorCode \/ \E s : errorCode' = [errorCode EXCEPT ![task[w]] = s]
          /\ owner' = owner \/ owner' = [owner EXCEPT ![task[w]] = Nobody]
          /\ fresh' = fresh \/ fresh' = [fresh EXCEPT ![task[w]] = FALSE]
          /\ hold' = hold \/ \E s : hold' = [hold EXCEPT ![task[w]] = s]
      BY DEF RecordFailure
    <3> QED
      BY <1>1, <1>2, <3>1 DEF RowSame, TypeOK
  <2>2. task'[w] # j
    BY <1>1, ConstantsAssumption
  <2> QED
    BY <1>1, <2>1, <2>2, Untouched
<1>3. CASE task[w] = j
  <2> DEFINE next == FailedStatus(j, failure[w])
  <2>1. \/ /\ status[j] \in Terminal /\ UNCHANGED <<status, errorCode, hold>>
        \/ /\ status[j] \notin Terminal /\ status'[j] = next
           /\ errorCode'[j] = IF failure[w] = "unknown" THEN "operation_result_unknown" ELSE "none"
           /\ hold'[j] = IF next \in Terminal THEN Released(j) ELSE hold[j]
    <3>1. \/ /\ status[j] \in Terminal /\ UNCHANGED <<status, errorCode, hold>>
          \/ /\ status[j] \notin Terminal /\ status' = [status EXCEPT ![j] = next]
             /\ errorCode' = [errorCode EXCEPT ![j] =
                    IF failure[w] = "unknown" THEN "operation_result_unknown" ELSE "none"]
             /\ hold' = [hold EXCEPT ![j] = IF next \in Terminal THEN Released(j) ELSE @]
      BY <1>3 DEF RecordFailure
    <3> HIDE DEF next
    <3> QED
      BY <3>1 DEF TypeOK
  <2>2. cancelRequested[j] => next = "cancelled"
    BY DEF FailedStatus
  <2>3. failure[w] = "unknown" => next \in Terminal
    BY DEF FailedStatus, Terminal
  <2> HIDE DEF next
  <2>4. cancelRequested[j] => status'[j] \in {status[j], "cancelled"}
    BY <2>1, <2>2
  <2>5. Unspent(j)' => Unspent(j)
    BY <2>1 DEF Unspent, Released
  <2>6. ASSUME Attempts(j) PROVE Unfinished(j)' /\ Lasting(j)'
    <3>1. (Marked(j)' => Marked(j)) /\ (Beyond(j) => Beyond(j)')
      BY <1>1, <1>3, <2>1, ConstantsAssumption DEF Marked, Beyond, Ahead, WorkerSame
    <3>2. Unfinished(j)'
      BY <1>1, <2>5, <2>6, <3>1 DEF Attempts, Unfinished
    <3>3. ~cancelRequested[j] /\ Unspent(j) => failure[w] # "unknown"
      BY <1>3, <2>6 DEF Attempts, Unfinished, Marked
    <3>4. Unspent(j) /\ ~Unspent(j)' => status'[j] = next /\ next \in Terminal
      BY <2>1 DEF Unspent
    <3>5. Lasting(j)'
      <4> SUFFICES ASSUME ~Unspent(j)', ~cancelRequested[j], agentResult[j] = NoResult
                   PROVE  Beyond(j)' \/ (status'[j] \in Terminal /\ errorCode'[j] = "none")
        BY <1>1 DEF Lasting
      <4>1. CASE Unspent(j)
        BY <2>1, <3>3, <3>4, <4>1 DEF Unspent
      <4>2. CASE ~Unspent(j)
        BY <2>1, <2>6, <3>1, <4>2 DEF Attempts, Lasting
      <4> QED
        BY <4>1, <4>2
    <3> QED
      BY <3>2, <3>5
  <2> QED
    BY <1>1, <1>3, <2>4, <2>5, <2>6, Leaves DEF Attempts
<1> QED
  BY <1>2, <1>3

\* An outage ends the calm, and changes nothing of what holds without it.
LEMMA OutageKeeps ==
    ASSUME NEW j \in Jobs, TypeOK, TurnInv(j), NEW w \in Workers,
           HeartbeatLost(w) \/ RecordFailureRaises(w)
    PROVE  TurnInv(j)'
<1>1. /\ UNCHANGED <<jobVars, published, moneyVars, op>> /\ outages' = outages + 1
      /\ \A v \in Workers : task'[v] = j => task[v] = j /\ given'[v] = given[v]
  BY ConstantsAssumption DEF HeartbeatLost, RecordFailureRaises, TypeOK
<1>2. Chained(j)' /\ SavedPaid(j)'
  BY <1>1, SameReceipts DEF TurnInv, Chained, SavedPaid
<1>3. ~Calm(j)'
  BY <1>1 DEF Calm, TypeOK
<1> QED
  BY <1>2, <1>3 DEF TurnInv

\* A reconcile request reads a turn that has failed as unknown: it was not cancelled,
\* so it has receipts to present and always will.
LEMMA LookupKeeps ==
    ASSUME NEW j \in Jobs, TypeOK, TurnInv(j), CancelInv,
           NEW h \in Hosts, NEW i \in Jobs, ReconcileStart(h, i)
    PROVE  TurnInv(j)'
<1> USE SameReceipts
<1>1. /\ RowSame(j) /\ outages' = outages /\ \A v \in Workers : WorkerSame(v)
      /\ status[i] = "failed" /\ errorCode[i] = "operation_result_unknown"
      /\ \A g \in Hosts : seen'[g] = seen[g] \/ seen'[g].job = i
  BY DEF ReconcileStart, RowSame, WorkerSame, TypeOK
<1>2. Chained(j)' /\ SavedPaid(j)'
  BY <1>1 DEF TurnInv, Chained, SavedPaid, RowSame, WorkerSame
<1>3. ASSUME Calm(j)' PROVE Attempts(j)'
  <2>1. Attempts(j)
    BY <1>1, <1>3 DEF Calm, TurnInv, RowSame
  <2>2. (Beyond(j) <=> Beyond(j)') /\ (Marked(j) <=> Marked(j)')
    BY <1>1 DEF Beyond, Ahead, Marked, RowSame, WorkerSame
  <2>3. Unfinished(j)' /\ Lasting(j)'
    BY <1>1, <2>1, <2>2 DEF Attempts, Unfinished, Lasting, Unspent, RowSame
  <2>4. ASSUME NEW v \in Workers, task'[v] = j
        PROVE  Sole(v, j)' /\ Alone(v, j)' /\ Spent(v, j)' /\ HeldPaid(v, j)'
    <3>1. /\ Sole(v, j) /\ Alone(v, j) /\ Spent(v, j) /\ HeldPaid(v, j)
          /\ task[v] = j /\ WorkerSame(v)
      BY <1>1, <2>1, <2>4 DEF Attempts, WorkerSame
    <3> QED
      BY <1>1, <3>1 DEF Sole, Alone, Spent, HeldPaid, Unspent, Ahead, RowSame, WorkerSame
  <2>5. j = i => Answered(j)
    <3> SUFFICES ASSUME j = i PROVE Answered(j)
      OBVIOUS
    <3>1. ~cancelRequested[j] /\ Marked(j)
      BY <1>1 DEF CancelInv, Marked
    <3>2. ~Unspent(j) /\ Beyond(j)
      BY <2>1, <3>1 DEF Attempts, Unfinished
    <3> QED
      BY <2>1, <3>1, <3>2 DEF Attempts, Spent, Answered
  <2>6. Answered(j) => Answered(j)'
    BY <1>1, <2>2 DEF Answered, Unspent, RowSame, WorkerSame
  <2>7. Kept(j)'
    BY <1>1, <2>1, <2>5, <2>6 DEF Attempts, Kept, RowSame
  <2> QED
    BY <1>1, <2>1, <2>3, <2>4, <2>7 DEF Attempts, RowSame
<1> QED
  BY <1>2, <1>3 DEF TurnInv

\* Its commit, however late, finds that turn with receipts to present: whatever has
\* become of it, nobody asks the Agent again.
LEMMA ReconcileKeeps ==
    ASSUME NEW j \in Jobs, TypeOK, Looking, TurnInv(j),
           NEW h \in Hosts, NEW F \in SUBSET Calls, ReconcileFinish(h, F)
    PROVE  TurnInv(j)'
<1> DEFINE i == seen[h].job
<1>1. /\ UNCHANGED <<owner, fresh, cancelRequested, handoff, published, hold, provider, partial,
                     outages>>
      /\ \A v \in Workers : WorkerSame(v)
      /\ seen[h] # NoReading /\ seen' = [seen EXCEPT ![h] = NoReading]
      /\ op' = [op EXCEPT ![i] = [c \in Calls |-> IF c \in F THEN "returned" ELSE @[c]]]
      /\ \/ UNCHANGED <<status, agentResult, errorCode>>
         \/ /\ status' = [status EXCEPT ![i] = "queued"]
            /\ agentResult' = [agentResult EXCEPT ![i] = NoResult]
            /\ errorCode' = [errorCode EXCEPT ![i] = "none"]
  BY DEF ReconcileFinish, WorkerSame
<1>2. \A g \in Hosts : seen'[g] # NoReading => seen'[g] = seen[g]
  BY <1>1 DEF TypeOK
<1>3. /\ Rows(j) \subseteq Rows(j)' /\ Returned(j) \subseteq Returned(j)'
  BY <1>1 DEF Rows, Returned, TypeOK
<1>4. \/ status'[j] = status[j] /\ agentResult'[j] = agentResult[j] /\ errorCode'[j] = errorCode[j]
      \/ j = i /\ status'[j] = "queued" /\ agentResult'[j] = NoResult /\ errorCode'[j] = "none"
  BY <1>1 DEF TypeOK
<1>5. Chained(j)' /\ SavedPaid(j)'
  BY <1>1, <1>3, <1>4 DEF TurnInv, Chained, SavedPaid, WorkerSame, NoResult
<1>6. ASSUME Calm(j)' PROVE Attempts(j)'
  <2>1. Attempts(j)
    BY <1>1, <1>6 DEF Calm, TurnInv
  <2>2. Beyond(j) => Beyond(j)'
    BY <1>1, <1>3 DEF Beyond, Ahead, WorkerSame
  <2>3. Marked(j)' => Marked(j)
    BY <1>1, <1>4 DEF Marked, WorkerSame
  <2>4. Answered(j) => Answered(j)'
    BY <1>1, <2>2 DEF Answered, Unspent, WorkerSame
  <2>5. j = i => Answered(j)
    BY <1>1, <2>1 DEF Attempts, Kept
  <2>6. Unfinished(j)' /\ Lasting(j)'
    BY <1>1, <1>4, <2>1, <2>2, <2>3, <2>5 DEF Attempts, Unfinished, Lasting, Unspent, Answered
  <2>7. ASSUME NEW v \in Workers, task'[v] = j
        PROVE  Sole(v, j)' /\ Alone(v, j)' /\ Spent(v, j)' /\ HeldPaid(v, j)'
    <3>1. /\ Sole(v, j) /\ Alone(v, j) /\ Spent(v, j) /\ HeldPaid(v, j)
          /\ task[v] = j /\ WorkerSame(v)
      BY <1>1, <2>1, <2>7 DEF Attempts, WorkerSame
    <3> QED
      BY <1>1, <1>3, <1>4, <2>5, <3>1
      DEF Sole, Alone, Spent, HeldPaid, Unspent, Ahead, Answered, WorkerSame
  <2>8. Kept(j)'
    BY <1>1, <1>2, <1>4, <2>1, <2>4, <2>5 DEF Attempts, Kept
  <2> QED
    BY <1>1, <2>1, <2>6, <2>7, <2>8 DEF Attempts
<1> QED
  BY <1>5, <1>6 DEF TurnInv

\* One executor at a time, for every turn, if no replica stalls past its leases.
LEMMA TurnCorrect == ASSUME ~Stalls PROVE Spec => [](\A j \in Jobs : TurnInv(j))
<1> DEFINE AllTurns == \A j \in Jobs : TurnInv(j)
<1>1. Init => AllTurns
  <2> SUFFICES ASSUME Init, NEW j \in Jobs PROVE TurnInv(j)
    OBVIOUS
  <2>1. /\ ~cancelRequested[j] /\ agentResult[j] = NoResult /\ handoff[j] = NoChain
        /\ errorCode[j] = "none" /\ published[j] = {} /\ hold[j] = "none"
        /\ \A w \in Workers : task[w] # j
        /\ \A h \in Hosts : seen[h] = NoReading
    BY ConstantsAssumption DEF Init
  <2>2. Chained(j) /\ SavedPaid(j)
    BY <2>1 DEF Chained, SavedPaid, NoChain, NoResult
  <2>3. Attempts(j)
    BY <2>1 DEF Attempts, Unfinished, Lasting, Kept, Marked, Unspent
  <2> QED
    BY <2>2, <2>3 DEF TurnInv
<1>2. /\ TypeOK /\ Busy /\ Looking /\ Locals /\ CancelInv /\ ChargeMatchesConsumption /\ Paid
      /\ AllTurns /\ [Next]_vars
      => AllTurns'
  <2> SUFFICES ASSUME TypeOK, Busy, Looking, Locals, CancelInv, ChargeMatchesConsumption, Paid, AllTurns,
                      [Next]_vars, NEW j \in Jobs
               PROVE  TurnInv(j)'
    OBVIOUS
  <2>1. TurnInv(j)
    OBVIOUS
  <2> HIDE DEF AllTurns
  <2>2. ASSUME RowSame(j), outages' = outages, seen' = seen, \A v \in Workers : WorkerSame(v)
        PROVE  TurnInv(j)'
    BY <2>1, <2>2, Untouched
  <2>3. ASSUME NEW w \in Workers, Poll(w) PROVE TurnInv(j)'
    BY <2>1, <2>3, RecoveryKeeps, ClaimKeeps DEF Poll
  <2>4. ASSUME NEW w \in Workers, Agent(w) PROVE TurnInv(j)'
    <3>1. ASSUME NEW k \in {"reply", "malformed", "handoff"}, NEW n \in 0..MaxTokens,
                 AgentReturns(w, k, n)
          PROVE  TurnInv(j)'
      <4>1. /\ RowSame(j) /\ UNCHANGED <<task, beat, given, unknown, outages, seen>>
            /\ pc[w] \in Seeking
            /\ Goto(w, IF k = "handoff" THEN "handoff" ELSE "persist")
            /\ \A v \in Workers \ {w} : held'[v] = held[v]
        BY <3>1 DEF AgentReturns, RowSame, Seeking, TypeOK
      <4>2. Goto(w, "handoff") \/ Goto(w, "persist")
        BY <4>1
      <4> QED
        BY <2>1, <4>1, <4>2, SeekKeeps DEF Seeking
    <3> QED
      BY <2>1, <2>4, <3>1, AgentFailKeeps DEF Agent
  <2>5. ASSUME NEW w \in Workers, SelectTools(w) \/ CallAgent(w) PROVE TurnInv(j)'
    <3>1. /\ RowSame(j) /\ UNCHANGED <<task, beat, given, held, unknown, outages, seen>>
          /\ pc[w] \in Seeking
          /\ Goto(w, "call") \/ Goto(w, "waiting") \/ Raise(w, "final")
      BY <2>5 DEF SelectTools, CallAgent, RowSame, Seeking
    <3>2. CASE Raise(w, "final")
      BY <2>1, <3>1, <3>2, RaiseKeeps DEF Failure
    <3>3. CASE Goto(w, "call") \/ Goto(w, "waiting")
      BY <2>1, <3>1, <3>3, SeekKeeps DEF Seeking
    <3> QED
      BY <3>1, <3>2, <3>3
  <2>6. ASSUME NEW w \in Workers, NEW f \in {"retryable", "final"}, Fails(w, f) PROVE TurnInv(j)'
    <3>1. RowSame(j) /\ UNCHANGED <<task, beat, given, held, unknown, outages, seen>> /\ Raise(w, f)
      BY <2>6 DEF Fails, RowSame
    <3> QED
      BY <2>1, <3>1, RaiseKeeps DEF Failure
  <2>7. ASSUME NEW w \in Workers, Work(w) PROVE TurnInv(j)'
    BY <2>1, <2>5, <2>6, <2>7, LoadKeeps, PrepareKeeps, RefusalKeeps, ResumeKeeps, HandoffKeeps,
       PersistKeeps, CheckKeeps, ProjectKeeps, SettleKeeps, RecordKeeps
    DEF Work
  <2>8. ASSUME NEW i \in Jobs, AgentStops(i) PROVE TurnInv(j)'
    BY <2>2, <2>8 DEF AgentStops, RowSame, WorkerSame
  <2>9. ASSUME UNCHANGED vars PROVE TurnInv(j)'
    BY <2>2, <2>9 DEF vars, RowSame, WorkerSame
  <2> QED
    BY <2>1, <2>3, <2>4, <2>7, <2>8, <2>9, RequestKeeps, LapseKeeps, CrashKeeps, ReceiptKeeps,
       BeatKeeps, OutageKeeps, LookupKeeps, ReconcileKeeps
    DEF Next
<1> QED
  BY <1>1, <1>2, TypeCorrect, LocalsCorrect, CancelCorrect, ChargeCorrect, PaidCorrect, PTL DEF Spec

\* The reply players read is the one the player was charged for, retries, cancels,
\* crashes and late workers included, while the database answers and no failed
\* attempt was charged: until its hold is closed a turn has one executor, and one
\* that starts later finds its result saved or receipts to present.
THEOREM ShownIsCharged ==
    ASSUME ~Stalls PROVE Spec => []ShownReplyIsTheChargedOne
<1>1. (\A j \in Jobs : TurnInv(j)) => ShownReplyIsTheChargedOne
  BY DEF TurnInv, Calm, Attempts, ShownReplyIsTheChargedOne
<1> QED
  BY <1>1, TurnCorrect, PTL

\* Nor is the model called for a turn whose result is saved: whoever calls it is the
\* turn's only executor, and would have saved it itself.
THEOREM NoRecall ==
    ASSUME ~Stalls PROVE Spec => NoCallAfterSavedResult
<1>1. /\ TypeOK /\ Busy /\ (\A j \in Jobs : TurnInv(j))
      => (outages = 0 => \A w \in Workers : Recalls(w) => partial[task[w]])
  <2> SUFFICES ASSUME TypeOK, Busy, \A j \in Jobs : TurnInv(j), outages = 0,
                      NEW w \in Workers, Recalls(w), ~partial[task[w]]
               PROVE  FALSE
    OBVIOUS
  <2>1. pc[w] = "call" /\ task[w] \in Jobs /\ agentResult[task[w]] # NoResult
    BY DEF Recalls, Busy
  <2>2. Alone(w, task[w])
    BY <2>1 DEF TurnInv, Calm, Attempts
  <2> QED
    BY <2>1, <2>2 DEF Alone, Seeking
<1> QED
  BY <1>1, TypeCorrect, TurnCorrect, PTL DEF NoCallAfterSavedResult
=============================================================================
