---------------------------- MODULE RoomTurnJobs ----------------------------
(***************************************************************************)
(* The durable room-turn queue of SagaSmith Web: the RoomTurnJob row, the  *)
(* processors that lease it (room_jobs.py), the staged executor that calls *)
(* the Agent, saves its result and publishes it (api/rooms.py), the quota  *)
(* hold each turn owns (quota.py) and the RoomOperation receipts of the    *)
(* tool calls the Agent makes (room_operations.py).                        *)
(*                                                                         *)
(* One action is one database transaction of the code, or one await whose  *)
(* outcome the executor goes on to use.  A worker task is a program        *)
(* counter pc[w]; what it read in one transaction and uses in a later one  *)
(* is kept in its local variables given, held and unknown.                 *)
(***************************************************************************)
EXTENDS Integers, FiniteSets

CONSTANTS
    Jobs,          \* room turns, one per accepted player action
    Rooms, RoomOf, \* the campaign room each turn belongs to
    Processes,     \* Web replicas, each with one worker_id
    Workers, ProcessOf, \* worker tasks and the replica each runs in
    Calls,         \* identities of the tool calls an Agent makes in one turn
    Hosts,         \* reconcile requests a campaign host may have in flight
    Nobody, Departed, NoJob, \* no lease owner; a crashed incarnation; no task
    MaxAttempts,   \* room_turn_worker_max_attempts
    PerRoom,       \* room_turn_per_room_concurrency
    MaxHandoffs,   \* six in the code
    Reserved,      \* agent_reservation_tokens
    MaxTokens,     \* bound: tokens one turn may consume at the provider
    MaxCrashes,    \* bound: replica crashes or shutdowns
    MaxOutages,    \* bound: database outages that outlast eight retries
    Stalls         \* may a lease lapse although its heartbeat is running?

ASSUME ConstantsAssumption ==
    /\ RoomOf \in [Jobs -> Rooms]
    /\ ProcessOf \in [Workers -> Processes]
    /\ {Nobody, Departed} \cap Processes = {} /\ Nobody # Departed
    /\ NoJob \notin Jobs
    /\ MaxAttempts \in Nat \ {0} /\ PerRoom \in Nat \ {0}
    /\ MaxHandoffs \in Nat /\ Reserved \in Nat \ {0} /\ MaxTokens \in Nat
    /\ MaxCrashes \in Nat /\ MaxOutages \in Nat /\ Stalls \in BOOLEAN

VARIABLES
    \* the RoomTurnJob row
    status, attempt, maxAttempts, owner, fresh, cancelRequested,
    agentResult, handoff, selected, errorCode,
    \* an observation of the model: a reconcile request has queued the turn again
    \* although the turn had been claimed since that request read it
    revived,
    \* rows tied to the turn: trigger message, presentations, quota hold,
    \* provider consumption, usage ledger (partial: its row says that an attempt
    \* that failed was charged), operation receipts
    trigger, published, hold, provider, charge, partial, op,
    \* Agents that outlive the call that started them
    orphan,
    \* worker tasks
    pc, task, beat, given, held, unknown, failure,
    \* reconcile requests between their read and their commit
    seen,
    crashes, outages

leaseVars   == <<owner, fresh>>
budgetVars  == <<attempt, maxAttempts, revived>>
resultVars  == <<agentResult, handoff, selected>>
moneyVars   == <<hold, provider, charge, partial>>
screenVars  == <<trigger, published>>
localVars   == <<given, held, unknown>>
workerVars  == <<pc, task, beat, given, held, unknown, failure>>
boundVars   == <<crashes, outages>>
jobVars     == <<status, budgetVars, leaseVars, cancelRequested, resultVars, errorCode>>
vars == <<jobVars, screenVars, moneyVars, op, orphan, workerVars, seen, boundVars>>

-----------------------------------------------------------------------------
Terminal == {"succeeded", "failed", "cancelled"}
Active   == {"running", "waiting"}
Status   == {"absent", "queued"} \cup Active \cup Terminal
Owner    == Processes \cup {Nobody, Departed}
HoldState == {"none", "reserved", "settled", "released", "expired"}
TriggerState == {"absent", "processing", "completed", "failed", "cancelled"}
OpState  == {"absent", "dispatched", "returned"}
Label    == {"idle", "dead", "load", "prepare", "resume", "select", "call", "waiting",
             "handoff", "persist", "check", "project", "settle", "raise"}
\* No provider record, no ledger row, no usage with an error: a row that says zero
\* (a reply without usage data) is not the same.
Unbilled == -1
Failure  == {"none", "retryable", "final", "unknown"}

\* What an executor holds as the turn's result.  tokens is the usage of a
\* reply; a recovered presentation lists the calls it shows and those it
\* calls unknown, which is what its fingerprint is computed from.
Result == [kind : {"none", "reply", "malformed", "handoff", "recovered"},
           tokens : 0..MaxTokens, known : SUBSET Calls, open : SUBSET Calls]
NoResult == [kind |-> "none", tokens |-> 0, known |-> {}, open |-> {}]
Answer(k, n) == [kind |-> k, tokens |-> n, known |-> {}, open |-> {}]

\* The continuation a job may carry: task handoffs granted, and the calls their
\* receipts already account for (handoff_count, continued_operation_ids).
Chain == [count : Nat, calls : SUBSET Calls]
NoChain == [count |-> 0, calls |-> {}]

\* What a reconcile request read of the job before awaiting the receipt lookups.
Reading == [job : Jobs \cup {NoJob}, attempt : Nat, maxAttempts : Nat, calls : SUBSET Calls]
NoReading == [job |-> NoJob, attempt |-> 0, maxAttempts |-> 0, calls |-> {}]

Rows(j)     == {c \in Calls : op[j][c] # "absent"}
Returned(j) == {c \in Calls : op[j][c] = "returned"}
Open(j)     == {c \in Calls : op[j][c] = "dispatched"}

AtMost(a, b)  == IF a < b THEN a ELSE b
AtLeast(a, b) == IF a > b THEN a ELSE b
Resting(j)    == IF agentResult[j] = NoResult THEN "queued" ELSE "waiting"

\* quota.release; the slip forgets that only an open hold can be given back.
ReleasedUnchecked(j) == "released"
Released(j) == IF hold[j] = "reserved" THEN "released" ELSE hold[j]

Init ==
    /\ status = [j \in Jobs |-> "absent"]
    /\ attempt = [j \in Jobs |-> 0] /\ maxAttempts = [j \in Jobs |-> MaxAttempts]
    /\ revived = [j \in Jobs |-> FALSE]
    /\ owner = [j \in Jobs |-> Nobody] /\ fresh = [j \in Jobs |-> FALSE]
    /\ cancelRequested = [j \in Jobs |-> FALSE]
    /\ agentResult = [j \in Jobs |-> NoResult]
    /\ handoff = [j \in Jobs |-> NoChain] /\ selected = [j \in Jobs |-> FALSE]
    /\ errorCode = [j \in Jobs |-> "none"]
    /\ trigger = [j \in Jobs |-> "absent"] /\ published = [j \in Jobs |-> {}]
    /\ hold = [j \in Jobs |-> "none"]
    /\ provider = [j \in Jobs |-> Unbilled] /\ charge = [j \in Jobs |-> Unbilled]
    /\ partial = [j \in Jobs |-> FALSE]
    /\ op = [j \in Jobs |-> [c \in Calls |-> "absent"]]
    /\ orphan = [j \in Jobs |-> FALSE]
    /\ pc = [w \in Workers |-> "idle"] /\ task = [w \in Workers |-> NoJob]
    /\ beat = [w \in Workers |-> "off"]
    /\ given = [w \in Workers |-> NoChain] /\ held = [w \in Workers |-> NoResult]
    /\ unknown = [w \in Workers |-> FALSE] /\ failure = [w \in Workers |-> "none"]
    /\ seen = [h \in Hosts |-> NoReading]
    /\ crashes = 0 /\ outages = 0

-----------------------------------------------------------------------------
(* Player and host requests.                                               *)

\* _prepare_message_transaction: the trigger message and its job are one commit.
SubmitAction(j) ==
    /\ status[j] = "absent"
    /\ status' = [status EXCEPT ![j] = "queued"]
    /\ trigger' = [trigger EXCEPT ![j] = "processing"]
    /\ UNCHANGED <<budgetVars, leaseVars, cancelRequested, resultVars, errorCode,
                   published, moneyVars, op, orphan, workerVars, seen, boundVars>>

\* cancel_room_turn_job: an unleased turn ends here; a running one is only flagged.
Cancel(j) ==
    /\ status[j] \in Status \ (Terminal \cup {"absent"})
    /\ ~cancelRequested[j]
    /\ cancelRequested' = [cancelRequested EXCEPT ![j] = TRUE]
    /\ IF status[j] \in {"queued", "waiting"}
       THEN /\ status' = [status EXCEPT ![j] = "cancelled"]
            /\ errorCode' = [errorCode EXCEPT ![j] = "none"]
            /\ owner' = [owner EXCEPT ![j] = Nobody]
            /\ fresh' = [fresh EXCEPT ![j] = FALSE]
            /\ hold' = [hold EXCEPT ![j] = Released(j)]
            /\ trigger' = [trigger EXCEPT ![j] = "cancelled"]
       ELSE UNCHANGED <<status, errorCode, leaseVars, hold, trigger>>
    /\ UNCHANGED <<budgetVars, resultVars, published, provider, charge, partial, op,
                   orphan, workerVars, seen, boundVars>>

-----------------------------------------------------------------------------
(* The processor: recovery, claim, lease and failure records.              *)

\* A lease is owned and past lease_expires_at; a row without a lease has a
\* NULL expiry and never matches.
LapsedAnyLease == {j \in Jobs : status[j] \in Active /\ owner[j] # Nobody}
LapsedWaiting == {j \in Jobs : status[j] = "waiting" /\ owner[j] # Nobody /\ ~fresh[j]}
Lapsed == {j \in Jobs : status[j] \in Active /\ owner[j] # Nobody /\ ~fresh[j]}

\* A reservation past its TTL whose turn is over (expire_abandoned skips the
\* reservations an active job still names).
Abandoned == {j \in Jobs : hold[j] = "reserved" /\ status[j] \in Terminal}

RecoveredOverBudget(j) ==
    IF cancelRequested[j] THEN "cancelled"
    ELSE IF attempt[j] > maxAttempts[j] THEN "failed"
    ELSE Resting(j)
RecoveredStatus(j) ==
    IF cancelRequested[j] THEN "cancelled"
    ELSE IF attempt[j] >= maxAttempts[j] THEN "failed"
    ELSE Resting(j)

\* recover_expired: every lapsed row, and the reservations whose TTL ran out,
\* in one transaction at the head of a worker's poll.
RecoverExpired(w, expired) ==
    /\ pc[w] = "idle"
    /\ Lapsed \cup expired # {}
    /\ LET over == {j \in Lapsed : RecoveredStatus(j) \in Terminal} IN
       /\ status' = [j \in Jobs |-> IF j \in Lapsed THEN RecoveredStatus(j) ELSE status[j]]
       /\ errorCode' = [j \in Jobs |-> IF j \in over /\ ~cancelRequested[j]
                                       THEN "none" ELSE errorCode[j]]
       /\ trigger' = [j \in Jobs |-> IF j \in over THEN RecoveredStatus(j) ELSE trigger[j]]
       /\ hold' = [j \in Jobs |-> IF j \in over THEN Released(j)
                                  ELSE IF j \in expired THEN "expired" ELSE hold[j]]
    /\ owner' = [j \in Jobs |-> IF j \in Lapsed THEN Nobody ELSE owner[j]]
    /\ fresh' = [j \in Jobs |-> fresh[j] /\ j \notin Lapsed]
    /\ UNCHANGED <<budgetVars, cancelRequested, resultVars, published, provider, charge, partial,
                   op, orphan, workerVars, seen, boundVars>>

LeasedIn(r) == {j \in Jobs : RoomOf[j] = r /\ status[j] \in Active
                             /\ owner[j] # Nobody /\ fresh[j]}

ClaimableOneTooMany(j) ==
    /\ status[j] \in {"queued", "waiting"}
    /\ owner[j] = Nobody
    /\ Cardinality(LeasedIn(RoomOf[j])) <= PerRoom
ClaimableOnce(j) ==
    /\ status[j] \in {"queued", "waiting"} /\ attempt[j] = 0
    /\ owner[j] = Nobody
    /\ Cardinality(LeasedIn(RoomOf[j])) < PerRoom
Claimable(j) ==
    /\ status[j] \in {"queued", "waiting"}
    /\ owner[j] = Nobody
    /\ Cardinality(LeasedIn(RoomOf[j])) < PerRoom

\* claim: the count and the conditional update are one transaction under the
\* room row's lock.  Retry backoff (available_at) is left out: any row may be due.
Claim(w, j) ==
    /\ pc[w] = "idle"
    /\ Claimable(j)
    /\ status' = [status EXCEPT ![j] = "running"]
    /\ attempt' = [attempt EXCEPT ![j] = @ + 1]
    /\ owner' = [owner EXCEPT ![j] = ProcessOf[w]]
    /\ fresh' = [fresh EXCEPT ![j] = TRUE]
    /\ pc' = [pc EXCEPT ![w] = "load"]
    /\ task' = [task EXCEPT ![w] = j]
    /\ beat' = [beat EXCEPT ![w] = "on"]
    /\ UNCHANGED <<maxAttempts, revived, cancelRequested, resultVars, errorCode, screenVars,
                   moneyVars, op, orphan, localVars, failure, seen, boundVars>>

\* heartbeat: renews the lease and the hold.  A hold that is no longer
\* "reserved" (it was settled) rolls back and ends the loop, as does a cancel.
Heartbeat(w) ==
    /\ beat[w] = "on"
    /\ LET j == task[w]
           renews == /\ owner[j] = ProcessOf[w] /\ status[j] \in Active
                     /\ hold[j] \in {"none", "reserved"}
       IN /\ fresh' = [fresh EXCEPT ![j] = @ \/ renews]
          /\ beat' = [beat EXCEPT ![w] = IF renews /\ ~cancelRequested[j]
                                         THEN "on" ELSE "off"]
    /\ UNCHANGED <<status, budgetVars, owner, cancelRequested, resultVars, errorCode,
                   screenVars, moneyVars, op, orphan, pc, task, localVars, failure,
                   seen, boundVars>>

\* _database_retry gives up after eight OperationalErrors and the heartbeat
\* task ends with that error, which _process re-raises when it joins it.
HeartbeatLost(w) ==
    /\ outages < MaxOutages
    /\ beat[w] = "on"
    /\ beat' = [beat EXCEPT ![w] = "lost"]
    /\ outages' = outages + 1
    /\ UNCHANGED <<jobVars, screenVars, moneyVars, op, orphan, pc, task, localVars,
                   failure, seen, crashes>>

\* Phases in which the executor awaits the Agent or the rules engine, for
\* longer than a lease perhaps; every other phase is one local transaction.
Awaits == {"select", "waiting", "handoff", "project"}

KeepsLease(w, j) ==
    task[w] = j /\ ProcessOf[w] = owner[j] /\ (beat[w] = "on" \/ pc[w] \notin Awaits)

\* The clock passes lease_expires_at.  The heartbeat period is a third of the
\* lease, so unless the replica stalls this takes an await without a heartbeat.
LeaseLapses(j) ==
    /\ owner[j] # Nobody /\ fresh[j]
    /\ Stalls \/ \A w \in Workers : ~KeepsLease(w, j)
    /\ fresh' = [fresh EXCEPT ![j] = FALSE]
    /\ UNCHANGED <<status, budgetVars, owner, cancelRequested, resultVars, errorCode,
                   screenVars, moneyVars, op, orphan, workerVars, seen, boundVars>>

\* The end of _process: the heartbeat is joined, its error ends the task.
EndProcess(w) ==
    /\ pc' = [pc EXCEPT ![w] = IF beat[w] = "lost" THEN "dead" ELSE "idle"]
    /\ task' = [task EXCEPT ![w] = NoJob]
    /\ beat' = [beat EXCEPT ![w] = "off"]
    /\ given' = [given EXCEPT ![w] = NoChain]
    /\ held' = [held EXCEPT ![w] = NoResult]
    /\ unknown' = [unknown EXCEPT ![w] = FALSE]
    /\ failure' = [failure EXCEPT ![w] = "none"]

FailedStaysRunning(j, f) ==
    IF cancelRequested[j] THEN "cancelled"
    ELSE IF f = "retryable" /\ attempt[j] < maxAttempts[j] THEN Resting(j)
    ELSE IF f = "unknown" THEN "running"
    ELSE "failed"
FailedStatus(j, f) ==
    IF cancelRequested[j] THEN "cancelled"
    ELSE IF f = "retryable" /\ attempt[j] < maxAttempts[j] THEN Resting(j)
    ELSE "failed"

\* _record_failure reads the row afresh but asks neither who owns its lease
\* nor which attempt failed.
RecordFailure(w) ==
    /\ pc[w] = "raise"
    /\ LET j == task[w]
           next == FailedStatus(j, failure[w])
       IN IF status[j] \in Terminal
          THEN UNCHANGED <<status, errorCode, leaseVars, trigger, hold>>
          ELSE /\ status' = [status EXCEPT ![j] = next]
               /\ errorCode' = [errorCode EXCEPT ![j] =
                    IF failure[w] = "unknown" THEN "operation_result_unknown" ELSE "none"]
               /\ owner' = [owner EXCEPT ![j] = Nobody]
               /\ fresh' = [fresh EXCEPT ![j] = FALSE]
               /\ trigger' = [trigger EXCEPT ![j] = IF next \in Terminal THEN next ELSE @]
               /\ hold' = [hold EXCEPT ![j] = IF next \in Terminal THEN Released(j) ELSE @]
    /\ EndProcess(w)
    /\ UNCHANGED <<budgetVars, cancelRequested, resultVars, published, provider, charge, partial,
                   op, orphan, seen, boundVars>>

\* The record itself fails: the error leaves _process and ends the worker task.
RecordFailureRaises(w) ==
    /\ outages < MaxOutages
    /\ pc[w] = "raise"
    /\ outages' = outages + 1
    /\ pc' = [pc EXCEPT ![w] = "dead"]
    /\ task' = [task EXCEPT ![w] = NoJob]
    /\ beat' = [beat EXCEPT ![w] = "off"]
    /\ given' = [given EXCEPT ![w] = NoChain]
    /\ held' = [held EXCEPT ![w] = NoResult]
    /\ unknown' = [unknown EXCEPT ![w] = FALSE]
    /\ failure' = [failure EXCEPT ![w] = "none"]
    /\ UNCHANGED <<jobVars, screenVars, moneyVars, op, orphan, seen, crashes>>

\* A replica dies or is shut down (close cancels its tasks without recording a
\* failure) and starts again under a new worker_id.
Crash(p) ==
    /\ crashes < MaxCrashes
    /\ crashes' = crashes + 1
    /\ LET mine == {w \in Workers : ProcessOf[w] = p} IN
       /\ orphan' = [j \in Jobs |-> orphan[j] \/ \E w \in mine : task[w] = j /\ pc[w] = "waiting"]
       /\ pc' = [w \in Workers |-> IF w \in mine THEN "idle" ELSE pc[w]]
       /\ task' = [w \in Workers |-> IF w \in mine THEN NoJob ELSE task[w]]
       /\ beat' = [w \in Workers |-> IF w \in mine THEN "off" ELSE beat[w]]
       /\ given' = [w \in Workers |-> IF w \in mine THEN NoChain ELSE given[w]]
       /\ held' = [w \in Workers |-> IF w \in mine THEN NoResult ELSE held[w]]
       /\ unknown' = [w \in Workers |-> unknown[w] /\ w \notin mine]
       /\ failure' = [w \in Workers |-> IF w \in mine THEN "none" ELSE failure[w]]
    /\ owner' = [j \in Jobs |-> IF owner[j] = p THEN Departed ELSE owner[j]]
    /\ UNCHANGED <<status, budgetVars, fresh, cancelRequested, resultVars, errorCode,
                   screenVars, moneyVars, op, seen, outages>>

-----------------------------------------------------------------------------
(* The executor: execute_room_turn_job, one action per durable phase.      *)

Goto(w, label) == pc' = [pc EXCEPT ![w] = label] /\ UNCHANGED failure
Raise(w, f)    == pc' = [pc EXCEPT ![w] = "raise"] /\ failure' = [failure EXCEPT ![w] = f]

\* Errors that leave a phase before it changes anything: a database error, an
\* unavailable upstream, a lost membership (all retried), or a refusal that is
\* final (an unusable receipt chain, a denied tool policy, a changed revision).
Fails(w, f) ==
    /\ \/ f = "retryable" /\ pc[w] \in {"load", "prepare", "resume", "select", "handoff",
                                        "persist", "check", "project", "settle"}
       \/ f = "final" /\ pc[w] \in {"load", "prepare", "resume", "select", "handoff",
                                    "check", "project"}
    /\ Raise(w, f)
    /\ UNCHANGED <<jobVars, screenVars, moneyVars, op, orphan, task, beat, localVars,
                   seen, boundVars>>

\* _load_room_job_execution reads the row without a lock; the saved result and
\* the continuation read here are what this attempt goes by.
Load(w) ==
    /\ pc[w] = "load"
    /\ LET j == task[w] IN
       IF status[j] \in Terminal \/ cancelRequested[j]
       THEN Raise(w, "final") /\ UNCHANGED <<given, held>>
       ELSE /\ Goto(w, "prepare")
            /\ given' = [given EXCEPT ![w] = handoff[j]]
            /\ held' = [held EXCEPT ![w] = agentResult[j]]
    /\ UNCHANGED <<jobVars, screenVars, moneyVars, op, orphan, task, beat, unknown,
                   seen, boundVars>>

\* Only an attempt that found no saved result needs the Agent.
AlwaysNeedsAgent(w) == TRUE
NeedsAgent(w) == held[w] = NoResult

\* reserve is idempotent by key; the first time it reads the balance, which reaps
\* abandoned reservations in the same transaction.
Reaps(w, expired) == hold[task[w]] = "none" \/ expired = {}

\* _prepare_agent_transaction commits the hold and writes back the continuation
\* it read.
Prepare(w, expired) ==
    /\ pc[w] = "prepare"
    /\ Reaps(w, expired)
    /\ LET j == task[w] IN
       /\ hold' = [i \in Jobs |-> IF i = j /\ hold[i] = "none" THEN "reserved"
                                 ELSE IF i \in expired THEN "expired" ELSE hold[i]]
       /\ handoff' = [handoff EXCEPT ![j] = given[w]]
    /\ Goto(w, IF NeedsAgent(w) THEN "resume" ELSE "check")
    /\ UNCHANGED <<status, budgetVars, leaseVars, cancelRequested, agentResult, selected,
                   errorCode, screenVars, provider, charge, partial, op, orphan, task, beat,
                   localVars, seen, boundVars>>

\* quota_exceeded (there is no hold yet) and host_identity_unavailable commit a
\* failed trigger message before they raise.
PrepareRefused(w, expired) ==
    /\ pc[w] = "prepare"
    /\ Reaps(w, expired)
    /\ hold' = [i \in Jobs |-> IF i \in expired THEN "expired" ELSE hold[i]]
    /\ trigger' = [trigger EXCEPT ![task[w]] = "failed"]
    /\ Raise(w, "final")
    /\ UNCHANGED <<jobVars, published, provider, charge, partial, op, orphan, task, beat, localVars,
                   seen, boundVars>>

Recovered(j) == [kind |-> "recovered", tokens |-> 0, known |-> Returned(j), open |-> Open(j)]

\* recover_operations declines when there is no receipt, or when every receipt
\* was already handed to a continuation.
NothingToRecover(j, chain) ==
    \/ Rows(j) = {}
    \/ chain.calls # {} /\ Rows(j) \subseteq chain.calls /\ Open(j) = {}

\* A retry that finds receipts presents them instead of running the model again:
\* _persist_agent_result, through the job object Load read, saves the recovered
\* presentation and releases the hold without a charge.
ResumeOperations(w) ==
    /\ pc[w] = "resume"
    /\ LET j == task[w] IN
       IF NothingToRecover(j, given[w])
       THEN Goto(w, "select") /\ UNCHANGED <<held, agentResult, hold>>
       ELSE /\ Goto(w, "check")
            /\ held' = [held EXCEPT ![w] = Recovered(j)]
            /\ agentResult' = [agentResult EXCEPT ![j] = Recovered(j)]
            /\ hold' = [hold EXCEPT ![j] = Released(j)]
    /\ UNCHANGED <<status, budgetVars, leaseVars, cancelRequested, handoff, selected,
                   errorCode, screenVars, provider, charge, partial, op, orphan, task, beat, given,
                   unknown, seen, boundVars>>

\* _ensure_room_turn_tool_selection: a durable selection is reused unseen; a new
\* one is saved under the row's lock, where a cancel is noticed.
SelectTools(w) ==
    /\ pc[w] = "select"
    /\ LET j == task[w] IN
       \/ selected[j] /\ Goto(w, "call") /\ UNCHANGED selected
       \/ cancelRequested[j] /\ Raise(w, "final") /\ UNCHANGED selected
       \/ /\ ~cancelRequested[j]
          /\ Goto(w, "call")
          /\ selected' = [selected EXCEPT ![j] = TRUE]
    /\ UNCHANGED <<status, budgetVars, leaseVars, cancelRequested, agentResult, handoff,
                   errorCode, screenVars, moneyVars, op, orphan, task, beat, localVars,
                   seen, boundVars>>

CallAgent(w) ==
    /\ pc[w] = "call"
    /\ Goto(w, "waiting")
    /\ UNCHANGED <<jobVars, screenVars, moneyVars, op, orphan, task, beat, localVars,
                   seen, boundVars>>

AgentReturns(w, kind, tokens) ==
    /\ pc[w] = "waiting"
    /\ held' = [held EXCEPT ![w] = Answer(kind, tokens)]
    /\ Goto(w, IF kind = "handoff" THEN "handoff" ELSE "persist")
    /\ UNCHANGED <<jobVars, screenVars, moneyVars, op, orphan, task, beat, given, unknown,
                   seen, boundVars>>

\* record_provider_consumption and settle under the turn's two idempotency keys:
\* another quantity, or a hold that is gone, is a ValueError.
Accountable(j, tokens) ==
    /\ provider[j] \in {Unbilled, tokens}
    /\ IF charge[j] = Unbilled THEN hold[j] = "reserved"
                               ELSE charge[j] = AtMost(tokens, Reserved)

AccountUncapped(j, tokens) ==
    /\ provider' = [provider EXCEPT ![j] = IF @ = Unbilled THEN tokens ELSE @]
    /\ charge' = [charge EXCEPT ![j] = tokens]
    /\ hold' = [hold EXCEPT ![j] = "settled"]
Account(j, tokens) ==
    /\ provider' = [provider EXCEPT ![j] = IF @ = Unbilled THEN tokens ELSE @]
    /\ charge' = [charge EXCEPT ![j] = AtMost(tokens, Reserved)]
    /\ hold' = [hold EXCEPT ![j] = "settled"]

\* AgentRuntimeError: usage that came with the error (if any) is charged.  A
\* timeout may leave the Agent running (lingers).
AgentFails(w, tokens, f, lingers) ==
    /\ pc[w] = "waiting"
    /\ orphan' = [orphan EXCEPT ![task[w]] = @ \/ lingers]
    /\ IF tokens = Unbilled
       THEN Raise(w, f) /\ UNCHANGED moneyVars
       ELSE IF Accountable(task[w], tokens)
       THEN /\ Raise(w, f)
            /\ Account(task[w], tokens)
            /\ partial' = [partial EXCEPT ![task[w]] = @ \/ charge[task[w]] = Unbilled]
       ELSE Raise(w, "retryable") /\ UNCHANGED moneyVars
    /\ UNCHANGED <<jobVars, screenVars, op, task, beat, localVars, seen, boundVars>>

\* _handoff_room_task: continue the turn under another tool catalog.  It raises
\* in every case, so a continuation is a retry of the job.
Handoff(w) ==
    /\ pc[w] = "handoff"
    /\ LET j == task[w] IN
       IF Open(j) # {} \/ handoff[j].count >= MaxHandoffs
       THEN Raise(w, "final") /\ UNCHANGED <<handoff, selected, maxAttempts>>
       ELSE /\ handoff' = [handoff EXCEPT ![j] =
                             [count |-> handoff[j].count + 1, calls |-> Rows(j)]]
            /\ selected' = [selected EXCEPT ![j] = TRUE]
            /\ maxAttempts' = [maxAttempts EXCEPT ![j] = AtLeast(@, attempt[j] + 1)]
            /\ Raise(w, "retryable")
    /\ UNCHANGED <<status, attempt, revived, leaseVars, cancelRequested, agentResult, errorCode,
                   screenVars, moneyVars, op, orphan, task, beat, localVars, seen, boundVars>>

\* _persist_agent_result under the row's lock.  A result already saved makes it
\* return; neither the lease nor the status is looked at.
Persist(w) ==
    /\ pc[w] = "persist"
    /\ LET j == task[w] IN
       IF agentResult[j] # NoResult
       THEN Goto(w, "check") /\ UNCHANGED <<status, agentResult, errorCode, moneyVars>>
       ELSE IF ~Accountable(j, held[w].tokens)
       THEN Raise(w, "retryable") /\ UNCHANGED <<status, agentResult, errorCode, moneyVars>>
       ELSE /\ Goto(w, "check")
            /\ Account(j, held[w].tokens) /\ UNCHANGED partial
            /\ agentResult' = [agentResult EXCEPT ![j] = held[w]]
            /\ status' = [status EXCEPT ![j] = "running"]
            /\ errorCode' = [errorCode EXCEPT ![j] = "none"]
    /\ UNCHANGED <<budgetVars, leaseVars, cancelRequested, handoff, selected, screenVars,
                   op, orphan, task, beat, localVars, seen, boundVars>>

\* "A model terminal message cannot erase a dispatched call with no receipt."
CheckOperations(w) ==
    /\ pc[w] = "check"
    /\ LET j == task[w]
           bad == held[w].kind = "malformed"
       IN /\ unknown' = [unknown EXCEPT ![w] = Open(j) # {}]
          /\ IF (bad \/ Open(j) # {}) /\ Rows(j) # {}
             THEN Goto(w, "project") /\ held' = [held EXCEPT ![w] = Recovered(j)]
             ELSE /\ IF bad THEN Raise(w, "final") ELSE Goto(w, "project")
                  /\ UNCHANGED held
    /\ UNCHANGED <<jobVars, screenVars, moneyVars, op, orphan, task, beat, given,
                   seen, boundVars>>

\* The rules engine, the projections and the media are read and rendered.
Project(w) ==
    /\ pc[w] = "project"
    /\ Goto(w, "settle")
    /\ UNCHANGED <<jobVars, screenVars, moneyVars, op, orphan, task, beat, localVars,
                   seen, boundVars>>

\* A cancel is looked for once more where the presentation is committed.
PublishableAnyway(j) == status[j] # "succeeded"
Publishable(j) == status[j] # "succeeded" /\ ~cancelRequested[j]

\* The publication transaction, under the row's lock.
Settle(w) ==
    /\ pc[w] = "settle"
    /\ LET j == task[w] IN
       \/ /\ status[j] = "succeeded"
          /\ EndProcess(w)
          /\ UNCHANGED <<status, leaseVars, screenVars>>
       \/ /\ status[j] # "succeeded" /\ ~Publishable(j)
          /\ Raise(w, "final")
          /\ UNCHANGED <<status, leaseVars, screenVars, task, beat, localVars>>
       \/ /\ Publishable(j)
          /\ published' = [published EXCEPT ![j] = @ \cup {held[w]}]
          /\ trigger' = [trigger EXCEPT ![j] = "completed"]
          /\ status' = [status EXCEPT ![j] = IF unknown[w] THEN "running" ELSE "succeeded"]
          /\ owner' = [owner EXCEPT ![j] = Nobody]
          /\ fresh' = [fresh EXCEPT ![j] = FALSE]
          /\ IF unknown[w]
             THEN Raise(w, "unknown") /\ UNCHANGED <<task, beat, localVars>>
             ELSE EndProcess(w)
    /\ UNCHANGED <<budgetVars, cancelRequested, resultVars, errorCode, moneyVars, op,
                   orphan, seen, boundVars>>

-----------------------------------------------------------------------------
(* Receipts: report_room_operation and the host's reconcile request.       *)

AgentRuns(j) == orphan[j] \/ \E w \in Workers : task[w] = j /\ pc[w] = "waiting"

MayDispatchMany(j, c) ==
    status[j] = "running" /\ ~cancelRequested[j] /\ op[j][c] = "absent"
MayDispatch(j, c) ==
    /\ status[j] = "running" /\ ~cancelRequested[j]
    /\ op[j][c] = "absent" /\ Open(j) = {}

\* The Agent host asks before every tool call; a refusal (409) changes nothing.
ReportDispatched(j, c) ==
    /\ AgentRuns(j)
    /\ MayDispatch(j, c)
    /\ op' = [op EXCEPT ![j][c] = "dispatched"]
    /\ UNCHANGED <<jobVars, screenVars, moneyVars, orphan, workerVars, seen, boundVars>>

\* _resume_reconciled_job, once the returned calls are flushed: the job object
\* says result unknown and no call of the turn is open.
Resumes(code, cancelled, open) ==
    code = "operation_result_unknown" /\ ~cancelled /\ open = {}

\* A receipt, on time, late or repeated (same payload).
ReportReturned(j, c) ==
    /\ op[j][c] # "absent"
    /\ op' = [op EXCEPT ![j][c] = "returned"]
    /\ IF Resumes(errorCode[j], cancelRequested[j], Open(j) \ {c})
       THEN /\ status' = [status EXCEPT ![j] = "queued"]
            /\ agentResult' = [agentResult EXCEPT ![j] = NoResult]
            /\ errorCode' = [errorCode EXCEPT ![j] = "none"]
            /\ maxAttempts' = [maxAttempts EXCEPT ![j] = AtLeast(@, attempt[j] + 1)]
       ELSE UNCHANGED <<status, agentResult, errorCode, maxAttempts>>
    /\ UNCHANGED <<attempt, revived, leaseVars, cancelRequested, handoff, selected, screenVars,
                   moneyVars, orphan, workerVars, seen, boundVars>>

AgentStops(j) ==
    /\ orphan[j]
    /\ orphan' = [orphan EXCEPT ![j] = FALSE]
    /\ UNCHANGED <<jobVars, screenVars, moneyVars, op, workerVars, seen, boundVars>>

\* reconcile_room_operations reads the job without a lock, then awaits a
\* read-only receipt lookup for every open call ...
ReconcileStart(h, j) ==
    /\ seen[h] = NoReading
    /\ status[j] = "failed" /\ errorCode[j] = "operation_result_unknown"
    /\ seen' = [seen EXCEPT ![h] = [job |-> j, attempt |-> attempt[j],
                                    maxAttempts |-> maxAttempts[j], calls |-> Open(j)]]
    /\ UNCHANGED <<jobVars, screenVars, moneyVars, op, orphan, workerVars, boundVars>>

\* ... and commits what it found through the job object it read at the start.
\* That job had failed, so no cancel had been requested of it.
ReconcileFinish(h, found) ==
    /\ seen[h] # NoReading
    /\ found \subseteq seen[h].calls
    /\ LET j == seen[h].job
           budget == AtLeast(seen[h].maxAttempts, seen[h].attempt + 1)
       IN /\ op' = [op EXCEPT ![j] = [c \in Calls |-> IF c \in found THEN "returned" ELSE @[c]]]
          /\ IF Resumes("operation_result_unknown", FALSE, Open(j) \ found)
             THEN /\ status' = [status EXCEPT ![j] = "queued"]
                  /\ agentResult' = [agentResult EXCEPT ![j] = NoResult]
                  /\ errorCode' = [errorCode EXCEPT ![j] = "none"]
                  /\ maxAttempts' = [maxAttempts EXCEPT ![j] =
                                       IF budget # seen[h].maxAttempts THEN budget ELSE @]
                  /\ revived' = [revived EXCEPT ![j] = @ \/ attempt[j] # seen[h].attempt]
             ELSE UNCHANGED <<status, agentResult, errorCode, maxAttempts, revived>>
    /\ seen' = [seen EXCEPT ![h] = NoReading]
    /\ UNCHANGED <<attempt, leaseVars, cancelRequested, handoff, selected, screenVars,
                   moneyVars, orphan, workerVars, boundVars>>

-----------------------------------------------------------------------------
Poll(w) ==
    \/ \E expired \in SUBSET Abandoned : RecoverExpired(w, expired)
    \/ \E j \in Jobs : Claim(w, j)

Agent(w) ==
    \/ \E kind \in {"reply", "malformed", "handoff"}, n \in 0..MaxTokens : AgentReturns(w, kind, n)
    \/ \E n \in Unbilled..MaxTokens, f \in {"retryable", "final"}, lingers \in BOOLEAN :
         AgentFails(w, n, f, lingers)

\* What a worker task does once it has claimed a turn.
Work(w) ==
    \/ Load(w)
    \/ \E expired \in SUBSET Abandoned : Prepare(w, expired) \/ PrepareRefused(w, expired)
    \/ ResumeOperations(w)
    \/ SelectTools(w)
    \/ CallAgent(w)
    \/ Handoff(w)
    \/ Persist(w)
    \/ CheckOperations(w)
    \/ Project(w)
    \/ Settle(w)
    \/ RecordFailure(w)
    \/ \E f \in {"retryable", "final"} : Fails(w, f)

Next ==
    \/ \E j \in Jobs : SubmitAction(j) \/ Cancel(j) \/ LeaseLapses(j) \/ AgentStops(j)
    \/ \E w \in Workers : Poll(w) \/ Agent(w) \/ Work(w) \/ Heartbeat(w)
    \/ \E w \in Workers : HeartbeatLost(w) \/ RecordFailureRaises(w)
    \/ \E p \in Processes : Crash(p)
    \/ \E j \in Jobs, c \in Calls : ReportDispatched(j, c) \/ ReportReturned(j, c)
    \/ \E h \in Hosts, j \in Jobs : ReconcileStart(h, j)
    \/ \E h \in Hosts, found \in SUBSET Calls : ReconcileFinish(h, found)

Spec == Init /\ [][Next]_vars

-----------------------------------------------------------------------------
TypeOK ==
    /\ status \in [Jobs -> Status]
    /\ attempt \in [Jobs -> Nat] /\ maxAttempts \in [Jobs -> Nat]
    /\ revived \in [Jobs -> BOOLEAN]
    /\ owner \in [Jobs -> Owner] /\ fresh \in [Jobs -> BOOLEAN]
    /\ cancelRequested \in [Jobs -> BOOLEAN]
    /\ agentResult \in [Jobs -> Result]
    /\ handoff \in [Jobs -> Chain] /\ selected \in [Jobs -> BOOLEAN]
    /\ errorCode \in [Jobs -> {"none", "operation_result_unknown"}]
    /\ trigger \in [Jobs -> TriggerState] /\ published \in [Jobs -> SUBSET Result]
    /\ hold \in [Jobs -> HoldState]
    /\ provider \in [Jobs -> Nat \cup {Unbilled}] /\ charge \in [Jobs -> Nat \cup {Unbilled}]
    /\ partial \in [Jobs -> BOOLEAN]
    /\ op \in [Jobs -> [Calls -> OpState]] /\ orphan \in [Jobs -> BOOLEAN]
    /\ pc \in [Workers -> Label] /\ task \in [Workers -> Jobs \cup {NoJob}]
    /\ beat \in [Workers -> {"on", "off", "lost"}]
    /\ given \in [Workers -> Chain] /\ held \in [Workers -> Result]
    /\ unknown \in [Workers -> BOOLEAN] /\ failure \in [Workers -> Failure]
    /\ seen \in [Hosts -> Reading]
    /\ crashes \in Nat /\ outages \in Nat

-----------------------------------------------------------------------------
(* What must hold of every turn.                                           *)

\* The queue keeps TurnPromise: one hold per turn, closed once and charged at most
\* what was reserved, nothing presented before that or after a cancel, although
\* reserve, renew, settle, release, cancel and publish are separate transactions
\* of different actors (quota.py, room_jobs.py, rooms.py).
Promise == INSTANCE TurnPromise WITH Presentations <- Result, shown <- published,
                                     cancelled <- cancelRequested
KeepsPromise == Promise!Spec

\* Provider consumption and the user's charge are written together: the charge is
\* the consumption capped at the reservation, and a hold is settled exactly when
\* there is one (partial failures, retries and late workers included).
ChargeMatchesConsumption ==
    \A j \in Jobs : /\ charge[j] = AtMost(provider[j], Reserved)
                    /\ charge[j] # Unbilled <=> hold[j] = "settled"

\* The reply players read is the one that was paid for.  Two executors may hold
\* two replies to one turn; _persist_agent_result must let only one through.  While
\* the database answers (a failure record that is not written leaves the turn to
\* both) and no failed attempt was charged (the heartbeat of the next one ends at
\* once, for the hold is closed, and a third attempt starts while it is still at work).
ShownReplyIsTheChargedOne ==
    outages = 0 => \A j \in Jobs : ~partial[j] =>
        \A r \in published[j] : r.kind = "reply" => r.tokens = provider[j]

\* A cancel that was accepted is never overtaken by a success, and the Agent gets
\* no further call through: the cancel, the settlement and the dispatch are three
\* transactions that meet only in the row's lock.
CancelWins ==
    [][\A j \in Jobs : cancelRequested[j] => status'[j] # "succeeded" /\ Rows(j)' = Rows(j)]_vars

\* Once a result is saved the model is not called again for the turn: a retry
\* resumes from it (docs/room-turn-jobs.md, "Once Agent completion is saved"), again
\* while the database answers and no failed attempt was charged.
Recalls(w) == pc[w] = "call" /\ pc'[w] = "waiting" /\ agentResult[task[w]] # NoResult
NoCallAfterSavedResult ==
    [][outages = 0 => \A w \in Workers : Recalls(w) => partial[task[w]]]_vars

\* The same without its second condition, which is what the text says: not so.
SavedResultIsReused == [][outages = 0 => \A w \in Workers : ~Recalls(w)]_vars

\* At most one tool call of a turn has an unknown outcome at any time, across
\* retries, replicas and Agents that outlive their caller.
OneUnknownOperation == \A j \in Jobs : Cardinality(Open(j)) <= 1

\* Unexpired leases in a room never exceed the configured limit, counted across
\* the processors of every replica.
LeaseLimit == \A r \in Rooms : Cardinality(LeasedIn(r)) <= PerRoom

\* No turn is claimed more often than its retry budget, handoffs and resumptions
\* having raised it, whatever a reconcile request writes back of what it read before
\* its awaits; except a turn that was claimed between the read and the commit of a
\* request that then queued it again (`_resume_reconciled_job`).
AttemptBudget == \A j \in Jobs : ~revived[j] => attempt[j] <= maxAttempts[j]

\* Without that exception.  The code does not keep this: `stale_reconcile.cfg` shows
\* how.
AttemptBudgetAlways == \A j \in Jobs : attempt[j] <= maxAttempts[j]

\* A turn is cancelled or has failed, never both: a failed turn has no cancel
\* request pending that a later resumption would trip over.
FailedWasNotCancelled == \A j \in Jobs : status[j] = "failed" => ~cancelRequested[j]

\* A running turn whose lease is gone for good is still in the hands of a worker:
\* recovery looks for an expired lease and would never find it.
RunningIsDriven ==
    \A j \in Jobs : status[j] = "running" /\ owner[j] = Nobody => \E w \in Workers : task[w] = j

\* "operation result unknown" is said of a turn with a call whose result is unknown.
UnknownMeansOpen ==
    \A j \in Jobs : status[j] = "failed" /\ errorCode[j] = "operation_result_unknown" =>
        Open(j) # {}

\* Workers poll and carry on with what they claimed, an Agent call ends (by its
\* timeout at the latest) and time passes for a lease nobody renews.
Fairness ==
    /\ \A w \in Workers : WF_vars(Poll(w)) /\ WF_vars(Work(w)) /\ WF_vars(Agent(w))
    /\ \A j \in Jobs : WF_vars(LeaseLapses(j))

FairSpec == Spec /\ Fairness

\* Every submitted turn reaches a terminal state with its hold closed by a charge, a
\* release or the reaper, replica crashes included.  Each turn is submitted once, so
\* the queue is drained for good.
EveryTurnEnds ==
    <>[](\A j \in Jobs : status[j] \in {"absent"} \cup Terminal /\ hold[j] # "reserved")
=============================================================================
