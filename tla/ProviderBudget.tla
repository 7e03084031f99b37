--------------------------- MODULE ProviderBudget ---------------------------
(***************************************************************************)
(* The money side of a hosted Agent: every attempt to call a paid model is *)
(* authorised against four budgets and settled with what it really cost    *)
(* (provider_budget_api.py, budgets.py), and an operator closes the        *)
(* attempts whose outcome nobody reported (budget_cli.py).                 *)
(*                                                                         *)
(* A request is a database transaction in three steps: it updates the site *)
(* row without changing it, which takes the row's lock; it reads and       *)
(* decides; it commits.  Clocks and the operator's set-limit do not ask    *)
(* for that lock, except to change the site's own limit.                   *)
(***************************************************************************)
EXTENDS Integers, FiniteSets, FiniteSetsExt

CONSTANTS
    Calls,            \* provider attempts, one call_id each
    Tasks, TaskOf,    \* room turns and module runs, and the task of an attempt
    Users, PayerOf,   \* who pays for a task
    Campaigns, CampaignOf,
    Handlers,         \* request threads and operator shells
    Nobody, NoRequest, \* the site row is not locked; a handler serves nobody
    Worst,            \* the reviewed ceiling of one attempt's price
    MaxCost,          \* bound: what an attempt may cost, above Worst an overrun
    TaskBudget,       \* SAGASMITH_TASK_BUDGET_USD
    Limits,           \* bound: the limits an operator sets
    MaxChanges        \* bound: ends of periods and changes of limits

ASSUME BudgetAssumption ==
    /\ TaskOf \in [Calls -> Tasks]
    /\ PayerOf \in [Tasks -> Users] /\ CampaignOf \in [Tasks -> Campaigns]
    /\ Nobody \notin Handlers
    /\ Worst \in [Calls -> Nat \ {0}]
    /\ MaxCost \in Nat /\ TaskBudget \in Nat /\ Limits \subseteq Nat /\ MaxChanges \in Nat

VARIABLES
    limit,    \* budget_limits: the quantity in force for a scope, or Unset
    counted,  \* the ledger rows that fall in the period in force
    status,   \* provider_calls.status
    digest,   \* provider_calls.settlement_hash: who settled, with which usage
    claim,    \* budget_claims.status, the same in the attempt's four rows
    cost,     \* provider_consumption_ledger.quantity, or Unrecorded
    site,     \* who holds the lock of the site row
    phase, request, \* a handler's transaction
    seen,     \* the limits a handler admitted an attempt under
    changes

budgetVars == <<limit, counted, status, digest, claim, cost, site, phase, request, seen, changes>>
callVars == <<status, digest, claim, cost>>

-----------------------------------------------------------------------------
Unset == -1
Unrecorded == -1
Scopes == {<<"site", "default">>} \cup ({"user"} \X Users)
              \cup ({"campaign"} \X Campaigns) \cup ({"task"} \X Tasks)
Site == <<"site", "default">>
TaskScope(t) == <<"task", t>>
ScopesOf(c) == LET t == TaskOf[c] IN
    {Site, <<"user", PayerOf[t]>>, <<"campaign", CampaignOf[t]>>, TaskScope(t)}

\* Only what an operator sets has an end.
OperatorScopes == Scopes \ ({"task"} \X Tasks)

\* What a settlement reports: a cost, or usage that is not complete.
Incomplete == -1
Usage == {Incomplete} \cup 0..MaxCost
Unsettled == <<"nobody", Incomplete>>
Digest == {"nobody", "worker", "operator"} \X Usage

CallStatus  == {"none", "reserved", "unknown", "settled", "overrun"}
ClaimStatus == {"none", "reserved", "pending_reconciliation", "settled", "overrun"}
Closed == {"settled", "overrun"}
BudgetRequest == [op : {"authorize"}, call : Calls, usage : {Incomplete}]
               \cup [op : {"settle", "reconcile"}, call : Calls, usage : Usage]
NoLimits == [s \in Scopes |-> Unset]

BudgetInit ==
    /\ \E q \in [OperatorScopes -> Limits \cup {Unset}] :
           limit = [s \in Scopes |-> IF s \in OperatorScopes THEN q[s] ELSE Unset]
    /\ changes = 0 /\ counted = [s \in Scopes |-> {}]
    /\ status = [c \in Calls |-> "none"] /\ digest = [c \in Calls |-> Unsettled]
    /\ claim = [c \in Calls |-> "none"] /\ cost = [c \in Calls |-> Unrecorded]
    /\ site = Nobody /\ phase = [h \in Handlers |-> "idle"]
    /\ request = [h \in Handlers |-> NoRequest] /\ seen = [h \in Handlers |-> NoLimits]

-----------------------------------------------------------------------------
(* What a handler reads under the lock.                                    *)

Sum(f(_), S) == MapThenSumSet(f, S)
Consumed(s) == Sum(LAMBDA c : cost[c], counted[s])
Held(s) ==
    Sum(LAMBDA c : Worst[c],
        {c \in Calls : claim[c] \in {"reserved", "pending_reconciliation"} /\ s \in ScopesOf(c)})

\* A task's first authorisation gives it one budget, for good.
LimitOf(s) == IF s \in {"task"} \X Tasks /\ limit[s] = Unset THEN TaskBudget ELSE limit[s]
Affords(c, s) == LimitOf(s) # Unset /\ Consumed(s) + Held(s) + Worst[c] <= LimitOf(s)

\* An attempt in one of these states stops every other attempt of its task.
Blocking == {"reserved", "unknown", "overrun"}
Blocked(t) == \E c \in Calls : TaskOf[c] = t /\ status[c] \in Blocking

\* settle_call: a settlement is applied once; a repeated one is only compared with it.
Fresh(c) == digest[c] = Unsettled

\* budget_cli.reconcile: which calls an operator may close.
Pending(c) == status[c] \in {"reserved", "unknown"}

-----------------------------------------------------------------------------
(* Requests.                                                               *)

\* The no-op update of the site row waits for the lock; the slips forget it in
\* one of the requests.
AuthorizeUnlocked(r) == r.op = "authorize" \/ site = Nobody
SettleUnlocked(r) == r.op = "settle" \/ site = Nobody
MayBegin(r) == site = Nobody

Begin(h, r) ==
    /\ phase[h] = "idle" /\ MayBegin(r)
    /\ site' = h
    /\ phase' = [phase EXCEPT ![h] = "locked"] /\ request' = [request EXCEPT ![h] = r]
    /\ UNCHANGED <<limit, counted, callVars, seen, changes>>

\* The transaction is over and its lock is free.
Ends(h) ==
    /\ site' = IF site = h THEN Nobody ELSE site
    /\ phase' = [phase EXCEPT ![h] = "idle"] /\ request' = [request EXCEPT ![h] = NoRequest]
    /\ seen' = [seen EXCEPT ![h] = NoLimits]

Decide(h) ==
    /\ phase' = [phase EXCEPT ![h] = "decided"]
    /\ UNCHANGED <<limit, counted, callVars, site, request, changes>>

\* authorize_call after the lock: the attempt is new, its task has no attempt
\* without an outcome, and all four budgets can take its worst case.
Admit(h) ==
    /\ phase[h] = "locked" /\ request[h].op = "authorize"
    /\ LET c == request[h].call IN
       /\ status[c] = "none" /\ ~Blocked(TaskOf[c])
       /\ \A s \in ScopesOf(c) : Affords(c, s)
       /\ seen' = [seen EXCEPT ![h] = [s \in Scopes |->
                       IF s \in ScopesOf(c) THEN LimitOf(s) ELSE Unset]]
    /\ Decide(h)

\* settle_call finds a call nobody settled; reconcile one without an outcome.
Read(h) ==
    /\ phase[h] = "locked"
    /\ LET r == request[h] IN
       \/ r.op = "settle" /\ status[r.call] # "none" /\ Fresh(r.call)
       \/ r.op = "reconcile" /\ Pending(r.call) /\ r.usage # Incomplete
    /\ Decide(h) /\ UNCHANGED seen

\* Every other answer rolls back: the account is inactive, a repeated call, a
\* task that waits for a reconciliation, a budget that is missing or too small, a
\* settlement that is a replay.  So do a crash and a lost connection, at any time.
Rollback(h) ==
    /\ phase[h] # "idle"
    /\ Ends(h) /\ UNCHANGED <<limit, counted, callVars, changes>>

\* admit and the rest of authorize_call: four claims, the task's budget, the call.
CommitCall(h) ==
    /\ phase[h] = "decided" /\ request[h].op = "authorize"
    /\ LET c == request[h].call IN
       /\ status' = [status EXCEPT ![c] = "reserved"]
       /\ claim' = [claim EXCEPT ![c] = "reserved"]
       /\ limit' = [limit EXCEPT ![TaskScope(TaskOf[c])] = LimitOf(TaskScope(TaskOf[c]))]
    /\ Ends(h) /\ UNCHANGED <<counted, digest, cost, changes>>

\* The call's new state: usage that is not complete leaves it open for an operator.
Outcome(c, u) == IF u = Incomplete THEN "unknown" ELSE IF u > Worst[c] THEN "overrun" ELSE "settled"

\* budgets.mark_unknown and settle change claims that are reserved; reconcile
\* first makes a pending claim one of them, which the slip forgets.
ReopenedNot(c, op) == claim[c]
Reopened(c, op) ==
    IF op = "reconcile" /\ claim[c] = "pending_reconciliation" THEN "reserved" ELSE claim[c]
ClaimAfter(c, op, u) ==
    IF Reopened(c, op) # "reserved" THEN Reopened(c, op)
    ELSE IF u = Incomplete THEN "pending_reconciliation" ELSE Outcome(c, u)

\* settle_record: what the provider charged is recorded once, uncapped, in the
\* periods in force, before the claims close.
CommitSettlement(h) ==
    /\ phase[h] = "decided" /\ request[h].op # "authorize"
    /\ LET c == request[h].call
           u == request[h].usage
           by == IF request[h].op = "settle" THEN "worker" ELSE "operator"
       IN
       /\ u = Incomplete \/ cost[c] \in {Unrecorded, u}
       /\ status' = [status EXCEPT ![c] = Outcome(c, u)]
       /\ digest' = [digest EXCEPT ![c] = <<by, u>>]
       /\ claim' = [claim EXCEPT ![c] = ClaimAfter(c, request[h].op, u)]
       /\ IF u = Incomplete THEN UNCHANGED <<cost, counted>> ELSE
          /\ cost' = [cost EXCEPT ![c] = u]
          /\ counted' = [s \in Scopes |->
                 IF s \in ScopesOf(c) /\ limit[s] # Unset THEN counted[s] \cup {c} ELSE counted[s]]
    /\ Ends(h) /\ UNCHANGED <<limit, changes>>

-----------------------------------------------------------------------------
(* Time and the operator.                                                  *)

Change == changes < MaxChanges /\ changes' = changes + 1

\* The period of a limit ends: the row stays, and counts no more.
PeriodEnds(s) ==
    /\ s \in OperatorScopes /\ limit[s] # Unset
    /\ limit' = [limit EXCEPT ![s] = Unset] /\ counted' = [counted EXCEPT ![s] = {}]
    /\ Change /\ UNCHANGED <<callVars, site, phase, request, seen>>

\* budget_cli.set_limit: a new limit, or a new quantity for the one in force;
\* only writing the site's row waits for its lock.
SetLimit(s, q) ==
    /\ s \in OperatorScopes /\ limit[s] # q
    /\ s = Site /\ limit[s] # Unset => site = Nobody
    /\ limit' = [limit EXCEPT ![s] = q]
    /\ Change /\ UNCHANGED <<counted, callVars, site, phase, request, seen>>

BudgetNext ==
    \/ \E h \in Handlers :
        \/ \E r \in BudgetRequest : Begin(h, r)
        \/ Admit(h) \/ Read(h) \/ Rollback(h) \/ CommitCall(h) \/ CommitSettlement(h)
    \/ \E s \in Scopes : PeriodEnds(s) \/ \E q \in Limits : SetLimit(s, q)

BudgetSpec == BudgetInit /\ [][BudgetNext]_budgetVars

-----------------------------------------------------------------------------
(* What must hold of the money.                                            *)

TypeOK ==
    /\ limit \in [Scopes -> Nat \cup {Unset}] /\ counted \in [Scopes -> SUBSET Calls]
    /\ status \in [Calls -> CallStatus] /\ digest \in [Calls -> Digest]
    /\ claim \in [Calls -> ClaimStatus] /\ cost \in [Calls -> Nat \cup {Unrecorded}]
    /\ site \in Handlers \cup {Nobody}
    /\ phase \in [Handlers -> {"idle", "locked", "decided"}]
    /\ request \in [Handlers -> BudgetRequest \cup {NoRequest}]
    /\ seen \in [Handlers -> [Scopes -> Nat \cup {Unset}]] /\ changes \in Nat

\* An attempt without a known outcome, or one that overran, stops its task: no two
\* requests may both find the task free (provider_budget_api.py, the two 409s).
OneOpenAttempt ==
    \A c, d \in Calls :
        TaskOf[c] = TaskOf[d] /\ status[c] \in Blocking /\ status[d] \in Blocking => c = d

\* The attempt, its four claims and the ledger tell the same story after every
\* sequence of settlements, replays and reconciliations: money is held exactly
\* while the outcome is unknown and recorded exactly when it is known.
RecordsAgree ==
    \A c \in Calls :
        /\ claim[c] = IF status[c] = "unknown" THEN "pending_reconciliation" ELSE status[c]
        /\ cost[c] # Unrecorded <=> status[c] \in Closed
        /\ status[c] = "overrun" <=> cost[c] > Worst[c]

\* The balances an admission was decided on are still good when it commits,
\* whatever other requests, the clock and the operator do in between.
AdmissionStillFits ==
    \A h \in Handlers :
        phase[h] = "decided" /\ request[h].op = "authorize" =>
            LET c == request[h].call IN
            \A s \in ScopesOf(c) : Consumed(s) + Held(s) + Worst[c] <= seen[h][s]

\* What was recorded for an attempt never changes: a late callback, a replay with
\* other usage and an operator cannot bill it again or reopen it.
SettlementIsFinal ==
    [][\A c \in Calls : status[c] \in Closed =>
          /\ status'[c] = status[c] /\ cost'[c] = cost[c] /\ digest'[c] = digest[c]]_budgetVars
=============================================================================
