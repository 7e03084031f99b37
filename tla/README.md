# Verification of SagaSmith Web

SagaSmith Web is the hosted control plane of a tabletop game platform. Players
post actions; each action becomes a durable job that a worker leases, hands to a
language-model Agent, saves, charges and publishes, while players cancel,
replicas crash, Agents time out and come back late, and hosts reconcile calls
whose outcome nobody knows. Around that queue stand the stores the same requests
go through: quotas, provider budgets, event streams, memberships mirrored in an
authority (the rules server), uploaded Packs, community releases, and the Agent
processes themselves. Their promises (charged once, shown once, stopped when
cancelled, admitted once, published only when reviewed) are spread over many
short transactions of different actors. This directory states them in TLA+,
checks them with TLC on small instances and proves the central ones with TLAPS.

Paths below are relative to `src/src/sagasmith_service/`.

## The system

| Component | State it keeps | Operations | Where it is hard | What makes it correct |
|---|---|---|---|---|
| Room turn processor (`room_jobs.py`) | `RoomTurnJob`: status, attempt, max_attempts, lease owner and expiry, cancel flag | recover, claim, heartbeat, record failure, start, close | leases that lapse under a live worker, crashes, several replicas, a shrinking pool | room limit, retry budget, every turn ends |
| Room turn executor (`api/rooms.py`) | saved Agent result, continuation, tool selection, trigger message, presentations | submit, prepare, resume, select, call, hand off, persist, check, project, settle, cancel | values read in one transaction and used in a later one; two executors of one turn | cancel wins, the reply shown is the one charged, no call after a saved result |
| Operation receipts (`room_operations.py`, `api/rooms.py`) | `RoomOperation` rows | dispatched, returned, recover, reconcile | late, repeated and lost receipts; Agents that outlive their caller | one unknown outcome at a time; unknown turns resume |
| Quota, usage, direct conversations (`quota.py`, `usage_accounting.py`, `direct_chat.py`) | grants, reservations, ledger, allocations, runs | balance, reserve, renew, settle, release, expire; send and send again | keys, row locks in two orders, overlapping periods, holds that expire under a running call | an answer is charged; nothing stays reserved; the balance holds |
| Provider budgets (`budgets.py`, `provider_budget_api.py`) | limits and claims of four scopes | admit, settle, mark unknown, reconcile | concurrent admission, calls of unknown outcome | no scope is overdrawn; unknown calls stay claimed |
| Room events and realtime (`realtime.py`, `api/rooms.py`) | room sequence, events, outbox, subscriptions | emit, dispatch, retry, subscribe, replay | at-least-once delivery, commit order against sequence order | a reader misses no event it may see, and is woken for it |
| Module Studio (`module_worker.py`, `api/modules.py`) | `ModuleProject`: status, source, draft, review, artifact, tokens, cancel flag; `ModuleRun`: status, attempt, lease, saved decision | queue, retry, cancel, upload, decide, archive, publish; recover, claim, stages, complete, fail | long calls without a heartbeat, crashes between stages, a project changed stage by stage, requests that overlap | a run that ended is never resumed, money that agrees, review of what is compiled, every run ends |
| Agent supervisor (`agent_supervisor.py`) | workers, spawn tasks, ports, workspaces, their lock | get, spawn, complete, retire, prune, clean, close | capacity, ports and directories shared across awaits | places and ports bounded, no process forgotten, no directory deleted in use, no circular wait |
| Campaign admission (`api/campaigns.py`, `api/invites.py`) | members, join requests, invites, authorization epoch, cached panel | request, accept, approve, reject, change role, revoke, bind, read the panel | calls of the authority between a read and a commit | an invite admits its number; rows follow the authority (the role except after a re-admission); the panel is the current role's |
| Packs and installations (`api/packs.py`, `storage.py`) | packs, imports, projections, exchange volume | upload, import, activate, install | shared exchange files, allowance read before the upload, lost answers | storage bounded, exchange volume clean, rows follow the authority |
| Forge and Identities (`api/community.py`) | releases, Identities, assignments, conversations, reports | review, submit, moderate, edit, withdraw; invite, accept, reject, revoke, suspend | moderation that overlaps, acceptance while it is revoked | only what was reviewed is published; accepted means granted; closed stays closed |
| Combat render cache (`combat_render_cache.py`) | entries, in-flight renders | get or render, evict, close | single flight with cancellation | byte total, no render twice |
| Accounts, adapters, wiring, frontend | none that the above do not hold | I/O, single transactions | | |

How they interact. A request handler writes the trigger message and the job in
one transaction and wakes the workers. A worker calls the executor, which takes
a quota hold, calls the Agent supervisor (which finds or starts the process of
the conversation), and saves, charges and publishes; the Agent, during its call
(and after a timed-out one), asks the provider budgets before each model call and
reports every tool call back to the API, which writes receipts to the same job.
Committed events go to the outbox, which feeds the realtime streams. Membership,
imports and Identity grants are written first to the authority over MCP and then
to the service's own rows. Hosts may reconcile, players may cancel, reviewers may
decide, at any time. The database rows are the only state shared between
replicas; the locks inside one processor only keep SQLite from deadlocking.

## Modules

| Modules | Models | Theorems in |
|---|---|---|
| `RoomTurnJobs`, `TurnPromise` | the job, the processors, the executor, the hold, the receipts; what the queue promises a player | `RoomTurnProofs` |
| `RoomEvents`, `EventFeed` | one room's log, outbox, listener and one browser's stream; what the events promise a reader | `EventsAndPacksProofs` |
| `ProviderBudget` | attempts to call a paid model against four budgets | `SpendingProofs` |
| `QuotaHolds` | direct messages of one user against quota grants, with row locks | `SpendingProofs` |
| `ModuleStudio` | a module project, the requests of its author and the runs of the worker | `ModuleStudioProofs` |
| `AgentSupervisor` | worker processes, ports, places and directories | `AgentSupervisorProofs` |
| `CampaignAccess` | one applicant of a campaign, an invite, reviewers, the authority | `CampaignAccessProofs` |
| `PackLibrary` | one user's Packs, the exchange volume, imports and activations | `EventsAndPacksProofs` |
| `ForgeReleases`, `ForgeIdentities` | releases under review; the second extends the first with one release's Identity and its assignments | `ForgeIdentitiesProofs` |

`FiniteSums` holds lemmas about sums over finite sets, which the proofs of holds,
budgets, runs and storage need. `MC...` modules give the constants their values for TLC. In every module, one
action is one transaction of the code, one await whose outcome is used later, or
one step between two awaits where the state is in memory. A handler that reads,
calls out and commits is as many actions, with what it read in its record; row
locks are variables, because SQLAlchemy refreshes nothing it already loaded and
an unlocked read may be stale when it is used. Definitions whose comment
calls them a mutant or a slip stand beside the ones they vary and are used by no
action: each is a plausible mistake that one of the properties excludes.
### RoomTurnJobs

One action is one transaction of the code, or one await whose outcome the
executor goes on to use. Variables of the first group are columns of the
`RoomTurnJob` row: `fresh[j]` says that `lease_expires_at` lies in the future,
`handoff` and `selected` are the parts of `authority_context` that steer control,
`errorCode` keeps only whether the code is `operation_result_unknown`. The rows
tied to a turn follow: trigger status, the presentations published, the quota
hold, the provider record (uncapped) and the ledger charge (`Unbilled` when there
is no row), the receipts. `orphan[j]` is an Agent whose caller timed out or died.
A worker task is a program counter with what it read earlier: `given` (the
continuation) and `held` (the saved result, then the one it is about to publish)
and `unknown`; `beat` is its heartbeat task. `seen[h]` is a reconcile request
between its read and its commit.

| Action | Code |
|---|---|
| `SubmitAction`, `Cancel` | `_prepare_message_transaction`, `cancel_room_turn_job` |
| `RecoverExpired`, `Claim` | the poll of `_worker_loop` |
| `Heartbeat`, `HeartbeatLost`, `LeaseLapses` | `heartbeat`, its loop, the clock |
| `RecordFailure`, `RecordFailureRaises` | `_record_failure`, the end of `_process` |
| `Crash` | the death or `close` of a replica and its restart under a new id |
| `Load`, `Prepare`, `PrepareRefused` | `_load_room_job_execution`, `_prepare_agent_transaction` |
| `ResumeOperations` | `recover_operations` before the Agent is called |
| `SelectTools`, `CallAgent`, `AgentReturns`, `AgentFails` | the tool selection and the Agent call |
| `Handoff`, `Persist`, `CheckOperations`, `Project`, `Settle` | the phases after it |
| `Fails` | any error that leaves a phase before it changes anything |
| `ReportDispatched`, `ReportReturned`, `AgentStops` | `report_room_operation`, the Agent host |
| `ReconcileStart`, `ReconcileFinish` | `reconcile_room_operations` before and after its awaits |

Actions read what the code reads. `Persist` and `RecordFailure` look at the row
under its lock but, like the code, not at its lease; `ResumeOperations` writes
through the object `Load` read, because the ORM session does not refresh an
object it holds; `ReconcileFinish` writes the budget only when the value it
computes differs from the one it read, because the ORM writes changed columns.
Abstractions. Retry backoff (`available_at`) is left out: any queued row may be
due. A result is known by its kind, its token count and, for a recovered one, the
receipts it shows; messages are identified the way the code does it
(`agent:<run>:<output_id>`), so publishing the same result twice adds nothing.
Request authorisation, room events, revisions of the campaign and the layout of
messages are left out. Transactions are atomic: every one of them takes the row
lock of the job first or reads it once. The usage that a handed-off segment adds
to the next is part of that segment's token count. `MaxTokens`, `MaxCrashes` and
`MaxOutages` bound the environment; `MaxAttempts`, `PerRoom`, `MaxHandoffs` and
`Reserved` are settings of the program.

Time. The heartbeat period is a third of the lease, so a lease whose heartbeat
runs does not lapse, and neither does one in a phase that is a single local
transaction. That is an assumption about the replica, so it is a constant: with
`Stalls = TRUE` a lease may lapse at any moment.

### TurnPromise

Four variables per turn: the hold, the charge, what was shown, whether a cancel
was accepted. The hold is taken once and closed once, by a charge of at most the
reservation or by giving it back; something is shown only while the hold is
closed and nobody cancelled; shown things stay. `KeepsPromise` is this
specification under the mapping of presentations and cancel flags, and the queue
implements it: `turns` shows it, and it is a theorem, with stalled replicas and
database outages too.

### ProviderBudget

A hosted Agent asks before every attempt to call a model and reports what the
attempt cost; an operator closes the attempts nobody reported. Every request is
one transaction and the model keeps its three steps apart, because between them
other requests run: `Begin` updates the site's limit row without changing it,
which waits for its lock; `Admit` or `Read` is what the handler reads and
decides; `CommitCall` or `CommitSettlement` writes. `Rollback` stands for every
refusal, and for a crash or a lost connection at any point. The clock and
`set_limit` do not ask for that lock, except to write the site's own row.

`status`, `digest` and `cost` are the columns of the call and of its consumption
row; `claim` is the status its four claims share (they are written together, by
the same statements). A period is represented by what it changes: `limit[s]` is
the quantity in force and `counted[s]` the ledger rows that fall in the period.
A task's budget is created by its first authorisation and has no end.

Left out: prices (a call has a ceiling, `Worst`), who may ask, the check of the
usage's parts, and two branches that no caller reaches (the replay of `admit`,
whose call id is always new, and `release`). Hosted calls need a site budget, so
that its row exists before the first of them.

### ModuleStudio

One module project from its creation to its publication. A source is named by
its generation, the draft imported from it by the generation of that source, and
the artifact by the draft it was compiled from; `review` is the draft an approved
review was about. So `project` is a record of small numbers, and "the review is
of what is compiled" is an equation. `run[r]` is a `ModuleRun` row with its quota
hold, its ledger row (`charge`) and its provider record (`consumed`); `evidence`
is the draft the saved decision was made from.

| Action | Code |
|---|---|
| `AskQueue`, `Queue` | the six action endpoints, `_queue_action`, `_enqueue` |
| `AskRetry`, `Retry`, `AskCancel`, `Cancel` | `retry_run`, `cancel_run` |
| `AskUpload`, `Upload`, `AskDecideOutline`, `DecideOutline` | `upload_source`, `decide_outline` |
| `AskArchive`, `Archive`, `AskPublish`, `Publish`, `Refuse` | `archive_project`, `publish_module`, every refusal |
| `RecoverExpired`, `Claim`, `LeaseExpires`, `Begin` | `recover_expired`, `claim`, the clock, `process_one` |
| `Start`, `Started`, `Evidence`, `Store`, `Stored`, `Package`, `Packaged` | the shared stages before and after their calls to storage and the rules engine |
| `Version`, `Check`, `Compile`, `Import`, `Finish` | what one kind of run adds |
| `Recall`, `AskAgent`, `SaveDecision`, `FailsHalfway` | `_agent_json` and its outcomes |
| `Complete`, `Fail`, `FailRaises`, `Fails` | `_complete`, `_fail`, an error of `_fail`, any other error |
| `Crash`, `ExpireHold` | the death of the process, `expire_abandoned` |

`Path` gives the stages of each kind of run in order; a processor's `step` is its
place in it and starts over with each attempt. A stage that calls out is two
actions with what was read in `read`. A request is two actions as well, what its
handler reads and checks and what it commits: it writes the columns that differ
from what it read (`Write`), and only `_queue_action` waits for the project's row
lock. `Atomic = TRUE` lets nothing run between the two; `Slow = TRUE` lets a lease
(which nobody renews) lapse while its run is executed.

`recover_expired`, `claim`, `_complete` and `_fail` are synchronous, so the
processors of the one worker process do not interleave inside them. A failure in
a model's stage stands for any exception the code may meet there.

Left out: what a source, an outline or a decision says; the draft's revision at
the rules engine; idempotency keys of requests (a replay returns the earlier run);
rights and sizes of uploads (a refusal); installation rows; notifications. A
project is created outside the model: `Init` holds the situations between runs.

### RoomEvents

Handlers number their events under the row lock of the room, so a transaction
that emits is one step; the failure record does not take it, so it is two
(`FailureReads`, `FailureCommits`), and so is an activity report between its check
of the run and its event. `outbox` and the Redis notices are only "pending or
not": a batch is dispatched in one step. `stream` is the server's generator, with
its cursor, the page it has and whether its wake-up event is set; `client` is what
the browser has, from a snapshot (`base`) and from frames (`got`). `EventFeed` is what
all this promises a reader, and `KeepsFeed` that it is kept: a feed has a last number
and what the reader may see of it (`Adds`), delivers the first event after the last
one (`Delivers`), and starts anew only at its end (`Begins`). Only frames and
snapshots move the reader; pages, wake-ups, faults and broken connections are
invisible to it.

| Action | Code |
|---|---|
| `Posts`, `HostChanges`, `Starts`, `Publishes` | handlers that emit messages, host changes, a run and its end |
| `ReportReads`, `ReportEmits`, `FailureReads`, `FailureCommits` | the activity report; the failure record, which may collide and be retried |
| `Dispatches`, `DeliveryFails`, `RedisFails`, `Restarts` | `OutboxDispatcher` and its listener, and their faults |
| `Connects`, `Pages`, `Sends`, `Waits`, `Wakes`, `Reconciles`, `Drops`, `Revokes` | the stream: replay, pages, wake-ups, the deadline of thirty seconds, a broken connection, a removed member |

`WakeSurvives` excludes faults: after one the deadline is what delivers. A page
that is full leaves its rest to the next notice or the deadline. An activity
whose "started" arrives after its run has closed stays open.

### QuotaHolds

One payer and one metric. A message is admitted under the row locks of the grants
that are active at its clock reading (`LocksGrant` one by one: `balance` takes
them in no order, settlement by period), its hold and run are committed, the
provider answers outside any transaction, and the tokens are allocated. An answer
without usage data counts 0 tokens (`integrations/agent.py:383-384`): 0 is recorded
and charged, and no grant is locked (`SettlesNothing`); a row that does not exist is
`Absent`, which is not 0. `docs/provider-budgets.md` says of the budgets that missing
usage is unknown and never zero; direct conversations do not go through them. The
attempt keeps the hold as its session loaded it: `expire_on_commit` is off and a
row lock refreshes nothing loaded, hence `seen` and `expiring`. `Deadlocks` is
what the database does to attempts that wait in a circle; `TooLate` a settlement
that finds its hold expired; `Sweeps` the expiry of abandoned holds by room
workers; `SendsAgain` any repeated request. `overtaken` marks a transaction whose
clock reading another settlement has passed, which the last property excepts:
`balance` reads the clock before it waits.

### AgentSupervisor

One event loop: a step is what happens between two awaits. `spawn[p]` is a spawn
task and the process it makes, `store` the workspace lock with the set it
protects, `request` a completion request, `cleaner` the idle sweep.

| Action | Code |
|---|---|
| `Ask`, `GetRefused`, `GetReuses`, `GetJoins`, `GetStarts`, `Wakes` | `complete`, `_get` under the lock, waiting for the spawn task |
| `Begins`, `Evicted`, `EvictFails`, `Admitted`, `HoldsStore`, `Prepares`, `Launches`, `Installs`, `Gives`, `Undone`, `UndoFails` | the spawn task: eviction, semaphore, directory, process, installation, failure, and stops that raise |
| `Replies`, `Retired`, `RetireFails`, `Touches`, `TouchFails` | the answer, terminal retirement, `_touch_workspace`, and their failures |
| `Sweeps`, `SweepStopped`, `SweepFails`, `SweepHoldsStore`, `Prunes` | the cleaner; a stop that raises ends the sweep |
| `Closes`, `Takes`, `Closed`, `Restarts`, `Exits`, `Dies` | shutdown, restart, the processes |

`_stop` may raise once the process is gone, on the file it removes or the marker it
writes. Its callers free the port and give up; the sweep also gives up the workers
it has popped and not yet come to. These, and what `_get` has popped when it finds no
port, are `forgotten`: nobody will stop them, they count towards no limit, and while
they live there may be more processes than `max_workers`. `EveryProcessIsOwned` says
that there are no others.

Things the model shows and no property forbids: the port of a dead worker popped
by `_get` stays in `retiring_ports`; a `close` that cancels the cleaner or a
created spawn task abandons its worker (hence "until it closes"); a popped
worker is no longer protected, so the directory of one that still exits may be
removed; a terminal retirement may delete the directory of a newer worker of the
same conversation (hence `EndsConversation`); for a moment two processes of one
conversation may run, while `docs/operations.md` says one.

### CampaignAccess

One applicant, one actor and one invite. A handler reads (and may lock), calls
the authority, reads again and commits; `handler[h]` keeps what it read, and a
commit writes the columns that differ (`Written`). `authority` and `actor` are
what the rules server grants; the answer may be refused or lost, or the handler
may die before its commit. `panel` is the cached panel with the authorization
epoch of its entry; age and revision of the cache are left out (they only make it
expire sooner). `loose` records that two changes of the membership crossed or one
was cut off: then an epoch may be lost or go back, and `FollowsAuthority` and
`PanelIsCurrent` say nothing. `kept` records that the last acceptance of an invite
found a row with another role than the one the authority granted, and left it
(`api/invites.py:194-201`): `FollowsAuthority` excepts the role then.

### PackLibrary

One user's Packs and sources under one storage quota. An upload reads its
allowance under the user's row lock and keeps it to its commit. An import copies
the archive to one path of the exchange volume, shared by all imports of the
Pack, calls the rules server, removes the file, and commits; activation and the
installation of releases follow. The truncation of the file by a second copy is
what the local storage backend does; the S3 backend renames. Archives are a size
and whether they are accepted; sources the Module worker stores count in the
allowance of later uploads but are not checked against it.

### ForgeReleases and ForgeIdentities

No handler of the Forge locks a row. It decides on what it loaded, a review after
the answer of the Agent, and writes what differs from it, so the later of two
moderations wins. Submission checks rights, visibility, license, source and
provenance of the artifact; moderation checks all but the provenance again (`passes`
is the last of the two checks the artifact's fields pass). `OnlyReviewedIsPublished` is about the past: a rejecting verdict that is
written over a release which waits leaves it there, and the moderator may publish it
with `approved` FALSE. `reviewed`, `submitted` and `moderated` remember what happened.
`ForgeIdentities` extends it: the Identity of one release, its assignments (one
open key per campaign), their conversations, and reports that take the artifact
down or suspend the Identity. A decision holds its assignment's row across the
call of the authority; a revocation, a report and a suspension hold nothing, and
a suspension asks for each accepted assignment in turn (`todo`).

## Runs

| Run | Instance | Shows |
|---|---|---|
| `turns` | 1 turn, 2 replicas, 1 tool call, 1 reconcile, 1 crash, 2 attempts, 1 handoff, replies of 0..2 tokens against a reservation of 1 | `ChargeMatchesConsumption`, `ShownReplyIsTheChargedOne`, `KeepsPromise`, `CancelWins`, `NoCallAfterSavedResult`, `AttemptBudget` |
| `rooms` | 2 turns of one room of limit 1, 2 replicas, 1 crash, 1 outage, 1 attempt | `LeaseLimit`, `EveryTurnEnds` |
| `receipts` | 1 turn, 2 tool calls, 2 attempts, 1 handoff, no crash | `OneUnknownOperation`, `RunningIsDriven`, `EveryTurnEnds` |
| `events` | 4 events, pages of 2, 1 fault, 1 broken connection | `Numbered`, `ActivityEndsOnce`, `KeepsFeed`, `WakeSurvives` |
| `budget` | 2 tasks of one user and campaign with 2 and 1 attempts, 2 handlers, ceilings of 1, costs 0..2, limits 1 and 2, 2 ends of periods or new limits | `OneOpenAttempt`, `RecordsAgree`, `AdmissionStillFits` |
| `quota` | 2 messages, 2 attempts, 2 grants whose periods overlap, holds of 2, calls of 0, 1 or 3 tokens, clock 0..3, 1 death | `AnsweredIsCharged`, `FinishedHoldsNothing`, `LocksKeepTheBalance` |
| `studio` | 1 project, 2 runs, 2 processors, 1 attempt, 1 upload, 1 crash, requests that do not overlap, an Agent that overruns its reservation | `NotStranded`, `CancelIsHonoured` |
| `runs` | 1 run, 1 processor, 2 attempts, 1 crash, 2 half-failed Agent calls of 1 or 2 tokens against a reservation of 1, overlapping requests | `UsedIsDecided`, `MoneyAgrees`, `EveryRunEnds` |
| `supervisor` | 2 conversations, 2 requests, limits of 1 and 2 places, 2 ports, 2 processes, 1 death, 1 restart, room for 2 directories | `PoolBounded`, `EveryProcessIsOwned`, `NobodyStuck`, `CleanupSparesWorkers` |
| `access` | 3 handlers, 6 operations, an invite for 1, 2 join requests, 1 fault | `InviteBound`, `FollowsAuthority`, `PanelIsCurrent`, `DecidedOnce` |
| `packs` | 3 handlers, 4 requests, 2 Packs, 2 campaigns, quota 3, sizes 1 and 2, 1 fault, 1 generated byte | `StorageBounded`, `ExchangeIsCleaned`, `RowsFollowAuthority` |
| `forge` | 2 handlers, 1 release, 1 campaign, 2 assignments, 1 fault | `OnlyReviewedIsPublished`, `AcceptedIsGranted`, `ClosedStaysClosed` |

Each run explores between some thousands and three million states, in two or three
minutes at most with two workers.

Why the bounds are enough. The hazards of the queue are about one turn and at most
two executors of it: two workers let one executor overtake another in every phase,
two attempts let a retry meet what its predecessor left, one handoff exercises
the continuation and its limit, one crash strikes at every point. Turns share
nothing but a room's limit, a recovery transaction and the reaper, which the two
turns of `rooms` exercise. Two tool calls are the least with which two could be
open; tokens above and below the reservation make the cap visible, and zero is a
reply without usage data, which is recorded and charged as 0. Deadlock is checked only where something can always
happen (`budget`): elsewhere a system whose work has ended and whose bounds are
spent has nothing to do.

* `events`: a page of two and four events make full, partial and empty pages and
  let an event commit between two of them; a run's whole life (start, report, end,
  failure) fits into four.
* `budget`: two handlers are the least that can overlap, in one task and between
  tasks; a ceiling of 1 in a task budget of 1 makes every second worst case one
  too many; a cost of 2 is an overrun, 0 a free call; two changes let a period end
  and a new limit begin around one admission.
* `quota`: of the two grants one ends before the other, so that an answer may be
  settled against other grants than it was admitted under; 3 and 2 with holds of 2
  leave one token of slack; TTL 2 lets a hold expire under a call, 3 tokens
  overrun it, 0 is an answer without usage data, and two attempts are the least that deadlock.
* `studio`, `runs`: every kind of run starts from every situation of a project and
  is followed by every other; two processors let one find the run of the other,
  and the upload comes at any moment, so also in the middle of a review. In `runs`
  the second attempt meets the hold, the decision and the usage row of the first;
  two half-failed calls are the least that disagree.
* `supervisor`: with one place a second conversation must evict the first, with
  two it need not; a port that is not yet free again leaves a request without one, and
  otherwise there are as many as places; two idle workers are the least of which a
  failing sweep forgets one; the restart finds
  directories of the life before.
* `access`: three handlers let an acceptance cross a decision and a removal; one
  use and two requests make the invite contested; six operations reach a removal
  after a change of role after an admission, with the panel between them.
* `packs`: two campaigns import one Pack over one file; three handlers are two of
  these and an upload; a quota of 3 is met by sizes 1 and 2 and missed by two of 2.
* `forge`: two handlers are two moderators, or a moderator and an author; a second
  assignment exists only after the first was closed.

Fairness. `FairSpec` of `RoomTurnJobs` adds weak fairness per worker of polling,
of working on what was claimed and of the Agent call ending (the HTTP timeout
guarantees it), and of the clock. Nothing is assumed of players, hosts, receipts,
heartbeats, crashes, or of which result the Agent returns. Weak fairness of a poll
is what the loop of a live worker gives. For Module Studio the same is assumed of
each processor's claim and work, of recovery, of requests being answered, of
leases expiring once nobody executes the run (the process is restarted by its
container), and of the reaper of holds, which every room worker's poll calls. The
other runs check safety only; that a waiting spawn task can go on (`NobodyStuck`)
is stated as an invariant over the guards of its actions (`MayEvict`, `MayHold`, ...),
which are conjuncts of these actions and, with what the actions choose, enable them.

Some assumptions limit the properties. `ShownReplyIsTheChargedOne`,
`NoCallAfterSavedResult` and the lease limit need replicas that do not stall
and, for the first two, no database outage past the retries of a write (a worker
past its lease publishes what it holds) and no failed attempt of the turn that
was charged (`partial`, a variable that remembers it and that nothing reads; see
`recalled` below). `turns` checks them with two attempts, the theorems cover any
number. `EveryProcessIsOwned` excepts the workers two steps forget, and no
others: a request that finds no free port has popped one or two by then
(`agent_supervisor.py:974-977`), and a sweep ends at the first stop that raises,
with all expired workers popped (`agent_supervisor.py:324-331`; see `forgotten`
below). The code has a thousand ports, and ports are held by starts, of which
there are no more than places, and by retirements, which nothing but the number
of concurrent requests limits. `AttemptBudget` excepts a turn that was claimed
again between the read and the commit of a reconcile request that then queued it
(`revived`, a variable that remembers it and that nothing reads; see
`stale_reconcile`). `FollowsAuthority` excepts the role of a member who was
removed and let in again by an automatic invite (`readmitted`). `EveryTurnEnds`
needs the absence of a crash at one point, and so does `RunningIsDriven`, as the
counterexamples show. The heartbeat of a turn ends when its hold is closed,
while projection still goes on, so "replicas do not stall" includes a projection
that is short of the lease. `NotStranded` and `CancelIsHonoured` are checked
with requests that do not overlap: `retry_run` counts the active runs without
the lock the other actions take, and two runs may be active. `UsedIsDecided`
needs runs that end within their lease (`Slow = FALSE`): the default lease of a
run (900 s) is the default timeout of one Agent call, nothing renews it, and two
executions of one run each add their tokens to the project. The money of a run
(`MoneyAgrees`) needs neither; that is proved. `DecidedOnce` excepts an accepted
invite, which approves a request that was rejected while the authority was
asked. `LocksKeepTheBalance` excepts transactions that were overtaken, and
grants whose periods do not meet share no lock.

### What the counterexamples show

These configurations are not among the runs: each checks one statement that the
code does not keep. `tlc -config stranded.cfg MCRoomTurnJobs` shows the first; the
module is `MCRoomTurnJobs` for the first four, `MCModuleStudio` for the next two,
and is named for the others. Every one is found within two minutes.

* `stranded` - A turn with an unknown call publishes what is confirmed, in a
  commit that leaves it `running` without a lease, and its failure is recorded in
  the next transaction. A crash in between leaves it there: recovery looks for an
  expired lease and there is none. The documentation promises that recovery ends
  in a structured terminal error.
* `late_receipt` - A receipt between the unknown-result check and the failure
  record is not noticed by either: the turn ends as unknown with every call
  returned, and only a host's reconcile request resumes it.
* `stale_reconcile` - Reconcile decides on an object it read before its awaits.
  Meanwhile a receipt queues the turn, a worker claims it and fails it for good; the
  request then queues it once more, with a budget computed from the older reading
  and already spent, and the turn is claimed a third time with a budget of two.
* `recalled` - An attempt that failed after the Agent reported usage is charged,
  which closes the turn's hold. The heartbeat of the next attempt finds it closed
  and ends, so the lease runs out while the Agent works, and a third attempt calls
  the model although the second saves its result meanwhile; players may read one
  reply and pay for the other. Three attempts are the default. The docstring of
  `execute_room_turn_job` (`api/rooms.py:1979`) and `docs/room-turn-jobs.md` say
  that retries never start a second business operation once the result is saved.
* `unreviewed` - A revision stores its new source and imports it as the new draft
  in transactions of their own, and resets the review in its last one. If it
  fails in between, the project is `failed` with the new draft and the old
  review; `failed` may be finalized, and the check that an approved review exists
  passes. The documentation requires an approved review.
* `endless` - The failure handler records what a half-failed Agent call used. If
  the second attempt fails half-way too, with another count, the record does not
  match the first, the handler raises, and the process ends. Its restart recovers
  the run, whose attempts recovery does not count, and tries again.
* `overdrawn` (`MCQuotaHolds`) - A request reads the clock, waits for the locks of
  the grants, and counts what was used until its reading: a settlement that had
  the locks first is not counted, and the grant is overdrawn.
  `docs/architecture.md` says that row locks serialize the changes of the balance.
* `removed` (`MCCampaignAccess`) - A removal has asked the authority and not yet
  committed when the acceptance of an invite has it grant the role again; the
  member is recorded as removed. The same document says the service never claims a
  removal while the authority still permits access.
* `readmitted` (`MCCampaignAccess`) - A former "dm" is removed and accepts an
  automatic invite. The authority grants "player"; the row, found again, becomes
  active and keeps "dm", which is what the service's own checks go by
  (`api/invites.py:194-201`).
* `forgotten` (`MCAgentSupervisor`) - The sweep pops two expired workers, the stop
  of the first raises, the loop ends and the error is logged; the second runs on
  while the manager is open and nobody will stop it.
* `in_flight` (`MCPackLibrary`) - Imports of one Pack share one exchange file: the
  second copy truncates what the first import is being read from, and the first to
  end removes it under the second. `docs/beta-data-policy.md` says that a source in
  flight is not removed.
* `published` (`MCForgeIdentities`) - The verdict of a review that overlapped the
  submission is written over `published`. The docstring of `ArtifactRelease` calls
  a published release immutable.
* `regranted` (`MCForgeIdentities`) - An acceptance has the authority grant the
  role; before it commits, a revocation loads the assignment, sees it pending and
  asks the authority nothing. The assignment is revoked and the grant stays.

## Proofs

All theorems are about `Spec` for every value of the constants that satisfies the
module's `...Assumption` (types, distinct sentinels, positive limits; the sets
need not be finite, except where cardinalities or sums are compared), bounds on faults
included.

* `RoomTurnProofs!TypeCorrect` - `TypeOK /\ Busy /\ Looking`: a worker outside
  `idle` and `dead` has a turn, and a reconcile request only holds calls that
  have receipts. One step per action.
* `RoomTurnProofs!FailedNotCancelled` - from `CancelInv`, which adds that a
  terminal turn with a cancel request is `cancelled`: the property alone is not
  inductive because a receipt may requeue a turn.
* `RoomTurnProofs!CancelAlwaysWins` - an action property, from `CancelInv`.
* `RoomTurnProofs!ChargeCorrect` - by `MoneySteps`: every action is a `MoneyStep`
  of every turn; the idempotency keys make a second accounting a stutter.
* `RoomTurnProofs!PromiseKept` - the refinement. `Paid` strengthens the
  invariant: a saved result has a closed hold, and so has the turn of every
  worker on its way to publish, wherever it got its result; a worker on its way
  to the Agent has a hold. `WorkerSteps`, `SavedSteps` and `MoneySteps` say what
  a step may do to a worker, a saved result and the money, and `ShowSteps` and
  `CancelSteps` conclude.
* `RoomTurnProofs!OneOpenOperation` - any two open receipts of a turn are equal,
  hence at most one is open.
* `RoomTurnProofs!BudgetKept` - for every host. `AttemptLeft`: a claimable turn that
  is not `revived` still has an attempt left. A reconcile request decides that on
  what it read before its awaits; `ReadingsFit` says that if the turn was not claimed
  since (`attempt` is what it read), an attempt it saw left is left, because other
  steps change a budget only to one that leaves an attempt (`RaisesFits`).
* `RoomTurnProofs!LeaseLimitKept` - without hosts and stalls. A claim counts the
  leases it would add to; the proof is that no other step leases anything. That
  needs `LeaseInv`: only an active turn is leased, a turn of unknown result is
  not (so a late receipt requeues only what nobody leases), and the heartbeat of
  a lapsed lease is no longer beating (so no renewal revives it). `RoomsInv` adds
  that the leased turns of a room are finitely many, which counting needs.
* `RoomTurnProofs!RunningDriven` - with `Locals`: a worker between turns remembers
  none, so whoever has a running turn without a lease is at work on it.
* `RoomTurnProofs!ShownIsCharged`, `NoRecall` - while no replica stalls, for every
  number of workers, hosts, attempts, crashes and receipts. Neither property is
  inductive, for the code compares neither owner nor lease when it persists a
  result; what makes them true is that a turn has one executor at a time, and that
  is only so while its hold is open, because the heartbeat renews nothing after it
  is closed. `TurnInv` says, of one turn, that its worker has the lease and renews
  it while the hold is open (`Sole`) and is then the only one (`Alone`); that once
  the hold is closed nobody asks the Agent (`Spent`), since a saved result or a
  receipt that no continuation accounts for is there to be presented (`Lasting`,
  `Unfinished`, `Kept`); and that what is on its way to the players was paid for
  (`HeldPaid`, `SavedPaid`). `Chained` (a continuation lists returned calls only)
  ties it to the receipts, through which a host or a late Agent reopens a turn.
  Without their second condition the properties are false, which the failing proof
  showed first: `recalled`.
* `EventsAndPacksProofs!NumberedLog`, `OneEnd`, `ClientWithoutGap`, `WakeUpSurvives` -
  from `EventsInv`. `LogInv` adds to `Numbered` that the log is finite and no number
  is used twice; `FailureKnows` says that what the failure record read without the
  lock is still so if no number was taken since, else its commit collides. By
  `StreamInv` nobody is past the end of the log and frames are of the page that was
  read, which makes `NoGap` (the browser has all it may see up to its last event)
  inductive; by `WakeInv` an event that a stream has not
  read, and is not told of, is one the outbox still holds and the listener hears.
* `EventsAndPacksProofs!FeedKept` - the second refinement. `NoGap` says what was not
  left out; a feed also delivers nothing twice and nothing late, which needs `Behind`:
  the frames still to be sent are exactly what the browser may see between its last
  event and the end of the page. One lemma per kind of step shows which step of
  the feed it is, `RoomFeeds` for `Adds` (numbers are never given again, so nothing
  appears behind the reader), `SendsFeeds` for `Delivers`, `DropsFeeds` for `Begins`;
  the others are stutters.
* `SpendingProofs!OneOpen`, `Agreement`, `Finality` - from `BudgetInv`. The
  properties are about calls, the danger is in what a handler decided and has not
  written: `LockHeld` says that a handler in a transaction is the one that holds
  the site row, hence the only one, and `DecisionsHold` that what it decided is
  still true, for no other step touches a call while it holds the row;
  `FreshUntilSettled` ties the digest to the status.
* `SpendingProofs!AdmissionFits` - balances are sums, so the invariant adds that what
  is counted or held is finite and was recorded (`Countable`). An admission that waits
  for its commit holds the site row (`LockHeld`), so nobody else writes a claim or a
  cost; the end of a period only lessens a balance, and a limit that is changed is no
  part of what was decided.
* `SpendingProofs!AnswersAreCharged`, `FinishedReleases` - from `HoldsInv`: a hold
  exists exactly when its run does (`HoldsComeWithRuns`), what was charged is no
  longer reserved (`ChargedIsSpent`), and a hold an attempt did not find reserved is
  not reserved again (`SeenStays`). The last is what excuses the stale session.
* `SpendingProofs!ChargeIsFinal` - that what a message was charged never changes: who
  settles holds the row of its message and found it not charged (`Locks`), so no
  retry, second request or late settlement charges it again.
* `SpendingProofs!LocksKeep` - from `BalanceInv` beside `HoldsInv`: who has decided holds
  every grant of its period, and who settles holds its message, not charged yet
  (`Locks`); an attempt that was not overtaken has a reading of the clock no row is
  younger than (`Sees`), so what it reads under the locks is all there is; and what it
  decided still fits (`Decides`), for two that have decided hold no grant in common
  (`DecidedApart`) and whoever commits then overtakes the other. `UntouchedKept` says
  what a step owes to the other attempts; the sums are the lemmas of `FiniteSums`.
* `CampaignAccessProofs!InviteIsBounded`, `DecisionIsFinal` - from `AccessInv`: while
  a handler accepts it holds the invite's row, so it is alone (`AcceptsAlone`) and
  the use it checked is still free when it commits; a reviewer on its way holds
  the row of a request that is pending (`ApprovesPending`).
* `CampaignAccessProofs!RecordFollows`, `CacheIsCurrent` - from `MirrorInv`. A step
  either leaves the membership, its epoch and the panel's facts alone (`Leaves`) or
  writes them under the next epoch (`Advances`); `CacheInv` adds that no panel, and
  no answer on its way to the cache, is of an epoch still to come, and that one asked
  for under the current epoch is still true. Both are guarded by `loose`, as the
  properties are: crossed changes do break them; and the role by `kept`, for the one
  write that keeps a role is the acceptance that finds the row of a former member.
* `ForgeIdentitiesProofs!TypeCorrect`, `OnlyReviewedPublished` - no row is locked while
  a release is decided, so the invariant speaks of the past instead: a release that
  waits was submitted, a verdict of approval was given, and what a moderator is about
  to approve was both when it was loaded, hence for ever (`PublishInv`). `Publishes`
  says what a commit may add to a release another handler overwrote meanwhile.
* `ForgeIdentitiesProofs!AcceptedStaysGranted`, `ClosedForGood` - from `HostInv`: who
  accepts an assignment holds its row and it is pending (`Decides`), an open one has
  the only key of its campaign (`Keyed`), and what is accepted, or is about to be, is
  granted or has a revocation that was answered (`GrantInv`). Without `Keyed` a
  revocation could take the grant of another assignment of the campaign. `ClosedForGood`
  needs no more than `Decides`: the commit of a late acceptance finds its row pending.
* `EventsAndPacksProofs!ExchangeCleaned`, `RowsFollow` - from `LibraryInv`. `Told` says
  what each request relies on: what it heard from the authority is so, a row it has
  inserted and not committed is locked by it and by no other, and a row it read as
  activated is still activated. A step `Spares` the others if it takes no lock of
  theirs and writes no row they have locked, and `Tidies` if it leaves no file of its
  own; then one lemma per group of actions suffices. A projection is never taken back,
  which is why an unlocked read of it is still good at the commit.
* `EventsAndPacksProofs!QuotaKept` - from `StorageInv`: whoever copies bytes holds the
  row of the user, and its allowance fits into what is left of the quota; so nobody
  else has one, and a commit adds no more than it.
* `ModuleStudioProofs!TypeCorrect` - `TypeOK /\ Assigned`: a run that is executed,
  queued, retried or canceled has a kind. A step is described column by column
  (`Kept`); one lemma per action says that it keeps every column.
* `ModuleStudioProofs!MoneyCorrect` - every step that writes a run `Keeps` its
  money: it leaves hold, charge and record alone, or moves a hold that is not
  settled, or records all three at once.
* `ModuleStudioProofs!ChargedForGood` - what a run was charged never changes and its
  hold stays settled, without the lease and with overlapping requests: two processors
  may execute one run. A row is recorded only by the first to come, a replay repeats what was
  recorded (`MoneyAgrees`), and a row that no run has taken yet is blank (`Blank`),
  so a new run never inherits a charge.
* `ModuleStudioProofs!CancelHonoured` - for requests that do not overlap, from
  `Heeding`. A run that succeeds has decided because its processor is past the stage
  of its kind at which it decides only with a decision (`Onward`); a run asked to
  stop cannot fail (`Heeded`) because every row a processor moves asks first, and the
  request that cancels still sees the run as it is (`CancelIsCurrent`), for it is
  alone. No lease is needed: two processors may be at one run.
* `ModuleStudioProofs!NeverStranded` - for requests that do not overlap and runs that
  end within their lease, from `Attended`: one run is active, one processor executes
  it, with a lease (`OneActive`, `OneExecutes`, `Leased`), and a run that is about to
  succeed has taken the project out of its waiting state before (`ClosesWell`). Then
  whatever ends the last active run (success, failure, cancel, recovery) leaves the
  project where its author can act.
* `ModuleStudioProofs!UsedOnce` - for runs that end within their lease, from `Booked`;
  requests may overlap, so `NeverStranded`'s invariant is not to be had. One processor
  executes a run (`ExecutesAlone`), which stays running under its lease or is canceled
  meanwhile (`Held`); hence who asks the Agent still has no decision when it saves one
  (`Undecided`), and a half-failed call is recorded anew only by who has none.
* `AgentSupervisorProofs!PoolIsBounded` - from `Pool`, about who owns what while
  others wait: a start is in `spawn_tasks` as long as it is under way (`Tasked`), a
  process popped from the pool has exactly one task that will stop it (`StopsOnce`),
  and whoever may still run has a port of its own, reserved or retiring (`Ported`,
  `Distinct`). A step that starts somebody in a full pool has replaced somebody, any
  other adds to a pool that is not full (`AtMost`). All this ends when the manager
  closes, for `close` abandons tasks; distinct ports (`Apart`) outlive it.
* `AgentSupervisorProofs!NoneIsForgotten` - from `Pool`: a live process stays owned
  through every hand-over between the dictionary, the starts, the requests and the
  cleaner (`OwnedStep`), until the manager closes. What a request without
  a port and a failing sweep pop is exactly what `forgotten` adds.
* `AgentSupervisorProofs!CleanupIsSafe` - an action property, from `Covered`: what
  the holder of the workspace lock protects contains every directory in use. It was
  so when the set was read, and nobody begins to use a directory without the lock. It is
  about installed and starting workers, not popped ones, and excepts the step that
  ends the conversation.
* `AgentSupervisorProofs!NobodyIsStuck` - from `HeldInTurn` and `Told`. The workspace
  lock is held by the cleaner in its prune or by the one start that prepares its
  directory, both of which go on; a place of the semaphore only by a start that goes
  on, waits for that lock, or for the process it told to end. Who waits for a process
  (`Told`) waits for one that was told to end: it exits, or is gone, for a worker that
  was replaced has ended its start and never runs again (`Replaces`). So the chain of waits has an end, also while
  the manager closes.

Only model-checked: liveness under fairness (`EveryTurnEnds`, `EveryRunEnds`), which
TLAPS does not handle. Every other property of the runs is a theorem.

`FiniteSums` is what the proofs about sums rest on. The library defines a sum by a
recursion that takes chosen elements; that the recursion has one solution, that any
element may be taken first, and that equal terms have equal sums, is proved there for
every finite set. The usual induction theorem cannot be cited here (it takes an
operator as its parameter), so each lemma looks at a smallest set for which it fails.

## Not modelled

* The combat render cache: single-flight rendering in memory; a
  waiter that is cancelled leaves its render to the others (`combat_render_cache.py:76`).
* Accounts and sessions: single transactions over library cryptography.
* The protocol adapters, object storage, media decoding, backup, schemas, metrics,
  migrations, scripts and the frontend: I/O or pure data. What their callers rely on
  is in the modules (an effect and an answer, a refusal, or a lost answer).
* Of modelled components: collaborators, forks, favourites, posts and memory entries
  of the Forge, its review quota; creation, update and deletion of campaigns; room
  routes other than those of turns and events; contents of events, drafts, archives.
* Interleavings the modules leave out, each a plausible subject of its own: the
  unknown flag of a turn written from an unlocked read (`api/rooms.py:2167`), the
  authority context written back the same way (`api/rooms.py:1587`), a trigger
  failed by a refused preparation of another executor (`api/rooms.py:1502`), usage
  of a handed-off segment that is charged with the last one (`api/rooms.py:1966`),
  two admissions of one key before any lock (`quota.py:225`), a heartbeat no
  module run has (`module_worker.py:234`), and synchronous row locks held across
  awaits by asynchronous handlers (`api/packs.py:264`), which block the event loop
  that would release them; `docs/async-database-hotpaths.md` treats this for room
  actions only.

## Plan

1. `RenderCache`: entries, in-flight renders, cancellation of the last waiter.
2. `CampaignAccess` with several applicants, invites and actors; accounts.
