---------------------------- MODULE ModuleStudio ----------------------------
(***************************************************************************)
(* Module Studio: the authoring of one module project by runs (outline,    *)
(* generate, review, revise, finalize, install) that its author queues,    *)
(* cancels and retries (api/modules.py) and that the processors of the     *)
(* worker process execute stage by stage, with calls to the Agent and the  *)
(* rules engine in between (module_worker.py).                             *)
(*                                                                         *)
(* A source, the draft imported from it and the artifact compiled from     *)
(* the draft are all named by the generation of the source, 0 is none.     *)
(***************************************************************************)
EXTENDS Integers, Sequences, FiniteSets, FiniteSetsExt

CONSTANTS
    MaxRuns,      \* bound: runs queued; a run is named by its place
    Workers,      \* the processors of the worker process
    Handlers,     \* request threads of the API
    MaxAttempts,  \* ModuleRun.max_attempts
    Reservation,  \* module_agent_reservation_tokens
    Tokens,       \* bound: what an Agent call may use
    Budget,       \* ModuleProject.budget_tokens
    Atomic,       \* requests do not overlap with anything
    Slow,         \* a run may take longer than its lease
    MaxUploads, MaxCrashes, MaxPartials \* bounds: uploads, deaths, half-failed calls

Unlimited == -1

ASSUME StudioAssumption ==
    /\ MaxRuns \in Nat /\ MaxAttempts \in Nat \ {0}
    /\ Reservation \in Nat \ {0} /\ Tokens \subseteq Nat /\ Budget \in Nat
    /\ Atomic \in BOOLEAN /\ Slow \in BOOLEAN
    /\ MaxUploads \in Nat /\ MaxCrashes \in Nat /\ MaxPartials \in Nat \cup {Unlimited}

VARIABLES
    project,  \* the ModuleProject row
    run,      \* the ModuleRun rows, their reservations and usage rows
    worker,   \* what a processor does, for which run, and what it read
    pending,  \* a request between its reads and its commit
    uploads, crashes, partials

vars == <<project, run, worker, pending, uploads, crashes, partials>>
counters == <<uploads, crashes, partials>>

-----------------------------------------------------------------------------
Runs == 1..MaxRuns
NoRun == 0
Kinds == {"outline", "generate", "review", "revise", "revise_version", "finalize", "install"}
ProjectStatus == {"idea", "outlining", "outline_ready", "generating", "draft_review",
                  "ready_to_finalize", "finalizing", "compiled", "failed", "canceled", "archived"}
Active == {"queued", "running"}
Ended == {"succeeded", "failed", "canceled"}
Unrecorded == -1

\* The stages of a run, each a transaction, or a call between two of them.
Rewrite == <<"store", "start", "package", "finish">>
Path ==
    [outline        |-> <<"start", "evidence", "decide", "finish">>,
     generate       |-> <<"decide">> \o Rewrite,
     review         |-> <<"start", "evidence", "decide", "package", "finish">>,
     revise         |-> <<"evidence", "decide">> \o Rewrite,
     revise_version |-> <<"evidence", "decide", "version">> \o Rewrite,
     finalize       |-> <<"check", "decide", "compile">>,
     install        |-> <<"check", "import">>]

\* RUNNING_PROJECT_STATUS: what a claimed run makes of its project.
RunningStatus ==
    [outline |-> "outlining", generate |-> "generating", review |-> "draft_review",
     revise |-> "generating", revise_version |-> "generating",
     finalize |-> "finalizing", install |-> "compiled"]

\* _queue_action: when an action may be queued; revise asks for a new version of a
\* compiled module.
AllowedStatus ==
    [outline |-> {"idea", "outline_ready", "failed", "canceled"},
     generate |-> {"outline_ready", "failed", "canceled"},
     review |-> {"draft_review", "failed", "canceled"},
     revise |-> {"draft_review", "ready_to_finalize", "failed", "canceled"},
     revise_version |-> {"draft_review", "ready_to_finalize", "compiled", "failed", "canceled"},
     finalize |-> {"ready_to_finalize", "failed"},
     install |-> {"compiled"}]
Uploadable == {"idea", "outline_ready", "draft_review", "failed", "canceled"}

Unqueued ==
    [kind |-> "none", status |-> "none", attempt |-> 0, fresh |-> FALSE, cancel |-> FALSE,
     decision |-> "none", evidence |-> 0,
     hold |-> "none", consumed |-> Unrecorded, charge |-> Unrecorded]
Queued(kind) == [Unqueued EXCEPT !.kind = kind, !.status = "queued"]
Idle == [at |-> "idle", run |-> NoRun, step |-> 0, read |-> 0, tokens |-> Unrecorded]

\* Between runs a project is new, has a source, an approved outline, a draft, a
\* reviewed draft, or an artifact.
Situation(status, outlined, source, draft, review, final) ==
    [status |-> status, outlined |-> outlined, source |-> source, draft |-> draft,
     review |-> review, final |-> final, released |-> 0, used |-> 0,
     cancelling |-> FALSE, archived |-> FALSE]
Situations ==
    {Situation("idea", FALSE, 0, 0, 0, 0), Situation("idea", FALSE, 1, 0, 0, 0),
     Situation("outline_ready", TRUE, 0, 0, 0, 0), Situation("draft_review", TRUE, 1, 1, 0, 0),
     Situation("ready_to_finalize", TRUE, 1, 1, 1, 0), Situation("compiled", TRUE, 1, 1, 1, 1)}

NoRequest ==
    [op |-> "none", run |-> NoRun, kind |-> "none", seen |-> Situation("idea", FALSE, 0, 0, 0, 0)]

Init ==
    /\ project \in Situations
    /\ run = [r \in Runs |-> Unqueued]
    /\ worker = [w \in Workers |-> Idle]
    /\ pending = [h \in Handlers |-> NoRequest]
    /\ uploads = 0 /\ crashes = 0 /\ partials = 0

-----------------------------------------------------------------------------
(* Requests of the author: read and check, then commit or give up.         *)

\* ACTIVE_RUN_STATUSES: a project has one active run.
NoActiveRun == \A r \in Runs : run[r].status \notin Active
FreeRun == {r \in Runs : run[r].status = "none" /\ \A s \in Runs : s < r => run[s].status # "none"}
Enqueue(kind) == \E r \in FreeRun : run' = [run EXCEPT ![r] = Queued(kind)]

Ask(h, op, r, kind) ==
    /\ pending[h] = NoRequest /\ ~project.archived
    /\ pending' = [pending EXCEPT ![h] = [op |-> op, run |-> r, kind |-> kind, seen |-> project]]
    /\ UNCHANGED <<project, run, worker, counters>>

\* _queue_action for one of the six actions; generate needs an approved outline.
AskQueue(h, kind) ==
    /\ kind = "generate" => project.outlined
    /\ FreeRun # {} /\ Ask(h, "queue", NoRun, kind)
AskRetry(h, r) ==
    /\ run[r].status \in {"failed", "canceled"} /\ NoActiveRun
    /\ FreeRun # {} /\ Ask(h, "retry", r, run[r].kind)
AskCancel(h, r) == run[r].status \in Active /\ Ask(h, "cancel", r, run[r].status)
AskUpload(h) ==
    project.status \in Uploadable /\ uploads < MaxUploads /\ Ask(h, "upload", NoRun, "none")
AskDecideOutline(h, answer) ==
    project.status = "outline_ready" /\ Ask(h, "outline_decision", NoRun, answer)
AskArchive(h) == NoActiveRun /\ Ask(h, "archive", NoRun, "none")
AskPublish(h) ==
    /\ project.status = "compiled" /\ project.final # 0 /\ project.review # 0
    /\ Ask(h, "publish", NoRun, "none")

Asked(h, op) == pending[h].op = op
Answer(h) ==
    pending' = [pending EXCEPT ![h] = NoRequest] /\ UNCHANGED <<worker, crashes, partials>>

\* A column is written when its value differs from the one that was read.
Write(h, column, new) == IF new = pending[h].seen[column] THEN project[column] ELSE new

\* The actions that look at the project before they lock it go on with the status
\* they saw; all count the active runs under the lock.
ReadFirst == {"generate", "revise", "revise_version", "install"}
Queue(h) ==
    /\ Asked(h, "queue")
    /\ LET kind == pending[h].kind IN
       /\ (IF kind \in ReadFirst THEN pending[h].seen.status ELSE project.status)
              \in AllowedStatus[kind]
       /\ NoActiveRun /\ ~project.archived
       /\ Enqueue(kind)
    /\ Answer(h) /\ UNCHANGED <<project, uploads>>

\* retry_run does not lock the project.
Retry(h) ==
    /\ Asked(h, "retry") /\ Enqueue(pending[h].kind)
    /\ Answer(h) /\ UNCHANGED <<project, uploads>>

\* cancel_run: a queued run is over, a running one is asked to stop.
Cancel(h) ==
    /\ Asked(h, "cancel")
    /\ LET r == pending[h].run IN
       IF pending[h].kind = "queued"
       THEN /\ run' = [run EXCEPT ![r].status = "canceled"]
            /\ project' = [project EXCEPT !.status = Write(h, "status", "canceled")]
       ELSE /\ run' = [run EXCEPT ![r].cancel = TRUE]
            /\ project' = [project EXCEPT !.cancelling = Write(h, "cancelling", TRUE)]
    /\ Answer(h) /\ UNCHANGED uploads

\* upload_source: the new source has no draft and no review; its generation is
\* unique in the project.
Upload(h) ==
    /\ Asked(h, "upload") /\ project.source = pending[h].seen.source
    /\ project' = [project EXCEPT !.source = @ + 1, !.draft = Write(h, "draft", 0),
                        !.review = Write(h, "review", 0), !.status = Write(h, "status", "idea")]
    /\ uploads' = uploads + 1
    /\ Answer(h) /\ UNCHANGED run

DecideOutline(h) ==
    /\ Asked(h, "outline_decision")
    /\ project' = IF pending[h].kind = "approve"
                  THEN [project EXCEPT !.outlined = Write(h, "outlined", TRUE)]
                  ELSE [project EXCEPT !.outlined = FALSE, !.status = "idea"]
    /\ Answer(h) /\ UNCHANGED <<run, uploads>>

Archive(h) ==
    /\ Asked(h, "archive")
    /\ project' = [project EXCEPT !.archived = TRUE, !.status = "archived"]
    /\ Answer(h) /\ UNCHANGED <<run, uploads>>

\* publish_module: one release of a version.
Publish(h) ==
    /\ Asked(h, "publish")
    /\ project' = [project EXCEPT !.released = IF @ = 0 THEN pending[h].seen.final ELSE @]
    /\ Answer(h) /\ UNCHANGED <<run, uploads>>

\* Any request may be refused in the end, or its connection lost.
Refuse(h) == pending[h] # NoRequest /\ Answer(h) /\ UNCHANGED <<project, run, uploads>>

Requests(h) ==
    \/ \E k \in Kinds : AskQueue(h, k)
    \/ \E r \in Runs : AskRetry(h, r) \/ AskCancel(h, r)
    \/ \E a \in {"approve", "reject"} : AskDecideOutline(h, a)
    \/ AskUpload(h) \/ AskArchive(h) \/ AskPublish(h)
Answers(h) ==
    \/ Queue(h) \/ Retry(h) \/ Cancel(h) \/ Upload(h)
    \/ DecideOutline(h) \/ Archive(h) \/ Publish(h) \/ Refuse(h)

-----------------------------------------------------------------------------
(* The queue.                                                              *)

Task(w) == run[worker[w].run]
Executing(r) == \E w \in Workers : worker[w].run = r
Busy == \E w \in Workers : worker[w].at # "idle"

\* A run that ends or is requeued has no lease; a hold is given back if it is open,
\* and a canceled project starts anew.  The slips forget to ask, and the status.
ReleaseAny(hold) == "released"
Release(hold) == IF hold = "reserved" THEN "released" ELSE hold
Canceled(t) == [t EXCEPT !.status = "canceled", !.fresh = FALSE]
UnflaggedProject == [project EXCEPT !.cancelling = FALSE]
CanceledProject == [project EXCEPT !.status = "canceled", !.cancelling = FALSE]

\* recover_expired: running runs whose lease is over; the slip looks among the queued.
ExpiredInQueue == {r \in Runs : run[r].status = "queued" /\ run[r].fresh}
Expired == {r \in Runs : run[r].status = "running" /\ ~run[r].fresh}
RecoverExpired ==
    /\ Expired # {}
    /\ run' = [r \in Runs |-> IF r \in Expired THEN [run[r] EXCEPT !.status = "queued"] ELSE run[r]]
    /\ UNCHANGED <<project, worker, pending, counters>>

\* The count of attempts is only compared with its limit.
Claim(w, r) ==
    /\ worker[w].at = "idle" /\ run[r].status = "queued"
    /\ run' = [run EXCEPT ![r].status = "running", ![r].fresh = TRUE,
                          ![r].attempt = IF @ < MaxAttempts THEN @ + 1 ELSE @]
    /\ project' = [project EXCEPT !.status = RunningStatus[run[r].kind]]
    /\ worker' = [worker EXCEPT ![w] = [Idle EXCEPT !.at = "claimed", !.run = r]]
    /\ UNCHANGED <<pending, counters>>

LeaseExpires(r) ==
    /\ run[r].status = "running" /\ run[r].fresh
    /\ Slow \/ ~Executing(r)
    /\ run' = [run EXCEPT ![r].fresh = FALSE]
    /\ UNCHANGED <<project, worker, pending, counters>>

\* The process dies, and with it what its processors were doing.
Dies == worker' = [w \in Workers |-> Idle] /\ UNCHANGED <<project, run, pending, uploads, partials>>
Crash == Busy /\ crashes < MaxCrashes /\ crashes' = crashes + 1 /\ Dies

-----------------------------------------------------------------------------
(* A run, stage by stage.                                                  *)

Stage(w) == IF worker[w].step \in DOMAIN Path[Task(w).kind] THEN Path[Task(w).kind][worker[w].step]
            ELSE "complete"
At(w, stage) == worker[w].at = "working" /\ Stage(w) = stage /\ ~project.archived
Awaits(w, stage) == worker[w].at = "awaiting" /\ Stage(w) = stage /\ ~project.archived

Move(w, new) == worker' = [worker EXCEPT ![w] = new] /\ UNCHANGED <<pending, counters>>
Advance(w, read) ==
    Move(w, [worker[w] EXCEPT !.at = "working", !.step = @ + 1, !.read = read])
Await(w, read) == Move(w, [worker[w] EXCEPT !.at = "awaiting", !.read = read])
Raise(w, tokens) == Move(w, [worker[w] EXCEPT !.at = "failing", !.read = 0, !.tokens = tokens])
Same == UNCHANGED <<project, run>>

\* process_one after the claim.
Begin(w) ==
    /\ worker[w].at = "claimed"
    /\ IF Task(w).cancel
       THEN /\ run' = [run EXCEPT ![worker[w].run] = Canceled(@)] /\ project' = CanceledProject
            /\ Move(w, Idle)
       ELSE Advance(w, 0) /\ Same

\* Storage, the rules engine, the Agent or a check of what they returned fails.
Fails(w) == worker[w].at \in {"working", "awaiting", "asking"} /\ Raise(w, Unrecorded) /\ Same

\* _start_current_source: nothing to do, or a draft of the source that was read.
StartSkipped(w) ==
    /\ At(w, "start")
    /\ project.draft # 0 \/ (Task(w).kind = "outline" /\ project.source = 0)
    /\ Advance(w, 0) /\ Same
Start(w) ==
    /\ At(w, "start") /\ project.draft = 0 /\ project.source # 0
    /\ Await(w, project.source) /\ Same
Started(w) ==
    /\ Awaits(w, "start")
    /\ project' = [project EXCEPT !.draft = worker[w].read]
    /\ Advance(w, 0) /\ UNCHANGED run

\* _draft_evidence: what the Agent is shown of the draft.
Evidence(w) == At(w, "evidence") /\ Advance(w, project.draft) /\ Same

\* _store_generated_source: the next generation, unless somebody took it.
Store(w) == At(w, "store") /\ Await(w, project.source + 1) /\ Same
Stored(w) ==
    /\ Awaits(w, "store") /\ project.source < worker[w].read
    /\ project' = [project EXCEPT !.source = worker[w].read, !.draft = 0]
    /\ Advance(w, 0) /\ UNCHANGED run

\* _apply_package_decisions: an edit of the draft that was read, if there is any.
PackageSkipped(w) == At(w, "package") /\ Advance(w, 0) /\ Same
Package(w) == At(w, "package") /\ project.draft # 0 /\ Await(w, project.draft) /\ Same
Packaged(w) ==
    /\ Awaits(w, "package")
    /\ project' = [project EXCEPT !.draft = worker[w].read]
    /\ Advance(w, 0) /\ UNCHANGED run

\* _run_revise: the next version is not compiled, nor published.
Version(w) ==
    /\ At(w, "version")
    /\ project' = [project EXCEPT !.final = 0, !.released = 0]
    /\ Advance(w, 0) /\ UNCHANGED run

\* _run_finalize and _run_install before anything else.
Check(w) ==
    /\ At(w, "check")
    /\ IF Task(w).kind = "finalize"
       THEN /\ project.status \in {"finalizing", "ready_to_finalize"} /\ project.review # 0
            /\ Advance(w, project.draft)
       ELSE project.final # 0 /\ Advance(w, 0)
    /\ Same

\* The rules engine compiles the draft that was read before the Agent was asked.
Compile(w) ==
    /\ At(w, "compile") /\ worker[w].read # 0
    /\ project' = [project EXCEPT !.draft = worker[w].read, !.final = worker[w].read,
                                  !.status = "compiled"]
    /\ Advance(w, 0) /\ UNCHANGED run

\* The engine imports the artifact into a campaign; the project stays as it is.
Import(w) == At(w, "import") /\ Advance(w, 0) /\ Same

\* The last transaction of the other kinds.
Approved(t) == t.decision = "approved"
Finished(t) ==
    CASE t.kind = "outline" -> [project EXCEPT !.status = "outline_ready"]
      [] t.kind = "generate" -> [project EXCEPT !.status = "draft_review"]
      [] t.kind = "review" ->
            [project EXCEPT !.review = IF Approved(t) THEN t.evidence ELSE 0,
                            !.status = IF Approved(t) THEN "ready_to_finalize" ELSE "draft_review"]
      [] OTHER -> [project EXCEPT !.status = "draft_review", !.review = 0]
Finish(w) ==
    /\ At(w, "finish")
    /\ project' = Finished(Task(w))
    /\ Advance(w, 0) /\ UNCHANGED run

Complete(w) ==
    /\ At(w, "complete")
    /\ run' = [run EXCEPT ![worker[w].run].status = "succeeded", ![worker[w].run].fresh = FALSE]
    /\ Move(w, Idle) /\ UNCHANGED project

-----------------------------------------------------------------------------
(* The Agent and the money: _agent_json and _fail.                         *)

\* What the Agent decided must be a decision of the kind; only a review may say no.
Verdict == {"approved", "rejected", "invalid"}
VerdictOf(kind) == IF kind = "review" THEN Verdict ELSE {"approved", "invalid"}
Obey(w, decision) ==
    IF decision = "invalid" THEN Raise(w, Unrecorded)
    ELSE Advance(w, worker[w].read)

\* A decision is saved for the next attempts of the run.
Recall(w) ==
    /\ At(w, "decide") /\ Task(w).decision # "none"
    /\ Obey(w, Task(w).decision) /\ Same

\* One reservation per run, whatever became of it.
AskAgent(w) ==
    /\ At(w, "decide") /\ Task(w).decision = "none"
    /\ project.used + Reservation <= Budget
    /\ run' = [run EXCEPT ![worker[w].run].hold = IF @ = "none" THEN "reserved" ELSE @]
    /\ Move(w, [worker[w] EXCEPT !.at = "asking"])
    /\ UNCHANGED project

\* record_provider_consumption and settle: a replay must repeat what was recorded.
Cap(tokens) == IF tokens < Reservation THEN tokens ELSE Reservation
MayRecord(t, tokens) ==
    /\ t.consumed \in {Unrecorded, tokens}
    /\ IF t.charge # Unrecorded THEN t.charge = Cap(tokens) ELSE t.hold = "reserved"
Recorded(t, tokens) ==
    [t EXCEPT !.consumed = tokens, !.charge = Cap(tokens), !.hold = "settled"]

\* The project pays what was used; the slip, what was charged.
SpentCharge(tokens) == Cap(tokens)
Spent(tokens) == tokens

\* The Agent answers: the decision, its price and the project's tokens are one commit.
SaveDecision(w, decision, tokens) ==
    /\ worker[w].at = "asking" /\ decision \in VerdictOf(Task(w).kind) /\ ~project.archived
    /\ ~Task(w).cancel /\ ~project.cancelling
    /\ MayRecord(Task(w), tokens)
    /\ run' = [run EXCEPT ![worker[w].run] =
                   [Recorded(@, tokens) EXCEPT !.decision = decision, !.evidence = worker[w].read]]
    /\ project' = [project EXCEPT !.used = @ + Spent(tokens)]
    /\ Obey(w, decision)

\* The Agent fails half-way and says what it used.
FailsHalfway(w, tokens) ==
    /\ worker[w].at = "asking" /\ partials # MaxPartials
    /\ partials' = IF MaxPartials = Unlimited THEN partials ELSE partials + 1
    /\ worker' = [worker EXCEPT ![w].at = "failing", ![w].read = 0, ![w].tokens = tokens]
    /\ UNCHANGED <<project, run, pending, uploads, crashes>>

\* The end of a failed run: canceled, queued again, or failed; the slip does not ask
\* whether it was to stop.
Settled(t, tokens) == IF tokens = Unrecorded THEN t ELSE Recorded(t, tokens)
FailedAnyway(t) ==
    IF t.attempt < MaxAttempts THEN [t EXCEPT !.status = "queued", !.fresh = FALSE]
    ELSE [t EXCEPT !.status = "failed", !.fresh = FALSE, !.hold = Release(@)]
Failed(t) ==
    IF t.cancel \/ project.cancelling THEN [Canceled(t) EXCEPT !.hold = Release(@)]
    ELSE IF t.attempt < MaxAttempts THEN [t EXCEPT !.status = "queued", !.fresh = FALSE]
    ELSE [t EXCEPT !.status = "failed", !.fresh = FALSE, !.hold = Release(@)]
MayFail(w) == worker[w].tokens = Unrecorded \/ MayRecord(Task(w), worker[w].tokens)
Fail(w) ==
    /\ worker[w].at = "failing" /\ MayFail(w)
    /\ LET t == Task(w) IN
       /\ run' = [run EXCEPT ![worker[w].run] = Failed(Settled(t, worker[w].tokens))]
       /\ project' = IF t.cancel \/ project.cancelling THEN CanceledProject
                     ELSE IF t.attempt < MaxAttempts THEN project
                     ELSE [project EXCEPT !.status = "failed"]
    /\ Move(w, Idle)

\* _fail raises, out of process_one and the loops of all processors.
FailRaises(w) ==
    /\ worker[w].at = "failing" /\ ~MayFail(w)
    /\ Dies /\ UNCHANGED crashes

\* expire_abandoned: holds past their time whose run has ended.
ExpireHold(r) ==
    /\ run[r].hold = "reserved" /\ run[r].status \notin Active
    /\ run' = [run EXCEPT ![r].hold = "expired"]
    /\ UNCHANGED <<project, worker, pending, counters>>

-----------------------------------------------------------------------------
Work(w) ==
    \/ Begin(w) \/ Fails(w)
    \/ StartSkipped(w) \/ Start(w) \/ Started(w) \/ Evidence(w) \/ Store(w) \/ Stored(w)
    \/ PackageSkipped(w) \/ Package(w) \/ Packaged(w)
    \/ Version(w) \/ Check(w) \/ Compile(w) \/ Import(w) \/ Finish(w) \/ Complete(w)
    \/ Recall(w) \/ AskAgent(w) \/ Fail(w) \/ FailRaises(w)
    \/ \E tokens \in Tokens :
        \/ FailsHalfway(w, tokens)
        \/ \E d \in Verdict : SaveDecision(w, d, tokens)

Background ==
    \/ RecoverExpired \/ Crash
    \/ \E r \in Runs : LeaseExpires(r) \/ ExpireHold(r)
    \/ \E w \in Workers : Work(w) \/ \E r \in Runs : Claim(w, r)

Quiet == \A h \in Handlers : pending[h] = NoRequest
Next ==
    \/ \E h \in Handlers : Answers(h)
    \/ (Atomic => Quiet) /\ (Background \/ \E h \in Handlers : Requests(h))

Spec == Init /\ [][Next]_vars

\* Processors poll, work and are restarted; calls end; leases and holds expire.
Fairness ==
    /\ WF_vars(RecoverExpired) /\ \A h \in Handlers : WF_vars(Answers(h))
    /\ \A w \in Workers : WF_vars(Work(w)) /\ WF_vars(\E r \in Runs : Claim(w, r))
    /\ \A r \in Runs : WF_vars(LeaseExpires(r)) /\ WF_vars(ExpireHold(r))
FairSpec == Spec /\ Fairness

-----------------------------------------------------------------------------
(* What must hold of a project.                                            *)

ProjectType ==
    [status : ProjectStatus, outlined : BOOLEAN, source : Nat, draft : Nat, review : Nat,
     final : Nat, released : Nat, used : Nat, cancelling : BOOLEAN, archived : BOOLEAN]
RunType ==
    [kind : Kinds \cup {"none"}, status : Active \cup Ended \cup {"none"},
     attempt : 0..MaxAttempts, fresh : BOOLEAN, cancel : BOOLEAN,
     decision : Verdict \cup {"none"}, evidence : Nat,
     hold : {"none", "reserved", "settled", "released", "expired"},
     consumed : Nat \cup {Unrecorded}, charge : Nat \cup {Unrecorded}]
WorkerType ==
    [at : {"idle", "claimed", "working", "awaiting", "asking", "failing"},
     run : Runs \cup {NoRun}, step : Nat, read : Nat, tokens : Nat \cup {Unrecorded}]
RequestType ==
    [op : {"none", "queue", "retry", "cancel", "upload", "outline_decision", "archive", "publish"},
     run : Runs \cup {NoRun}, kind : Kinds \cup Active \cup {"approve", "reject", "none"},
     seen : ProjectType]
TypeOK ==
    /\ project \in ProjectType
    /\ run \in [Runs -> RunType]
    /\ worker \in [Workers -> WorkerType]
    /\ pending \in [Handlers -> RequestType]
    /\ uploads \in Nat /\ crashes \in Nat /\ partials \in Nat

\* The project's budget counts every saved decision once, at what its call used,
\* across crashes, recoveries and retries ("prevent duplicate charging").
UsedIsDecided ==
    project.used = MapThenSumSet(LAMBDA r : run[r].consumed,
                                 {r \in Runs : run[r].decision # "none"})

\* A run's hold, its charge and the provider's record agree: it is charged once, at
\* most its reservation, when what was used is recorded, and a decision is paid for.
PaidFor(t) ==
    /\ t.hold = "settled" <=> t.charge # Unrecorded
    /\ t.consumed # Unrecorded <=> t.charge # Unrecorded
    /\ t.charge # Unrecorded =>
          t.charge = IF t.consumed < Reservation THEN t.consumed ELSE Reservation
    /\ t.decision # "none" => t.charge # Unrecorded
MoneyAgrees == \A r \in Runs : PaidFor(run[r])

\* No project waits for a run that does not exist: only an active run leaves the
\* project in a state its author can neither edit nor continue from.
NotStranded ==
    NoActiveRun => project.status \notin {"outlining", "generating", "finalizing"}

\* A run that was asked to stop does not fail, is not tried again in vain, and
\* succeeds only if it had a decision when it was asked, or needs none.
CancelIsHonoured ==
    \A r \in Runs : run[r].cancel =>
        /\ run[r].status # "failed"
        /\ run[r].status = "succeeded" => run[r].decision # "none" \/ run[r].kind = "install"

\* A draft is compiled only if an approved review was of that draft ("Finalization
\* requires both an approved evidence review and a fresh explicit Agent confirmation").
FinalizedWasReviewed ==
    [][project'.final # project.final /\ project'.final # 0 => project.review = project'.final]_vars

\* Every run ends, and its hold with it.
EveryRunEnds ==
    \A r \in Runs :
        run[r].status \in Active ~> run[r].status \in Ended /\ run[r].hold # "reserved"
=============================================================================
