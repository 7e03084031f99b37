------------------------- MODULE ModuleStudioProofs -------------------------
(***************************************************************************)
(* What ModuleStudio promises for any number of runs, processors and       *)
(* requests, overlapping or not, with leases that outlast their runs or    *)
(* not: types, the agreement of hold, charge and consumption, that a       *)
(* charge is final; where leases outlast their runs, that a project's      *)
(* budget counts a decision once; and where requests do not overlap, that  *)
(* a run asked to stop does.                                               *)
(***************************************************************************)
EXTENDS ModuleStudio, FiniteSums, TLAPS

\* A run that was queued has a kind, and so has a run that a processor works on, that
\* a request is about to cancel, or that a request is about to queue.
Assigned ==
    /\ \A r \in Runs : run[r].status # "none" => run[r].kind \in Kinds
    /\ \A w \in Workers :
          worker[w].at # "idle" => worker[w].run \in Runs /\ run[worker[w].run].kind \in Kinds
    /\ \A h \in Handlers :
          /\ Asked(h, "queue") \/ Asked(h, "retry") => pending[h].kind \in Kinds
          /\ Asked(h, "cancel") =>
                pending[h].run \in Runs /\ run[pending[h].run].kind \in Kinds

\* What a transaction may make of a run's row: its types, its kind and its money.
Keeps(t, u) ==
    /\ u \in RunType
    /\ u.status # "none" => u.kind \in Kinds
    /\ t.kind \in Kinds => u.kind \in Kinds
    /\ PaidFor(t) => PaidFor(u)

-----------------------------------------------------------------------------
(* The operators on one run.                                               *)

\* A new row of a run.
LEMMA QueuedKept ==
    ASSUME NEW t, NEW kind \in Kinds
    PROVE  Keeps(t, Queued(kind))
<1>1. 0 \in 0..MaxAttempts
  BY StudioAssumption
<1>2. Queued(kind) \in RunType
  BY <1>1 DEF Queued, Unqueued, RunType, Active
<1>3. /\ Queued(kind).kind = kind /\ Queued(kind).decision = "none"
      /\ Queued(kind).hold = "none" /\ Queued(kind).charge = Unrecorded
      /\ Queued(kind).consumed = Unrecorded
  BY DEF Queued, Unqueued
<1>4. PaidFor(Queued(kind))
  BY <1>3 DEF PaidFor
<1> QED BY <1>2, <1>3, <1>4 DEF Keeps

\* A row that keeps its kind and its money keeps what it has.
LEMMA StatusKept ==
    ASSUME NEW t \in RunType, NEW u \in RunType, u.kind = t.kind, t.kind \in Kinds,
           u.hold = t.hold, u.charge = t.charge, u.consumed = t.consumed,
           u.decision = t.decision
    PROVE  Keeps(t, u)
  BY DEF Keeps, PaidFor

\* A hold that is not settled may be taken, given back or expire.
LEMMA HoldKept ==
    ASSUME NEW t \in RunType, NEW u \in RunType, u.kind = t.kind, t.kind \in Kinds,
           u.charge = t.charge, u.consumed = t.consumed, u.decision = t.decision,
           t.hold = "settled" <=> u.hold = "settled"
    PROVE  Keeps(t, u)
  BY DEF Keeps, PaidFor

\* What was used is recorded with its charge.
LEMMA RecordedKept ==
    ASSUME NEW t \in RunType, t.kind \in Kinds, NEW tokens \in Nat
    PROVE  /\ Recorded(t, tokens) \in RunType
           /\ Recorded(t, tokens).kind = t.kind
           /\ Recorded(t, tokens).cancel = t.cancel
           /\ Recorded(t, tokens).attempt = t.attempt
           /\ Recorded(t, tokens).charge # Unrecorded
           /\ PaidFor(Recorded(t, tokens))
           /\ Keeps(t, Recorded(t, tokens))
<1> DEFINE u == Recorded(t, tokens)
<1>1. /\ Cap(tokens) \in Nat /\ Cap(tokens) # Unrecorded /\ tokens # Unrecorded
      /\ Cap(tokens) = IF tokens < Reservation THEN tokens ELSE Reservation
  BY StudioAssumption DEF Cap, Unrecorded
<1>2. u \in RunType
  BY <1>1 DEF Recorded, RunType
<1>3. /\ u.kind = t.kind /\ u.cancel = t.cancel /\ u.attempt = t.attempt
      /\ u.consumed = tokens /\ u.charge = Cap(tokens) /\ u.hold = "settled"
  BY DEF Recorded, RunType
<1>4. PaidFor(u)
  BY <1>1, <1>3 DEF PaidFor
<1> HIDE DEF u
<1>5. Keeps(t, u)
  BY <1>2, <1>3, <1>4 DEF Keeps
<1> QED BY <1>1, <1>2, <1>3, <1>4, <1>5 DEF u

\* A decision is saved on a row whose use was recorded.
LEMMA DecidedKept ==
    ASSUME NEW t \in RunType, t.kind \in Kinds, NEW tokens \in Nat,
           NEW d \in Verdict, NEW e \in Nat
    PROVE  Keeps(t, [Recorded(t, tokens) EXCEPT !.decision = d, !.evidence = e])
<1> DEFINE v == Recorded(t, tokens)
           u == [v EXCEPT !.decision = d, !.evidence = e]
<1>1. v \in RunType /\ v.kind = t.kind /\ v.charge # Unrecorded /\ PaidFor(v)
  BY RecordedKept
<1> HIDE DEF v
<1>2. u \in RunType
  BY <1>1 DEF RunType
<1>3. /\ u.kind = v.kind /\ u.hold = v.hold /\ u.charge = v.charge /\ u.consumed = v.consumed
  BY <1>1 DEF RunType
<1> HIDE DEF u
<1>4. PaidFor(u)
  BY <1>1, <1>3 DEF PaidFor
<1>5. Keeps(t, u)
  BY <1>1, <1>2, <1>3, <1>4 DEF Keeps
<1> QED BY <1>5 DEF u, v

\* A failed run is canceled, queued again or failed.
LEMMA FailedKept ==
    ASSUME NEW t \in RunType, t.kind \in Kinds
    PROVE  Keeps(t, Failed(t))
<1>1. CASE t.cancel \/ project.cancelling
  <2> DEFINE u == [Canceled(t) EXCEPT !.hold = Release(@)]
  <2>1. /\ u \in RunType /\ u.kind = t.kind /\ u.charge = t.charge
        /\ u.consumed = t.consumed /\ u.decision = t.decision
        /\ t.hold = "settled" <=> u.hold = "settled"
    BY DEF Canceled, Release, RunType, Ended
  <2>2. Failed(t) = u
    BY <1>1 DEF Failed
  <2> HIDE DEF u
  <2> QED BY <2>1, <2>2, HoldKept
<1>2. CASE ~(t.cancel \/ project.cancelling) /\ t.attempt < MaxAttempts
  <2> DEFINE u == [t EXCEPT !.status = "queued", !.fresh = FALSE]
  <2>1. /\ u \in RunType /\ u.kind = t.kind /\ u.charge = t.charge /\ u.hold = t.hold
        /\ u.consumed = t.consumed /\ u.decision = t.decision
    BY DEF RunType, Active
  <2>2. Failed(t) = u
    BY <1>2 DEF Failed
  <2> HIDE DEF u
  <2> QED BY <2>1, <2>2, StatusKept
<1>3. CASE ~(t.cancel \/ project.cancelling) /\ ~(t.attempt < MaxAttempts)
  <2> DEFINE u == [t EXCEPT !.status = "failed", !.fresh = FALSE, !.hold = Release(@)]
  <2>1. /\ u \in RunType /\ u.kind = t.kind /\ u.charge = t.charge
        /\ u.consumed = t.consumed /\ u.decision = t.decision
        /\ t.hold = "settled" <=> u.hold = "settled"
    BY ZenonT(30) DEF Release, RunType, Ended
  <2>2. Failed(t) = u
    BY <1>3 DEF Failed
  <2> HIDE DEF u
  <2> QED BY <2>1, <2>2, HoldKept
<1> QED BY <1>1, <1>2, <1>3

-----------------------------------------------------------------------------
(* What a step keeps, column by column.                                    *)

RunsKept == run' \in [Runs -> RunType] /\ \A r \in Runs : Keeps(run[r], run'[r])
WorkersKept ==
    /\ worker' \in [Workers -> WorkerType]
    /\ \A w \in Workers :
          worker'[w].at # "idle" => worker'[w].run \in Runs /\ run[worker'[w].run].kind \in Kinds
PendingKept ==
    /\ pending' \in [Handlers -> RequestType]
    /\ \A h \in Handlers :
          /\ pending'[h].op \in {"queue", "retry"} => pending'[h].kind \in Kinds
          /\ pending'[h].op = "cancel" =>
                pending'[h].run \in Runs /\ run[pending'[h].run].kind \in Kinds
CountersKept == uploads' \in Nat /\ crashes' \in Nat /\ partials' \in Nat
Kept == project' \in ProjectType /\ RunsKept /\ WorkersKept /\ PendingKept /\ CountersKept

\* What keeps the columns keeps the invariant.
LEMMA KeptInvariant ==
    ASSUME Assigned, Kept
    PROVE  TypeOK' /\ Assigned'
<1>1. TypeOK'
  BY DEF Kept, RunsKept, WorkersKept, PendingKept, CountersKept, TypeOK
<1>2. \A r \in Runs : run[r].kind \in Kinds => run'[r].kind \in Kinds
  BY DEF Kept, RunsKept, Keeps
<1>3. \A r \in Runs : run'[r].status # "none" => run'[r].kind \in Kinds
  BY DEF Kept, RunsKept, Keeps
<1>4. \A w \in Workers :
        worker'[w].at # "idle" => worker'[w].run \in Runs /\ run'[worker'[w].run].kind \in Kinds
  BY <1>2 DEF Kept, WorkersKept
<1>5. \A h \in Handlers :
        /\ Asked(h, "queue")' \/ Asked(h, "retry")' => pending'[h].kind \in Kinds
        /\ Asked(h, "cancel")' =>
              pending'[h].run \in Runs /\ run'[pending'[h].run].kind \in Kinds
  BY <1>2 DEF Kept, PendingKept, Asked
<1> QED BY <1>1, <1>3, <1>4, <1>5 DEF Assigned

\* Columns that a step leaves alone are kept.
LEMMA SameKept ==
    ASSUME TypeOK, Assigned
    PROVE  /\ UNCHANGED project => project' \in ProjectType
           /\ UNCHANGED run => RunsKept
           /\ UNCHANGED worker => WorkersKept
           /\ UNCHANGED pending => PendingKept
           /\ UNCHANGED counters => CountersKept
<1>1. \A r \in Runs : Keeps(run[r], run[r])
  BY DEF TypeOK, Assigned, Keeps
<1>2. UNCHANGED run => RunsKept
  BY <1>1 DEF TypeOK, RunsKept
<1>3. UNCHANGED worker => WorkersKept
  BY DEF TypeOK, Assigned, WorkersKept
<1>4. UNCHANGED pending => PendingKept
  BY DEF TypeOK, Assigned, Asked, PendingKept
<1> QED BY <1>2, <1>3, <1>4 DEF TypeOK, CountersKept, counters

\* A step that writes one run keeps the runs.
LEMMA OneRunKept ==
    ASSUME TypeOK, Assigned, NEW r \in Runs, NEW u, Keeps(run[r], u), run' = [run EXCEPT ![r] = u]
    PROVE  RunsKept
  BY DEF TypeOK, Assigned, RunsKept, Keeps

\* A processor goes on with its run, or stops.
LEMMA MoveKept ==
    ASSUME TypeOK, Assigned, NEW w \in Workers, NEW new \in WorkerType, Move(w, new),
           new.at # "idle" =>
              \/ new.run = worker[w].run /\ worker[w].at # "idle"
              \/ new.run \in Runs /\ run[new.run].kind \in Kinds
    PROVE  WorkersKept /\ PendingKept /\ CountersKept
<1>1. WorkersKept
  BY DEF TypeOK, Assigned, WorkersKept, Move
<1> QED BY <1>1, SameKept DEF Move

\* The four ways to move.
LEMMA MovesKept ==
    ASSUME TypeOK, Assigned, NEW w \in Workers, worker[w].at # "idle",
           NEW read \in Nat, NEW tokens \in Nat \cup {Unrecorded},
           Advance(w, read) \/ Await(w, read) \/ Raise(w, tokens) \/ Move(w, Idle)
    PROVE  WorkersKept /\ PendingKept /\ CountersKept
<1>1. worker[w] \in WorkerType
  BY DEF TypeOK
<1>2. CASE Advance(w, read)
  <2> DEFINE new == [worker[w] EXCEPT !.at = "working", !.step = @ + 1, !.read = read]
  <2>0. worker[w].step + 1 \in Nat
    BY <1>1 DEF WorkerType
  <2>1. new \in WorkerType /\ new.run = worker[w].run
    BY <1>1, <2>0 DEF WorkerType
  <2> QED BY <1>2, <2>1, MoveKept DEF Advance
<1>3. CASE Await(w, read)
  <2> DEFINE new == [worker[w] EXCEPT !.at = "awaiting", !.read = read]
  <2>1. new \in WorkerType /\ new.run = worker[w].run
    BY <1>1 DEF WorkerType
  <2> QED BY <1>3, <2>1, MoveKept DEF Await
<1>4. CASE Raise(w, tokens)
  <2> DEFINE new == [worker[w] EXCEPT !.at = "failing", !.read = 0, !.tokens = tokens]
  <2>1. new \in WorkerType /\ new.run = worker[w].run
    BY <1>1 DEF WorkerType
  <2> QED BY <1>4, <2>1, MoveKept DEF Raise
<1>5. CASE Move(w, Idle)
  <2>1. Idle \in WorkerType /\ Idle.at = "idle"
    BY DEF Idle, WorkerType
  <2> QED BY <1>5, <2>1, MoveKept
<1> QED BY <1>2, <1>3, <1>4, <1>5

-----------------------------------------------------------------------------
(* The requests.                                                           *)

LEMMA AskKept ==
    ASSUME TypeOK, Assigned, NEW h \in Handlers, NEW op, NEW r, NEW kind, Ask(h, op, r, kind),
           op \in {"queue", "retry", "cancel", "upload", "outline_decision", "archive", "publish"},
           r \in Runs \cup {NoRun},
           kind \in Kinds \cup Active \cup {"approve", "reject", "none"},
           op \in {"queue", "retry"} => kind \in Kinds,
           op = "cancel" => r \in Runs /\ run[r].kind \in Kinds
    PROVE  Kept
<1> DEFINE new == [op |-> op, run |-> r, kind |-> kind, seen |-> project]
<1>1. new \in RequestType
  BY DEF TypeOK, RequestType
<1>2. new.op = op /\ new.run = r /\ new.kind = kind
  OBVIOUS
<1>3. pending' = [pending EXCEPT ![h] = new]
  BY DEF Ask
<1> HIDE DEF new
<1>4. PendingKept
  BY <1>1, <1>2, <1>3 DEF TypeOK, Assigned, Asked, PendingKept
<1> QED BY <1>4, SameKept DEF Ask, Kept

LEMMA RequestsKept ==
    ASSUME TypeOK, Assigned, NEW h \in Handlers, Requests(h)
    PROVE  Kept
<1>1. CASE \E k \in Kinds : AskQueue(h, k)
  BY <1>1, AskKept DEF AskQueue
<1>2. CASE \E r \in Runs : AskRetry(h, r)
  <2>1. PICK r \in Runs : AskRetry(h, r)
    BY <1>2
  <2>2. run[r].kind \in Kinds
    BY <2>1 DEF AskRetry, Assigned
  <2> QED BY <2>1, <2>2, AskKept DEF AskRetry
<1>3. CASE \E r \in Runs : AskCancel(h, r)
  <2>1. PICK r \in Runs : AskCancel(h, r)
    BY <1>3
  <2>2. run[r].kind \in Kinds /\ run[r].status \in Active
    BY <2>1 DEF AskCancel, Assigned, Active
  <2> QED BY <2>1, <2>2, AskKept DEF AskCancel
<1>4. CASE \E a \in {"approve", "reject"} : AskDecideOutline(h, a)
  BY <1>4, AskKept DEF AskDecideOutline
<1>5. CASE AskUpload(h) \/ AskArchive(h) \/ AskPublish(h)
  BY <1>5, AskKept DEF AskUpload, AskArchive, AskPublish
<1> QED BY <1>1, <1>2, <1>3, <1>4, <1>5 DEF Requests

LEMMA AnswerKept ==
    ASSUME TypeOK, Assigned, NEW h \in Handlers, Answer(h)
    PROVE  PendingKept /\ WorkersKept /\ crashes' \in Nat /\ partials' \in Nat
<1>1. NoRequest \in RequestType /\ NoRequest.op = "none"
  BY DEF NoRequest, RequestType, Situation, ProjectType, ProjectStatus
<1>2. PendingKept
  BY <1>1 DEF TypeOK, Assigned, Asked, Answer, PendingKept
<1> QED BY <1>2, SameKept DEF Answer, TypeOK

LEMMA EnqueueKept ==
    ASSUME TypeOK, Assigned, NEW kind \in Kinds, Enqueue(kind)
    PROVE  RunsKept
<1>1. PICK r \in Runs : run' = [run EXCEPT ![r] = Queued(kind)]
  BY DEF Enqueue, FreeRun
<1> QED BY <1>1, QueuedKept, OneRunKept

\* A column of the project as a request writes it.
LEMMA WriteKept ==
    ASSUME NEW h \in Handlers, NEW column, NEW new
    PROVE  Write(h, column, new) \in {project[column], new}
  BY DEF Write

LEMMA AnswersKept ==
    ASSUME TypeOK, Assigned, NEW h \in Handlers, Answers(h)
    PROVE  Kept
<1> USE DEF CountersKept
<1>0. project \in ProjectType /\ run \in [Runs -> RunType] /\ pending[h] \in RequestType
      /\ uploads \in Nat
  BY DEF TypeOK
<1>1. CASE Queue(h)
  <2>1. Enqueue(pending[h].kind) /\ pending[h].kind \in Kinds
    BY <1>1 DEF Queue, Assigned
  <2> QED BY <1>0, <1>1, <2>1, EnqueueKept, AnswerKept DEF Queue, Kept
<1>2. CASE Retry(h)
  <2>1. Enqueue(pending[h].kind) /\ pending[h].kind \in Kinds
    BY <1>2 DEF Retry, Assigned
  <2> QED BY <1>0, <1>2, <2>1, EnqueueKept, AnswerKept DEF Retry, Kept
<1>3. CASE Cancel(h)
  <2> DEFINE r == pending[h].run
  <2>1. r \in Runs /\ run[r].kind \in Kinds /\ run[r] \in RunType
    BY <1>0, <1>3 DEF Cancel, Assigned
  <2>2. CASE pending[h].kind = "queued"
    <3> DEFINE u == [run[r] EXCEPT !.status = "canceled"]
    <3>1. /\ u \in RunType /\ u.kind = run[r].kind /\ u.hold = run[r].hold
          /\ u.charge = run[r].charge /\ u.consumed = run[r].consumed
          /\ u.decision = run[r].decision
      BY <2>1 DEF RunType, Ended
    <3>2. Keeps(run[r], u)
      BY <2>1, <3>1, StatusKept
    <3>3. run' = [run EXCEPT ![r] = u]
      BY <1>3, <2>2 DEF Cancel
    <3> HIDE DEF u
    <3>4. RunsKept
      BY <2>1, <3>2, <3>3, OneRunKept
    <3>5. project' \in ProjectType
      BY <1>0, <1>3, <2>2, WriteKept DEF Cancel, ProjectType, ProjectStatus
    <3> QED BY <1>0, <1>3, <3>4, <3>5, AnswerKept DEF Cancel, Kept
  <2>3. CASE pending[h].kind # "queued"
    <3> DEFINE u == [run[r] EXCEPT !.cancel = TRUE]
    <3>1. /\ u \in RunType /\ u.kind = run[r].kind /\ u.hold = run[r].hold
          /\ u.charge = run[r].charge /\ u.consumed = run[r].consumed
          /\ u.decision = run[r].decision
      BY <2>1 DEF RunType
    <3>2. Keeps(run[r], u)
      BY <2>1, <3>1, StatusKept
    <3>3. run' = [run EXCEPT ![r] = u]
      BY <1>3, <2>3 DEF Cancel
    <3> HIDE DEF u
    <3>4. RunsKept
      BY <2>1, <3>2, <3>3, OneRunKept
    <3>5. project' \in ProjectType
      BY <1>0, <1>3, <2>3, WriteKept DEF Cancel, ProjectType
    <3> QED BY <1>0, <1>3, <3>4, <3>5, AnswerKept DEF Cancel, Kept
  <2> QED BY <2>2, <2>3
<1>4. CASE Upload(h)
  <2>1. /\ Write(h, "draft", 0) \in Nat /\ Write(h, "review", 0) \in Nat
        /\ Write(h, "status", "idea") \in ProjectStatus
        /\ project.source + 1 \in Nat /\ uploads + 1 \in Nat
    BY <1>0, WriteKept DEF ProjectType, ProjectStatus
  <2>2. project' \in ProjectType /\ uploads' \in Nat
    BY <1>0, <1>4, <2>1 DEF Upload, ProjectType
  <2> QED BY <1>4, <2>2, SameKept, AnswerKept DEF Upload, Kept
<1>5. CASE DecideOutline(h)
  <2>1. project' \in ProjectType
    BY <1>0, <1>5, WriteKept DEF DecideOutline, ProjectType, ProjectStatus
  <2> QED BY <1>0, <1>5, <2>1, SameKept, AnswerKept DEF DecideOutline, Kept
<1>6. CASE Archive(h)
  <2>1. project' \in ProjectType
    BY <1>0, <1>6 DEF Archive, ProjectType, ProjectStatus
  <2> QED BY <1>0, <1>6, <2>1, SameKept, AnswerKept DEF Archive, Kept
<1>7. CASE Publish(h)
  <2>1. pending[h].seen.final \in Nat /\ project.released \in Nat
    BY <1>0 DEF RequestType, ProjectType
  <2>2. project' \in ProjectType
    BY <1>0, <1>7, <2>1 DEF Publish, ProjectType
  <2> QED BY <1>0, <1>7, <2>2, SameKept, AnswerKept DEF Publish, Kept
<1>8. CASE Refuse(h)
  BY <1>0, <1>8, SameKept, AnswerKept DEF Refuse, Kept
<1> QED BY <1>1, <1>2, <1>3, <1>4, <1>5, <1>6, <1>7, <1>8 DEF Answers

-----------------------------------------------------------------------------
(* The queue.                                                              *)

LEMMA RecoverKept ==
    ASSUME TypeOK, Assigned, RecoverExpired
    PROVE  Kept
<1>1. \A r \in Runs : Keeps(run[r], run'[r])
  <2> SUFFICES ASSUME NEW r \in Runs PROVE Keeps(run[r], run'[r])
    OBVIOUS
  <2>1. run[r] \in RunType
    BY DEF TypeOK
  <2>2. CASE r \in Expired
    <3> DEFINE u == [run[r] EXCEPT !.status = "queued"]
    <3>1. /\ u \in RunType /\ u.kind = run[r].kind /\ u.hold = run[r].hold
          /\ u.charge = run[r].charge /\ u.consumed = run[r].consumed
          /\ u.decision = run[r].decision
      BY <2>1 DEF RunType, Active
    <3>2. run'[r] = u /\ run[r].kind \in Kinds
      BY <2>2 DEF RecoverExpired, Expired, Assigned
    <3> HIDE DEF u
    <3> QED BY <2>1, <3>1, <3>2, StatusKept
  <2>3. CASE r \notin Expired
    BY <2>1, <2>3 DEF RecoverExpired, Assigned, Keeps
  <2> QED BY <2>2, <2>3
<1>2. RunsKept
  BY <1>1 DEF RecoverExpired, RunsKept, Keeps
<1> QED BY <1>2, SameKept DEF RecoverExpired, Kept

LEMMA ClaimKept ==
    ASSUME TypeOK, Assigned, NEW w \in Workers, NEW r \in Runs, Claim(w, r)
    PROVE  Kept
<1> DEFINE n == IF run[r].attempt < MaxAttempts THEN run[r].attempt + 1 ELSE run[r].attempt
           u == [run[r] EXCEPT !.status = "running", !.fresh = TRUE, !.attempt = n]
           new == [Idle EXCEPT !.at = "claimed", !.run = r]
<1>1. run[r] \in RunType /\ run[r].kind \in Kinds
  BY DEF Claim, TypeOK, Assigned
<1>2. n \in 0..MaxAttempts
  BY <1>1, StudioAssumption DEF RunType
<1>3. run' = [run EXCEPT ![r] = u]
  BY DEF Claim
<1> HIDE DEF n
<1>4. /\ u \in RunType /\ u.kind = run[r].kind /\ u.hold = run[r].hold
      /\ u.charge = run[r].charge /\ u.consumed = run[r].consumed
      /\ u.decision = run[r].decision
  BY <1>1, <1>2 DEF RunType, Active
<1> HIDE DEF u
<1>5. RunsKept
  BY <1>1, <1>3, <1>4, StatusKept, OneRunKept
<1>6. new \in WorkerType /\ new.run = r
  BY DEF Idle, WorkerType
<1>7. worker' = [worker EXCEPT ![w] = new] /\ UNCHANGED <<pending, counters>>
  BY DEF Claim
<1> HIDE DEF new
<1>8. WorkersKept /\ PendingKept /\ CountersKept
  BY <1>1, <1>6, <1>7, MoveKept DEF Move
<1>9. project' \in ProjectType
  <2>1. RunningStatus[run[r].kind] \in ProjectStatus
    BY <1>1 DEF RunningStatus, Kinds, ProjectStatus
  <2> QED BY <2>1 DEF Claim, TypeOK, ProjectType
<1> QED BY <1>5, <1>8, <1>9 DEF Kept

LEMMA LeaseExpiresKept ==
    ASSUME TypeOK, Assigned, NEW r \in Runs, LeaseExpires(r)
    PROVE  Kept
<1> DEFINE u == [run[r] EXCEPT !.fresh = FALSE]
<1>1. run[r] \in RunType /\ run[r].kind \in Kinds
  BY DEF LeaseExpires, TypeOK, Assigned
<1>2. /\ u \in RunType /\ u.kind = run[r].kind /\ u.hold = run[r].hold
      /\ u.charge = run[r].charge /\ u.consumed = run[r].consumed
      /\ u.decision = run[r].decision
  BY <1>1 DEF RunType
<1>3. run' = [run EXCEPT ![r] = u]
  BY DEF LeaseExpires
<1> HIDE DEF u
<1> QED BY <1>1, <1>2, <1>3, StatusKept, OneRunKept, SameKept DEF LeaseExpires, Kept

LEMMA ExpireHoldKept ==
    ASSUME TypeOK, Assigned, NEW r \in Runs, ExpireHold(r)
    PROVE  Kept
<1> DEFINE u == [run[r] EXCEPT !.hold = "expired"]
<1>1. run[r] \in RunType /\ run[r].hold = "reserved"
  BY DEF ExpireHold, TypeOK
<1>2. /\ u \in RunType /\ u.kind = run[r].kind /\ u.status = run[r].status
      /\ u.charge = run[r].charge /\ u.consumed = run[r].consumed
      /\ u.decision = run[r].decision /\ u.hold = "expired"
  BY <1>1 DEF RunType
<1>3. run' = [run EXCEPT ![r] = u]
  BY DEF ExpireHold
<1> HIDE DEF u
<1>4. Keeps(run[r], u)
  BY <1>1, <1>2 DEF Keeps, PaidFor, Assigned
<1> QED BY <1>3, <1>4, OneRunKept, SameKept DEF ExpireHold, Kept

LEMMA DiesKept ==
    ASSUME TypeOK, Assigned, Dies, crashes' \in Nat
    PROVE  Kept
<1>1. Idle \in WorkerType /\ Idle.at = "idle"
  BY DEF Idle, WorkerType
<1>2. WorkersKept
  BY <1>1 DEF Dies, WorkersKept
<1>3. CountersKept
  BY DEF Dies, TypeOK, CountersKept
<1> QED BY <1>2, <1>3, SameKept DEF Dies, Kept

LEMMA CrashKept ==
    ASSUME TypeOK, Assigned, Crash
    PROVE  Kept
<1>1. crashes' \in Nat
  BY DEF Crash, TypeOK
<1> QED BY <1>1, DiesKept DEF Crash

-----------------------------------------------------------------------------
(* The stages of a run.                                                    *)

\* A step of a processor that goes on, waits, gives up or stops, and writes no run.
LEMMA StageKept ==
    ASSUME TypeOK, Assigned, NEW w \in Workers, worker[w].at # "idle", NEW read \in Nat,
           Advance(w, read) \/ Await(w, read) \/ Raise(w, Unrecorded) \/ Move(w, Idle),
           UNCHANGED run, project' \in ProjectType
    PROVE  Kept
  BY MovesKept, SameKept DEF Kept

LEMMA StagesKept ==
    ASSUME TypeOK, Assigned, NEW w \in Workers,
           \/ Fails(w) \/ StartSkipped(w) \/ Start(w) \/ Started(w) \/ Evidence(w) \/ Store(w) \/ Stored(w)
           \/ PackageSkipped(w) \/ Package(w) \/ Packaged(w)
           \/ Version(w) \/ Check(w) \/ Compile(w) \/ Import(w) \/ Finish(w)
    PROVE  Kept
<1> USE DEF At, Awaits, Same
<1>0. /\ project \in ProjectType /\ worker[w].read \in Nat /\ 0 \in Nat
      /\ project.source \in Nat /\ project.source + 1 \in Nat /\ project.draft \in Nat
  BY DEF TypeOK, ProjectType, WorkerType
<1>1. CASE Fails(w)
  BY <1>0, <1>1, StageKept DEF Fails
<1>2. CASE StartSkipped(w) \/ Evidence(w) \/ PackageSkipped(w) \/ Import(w)
  BY <1>0, <1>2, StageKept DEF StartSkipped, Evidence, PackageSkipped, Import
<1>3. CASE Start(w)
  BY <1>0, <1>3, StageKept DEF Start
<1>4. CASE Store(w)
  BY <1>0, <1>4, StageKept DEF Store
<1>5. CASE Package(w)
  BY <1>0, <1>5, StageKept DEF Package
<1>6. CASE Started(w) \/ Packaged(w)
  <2>1. project' \in ProjectType
    BY <1>0, <1>6 DEF Started, Packaged, ProjectType
  <2> QED BY <1>0, <1>6, <2>1, StageKept DEF Started, Packaged
<1>7. CASE Stored(w)
  <2>1. project' \in ProjectType
    BY <1>0, <1>7 DEF Stored, ProjectType
  <2> QED BY <1>0, <1>7, <2>1, StageKept DEF Stored
<1>8. CASE Version(w)
  <2>1. project' \in ProjectType
    BY <1>0, <1>8 DEF Version, ProjectType
  <2> QED BY <1>0, <1>8, <2>1, StageKept DEF Version
<1>9. CASE Check(w)
  BY <1>0, <1>9, StageKept DEF Check
<1>10. CASE Compile(w)
  <2>1. project' \in ProjectType
    BY <1>0, <1>10 DEF Compile, ProjectType, ProjectStatus
  <2> QED BY <1>0, <1>10, <2>1, StageKept DEF Compile
<1>11. CASE Finish(w)
  <2>1. Task(w).evidence \in Nat
    BY <1>11 DEF Finish, Task, TypeOK, Assigned, RunType
  <2>2. Finished(Task(w)) \in ProjectType
    BY <1>0, <2>1 DEF Finished, ProjectType, ProjectStatus
  <2> QED BY <1>0, <1>11, <2>2, StageKept DEF Finish
<1> QED BY <1>1, <1>2, <1>3, <1>4, <1>5, <1>6, <1>7, <1>8, <1>9, <1>10, <1>11

LEMMA CanceledProjectType ==
    ASSUME project \in ProjectType
    PROVE  CanceledProject \in ProjectType
  BY DEF CanceledProject, ProjectType, ProjectStatus

LEMMA BeginKept ==
    ASSUME TypeOK, Assigned, NEW w \in Workers, Begin(w)
    PROVE  Kept
<1>1. CASE ~Task(w).cancel
  BY <1>1, StageKept DEF Begin, Same, TypeOK
<1>2. CASE Task(w).cancel
  <2> DEFINE t == Task(w)
             u == Canceled(t)
  <2>1. worker[w].run \in Runs /\ t \in RunType /\ t.kind \in Kinds /\ t = run[worker[w].run]
    BY DEF Begin, Task, TypeOK, Assigned
  <2>2. run' = [run EXCEPT ![worker[w].run] = u]
    BY <1>2 DEF Begin, Task
  <2> HIDE DEF t
  <2>3. /\ u \in RunType /\ u.kind = t.kind /\ u.hold = t.hold
        /\ u.charge = t.charge /\ u.consumed = t.consumed /\ u.decision = t.decision
    BY <2>1 DEF Canceled, RunType, Ended
  <2> HIDE DEF u
  <2>4. RunsKept
    BY <2>1, <2>2, <2>3, StatusKept, OneRunKept
  <2>5. project' \in ProjectType
    BY <1>2, CanceledProjectType DEF Begin, TypeOK
  <2>6. WorkersKept /\ PendingKept /\ CountersKept
    BY <1>2, MovesKept DEF Begin
  <2> QED BY <2>4, <2>5, <2>6 DEF Kept
<1> QED BY <1>1, <1>2

LEMMA CompleteKept ==
    ASSUME TypeOK, Assigned, NEW w \in Workers, Complete(w)
    PROVE  Kept
<1> DEFINE r == worker[w].run
           u == [run[r] EXCEPT !.status = "succeeded", !.fresh = FALSE]
<1>1. r \in Runs /\ run[r] \in RunType /\ run[r].kind \in Kinds /\ worker[w].at # "idle"
  BY DEF Complete, At, TypeOK, Assigned
<1>2. run' = [run EXCEPT ![r] = u]
  BY DEF Complete
<1>3. /\ u \in RunType /\ u.kind = run[r].kind /\ u.hold = run[r].hold
      /\ u.charge = run[r].charge /\ u.consumed = run[r].consumed
      /\ u.decision = run[r].decision
  BY <1>1 DEF RunType, Ended
<1> HIDE DEF u
<1>4. RunsKept
  BY <1>1, <1>2, <1>3, StatusKept, OneRunKept
<1>5. WorkersKept /\ PendingKept /\ CountersKept
  BY <1>1, MovesKept DEF Complete
<1> QED BY <1>4, <1>5, SameKept DEF Complete, Kept

-----------------------------------------------------------------------------
(* The Agent and the money.                                                *)

\* Obeying a decision is going on or giving up.
LEMMA ObeyKept ==
    ASSUME TypeOK, Assigned, NEW w \in Workers, worker[w].at # "idle", NEW d, Obey(w, d)
    PROVE  WorkersKept /\ PendingKept /\ CountersKept
<1>1. worker[w].read \in Nat
  BY DEF TypeOK, WorkerType
<1>2. \E read \in Nat : Advance(w, read) \/ Raise(w, Unrecorded)
  BY <1>1 DEF Obey
<1> QED BY <1>2, MovesKept

LEMMA RecallKept ==
    ASSUME TypeOK, Assigned, NEW w \in Workers, Recall(w)
    PROVE  Kept
<1>1. worker[w].at # "idle"
  BY DEF Recall, At
<1> QED BY <1>1, ObeyKept, SameKept DEF Recall, Same, Kept

LEMMA AskAgentKept ==
    ASSUME TypeOK, Assigned, NEW w \in Workers, AskAgent(w)
    PROVE  Kept
<1> DEFINE r == worker[w].run
           hold == IF run[r].hold = "none" THEN "reserved" ELSE run[r].hold
           u == [run[r] EXCEPT !.hold = hold]
           new == [worker[w] EXCEPT !.at = "asking"]
<1>1. /\ r \in Runs /\ run[r] \in RunType /\ run[r].kind \in Kinds /\ worker[w].at # "idle"
      /\ worker[w] \in WorkerType
  BY DEF AskAgent, At, TypeOK, Assigned
<1>2. /\ u \in RunType /\ u.kind = run[r].kind /\ u.charge = run[r].charge
      /\ u.consumed = run[r].consumed /\ u.decision = run[r].decision
      /\ run[r].hold = "settled" <=> u.hold = "settled"
  BY <1>1 DEF RunType
<1>3. run' = [run EXCEPT ![r] = u]
  BY DEF AskAgent
<1>4. Move(w, new)
  BY DEF AskAgent
<1> HIDE DEF u
<1>5. RunsKept
  BY <1>1, <1>2, <1>3, HoldKept, OneRunKept
<1>6. new \in WorkerType /\ new.run = worker[w].run
  BY <1>1 DEF WorkerType
<1> HIDE DEF new
<1>7. WorkersKept /\ PendingKept /\ CountersKept
  BY <1>1, <1>4, <1>6, MoveKept
<1> QED BY <1>5, <1>7, SameKept DEF AskAgent, Kept

LEMMA SaveDecisionKept ==
    ASSUME TypeOK, Assigned, NEW w \in Workers, NEW d \in Verdict, NEW tokens \in Tokens,
           SaveDecision(w, d, tokens)
    PROVE  Kept
<1> DEFINE r == worker[w].run
           u == [Recorded(run[r], tokens) EXCEPT !.decision = d, !.evidence = worker[w].read]
<1>1. /\ r \in Runs /\ run[r] \in RunType /\ run[r].kind \in Kinds /\ worker[w].at # "idle"
      /\ worker[w].read \in Nat /\ tokens \in Nat /\ project \in ProjectType
  BY StudioAssumption DEF SaveDecision, TypeOK, Assigned, WorkerType
<1>2. run' = [run EXCEPT ![r] = u]
  BY DEF SaveDecision
<1>3. RunsKept
  <2>1. Keeps(run[r], u)
    BY <1>1, DecidedKept
  <2> HIDE DEF u
  <2> QED BY <1>1, <1>2, <2>1, OneRunKept
<1>4. project.used + tokens \in Nat
  BY <1>1 DEF ProjectType
<1>5. project' \in ProjectType
  BY <1>1, <1>4 DEF SaveDecision, Spent, ProjectType
<1>6. WorkersKept /\ PendingKept /\ CountersKept
  BY <1>1, ObeyKept DEF SaveDecision
<1> QED BY <1>3, <1>5, <1>6 DEF Kept

LEMMA FailsHalfwayKept ==
    ASSUME TypeOK, Assigned, NEW w \in Workers, NEW tokens \in Tokens, FailsHalfway(w, tokens)
    PROVE  Kept
<1> DEFINE new == [worker[w] EXCEPT !.at = "failing", !.read = 0, !.tokens = tokens]
<1>1. tokens \in Nat /\ worker[w] \in WorkerType /\ worker[w].at # "idle"
  BY StudioAssumption DEF FailsHalfway, TypeOK
<1>2. new \in WorkerType /\ new.run = worker[w].run /\ new.at = "failing"
  BY <1>1 DEF WorkerType
<1>3. worker' = [worker EXCEPT ![w] = new]
  BY DEF FailsHalfway
<1> HIDE DEF new
<1>4. WorkersKept
  BY <1>1, <1>2, <1>3 DEF TypeOK, Assigned, WorkersKept
<1>5. CountersKept
  BY DEF FailsHalfway, TypeOK, CountersKept
<1> QED BY <1>4, <1>5, SameKept DEF FailsHalfway, Kept

LEMMA FailKept ==
    ASSUME TypeOK, Assigned, NEW w \in Workers, Fail(w)
    PROVE  Kept
<1> DEFINE r == worker[w].run
           t == Settled(run[r], worker[w].tokens)
<1>1. /\ r \in Runs /\ run[r] \in RunType /\ run[r].kind \in Kinds /\ worker[w].at # "idle"
      /\ worker[w].tokens \in Nat \cup {Unrecorded} /\ project \in ProjectType
  BY DEF Fail, TypeOK, Assigned, WorkerType
<1>2. run' = [run EXCEPT ![r] = Failed(t)]
  BY DEF Fail, Task
<1>3. t \in RunType /\ t.kind \in Kinds /\ Keeps(run[r], t)
  <2>1. CASE worker[w].tokens = Unrecorded
    BY <1>1, <2>1 DEF Settled, Keeps
  <2>2. CASE worker[w].tokens # Unrecorded
    BY <1>1, <2>2, RecordedKept DEF Settled
  <2> QED BY <2>1, <2>2
<1> HIDE DEF t
<1>4. Keeps(run[r], Failed(t))
  BY <1>3, FailedKept DEF Keeps
<1>5. RunsKept
  BY <1>1, <1>2, <1>4, OneRunKept
<1>6. project' \in ProjectType
  <2>1. [project EXCEPT !.status = "failed"] \in ProjectType
    BY <1>1 DEF ProjectType, ProjectStatus
  <2> QED BY <1>1, <2>1, CanceledProjectType DEF Fail
<1>7. WorkersKept /\ PendingKept /\ CountersKept
  BY <1>1, MovesKept DEF Fail
<1> QED BY <1>5, <1>6, <1>7 DEF Kept

LEMMA FailRaisesKept ==
    ASSUME TypeOK, Assigned, NEW w \in Workers, FailRaises(w)
    PROVE  Kept
  BY DiesKept DEF FailRaises, TypeOK

-----------------------------------------------------------------------------
(* The theorems.                                                           *)

LEMMA WorkKept ==
    ASSUME TypeOK, Assigned, NEW w \in Workers, Work(w)
    PROVE  Kept
  BY StagesKept, BeginKept, CompleteKept, RecallKept, AskAgentKept, SaveDecisionKept,
     FailsHalfwayKept, FailKept, FailRaisesKept
  DEF Work

LEMMA BackgroundKept ==
    ASSUME TypeOK, Assigned, Background
    PROVE  Kept
  BY RecoverKept, CrashKept, LeaseExpiresKept, ExpireHoldKept, WorkKept, ClaimKept
  DEF Background

LEMMA StepKept ==
    ASSUME TypeOK, Assigned, [Next]_vars
    PROVE  Kept
<1>1. CASE \E h \in Handlers : Answers(h)
  BY <1>1, AnswersKept
<1>2. CASE Background
  BY <1>2, BackgroundKept
<1>3. CASE \E h \in Handlers : Requests(h)
  BY <1>3, RequestsKept
<1>4. CASE UNCHANGED vars
  BY <1>4, SameKept DEF vars, counters, Kept
<1> QED BY <1>1, <1>2, <1>3, <1>4 DEF Next

LEMMA InitKept ==
    ASSUME Init
    PROVE  TypeOK /\ Assigned /\ MoneyAgrees
<1>1. 0 \in 0..MaxAttempts
  BY StudioAssumption
<1>2. Unqueued \in RunType /\ PaidFor(Unqueued) /\ Unqueued.status = "none"
  BY <1>1 DEF Unqueued, RunType, PaidFor
<1>3. Idle \in WorkerType /\ Idle.at = "idle"
  BY DEF Idle, WorkerType
<1>4. NoRequest \in RequestType /\ NoRequest.op = "none"
  BY DEF NoRequest, RequestType, Situation, ProjectType, ProjectStatus
<1>5. project \in ProjectType
  <2>1. Situations \subseteq ProjectType
    <3>1. \A status \in ProjectStatus, outlined \in BOOLEAN, source, draft, review, final \in Nat :
            Situation(status, outlined, source, draft, review, final) \in ProjectType
      BY DEF Situation, ProjectType
    <3> QED BY <3>1 DEF Situations, ProjectStatus
  <2> QED BY <2>1 DEF Init
<1> QED BY <1>2, <1>3, <1>4, <1>5 DEF Init, TypeOK, Assigned, Asked, MoneyAgrees

\* Type correctness: the row of the project, its runs, the processors and the requests
\* have their types in every reachable state, and no run without a kind is ever executed,
\* whatever is lost, recovered, canceled or retried.
THEOREM TypeCorrect == Spec => [](TypeOK /\ Assigned)
<1>1. Init => TypeOK /\ Assigned
  BY InitKept
<1>2. TypeOK /\ Assigned /\ [Next]_vars => TypeOK' /\ Assigned'
  BY StepKept, KeptInvariant
<1> QED BY <1>1, <1>2, PTL DEF Spec

\* The hold, the charge and the provider's record of every run agree at any time: a run
\* is charged once, never more than its reservation, and no decision is unpaid for.
THEOREM MoneyCorrect == Spec => []MoneyAgrees
<1>1. Init => MoneyAgrees
  BY InitKept
<1>2. TypeOK /\ Assigned /\ MoneyAgrees /\ [Next]_vars => MoneyAgrees'
  BY StepKept DEF Kept, RunsKept, Keeps, MoneyAgrees
<1> QED BY <1>1, <1>2, TypeCorrect, PTL DEF Spec

-----------------------------------------------------------------------------
(* What was charged is final.                                              *)

\* A row that was not queued yet has no kind, no hold and no charge.
Blank == \A r \in Runs : run[r].status = "none" =>
    run[r].kind = "none" /\ run[r].hold = "none" /\ run[r].charge = Unrecorded
\* What a step may make of a run: no step takes a row back or changes a charge.
RowMoves(t, u) ==
    /\ u.status # "none"
    /\ t.charge # Unrecorded =>
          u.charge = t.charge /\ u.consumed = t.consumed /\ u.hold = "settled"
RowsMove == \A r \in Runs : run'[r] = run[r] \/ RowMoves(run[r], run'[r])

LEMMA OneRowMoves ==
    ASSUME TypeOK, NEW r \in Runs, NEW u, RowMoves(run[r], u), run' = [run EXCEPT ![r] = u]
    PROVE  RowsMove
  BY DEF TypeOK, RowsMove

\* A step that leaves the money alone, or a hold that is not settled.
LEMMA SameMoneyMoves ==
    ASSUME NEW t, NEW u, PaidFor(t), u.status # "none", u.charge = t.charge,
           u.consumed = t.consumed, t.hold = "settled" => u.hold = "settled"
    PROVE  RowMoves(t, u)
  BY DEF PaidFor, RowMoves

\* A replay repeats what was recorded, or is refused.
LEMMA RecordedMoves ==
    ASSUME NEW t \in RunType, PaidFor(t), t.status # "none", NEW tokens \in Nat, MayRecord(t, tokens)
    PROVE  /\ Recorded(t, tokens) \in RunType /\ PaidFor(Recorded(t, tokens))
           /\ RowMoves(t, Recorded(t, tokens))
<1> DEFINE u == Recorded(t, tokens)
<1>1. Cap(tokens) \in Nat
  BY StudioAssumption DEF Cap
<1>2. u \in RunType
  BY <1>1 DEF Recorded, RunType
<1>3. /\ u.status = t.status /\ u.consumed = tokens /\ u.charge = Cap(tokens)
      /\ u.hold = "settled"
  BY DEF Recorded, RunType
<1>4. PaidFor(u)
  BY <1>1, <1>3 DEF PaidFor, Cap, Unrecorded
<1>5. t.charge # Unrecorded => t.charge = Cap(tokens) /\ t.consumed = tokens
  BY DEF MayRecord, PaidFor
<1> HIDE DEF u
<1>6. RowMoves(t, u)
  BY <1>3, <1>5 DEF RowMoves
<1> QED BY <1>2, <1>4, <1>6 DEF u

LEMMA FailedMoves ==
    ASSUME NEW s, NEW t \in RunType, PaidFor(t), s = t \/ RowMoves(s, t)
    PROVE  RowMoves(s, Failed(t))
<1> DEFINE u == Failed(t)
<1>1. /\ u.status # "none" /\ u.charge = t.charge /\ u.consumed = t.consumed
      /\ t.hold = "settled" => u.hold = "settled"
  <2>1. CASE t.cancel \/ project.cancelling
    BY <2>1, Zenon DEF Failed, Canceled, Release, RunType
  <2>2. CASE ~(t.cancel \/ project.cancelling) /\ t.attempt < MaxAttempts
    BY <2>2 DEF Failed, RunType
  <2>3. CASE ~(t.cancel \/ project.cancelling) /\ ~(t.attempt < MaxAttempts)
    BY <2>3 DEF Failed, Release, RunType
  <2> QED BY <2>1, <2>2, <2>3
<1> HIDE DEF u
<1>2. CASE s = t
  BY <1>1, <1>2, SameMoneyMoves DEF u
<1>3. CASE RowMoves(s, t)
  BY <1>1, <1>3 DEF RowMoves, u
<1> QED BY <1>2, <1>3

LEMMA StepMoves ==
    ASSUME TypeOK, Assigned, MoneyAgrees, Blank, [Next]_vars
    PROVE  RowsMove
<1>t. \A r \in Runs : run[r] \in RunType /\ PaidFor(run[r])
  BY DEF TypeOK, MoneyAgrees
<1>k. \A r \in Runs : run[r].kind \in Kinds => run[r].status # "none"
  BY DEF Blank, Kinds
<1>w. \A w \in Workers : worker[w].at # "idle" =>
        worker[w].run \in Runs /\ run[worker[w].run].status # "none"
  BY <1>k DEF Assigned
\* A row whose money a step leaves alone.
<1>m. ASSUME NEW r \in Runs, NEW u, run' = [run EXCEPT ![r] = u], u.status # "none",
             u.charge = run[r].charge, u.consumed = run[r].consumed,
             run[r].hold = "settled" => u.hold = "settled"
      PROVE  RowsMove
  BY <1>m, <1>t, SameMoneyMoves, OneRowMoves
<1>u. UNCHANGED run => RowsMove
  BY DEF RowsMove
<1>1. ASSUME NEW h \in Handlers, Queue(h) \/ Retry(h) PROVE RowsMove
  <2> DEFINE kind == pending[h].kind
  <2>1. PICK r \in FreeRun : run' = [run EXCEPT ![r] = Queued(kind)]
    BY <1>1 DEF Queue, Retry, Enqueue
  <2>2. r \in Runs /\ run[r].charge = Unrecorded
    BY <2>1 DEF FreeRun, Blank
  <2>3. Queued(kind).status = "queued"
    BY DEF Queued, Unqueued
  <2>4. RowMoves(run[r], Queued(kind))
    BY <2>2, <2>3 DEF RowMoves
  <2> QED BY <2>1, <2>2, <2>4, OneRowMoves
<1>2. ASSUME NEW h \in Handlers, Cancel(h) PROVE RowsMove
  <2> DEFINE r == pending[h].run
  <2>1. r \in Runs /\ run[r].kind \in Kinds
    BY <1>2 DEF Cancel, Assigned
  <2>2. run[r] \in RunType /\ run[r].status # "none"
    BY <1>t, <1>k, <2>1
  <2>3. CASE run' = [run EXCEPT ![r].status = "canceled"]
    <3> DEFINE u == [run[r] EXCEPT !.status = "canceled"]
    <3>1. /\ u.status = "canceled" /\ u.charge = run[r].charge /\ u.consumed = run[r].consumed
          /\ u.hold = run[r].hold
      BY <2>2 DEF RunType
    <3>2. run' = [run EXCEPT ![r] = u]
      BY <2>3
    <3> HIDE DEF u, r
    <3> QED BY <1>m, <2>1, <3>1, <3>2
  <2>4. CASE run' = [run EXCEPT ![r].cancel = TRUE]
    <3> DEFINE u == [run[r] EXCEPT !.cancel = TRUE]
    <3>1. /\ u.status = run[r].status /\ u.charge = run[r].charge /\ u.consumed = run[r].consumed
          /\ u.hold = run[r].hold
      BY <2>2 DEF RunType
    <3>2. run' = [run EXCEPT ![r] = u]
      BY <2>4
    <3> HIDE DEF u, r
    <3> QED BY <1>m, <2>1, <2>2, <3>1, <3>2
  <2> QED BY <1>2, <2>3, <2>4 DEF Cancel
<1>3. ASSUME NEW h \in Handlers, \/ Upload(h) \/ DecideOutline(h) \/ Archive(h) \/ Publish(h)
                                 \/ Refuse(h) \/ Requests(h)
      PROVE  RowsMove
  <2>1. UNCHANGED run
    BY <1>3 DEF Upload, DecideOutline, Archive, Publish, Refuse, Requests, AskQueue, AskRetry, AskCancel,
                AskUpload, AskDecideOutline, AskArchive, AskPublish, Ask
  <2> QED BY <1>u, <2>1
<1>4. ASSUME RecoverExpired PROVE RowsMove
  <2> SUFFICES ASSUME NEW r \in Runs, r \in Expired PROVE RowMoves(run[r], run'[r])
    BY <1>4 DEF RecoverExpired, RowsMove
  <2> DEFINE u == [run[r] EXCEPT !.status = "queued"]
  <2>1. /\ u.status = "queued" /\ u.charge = run[r].charge /\ u.consumed = run[r].consumed
        /\ u.hold = run[r].hold
    BY <1>t DEF RunType
  <2>2. run'[r] = u
    BY <1>4 DEF RecoverExpired
  <2> HIDE DEF u
  <2> QED BY <1>t, <2>1, <2>2, SameMoneyMoves
<1>5. ASSUME NEW r \in Runs, LeaseExpires(r) \/ ExpireHold(r) PROVE RowsMove
  <2>1. CASE LeaseExpires(r)
    <3> DEFINE u == [run[r] EXCEPT !.fresh = FALSE]
    <3>1. /\ u.status = "running" /\ u.charge = run[r].charge /\ u.consumed = run[r].consumed
          /\ u.hold = run[r].hold
      BY <1>t, <2>1 DEF RunType, LeaseExpires
    <3>2. run' = [run EXCEPT ![r] = u]
      BY <2>1 DEF LeaseExpires
    <3> HIDE DEF u
    <3> QED BY <1>m, <3>1, <3>2
  <2>2. CASE ExpireHold(r)
    <3> DEFINE u == [run[r] EXCEPT !.hold = "expired"]
    <3>1. /\ run[r].hold = "reserved" /\ run[r].charge = Unrecorded
      BY <1>t, <2>2 DEF ExpireHold, PaidFor
    <3>2. run[r].status # "none" => RowMoves(run[r], u)
      BY <1>t, <3>1 DEF RowMoves, RunType
    <3>3. run' = [run EXCEPT ![r] = u]
      BY <2>2 DEF ExpireHold
    <3>4. run[r].status # "none"
      BY <3>1 DEF Blank
    <3> HIDE DEF u
    <3> QED BY <3>2, <3>3, <3>4, OneRowMoves
  <2> QED BY <1>5, <2>1, <2>2
<1>6. ASSUME NEW w \in Workers, NEW r \in Runs, Claim(w, r) PROVE RowsMove
  <2> DEFINE n == IF run[r].attempt < MaxAttempts THEN run[r].attempt + 1 ELSE run[r].attempt
             u == [run[r] EXCEPT !.status = "running", !.fresh = TRUE, !.attempt = n]
  <2>1. run' = [run EXCEPT ![r] = u]
    BY <1>6 DEF Claim
  <2> HIDE DEF n
  <2>2. /\ u.status = "running" /\ u.charge = run[r].charge /\ u.consumed = run[r].consumed
        /\ u.hold = run[r].hold
    BY <1>t DEF RunType
  <2> HIDE DEF u
  <2> QED BY <1>m, <2>1, <2>2
<1>7. ASSUME NEW w \in Workers, worker[w].at # "idle", Begin(w) \/ Complete(w) PROVE RowsMove
  <2> DEFINE r == worker[w].run
  <2>1. r \in Runs /\ run[r] \in RunType
    BY <1>t, <1>w, <1>7
  <2>2. CASE run' = [run EXCEPT ![r] = Canceled(@)]
    <3> DEFINE u == Canceled(run[r])
    <3>1. /\ u.status = "canceled" /\ u.charge = run[r].charge /\ u.consumed = run[r].consumed
          /\ u.hold = run[r].hold
      BY <2>1 DEF RunType, Canceled
    <3>2. run' = [run EXCEPT ![r] = u]
      BY <2>2
    <3> HIDE DEF u, r
    <3> QED BY <1>m, <2>1, <3>1, <3>2
  <2>3. CASE run' = [run EXCEPT ![r].status = "succeeded", ![r].fresh = FALSE]
    <3> DEFINE u == [run[r] EXCEPT !.status = "succeeded", !.fresh = FALSE]
    <3>1. /\ u.status = "succeeded" /\ u.charge = run[r].charge /\ u.consumed = run[r].consumed
          /\ u.hold = run[r].hold
      BY <2>1 DEF RunType
    <3>2. run' = [run EXCEPT ![r] = u]
      BY <2>1, <2>3 DEF TypeOK
    <3> HIDE DEF u, r
    <3> QED BY <1>m, <2>1, <3>1, <3>2
  <2> QED BY <1>7, <1>u, <2>2, <2>3 DEF Begin, Complete, Same
<1>8. ASSUME NEW w \in Workers, AskAgent(w) PROVE RowsMove
  <2> DEFINE r == worker[w].run
             u == [run[r] EXCEPT !.hold = IF @ = "none" THEN "reserved" ELSE @]
  <2>1. worker[w].at # "idle" /\ run' = [run EXCEPT ![r] = u]
    BY <1>8 DEF AskAgent, At
  <2>2. r \in Runs /\ run[r] \in RunType /\ run[r].status # "none"
    BY <1>t, <1>w, <2>1
  <2>3. /\ u.status = run[r].status /\ u.charge = run[r].charge /\ u.consumed = run[r].consumed
        /\ run[r].hold = "settled" => u.hold = "settled"
    BY <2>2 DEF RunType
  <2> HIDE DEF u, r
  <2> QED BY <1>m, <2>1, <2>2, <2>3
<1>9. ASSUME NEW w \in Workers, NEW d \in Verdict, NEW tokens \in Tokens, SaveDecision(w, d, tokens)
      PROVE  RowsMove
  <2> DEFINE r == worker[w].run
             v == Recorded(run[r], tokens)
             u == [v EXCEPT !.decision = d, !.evidence = worker[w].read]
  <2>1. /\ worker[w].at # "idle" /\ MayRecord(run[r], tokens) /\ tokens \in Nat
        /\ run' = [run EXCEPT ![r] = u]
    BY <1>9, StudioAssumption DEF SaveDecision, Task
  <2>2. r \in Runs /\ run[r] \in RunType /\ PaidFor(run[r]) /\ run[r].status # "none"
    BY <1>t, <1>w, <2>1
  <2>3. v \in RunType /\ RowMoves(run[r], v)
    BY <2>1, <2>2, RecordedMoves
  <2> HIDE DEF v, r
  <2>4. /\ u.status = v.status /\ u.charge = v.charge /\ u.consumed = v.consumed /\ u.hold = v.hold
    BY <2>3 DEF RunType
  <2> HIDE DEF u
  <2>5. RowMoves(run[r], u)
    BY <2>3, <2>4 DEF RowMoves
  <2> QED BY <2>1, <2>2, <2>5, OneRowMoves
<1>10. ASSUME NEW w \in Workers, Fail(w) PROVE RowsMove
  <2> DEFINE r == worker[w].run
             t == Settled(run[r], worker[w].tokens)
  <2>1. worker[w].at # "idle" /\ MayFail(w) /\ run' = [run EXCEPT ![r] = Failed(t)]
    BY <1>10 DEF Fail, Task
  <2>2. /\ r \in Runs /\ run[r] \in RunType /\ PaidFor(run[r]) /\ run[r].status # "none"
        /\ worker[w].tokens \in Nat \cup {Unrecorded}
    BY <1>t, <1>w, <2>1 DEF TypeOK, WorkerType
  <2>3. t \in RunType /\ PaidFor(t) /\ (run[r] = t \/ RowMoves(run[r], t))
    <3>1. CASE worker[w].tokens = Unrecorded
      BY <2>2, <3>1 DEF Settled
    <3>2. CASE worker[w].tokens # Unrecorded
      BY <2>1, <2>2, <3>2, RecordedMoves DEF Settled, MayFail, Task
    <3> QED BY <3>1, <3>2
  <2> HIDE DEF t, r
  <2>4. RowMoves(run[r], Failed(t))
    BY <2>3, FailedMoves
  <2> QED BY <2>1, <2>2, <2>4, OneRowMoves
<1>11. ASSUME NEW w \in Workers, Work(w) PROVE RowsMove
  <2>1. CASE Begin(w) \/ Complete(w)
    BY <1>7, <2>1 DEF Begin, Complete, At
  <2>2. CASE \E tokens \in Tokens : \/ FailsHalfway(w, tokens)
                                    \/ \E d \in Verdict : SaveDecision(w, d, tokens)
    BY <1>9, <1>u, <2>2 DEF FailsHalfway
  <2>3. CASE FailRaises(w)
    BY <1>u, <2>3 DEF FailRaises, Dies
  <2>4. CASE \/ Fails(w) \/ StartSkipped(w) \/ Start(w) \/ Started(w) \/ Evidence(w) \/ Store(w) \/ Stored(w)
             \/ PackageSkipped(w) \/ Package(w) \/ Packaged(w)
             \/ Version(w) \/ Check(w) \/ Compile(w) \/ Import(w) \/ Finish(w) \/ Recall(w)
    <3>1. UNCHANGED run
      BY <2>4 DEF Fails, StartSkipped, Start, Started, Evidence, Store, Stored, PackageSkipped,
                  Package, Packaged, Version, Check, Compile, Import, Finish, Recall, Same
    <3> QED BY <1>u, <3>1
  <2> QED BY <1>8, <1>10, <1>11, <2>1, <2>2, <2>3, <2>4 DEF Work
<1>12. ASSUME Crash \/ UNCHANGED vars PROVE RowsMove
  BY <1>12, <1>u DEF Crash, Dies, vars
<1> QED BY <1>1, <1>2, <1>3, <1>4, <1>5, <1>6, <1>11, <1>12 DEF Next, Answers, Background

\* A charge is never changed, taken back or given another price, whatever is tried again,
\* recovered, canceled or expires, also when two processors work on a run whose lease it
\* outlasted (`record_provider_consumption`, `settle`).
ChargeIsKept ==
    [][\A r \in Runs : run[r].charge # Unrecorded =>
          /\ run'[r].charge = run[r].charge /\ run'[r].consumed = run[r].consumed
          /\ run'[r].hold = "settled"]_vars

THEOREM ChargedForGood == Spec => ChargeIsKept
<1> DEFINE Step == \A r \in Runs : run[r].charge # Unrecorded =>
                      /\ run'[r].charge = run[r].charge /\ run'[r].consumed = run[r].consumed
                      /\ run'[r].hold = "settled"
<1>1. Init => Blank
  BY DEF Init, Unqueued, Blank
<1>2. TypeOK /\ Assigned /\ MoneyAgrees /\ Blank /\ [Next]_vars => Blank'
  BY StepMoves DEF RowsMove, RowMoves, Blank
<1>3. TypeOK /\ Assigned /\ MoneyAgrees /\ Blank /\ [Next]_vars => [Step]_vars
  BY StepMoves DEF RowsMove, RowMoves, MoneyAgrees, PaidFor
<1> QED BY <1>1, <1>2, <1>3, TypeCorrect, MoneyCorrect, PTL DEF Spec, ChargeIsKept

-----------------------------------------------------------------------------
(* A run that was asked to stop.                                           *)

\* The stage at which a run of a kind decides; an install has nothing to decide.
DecidesAt ==
    [outline |-> 3, generate |-> 1, review |-> 3, revise |-> 2, revise_version |-> 2,
     finalize |-> 2, install |-> 0]

\* A run does not succeed undecided, and does not fail, nor is it unknown, once it was
\* asked to stop.
Decided(t) == t.decision # "none" \/ t.kind = "install"
Heeded(t) ==
    /\ t.status = "succeeded" => Decided(t)
    /\ t.cancel => t.status \notin {"failed", "none"}

\* A processor executes a run that was queued, and is past the stage at which it decides
\* only if a decision was saved.
Onward(x, t) ==
    x.at # "idle" =>
        /\ t.status # "none"
        /\ x.at = "claimed" => x.step = 0
        /\ x.at \in {"working", "awaiting"} =>
              x.step >= 1 /\ (x.step > DecidesAt[t.kind] => Decided(t))

\* Requests do not overlap: at most one is under way, and what it is about to cancel is
\* as it was seen.
Alone == \A h, g \in Handlers : pending[h] # NoRequest /\ pending[g] # NoRequest => h = g
CancelIsCurrent ==
    \A h \in Handlers : Asked(h, "cancel") =>
        pending[h].kind \in Active /\ run[pending[h].run].status = pending[h].kind

Heeding ==
    /\ \A r \in Runs : Heeded(run[r])
    /\ \A w \in Workers : Onward(worker[w], Task(w))
    /\ Alone /\ CancelIsCurrent

\* What a step keeps of a run: what it has heeded, that it exists, and its decision.
Heeds(t, u) ==
    /\ Heeded(t) => Heeded(u)
    /\ t.status # "none" => u.status # "none" /\ u.kind = t.kind /\ (Decided(t) => Decided(u))
RunsHeed == \A r \in Runs : Heeds(run[r], run'[r])
WorkersHeed == \A w \in Workers : Onward(worker'[w], run'[worker'[w].run])

\* The stages up to the decision.
LEMMA DecidesInPath ==
    ASSUME NEW k \in Kinds \ {"install"}
    PROVE  /\ DecidesAt[k] \in 1..3
           /\ Path[k][DecidesAt[k]] = "decide"
           /\ \A i \in 1..DecidesAt[k] : i \in DOMAIN Path[k] /\ Path[k][i] # "complete"
<1>1. Rewrite = <<"store", "start", "package", "finish">>
  BY DEF Rewrite
<1>2. CASE k = "outline"
  BY <1>2 DEF DecidesAt, Path
<1>3. CASE k = "generate"
  BY <1>3, <1>1 DEF DecidesAt, Path
<1>4. CASE k = "review"
  BY <1>4 DEF DecidesAt, Path
<1>5. CASE k = "revise"
  BY <1>5, <1>1 DEF DecidesAt, Path
<1>6. CASE k = "revise_version"
  BY <1>6, <1>1 DEF DecidesAt, Path
<1>7. CASE k = "finalize"
  BY <1>7 DEF DecidesAt, Path
<1> QED BY <1>2, <1>3, <1>4, <1>5, <1>6, <1>7 DEF Kinds

\* A row that changes its status only.
LEMMA RowHeeds ==
    ASSUME NEW t, NEW u, u.kind = t.kind, u.cancel = t.cancel,
           t.decision # "none" => u.decision # "none",
           t.status # "none", u.status # "none",
           u.status = "failed" => ~t.cancel \/ t.status = "failed",
           u.status = "succeeded" => Decided(u) \/ t.status = "succeeded"
    PROVE  Heeds(t, u)
  BY DEF Heeds, Heeded, Decided

LEMMA OneRunHeeds ==
    ASSUME TypeOK, NEW r \in Runs, NEW u, Heeds(run[r], u), run' = [run EXCEPT ![r] = u]
    PROVE  RunsHeed
  BY DEF TypeOK, RunsHeed, Heeds

LEMMA SameRunsHeed ==
    ASSUME UNCHANGED run
    PROVE  RunsHeed
  BY DEF RunsHeed, Heeds

\* The processors that a step leaves alone.
LEMMA OthersHeed ==
    ASSUME Assigned, Heeding, RunsHeed, NEW w \in Workers, worker'[w] = worker[w]
    PROVE  Onward(worker'[w], run'[worker'[w].run])
<1>1. CASE worker[w].at = "idle"
  BY <1>1 DEF Onward
<1>2. CASE worker[w].at # "idle"
  <2> DEFINE r == worker[w].run
  <2>1. r \in Runs /\ Onward(worker[w], run[r])
    BY <1>2 DEF Assigned, Heeding, Task
  <2>2. Heeds(run[r], run'[r])
    BY <2>1 DEF RunsHeed
  <2> QED BY <1>2, <2>1, <2>2 DEF Onward, Heeds
<1> QED BY <1>1, <1>2

LEMMA MoveHeeds ==
    ASSUME TypeOK, Assigned, Heeding, RunsHeed, NEW w \in Workers, NEW new,
           worker' = [worker EXCEPT ![w] = new], Onward(new, run'[new.run])
    PROVE  WorkersHeed
<1>1. \A v \in Workers : worker'[v] = IF v = w THEN new ELSE worker[v]
  BY DEF TypeOK
<1> QED BY <1>1, OthersHeed DEF WorkersHeed

\* A processor gives up, waits for the Agent or stops.
LEMMA StopHeeds ==
    ASSUME TypeOK, Assigned, Heeding, RunsHeed, NEW w \in Workers, worker[w].at # "idle",
           \/ \E tokens : Raise(w, tokens)
           \/ Move(w, Idle) \/ Move(w, [worker[w] EXCEPT !.at = "asking"])
    PROVE  WorkersHeed
<1>0. worker[w] \in WorkerType /\ worker[w].run \in Runs /\ run'[worker[w].run].status # "none"
  BY DEF TypeOK, Assigned, Heeding, Onward, Task, RunsHeed, Heeds
<1>1. CASE \E tokens : Raise(w, tokens)
  <2>1. PICK tokens : Raise(w, tokens)
    BY <1>1
  <2> DEFINE new == [worker[w] EXCEPT !.at = "failing", !.read = 0, !.tokens = tokens]
  <2>2. new.at = "failing" /\ new.run = worker[w].run
    BY <1>0 DEF WorkerType
  <2>3. worker' = [worker EXCEPT ![w] = new]
    BY <2>1 DEF Raise, Move
  <2> HIDE DEF new
  <2> QED BY <1>0, <2>2, <2>3, MoveHeeds DEF Onward
<1>2. CASE Move(w, Idle)
  <2>1. Idle.at = "idle"
    BY DEF Idle
  <2> QED BY <1>2, <2>1, MoveHeeds DEF Onward, Move
<1>3. CASE Move(w, [worker[w] EXCEPT !.at = "asking"])
  <2> DEFINE new == [worker[w] EXCEPT !.at = "asking"]
  <2>1. new.at = "asking" /\ new.run = worker[w].run
    BY <1>0 DEF WorkerType
  <2>2. worker' = [worker EXCEPT ![w] = new]
    BY <1>3 DEF Move
  <2> HIDE DEF new
  <2> QED BY <1>0, <2>1, <2>2, MoveHeeds DEF Onward
<1> QED BY <1>1, <1>2, <1>3

\* A processor waits in its stage.
LEMMA AwaitHeeds ==
    ASSUME TypeOK, Assigned, Heeding, RunsHeed, NEW w \in Workers, NEW read, Await(w, read),
           worker[w].at = "working"
    PROVE  WorkersHeed
<1> DEFINE new == [worker[w] EXCEPT !.at = "awaiting", !.read = read]
           r == worker[w].run
<1>1. worker[w] \in WorkerType /\ r \in Runs /\ Onward(worker[w], run[r])
  BY DEF TypeOK, Assigned, Heeding, Task
<1>2. new.at = "awaiting" /\ new.run = r /\ new.step = worker[w].step
  BY <1>1 DEF WorkerType
<1>3. worker' = [worker EXCEPT ![w] = new]
  BY DEF Await, Move
<1> HIDE DEF new
<1>4. Heeds(run[r], run'[r])
  BY <1>1 DEF RunsHeed
<1>5. Onward(new, run'[new.run])
  BY <1>1, <1>2, <1>4 DEF Onward, Heeds
<1> QED BY <1>3, <1>5, MoveHeeds

\* A processor goes on to the next stage: with a decision, or before it needs one.
LEMMA AdvanceHeeds ==
    ASSUME TypeOK, Assigned, Heeding, RunsHeed, NEW w \in Workers, NEW read, Advance(w, read),
           worker[w].at # "idle",
           worker[w].step + 1 > DecidesAt[Task(w).kind] => Decided(run'[worker[w].run])
    PROVE  WorkersHeed
<1> DEFINE new == [worker[w] EXCEPT !.at = "working", !.step = @ + 1, !.read = read]
           r == worker[w].run
<1>1. worker[w] \in WorkerType /\ r \in Runs /\ Onward(worker[w], run[r])
  BY DEF TypeOK, Assigned, Heeding, Task
<1>2. new.at = "working" /\ new.run = r /\ new.step = worker[w].step + 1
  BY <1>1 DEF WorkerType
<1>3. worker' = [worker EXCEPT ![w] = new]
  BY DEF Advance, Move
<1>4. worker[w].step \in Nat
  BY <1>1 DEF WorkerType
<1> HIDE DEF new
<1>5. Heeds(run[r], run'[r])
  BY <1>1 DEF RunsHeed
<1>6. Onward(new, run'[new.run])
  BY <1>1, <1>2, <1>4, <1>5 DEF Onward, Heeds, Task
<1> QED BY <1>3, <1>6, MoveHeeds

\* No stage but the decision takes a processor past it.
LEMMA NotPast ==
    ASSUME TypeOK, Assigned, Heeding, NEW w \in Workers,
           worker[w].at \in {"working", "awaiting"}, Stage(w) # "decide",
           worker[w].step + 1 > DecidesAt[Task(w).kind]
    PROVE  Decided(Task(w))
<1>1. /\ Onward(worker[w], Task(w)) /\ worker[w].step \in Nat
      /\ Task(w).kind \in Kinds
  BY DEF TypeOK, Assigned, Heeding, Task, WorkerType
<1>2. CASE Task(w).kind = "install"
  BY <1>2 DEF Decided
<1>3. CASE Task(w).kind # "install"
  <2> DEFINE d == DecidesAt[Task(w).kind]
  <2>1. d \in 1..3 /\ d \in DOMAIN Path[Task(w).kind] /\ Path[Task(w).kind][d] = "decide"
    BY <1>1, <1>3, DecidesInPath
  <2>2. worker[w].step # d
    BY <2>1 DEF Stage
  <2>3. worker[w].step > d
    BY <1>1, <2>1, <2>2
  <2> QED BY <1>1, <2>3 DEF Onward
<1> QED BY <1>2, <1>3

LEMMA StagesHeed ==
    ASSUME TypeOK, Assigned, Heeding, NEW w \in Workers,
           \/ Fails(w) \/ StartSkipped(w) \/ Start(w) \/ Started(w) \/ Evidence(w) \/ Store(w) \/ Stored(w)
           \/ PackageSkipped(w) \/ Package(w) \/ Packaged(w)
           \/ Version(w) \/ Check(w) \/ Compile(w) \/ Import(w) \/ Finish(w)
    PROVE  RunsHeed /\ WorkersHeed
<1>1. UNCHANGED run
  BY DEF Fails, StartSkipped, Start, Started, Evidence, Store, Stored, PackageSkipped, Package,
         Packaged, Version, Check, Compile, Import, Finish, Same
<1>2. RunsHeed
  BY <1>1, SameRunsHeed
<1>3. CASE Fails(w)
  BY <1>2, <1>3, StopHeeds DEF Fails
<1>4. CASE Start(w) \/ Store(w) \/ Package(w)
  BY <1>2, <1>4, AwaitHeeds DEF Start, Store, Package, At
<1>5. CASE \/ StartSkipped(w) \/ Started(w) \/ Evidence(w) \/ Stored(w) \/ PackageSkipped(w)
           \/ Packaged(w) \/ Version(w) \/ Check(w) \/ Compile(w) \/ Import(w) \/ Finish(w)
  <2>1. /\ worker[w].at \in {"working", "awaiting"} /\ Stage(w) # "decide"
        /\ \E read : Advance(w, read)
    BY <1>5 DEF StartSkipped, Started, Evidence, Stored, PackageSkipped, Packaged, Version,
                Check, Compile, Import, Finish, At, Awaits
  <2>2. worker[w].step + 1 > DecidesAt[Task(w).kind] => Decided(run'[worker[w].run])
    BY <1>1, <2>1, NotPast DEF Task
  <2> QED BY <1>2, <2>1, <2>2, AdvanceHeeds
<1> QED BY <1>2, <1>3, <1>4, <1>5

\* The run of a processor that is not idle.
LEMMA TaskHeeded ==
    ASSUME TypeOK, Assigned, Heeding, NEW w \in Workers, worker[w].at # "idle"
    PROVE  /\ worker[w].run \in Runs /\ worker[w] \in WorkerType
           /\ Task(w) = run[worker[w].run] /\ Task(w) \in RunType /\ Task(w).kind \in Kinds
           /\ Task(w).status # "none" /\ Onward(worker[w], Task(w)) /\ Heeded(Task(w))
  BY DEF TypeOK, Assigned, Heeding, Onward, Task

LEMMA BeginHeeds ==
    ASSUME TypeOK, Assigned, Heeding, NEW w \in Workers, Begin(w)
    PROVE  RunsHeed /\ WorkersHeed
<1>0. worker[w].at = "claimed"
  BY DEF Begin
<1>1. CASE ~Task(w).cancel
  <2>1. Advance(w, 0) /\ UNCHANGED run
    BY <1>1 DEF Begin, Same
  <2>2. worker[w].step = 0
    BY <1>0, TaskHeeded DEF Onward
  <2>3. worker[w].step + 1 > DecidesAt[Task(w).kind] => Decided(run'[worker[w].run])
    <3>1. CASE Task(w).kind = "install"
      BY <2>1, <3>1 DEF Decided, Task
    <3>2. CASE Task(w).kind # "install"
      BY <1>0, <2>2, <3>2, TaskHeeded, DecidesInPath
    <3> QED BY <3>1, <3>2
  <2> QED BY <1>0, <2>1, <2>3, SameRunsHeed, AdvanceHeeds
<1>2. CASE Task(w).cancel
  <2> DEFINE t == Task(w)
             u == Canceled(t)
  <2>1. run' = [run EXCEPT ![worker[w].run] = u] /\ Move(w, Idle)
    BY <1>2 DEF Begin, Task
  <2>2. /\ u.status = "canceled" /\ u.kind = t.kind /\ u.cancel = t.cancel
        /\ u.decision = t.decision
    BY <1>0, TaskHeeded DEF Canceled, RunType
  <2>3. /\ worker[w].run \in Runs /\ t = run[worker[w].run] /\ t.status # "none"
    BY <1>0, TaskHeeded
  <2> HIDE DEF u, t
  <2>4. Heeds(t, u)
    BY <2>2, <2>3, RowHeeds
  <2>5. RunsHeed
    BY <2>1, <2>3, <2>4, OneRunHeeds
  <2> QED BY <1>0, <2>1, <2>5, StopHeeds
<1> QED BY <1>1, <1>2

LEMMA CompleteHeeds ==
    ASSUME TypeOK, Assigned, Heeding, NEW w \in Workers, Complete(w)
    PROVE  RunsHeed /\ WorkersHeed
<1> DEFINE r == worker[w].run
           t == run[r]
           u == [t EXCEPT !.status = "succeeded", !.fresh = FALSE]
<1>1. worker[w].at = "working" /\ Stage(w) = "complete" /\ Move(w, Idle)
  BY DEF Complete, At
<1>2. /\ r \in Runs /\ t = Task(w) /\ t \in RunType /\ t.kind \in Kinds /\ t.status # "none"
      /\ Onward(worker[w], t) /\ worker[w].step \in Nat
  BY <1>1, TaskHeeded DEF WorkerType
<1>3. Decided(t)
  <2>1. CASE t.kind = "install"
    BY <2>1 DEF Decided
  <2>2. CASE t.kind # "install"
    <3>1. worker[w].step >= 1
      BY <1>1, <1>2 DEF Onward
    <3>2. /\ DecidesAt[t.kind] \in 1..3
          /\ \A i \in 1..DecidesAt[t.kind] : i \in DOMAIN Path[t.kind] /\ Path[t.kind][i] # "complete"
      BY <1>2, <2>2, DecidesInPath
    <3>3. worker[w].step \notin 1..DecidesAt[t.kind]
      BY <1>1, <1>2, <3>2 DEF Stage
    <3>4. worker[w].step > DecidesAt[t.kind]
      BY <1>2, <3>1, <3>2, <3>3
    <3> QED BY <1>1, <1>2, <3>4 DEF Onward
  <2> QED BY <2>1, <2>2
<1>4. run' = [run EXCEPT ![r] = u]
  BY DEF Complete
<1>5. /\ u.status = "succeeded" /\ u.kind = t.kind /\ u.cancel = t.cancel
      /\ u.decision = t.decision
  BY <1>2 DEF RunType
<1> HIDE DEF u, t
<1>6. Decided(u)
  BY <1>3, <1>5 DEF Decided
<1>7. Heeds(t, u)
  BY <1>2, <1>5, <1>6, RowHeeds
<1>8. RunsHeed
  BY <1>2, <1>4, <1>7, OneRunHeeds DEF t
<1> QED BY <1>1, <1>8, StopHeeds

\* A processor obeys a decision that its run has.
LEMMA ObeyHeeds ==
    ASSUME TypeOK, Assigned, Heeding, RunsHeed, NEW w \in Workers, worker[w].at # "idle",
           NEW d, Obey(w, d), Decided(run'[worker[w].run])
    PROVE  WorkersHeed
<1>1. Advance(w, worker[w].read) \/ Raise(w, Unrecorded)
  BY DEF Obey
<1> QED BY <1>1, AdvanceHeeds, StopHeeds

LEMMA RecallHeeds ==
    ASSUME TypeOK, Assigned, Heeding, NEW w \in Workers, Recall(w)
    PROVE  RunsHeed /\ WorkersHeed
<1>1. worker[w].at # "idle" /\ UNCHANGED run /\ Obey(w, Task(w).decision)
  BY DEF Recall, At, Same
<1>2. Decided(run'[worker[w].run])
  BY <1>1 DEF Recall, Task, Decided
<1> QED BY <1>1, <1>2, SameRunsHeed, ObeyHeeds

LEMMA AskAgentHeeds ==
    ASSUME TypeOK, Assigned, Heeding, NEW w \in Workers, AskAgent(w)
    PROVE  RunsHeed /\ WorkersHeed
<1> DEFINE r == worker[w].run
           t == run[r]
           u == [t EXCEPT !.hold = IF @ = "none" THEN "reserved" ELSE @]
<1>1. worker[w].at # "idle" /\ Move(w, [worker[w] EXCEPT !.at = "asking"])
  BY DEF AskAgent, At
<1>2. r \in Runs /\ t \in RunType /\ t.status # "none" /\ Heeded(t)
  BY <1>1, TaskHeeded
<1>3. run' = [run EXCEPT ![r] = u]
  BY DEF AskAgent
<1>4. u.status = t.status /\ u.kind = t.kind /\ u.cancel = t.cancel /\ u.decision = t.decision
  BY <1>2 DEF RunType
<1> HIDE DEF u, t
<1>5. Heeds(t, u)
  BY <1>2, <1>4, RowHeeds DEF Heeded, Decided
<1>6. RunsHeed
  BY <1>2, <1>3, <1>5, OneRunHeeds DEF t
<1> QED BY <1>1, <1>6, StopHeeds

LEMMA SaveDecisionHeeds ==
    ASSUME TypeOK, Assigned, Heeding, NEW w \in Workers, NEW d \in Verdict, NEW tokens \in Tokens,
           SaveDecision(w, d, tokens)
    PROVE  RunsHeed /\ WorkersHeed
<1> DEFINE r == worker[w].run
           t == run[r]
           u == [Recorded(t, tokens) EXCEPT !.decision = d, !.evidence = worker[w].read]
<1>1. worker[w].at # "idle" /\ Obey(w, d)
  BY DEF SaveDecision
<1>2. r \in Runs /\ t \in RunType /\ t.status # "none" /\ Heeded(t)
  BY <1>1, TaskHeeded
<1>3. run' = [run EXCEPT ![r] = u]
  BY DEF SaveDecision
<1>4. u.status = t.status /\ u.kind = t.kind /\ u.cancel = t.cancel /\ u.decision = d
  BY <1>2 DEF RunType, Recorded
<1>5. d # "none"
  BY DEF Verdict
<1> HIDE DEF u, t
<1>6. Heeds(t, u) /\ Decided(u)
  BY <1>2, <1>4, <1>5, RowHeeds DEF Decided
<1>7. RunsHeed
  BY <1>2, <1>3, <1>6, OneRunHeeds DEF t
<1>8. run'[r] = u
  BY <1>2, <1>3 DEF TypeOK
<1> QED BY <1>1, <1>6, <1>7, <1>8, ObeyHeeds

LEMMA FailsHalfwayHeeds ==
    ASSUME TypeOK, Assigned, Heeding, NEW w \in Workers, NEW tokens \in Tokens, FailsHalfway(w, tokens)
    PROVE  RunsHeed /\ WorkersHeed
<1> DEFINE new == [worker[w] EXCEPT !.at = "failing", !.read = 0, !.tokens = tokens]
<1>1. worker[w].at # "idle" /\ UNCHANGED run
  BY DEF FailsHalfway
<1>2. worker[w].run \in Runs /\ Task(w).status # "none" /\ worker[w] \in WorkerType
  BY <1>1, TaskHeeded
<1>3. worker' = [worker EXCEPT ![w] = new]
  BY DEF FailsHalfway, TypeOK
<1>4. new.at = "failing" /\ new.run = worker[w].run
  BY <1>2 DEF WorkerType
<1> HIDE DEF new
<1>5. Onward(new, run'[new.run])
  BY <1>1, <1>2, <1>4 DEF Onward, Task
<1> QED BY <1>1, <1>3, <1>5, SameRunsHeed, MoveHeeds

\* A failed run that was asked to stop is canceled.
LEMMA FailedHeeds ==
    ASSUME NEW t \in RunType, t.status # "none"
    PROVE  Heeds(t, Failed(t))
<1> DEFINE u == Failed(t)
<1>1. /\ u.kind = t.kind /\ u.cancel = t.cancel /\ u.decision = t.decision
      /\ u.status \in {"canceled", "queued", "failed"}
      /\ u.status = "failed" => ~t.cancel
  BY DEF Failed, Canceled, RunType
<1> HIDE DEF u
<1>2. Heeds(t, u)
  BY <1>1, RowHeeds
<1> QED BY <1>2 DEF u

LEMMA FailHeeds ==
    ASSUME TypeOK, Assigned, Heeding, NEW w \in Workers, Fail(w)
    PROVE  RunsHeed /\ WorkersHeed
<1> DEFINE r == worker[w].run
           t == run[r]
           s == Settled(t, worker[w].tokens)
<1>1. worker[w].at # "idle" /\ Move(w, Idle)
  BY DEF Fail
<1>2. r \in Runs /\ t \in RunType /\ t.kind \in Kinds /\ t.status # "none"
      /\ worker[w].tokens \in Nat \cup {Unrecorded}
  BY <1>1, TaskHeeded DEF WorkerType
<1>3. run' = [run EXCEPT ![r] = Failed(s)]
  BY DEF Fail, Task
<1>4. /\ s \in RunType /\ s.kind = t.kind /\ s.status = t.status /\ s.cancel = t.cancel
      /\ s.decision = t.decision
  <2>1. CASE worker[w].tokens = Unrecorded
    BY <1>2, <2>1 DEF Settled
  <2>2. CASE worker[w].tokens # Unrecorded
    <3>1. s = Recorded(t, worker[w].tokens) /\ s \in RunType
      BY <1>2, <2>2, RecordedKept DEF Settled
    <3> QED BY <1>2, <3>1 DEF Recorded, RunType
  <2> QED BY <2>1, <2>2
<1> HIDE DEF s, t
<1>5. Heeds(s, Failed(s))
  BY <1>2, <1>4, FailedHeeds
<1>6. Heeds(t, Failed(s))
  BY <1>2, <1>4, <1>5 DEF Heeds, Heeded, Decided
<1>7. RunsHeed
  BY <1>2, <1>3, <1>6, OneRunHeeds DEF t
<1> QED BY <1>1, <1>7, StopHeeds

LEMMA DiesHeeds ==
    ASSUME Dies
    PROVE  RunsHeed /\ WorkersHeed
<1>1. Idle.at = "idle"
  BY DEF Idle
<1> QED BY <1>1, SameRunsHeed DEF Dies, WorkersHeed, Onward

LEMMA WorkHeeds ==
    ASSUME TypeOK, Assigned, Heeding, NEW w \in Workers, Work(w)
    PROVE  RunsHeed /\ WorkersHeed
<1>1. CASE FailRaises(w)
  BY <1>1, DiesHeeds DEF FailRaises
<1> QED BY <1>1, StagesHeed, BeginHeeds, CompleteHeeds, RecallHeeds, AskAgentHeeds,
           SaveDecisionHeeds, FailsHalfwayHeeds, FailHeeds
    DEF Work

\* A step that leaves the processors alone.
LEMMA StillHeeds ==
    ASSUME Assigned, Heeding, RunsHeed, UNCHANGED worker
    PROVE  RunsHeed /\ WorkersHeed
  BY OthersHeed DEF WorkersHeed

LEMMA QueueHeeds ==
    ASSUME TypeOK, Assigned, Heeding, Background
    PROVE  RunsHeed /\ WorkersHeed
<1>1. CASE RecoverExpired
  <2>1. \A r \in Runs : Heeds(run[r], run'[r])
    <3> SUFFICES ASSUME NEW r \in Runs PROVE Heeds(run[r], run'[r])
      OBVIOUS
    <3>1. CASE r \in Expired
      <4> DEFINE u == [run[r] EXCEPT !.status = "queued"]
      <4>1. run'[r] = u /\ run[r].status # "none" /\ run[r] \in RunType
        BY <1>1, <3>1 DEF RecoverExpired, Expired, TypeOK
      <4>2. /\ u.status = "queued" /\ u.kind = run[r].kind /\ u.cancel = run[r].cancel
            /\ u.decision = run[r].decision
        BY <4>1 DEF RunType
      <4> HIDE DEF u
      <4> QED BY <4>1, <4>2, RowHeeds
    <3>2. CASE r \notin Expired
      BY <1>1, <3>2 DEF RecoverExpired, Heeds
    <3> QED BY <3>1, <3>2
  <2> QED BY <1>1, <2>1, StillHeeds DEF RecoverExpired, RunsHeed
<1>2. CASE Crash
  BY <1>2, DiesHeeds DEF Crash
<1>3. CASE \E r \in Runs : LeaseExpires(r)
  <2>1. PICK r \in Runs : LeaseExpires(r)
    BY <1>3
  <2> DEFINE u == [run[r] EXCEPT !.fresh = FALSE]
  <2>2. run' = [run EXCEPT ![r] = u] /\ run[r].status = "running" /\ run[r] \in RunType
    BY <2>1 DEF LeaseExpires, TypeOK
  <2>3. /\ u.status = run[r].status /\ u.kind = run[r].kind /\ u.cancel = run[r].cancel
        /\ u.decision = run[r].decision
    BY <2>2 DEF RunType
  <2> HIDE DEF u
  <2>4. Heeds(run[r], u)
    BY <2>2, <2>3, RowHeeds
  <2> QED BY <2>1, <2>2, <2>4, OneRunHeeds, StillHeeds DEF LeaseExpires
<1>4. CASE \E r \in Runs : ExpireHold(r)
  <2>1. PICK r \in Runs : ExpireHold(r)
    BY <1>4
  <2> DEFINE u == [run[r] EXCEPT !.hold = "expired"]
  <2>2. run' = [run EXCEPT ![r] = u] /\ run[r] \in RunType
    BY <2>1 DEF ExpireHold, TypeOK
  <2>3. /\ u.status = run[r].status /\ u.kind = run[r].kind /\ u.cancel = run[r].cancel
        /\ u.decision = run[r].decision
    BY <2>2 DEF RunType
  <2> HIDE DEF u
  <2>4. Heeds(run[r], u)
    BY <2>2, <2>3 DEF Heeds, Heeded, Decided
  <2> QED BY <2>1, <2>2, <2>4, OneRunHeeds, StillHeeds DEF ExpireHold
<1>5. CASE \E w \in Workers : Work(w)
  BY <1>5, WorkHeeds
<1>6. CASE \E w \in Workers, r \in Runs : Claim(w, r)
  <2>1. PICK w \in Workers, r \in Runs : Claim(w, r)
    BY <1>6
  <2> DEFINE u == [run[r] EXCEPT !.status = "running", !.fresh = TRUE,
                                 !.attempt = IF @ < MaxAttempts THEN @ + 1 ELSE @]
             new == [Idle EXCEPT !.at = "claimed", !.run = r]
  <2>2. /\ run' = [run EXCEPT ![r] = u] /\ run[r].status = "queued" /\ run[r] \in RunType
        /\ worker' = [worker EXCEPT ![w] = new]
    BY <2>1 DEF Claim, TypeOK
  <2>3. /\ u.status = "running" /\ u.kind = run[r].kind /\ u.cancel = run[r].cancel
        /\ u.decision = run[r].decision
    BY <2>2 DEF RunType
  <2>4. new.at = "claimed" /\ new.run = r /\ new.step = 0
    BY DEF Idle
  <2> HIDE DEF u, new
  <2>5. Heeds(run[r], u)
    BY <2>2, <2>3, RowHeeds
  <2>6. RunsHeed /\ run'[r] = u
    BY <2>2, <2>5, OneRunHeeds DEF TypeOK
  <2>7. Onward(new, run'[new.run])
    BY <2>3, <2>4, <2>6 DEF Onward
  <2> QED BY <2>2, <2>6, <2>7, MoveHeeds
<1> QED BY <1>1, <1>2, <1>3, <1>4, <1>5, <1>6 DEF Background

-----------------------------------------------------------------------------
(* Requests that do not overlap.                                           *)

LEMMA BackgroundAlone ==
    ASSUME Background
    PROVE  UNCHANGED pending
<1>1. ASSUME NEW w \in Workers, Work(w)
      PROVE  UNCHANGED pending
  BY <1>1 DEF Work, Begin, Fails, StartSkipped, Start, Started, Evidence, Store, Stored,
     PackageSkipped, Package, Packaged, Version, Check, Compile, Import, Finish, Complete, Recall,
     AskAgent, Fail, FailRaises, FailsHalfway, SaveDecision, Obey, Advance, Await, Raise, Move, Dies
<1> QED BY <1>1 DEF Background, RecoverExpired, Crash, Dies, LeaseExpires, ExpireHold, Claim

\* Enqueueing writes a row that was not there.
LEMMA EnqueueHeeds ==
    ASSUME TypeOK, Assigned, Heeding, NEW kind, Enqueue(kind)
    PROVE  RunsHeed
<1>1. PICK r \in Runs : run' = [run EXCEPT ![r] = Queued(kind)] /\ run[r].status = "none"
  BY DEF Enqueue, FreeRun
<1>2. Queued(kind).status = "queued"
  BY DEF Queued, Unqueued
<1>3. Heeds(run[r], Queued(kind))
  BY <1>1, <1>2 DEF Heeds, Heeded, Decided, Queued, Unqueued
<1> QED BY <1>1, <1>3, OneRunHeeds

LEMMA AnswersHeed ==
    ASSUME TypeOK, Assigned, Heeding, NEW h \in Handlers, Answers(h)
    PROVE  RunsHeed /\ WorkersHeed
<1>1. UNCHANGED worker
  BY DEF Answers, Queue, Retry, Cancel, Upload, DecideOutline, Archive, Publish, Refuse, Answer
<1>2. CASE Queue(h) \/ Retry(h)
  BY <1>1, <1>2, EnqueueHeeds, StillHeeds DEF Queue, Retry
<1>3. CASE Cancel(h)
  <2> DEFINE r == pending[h].run
             t == run[r]
             u == IF pending[h].kind = "queued" THEN [t EXCEPT !.status = "canceled"]
                  ELSE [t EXCEPT !.cancel = TRUE]
  <2>1. /\ r \in Runs /\ t \in RunType /\ Asked(h, "cancel")
        /\ pending[h].kind \in Active /\ t.status = pending[h].kind
    BY <1>3 DEF Cancel, TypeOK, Assigned, Heeding, CancelIsCurrent
  <2>2. run' = [run EXCEPT ![r] = u]
    BY <1>3 DEF Cancel
  <2>3. /\ u.status \in {"canceled", "running"} /\ u.kind = t.kind /\ u.decision = t.decision
    BY <2>1 DEF RunType, Active
  <2> HIDE DEF u, t
  <2>4. Heeds(t, u)
    BY <2>1, <2>3 DEF Heeds, Heeded, Decided
  <2>5. RunsHeed
    BY <2>1, <2>2, <2>4, OneRunHeeds DEF t
  <2> QED BY <1>1, <2>5, StillHeeds
<1>4. CASE Upload(h) \/ DecideOutline(h) \/ Archive(h) \/ Publish(h) \/ Refuse(h)
  <2>1. UNCHANGED run
    BY <1>4 DEF Upload, DecideOutline, Archive, Publish, Refuse
  <2> QED BY <1>1, <2>1, SameRunsHeed, StillHeeds
<1> QED BY <1>2, <1>3, <1>4 DEF Answers

LEMMA HeedingKept ==
    ASSUME TypeOK, Assigned, Heeding, RunsHeed, WorkersHeed, Alone', CancelIsCurrent'
    PROVE  Heeding'
<1>1. \A r \in Runs : Heeded(run'[r])
  BY DEF Heeding, RunsHeed, Heeds
<1>2. \A w \in Workers : Onward(worker'[w], Task(w)')
  BY DEF WorkersHeed, Task
<1> QED BY <1>1, <1>2 DEF Heeding

LEMMA HeedingStep ==
    ASSUME Atomic, TypeOK, Assigned, Heeding, [Next]_vars
    PROVE  Heeding'
<1>0. NoRequest.op = "none"
  BY DEF NoRequest
<1>1. CASE \E h \in Handlers : Answers(h)
  <2>1. PICK h \in Handlers : Answers(h)
    BY <1>1
  <2>2. pending[h] # NoRequest /\ pending' = [pending EXCEPT ![h] = NoRequest]
    BY <1>0, <2>1 DEF Answers, Queue, Retry, Cancel, Upload, DecideOutline, Archive, Publish,
                      Refuse, Answer, Asked
  <2>3. \A g \in Handlers : pending'[g] = NoRequest
    BY <2>2 DEF TypeOK, Heeding, Alone
  <2>4. Alone' /\ CancelIsCurrent'
    BY <1>0, <2>3 DEF Alone, CancelIsCurrent, Asked
  <2> QED BY <2>1, <2>4, AnswersHeed, HeedingKept
<1>2. CASE Quiet /\ Background
  <2>1. \A g \in Handlers : pending'[g] = NoRequest
    BY <1>2, BackgroundAlone DEF Quiet
  <2>2. Alone' /\ CancelIsCurrent'
    BY <1>0, <2>1 DEF Alone, CancelIsCurrent, Asked
  <2> QED BY <1>2, <2>2, QueueHeeds, HeedingKept
<1>3. CASE Quiet /\ \E h \in Handlers : Requests(h)
  <2>1. PICK h \in Handlers : Requests(h)
    BY <1>3
  <2>2. PICK op, r, kind :
          /\ Ask(h, op, r, kind)
          /\ op = "cancel" => kind \in Active /\ run[r].status = kind
    BY <2>1 DEF Requests, AskQueue, AskRetry, AskCancel, AskUpload, AskDecideOutline, AskArchive,
                AskPublish
  <2> DEFINE new == [op |-> op, run |-> r, kind |-> kind, seen |-> project]
  <2>3. /\ new.op = op /\ new.run = r /\ new.kind = kind /\ UNCHANGED <<run, worker>>
        /\ pending' = [pending EXCEPT ![h] = new]
    BY <2>2 DEF Ask
  <2> HIDE DEF new
  <2>4. \A g \in Handlers : pending'[g] = IF g = h THEN new ELSE NoRequest
    BY <1>3, <2>3 DEF Quiet, TypeOK
  <2>5. Alone' /\ CancelIsCurrent'
    BY <1>0, <2>2, <2>3, <2>4 DEF Alone, CancelIsCurrent, Asked
  <2> QED BY <2>3, <2>5, SameRunsHeed, StillHeeds, HeedingKept
<1>4. CASE UNCHANGED vars
  <2>1. Alone' /\ CancelIsCurrent'
    BY <1>4 DEF vars, Heeding, Alone, CancelIsCurrent, Asked
  <2> QED BY <1>4, <2>1, SameRunsHeed, StillHeeds, HeedingKept DEF vars
<1> QED BY <1>1, <1>2, <1>3, <1>4 DEF Next

LEMMA HeedingInit ==
    ASSUME Init
    PROVE  Heeding
<1>1. Unqueued.status = "none" /\ ~Unqueued.cancel
  BY DEF Unqueued
<1>2. Idle.at = "idle" /\ NoRequest.op = "none"
  BY DEF Idle, NoRequest
<1> QED BY <1>1, <1>2 DEF Init, Heeding, Heeded, Onward, Alone, CancelIsCurrent, Asked

\* A run that its author asked to stop never fails, is never tried again in vain and
\* never succeeds undecided, whatever crashes, recovers or outlasts its lease, as long as
\* requests do not overlap with anything.
THEOREM CancelHonoured == Atomic => (Spec => []CancelIsHonoured)
<1>1. Init => Heeding
  BY HeedingInit
<1>2. Atomic /\ TypeOK /\ Assigned /\ Heeding /\ [Next]_vars => Heeding'
  BY HeedingStep
<1>3. Heeding => CancelIsHonoured
  BY DEF Heeding, Heeded, Decided, CancelIsHonoured
<1>4. ASSUME Atomic
      PROVE  Spec => []CancelIsHonoured
  <2>1. TypeOK /\ Assigned /\ Heeding /\ [Next]_vars => Heeding'
    BY <1>2, <1>4
  <2> QED BY <1>1, <2>1, <1>3, TypeCorrect, PTL DEF Spec
<1> QED BY <1>4


-----------------------------------------------------------------------------
(* A project that waits.                                                   *)

\* What only a run can bring a project out of.
Waiting == {"outlining", "generating", "finalizing"}

\* The run has done its last write to the project, or an install has none.
Closing(w) ==
    Task(w).kind = "install" \/ (worker[w].at = "working" /\ Stage(w) = "complete")

\* Leases that last: one run is active, one processor executes it, its lease is good, and
\* when it is about to succeed the project does not wait for it.
OneActive == \A r, s \in Runs : run[r].status \in Active /\ run[s].status \in Active => r = s
OneExecutes ==
    \A v, w \in Workers : worker[v].at # "idle" /\ worker[w].at # "idle" => v = w
Leased ==
    \A w \in Workers : worker[w].at # "idle" => Task(w).status = "running" /\ Task(w).fresh
ClosesWell ==
    \A w \in Workers : worker[w].at # "idle" /\ Closing(w) => project.status \notin Waiting
Asking == \A w \in Workers : worker[w].at = "asking" => Stage(w) = "decide"

\* What a request saw is so, and a retry found no active run.
SeenIsCurrent ==
    \A h \in Handlers :
        /\ pending[h] # NoRequest => pending[h].seen = project
        /\ Asked(h, "retry") => NoActiveRun

Attended ==
    /\ NoActiveRun => project.status \notin Waiting
    /\ OneActive /\ OneExecutes /\ Leased /\ ClosesWell /\ Asking

\* The stages of a run go on to the last one, and only an install imports.
LEMMA PathGoesOn ==
    ASSUME NEW k \in Kinds
    PROVE  /\ 1 \in DOMAIN Path[k] /\ Path[k][1] # "complete"
           /\ \A i \in DOMAIN Path[k] :
                 /\ i \in Nat
                 /\ Path[k][i] = "import" => k = "install"
                 /\ Path[k][i] \notin {"finish", "compile", "import"} =>
                       i + 1 \in DOMAIN Path[k] /\ Path[k][i + 1] # "complete"
<1>1. Rewrite = <<"store", "start", "package", "finish">>
  BY DEF Rewrite
<1>2. CASE k = "outline"
  BY <1>2 DEF Path
<1>3. CASE k = "generate"
  BY <1>3, <1>1 DEF Path
<1>4. CASE k = "review"
  BY <1>4 DEF Path
<1>5. CASE k = "revise"
  BY <1>5, <1>1 DEF Path
<1>6. CASE k = "revise_version"
  BY <1>6, <1>1 DEF Path
<1>7. CASE k = "finalize"
  BY <1>7 DEF Path
<1>8. CASE k = "install"
  BY <1>8 DEF Path
<1> QED BY <1>2, <1>3, <1>4, <1>5, <1>6, <1>7, <1>8 DEF Kinds

RowsSame ==
    \A r \in Runs : /\ run'[r].status = run[r].status /\ run'[r].fresh = run[r].fresh
                    /\ run'[r].kind = run[r].kind

\* A processor goes on with its run.
LEMMA GoesOn ==
    ASSUME TypeOK, Assigned, Attended, NEW w \in Workers, worker[w].at # "idle", RowsSame,
           NEW new, worker' = [worker EXCEPT ![w] = new],
           new.run = worker[w].run, new.at # "idle",
           project'.status \in Waiting => project.status \in Waiting,
           new.at = "working" =>
              \/ project'.status \notin Waiting
              \/ new.step \in DOMAIN Path[Task(w).kind] /\ Path[Task(w).kind][new.step] # "complete",
           new.at = "asking" =>
              new.step \in DOMAIN Path[Task(w).kind] /\ Path[Task(w).kind][new.step] = "decide"
    PROVE  Attended'
<1> DEFINE r == worker[w].run
<1>1. /\ r \in Runs /\ run[r].status = "running" /\ run[r].fresh /\ Task(w) = run[r]
  BY DEF Assigned, Attended, Leased, Task
<1>2. worker'[w] = new /\ \A v \in Workers : v # w => worker'[v].at = "idle"
  BY DEF TypeOK, Attended, OneExecutes
<1>3. Task(w)' = run'[r]
  BY <1>2 DEF Task
<1>4. OneActive' /\ OneExecutes' /\ Leased'
  BY <1>1, <1>2, <1>3 DEF Attended, OneActive, OneExecutes, Leased, RowsSame
<1>5. ~NoActiveRun'
  BY <1>1 DEF NoActiveRun, RowsSame, Active
<1>6. run'[r].kind = Task(w).kind
  BY <1>1 DEF RowsSame
<1>7. ClosesWell'
  <2>1. CASE Task(w).kind = "install"
    <3>1. project.status \notin Waiting
      BY <2>1 DEF Attended, ClosesWell, Closing
    <3> QED BY <1>2, <3>1 DEF ClosesWell
  <2>2. CASE Task(w).kind # "install"
    <3>1. Closing(w)' => new.at = "working" /\ Stage(w)' = "complete"
      BY <1>2, <1>3, <1>6, <2>2 DEF Closing
    <3>2. Stage(w)' = IF new.step \in DOMAIN Path[Task(w).kind] THEN Path[Task(w).kind][new.step]
                      ELSE "complete"
      BY <1>2, <1>3, <1>6 DEF Stage
    <3> QED BY <1>2, <3>1, <3>2 DEF ClosesWell
  <2> QED BY <2>1, <2>2
<1>8. Asking'
  BY <1>2, <1>3, <1>6 DEF Asking, Stage
<1> QED BY <1>4, <1>5, <1>7, <1>8 DEF Attended

\* A processor stops: its run is over and the project does not wait, or it is queued again.
LEMMA EndsAttended ==
    ASSUME TypeOK, Assigned, Attended, NEW w \in Workers, worker[w].at # "idle",
           Move(w, Idle), NEW u, run' = [run EXCEPT ![worker[w].run] = u],
           \/ u.status \in Active /\ UNCHANGED project
           \/ u.status \notin Active /\ project'.status \notin Waiting
    PROVE  Attended'
<1> DEFINE r == worker[w].run
<1>1. r \in Runs /\ run[r].status \in Active
  BY DEF Assigned, Attended, Leased, Task, Active
<1>2. \A v \in Workers : worker'[v].at = "idle"
  BY DEF TypeOK, Attended, OneExecutes, Move, Idle
<1>3. \A s \in Runs : run'[s] = IF s = r THEN u ELSE run[s]
  BY <1>1 DEF TypeOK
<1>4. OneExecutes' /\ Leased' /\ ClosesWell' /\ Asking'
  BY <1>2 DEF OneExecutes, Leased, ClosesWell, Asking
<1>5. OneActive'
  BY <1>1, <1>3 DEF Attended, OneActive
<1>6. NoActiveRun' => project'.status \notin Waiting
  BY <1>1, <1>3 DEF NoActiveRun
<1> QED BY <1>4, <1>5, <1>6 DEF Attended

LEMMA DiesAttended ==
    ASSUME Attended, Dies
    PROVE  Attended'
<1>1. \A v \in Workers : worker'[v].at = "idle"
  BY DEF Dies, Idle
<1> QED BY <1>1 DEF Dies, Attended, NoActiveRun, OneActive, OneExecutes, Leased, ClosesWell, Asking

\* Going on, column by column.
LEMMA AdvanceGoesOn ==
    ASSUME TypeOK, Assigned, Attended, NEW w \in Workers, worker[w].at # "idle", RowsSame,
           NEW read, Advance(w, read),
           \/ project'.status \notin Waiting
           \/ /\ project'.status = project.status
              /\ Stage(w) \notin {"finish", "compile", "import", "complete"}
    PROVE  Attended'
<1> DEFINE new == [worker[w] EXCEPT !.at = "working", !.step = @ + 1, !.read = read]
           k == Task(w).kind
<1>1. worker[w] \in WorkerType /\ k \in Kinds
  BY DEF TypeOK, Assigned, Task
<1>2. new.at = "working" /\ new.run = worker[w].run /\ new.step = worker[w].step + 1
  BY <1>1 DEF WorkerType
<1>3. worker' = [worker EXCEPT ![w] = new]
  BY DEF Advance, Move
<1> HIDE DEF new
<1>4. \/ project'.status \notin Waiting
      \/ new.step \in DOMAIN Path[k] /\ Path[k][new.step] # "complete"
  <2>1. CASE Stage(w) \notin {"finish", "compile", "import", "complete"}
    <3>1. worker[w].step \in DOMAIN Path[k] /\ Path[k][worker[w].step] = Stage(w)
      BY <2>1 DEF Stage
    <3> QED BY <1>1, <1>2, <2>1, <3>1, PathGoesOn
  <2> QED BY <2>1
<1>5. project'.status \in Waiting => project.status \in Waiting
  OBVIOUS
<1> QED BY <1>2, <1>3, <1>4, <1>5, GoesOn

LEMMA OtherwiseGoesOn ==
    ASSUME TypeOK, Assigned, Attended, NEW w \in Workers, worker[w].at # "idle", RowsSame,
           UNCHANGED project,
           \/ \E read : Await(w, read)
           \/ \E tokens : worker' = [worker EXCEPT ![w].at = "failing", ![w].read = 0, ![w].tokens = tokens]
           \/ Stage(w) = "decide" /\ Move(w, [worker[w] EXCEPT !.at = "asking"])
    PROVE  Attended'
<1>0. worker[w] \in WorkerType
  BY DEF TypeOK
<1>1. CASE \E read : Await(w, read)
  <2>1. PICK read : Await(w, read)
    BY <1>1
  <2> DEFINE new == [worker[w] EXCEPT !.at = "awaiting", !.read = read]
  <2>2. new.at = "awaiting" /\ new.run = worker[w].run
    BY <1>0 DEF WorkerType
  <2>3. worker' = [worker EXCEPT ![w] = new]
    BY <2>1 DEF Await, Move
  <2> HIDE DEF new
  <2> QED BY <2>2, <2>3, GoesOn
<1>2. CASE \E tokens : worker' = [worker EXCEPT ![w].at = "failing", ![w].read = 0, ![w].tokens = tokens]
  <2>1. PICK tokens : worker' = [worker EXCEPT ![w].at = "failing", ![w].read = 0, ![w].tokens = tokens]
    BY <1>2
  <2> DEFINE new == [worker[w] EXCEPT !.at = "failing", !.read = 0, !.tokens = tokens]
  <2>2. new.at = "failing" /\ new.run = worker[w].run
    BY <1>0 DEF WorkerType
  <2>3. worker' = [worker EXCEPT ![w] = new]
    BY <2>1 DEF TypeOK
  <2> HIDE DEF new
  <2> QED BY <2>2, <2>3, GoesOn
<1>3. CASE Stage(w) = "decide" /\ Move(w, [worker[w] EXCEPT !.at = "asking"])
  <2> DEFINE new == [worker[w] EXCEPT !.at = "asking"]
  <2>2. new.at = "asking" /\ new.run = worker[w].run /\ new.step = worker[w].step
    BY <1>0 DEF WorkerType
  <2>3. worker' = [worker EXCEPT ![w] = new]
    BY <1>3 DEF Move
  <2>4. new.step \in DOMAIN Path[Task(w).kind] /\ Path[Task(w).kind][new.step] = "decide"
    BY <1>3, <2>2 DEF Stage
  <2> HIDE DEF new
  <2> QED BY <2>2, <2>3, <2>4, GoesOn
<1> QED BY <1>1, <1>2, <1>3

LEMMA RaiseGoesOn ==
    ASSUME TypeOK, Assigned, Attended, NEW w \in Workers, worker[w].at # "idle", RowsSame,
           UNCHANGED project, NEW tokens, Raise(w, tokens)
    PROVE  Attended'
<1>1. worker' = [worker EXCEPT ![w].at = "failing", ![w].read = 0, ![w].tokens = tokens]
  BY DEF Raise, Move, TypeOK
<1> QED BY <1>1, OtherwiseGoesOn

LEMMA StagesAttended ==
    ASSUME TypeOK, Assigned, Attended, NEW w \in Workers,
           \/ Fails(w) \/ StartSkipped(w) \/ Start(w) \/ Started(w) \/ Evidence(w) \/ Store(w) \/ Stored(w)
           \/ PackageSkipped(w) \/ Package(w) \/ Packaged(w)
           \/ Version(w) \/ Check(w) \/ Compile(w) \/ Import(w) \/ Finish(w)
    PROVE  Attended'
<1>0. UNCHANGED run /\ RowsSame /\ project \in ProjectType
  BY DEF Fails, StartSkipped, Start, Started, Evidence, Store, Stored, PackageSkipped, Package,
         Packaged, Version, Check, Compile, Import, Finish, Same, RowsSame, TypeOK
<1>1. CASE Fails(w)
  BY <1>0, <1>1, RaiseGoesOn DEF Fails, Same
<1>2. CASE Start(w) \/ Store(w) \/ Package(w)
  BY <1>0, <1>2, OtherwiseGoesOn DEF Start, Store, Package, At, Same
<1>3. CASE \/ StartSkipped(w) \/ Started(w) \/ Evidence(w) \/ Stored(w) \/ PackageSkipped(w)
           \/ Packaged(w) \/ Version(w) \/ Check(w)
  <2>1. /\ worker[w].at # "idle" /\ Stage(w) \notin {"finish", "compile", "import", "complete"}
        /\ \E read : Advance(w, read)
    BY <1>3 DEF StartSkipped, Started, Evidence, Stored, PackageSkipped, Packaged, Version,
                Check, At, Awaits
  <2>2. project'.status = project.status
    BY <1>0, <1>3 DEF StartSkipped, Started, Evidence, Stored, PackageSkipped, Packaged, Version,
                Check, Same, ProjectType
  <2> QED BY <1>0, <2>1, <2>2, AdvanceGoesOn
<1>4. CASE Compile(w) \/ Finish(w)
  <2>1. project'.status \notin Waiting
    BY <1>0, <1>4 DEF Compile, Finish, Finished, ProjectType, Waiting
  <2>2. worker[w].at # "idle" /\ \E read : Advance(w, read)
    BY <1>4 DEF Compile, Finish, At
  <2> QED BY <1>0, <2>1, <2>2, AdvanceGoesOn
<1>5. CASE Import(w)
  <2>1. /\ worker[w].at # "idle" /\ Stage(w) = "import" /\ Advance(w, 0) /\ UNCHANGED project
    BY <1>5 DEF Import, At, Same
  <2>2. Task(w).kind \in Kinds
    BY <2>1 DEF Assigned, Task
  <2>3. Task(w).kind = "install"
    BY <2>1, <2>2, PathGoesOn DEF Stage
  <2>4. project'.status \notin Waiting
    BY <2>1, <2>3 DEF Attended, ClosesWell, Closing
  <2> QED BY <1>0, <2>1, <2>4, AdvanceGoesOn
<1> QED BY <1>1, <1>2, <1>3, <1>4, <1>5

LEMMA BeginAttended ==
    ASSUME TypeOK, Assigned, Heeding, Attended, NEW w \in Workers, Begin(w)
    PROVE  Attended'
<1>0. worker[w].at = "claimed" /\ worker[w] \in WorkerType /\ Task(w).kind \in Kinds
  BY TaskHeeded DEF Begin
<1>1. CASE ~Task(w).cancel
  <2> DEFINE new == [worker[w] EXCEPT !.at = "working", !.step = @ + 1, !.read = 0]
  <2>1. worker' = [worker EXCEPT ![w] = new] /\ UNCHANGED <<project, run>> /\ RowsSame
    BY <1>1 DEF Begin, Same, Advance, Move, RowsSame
  <2>2. new.at = "working" /\ new.run = worker[w].run /\ new.step = 1
    BY <1>0, TaskHeeded DEF WorkerType, Onward
  <2>3. new.step \in DOMAIN Path[Task(w).kind] /\ Path[Task(w).kind][new.step] # "complete"
    BY <1>0, <2>2, PathGoesOn
  <2> HIDE DEF new
  <2> QED BY <1>0, <2>1, <2>2, <2>3, GoesOn
<1>2. CASE Task(w).cancel
  <2> DEFINE u == Canceled(Task(w))
  <2>1. /\ run' = [run EXCEPT ![worker[w].run] = u] /\ Move(w, Idle)
        /\ project'.status = "canceled"
    BY <1>2 DEF Begin, Task, CanceledProject, TypeOK, ProjectType
  <2>2. u.status = "canceled"
    BY <1>0, TaskHeeded DEF Canceled, RunType
  <2> HIDE DEF u
  <2> QED BY <1>0, <2>1, <2>2, EndsAttended DEF Active, Waiting
<1> QED BY <1>1, <1>2

LEMMA CompleteAttended ==
    ASSUME TypeOK, Assigned, Heeding, Attended, NEW w \in Workers, Complete(w)
    PROVE  Attended'
<1> DEFINE r == worker[w].run
           u == [run[r] EXCEPT !.status = "succeeded", !.fresh = FALSE]
<1>1. worker[w].at = "working" /\ Stage(w) = "complete" /\ Move(w, Idle) /\ UNCHANGED project
  BY DEF Complete, At
<1>2. run' = [run EXCEPT ![r] = u]
  BY DEF Complete
<1>3. u.status = "succeeded"
  BY <1>1, TaskHeeded DEF RunType
<1> HIDE DEF u
<1>4. project'.status \notin Waiting
  BY <1>1 DEF Attended, ClosesWell, Closing
<1> QED BY <1>1, <1>2, <1>3, <1>4, EndsAttended DEF Active

LEMMA ObeyGoesOn ==
    ASSUME TypeOK, Assigned, Attended, NEW w \in Workers, worker[w].at # "idle", RowsSame,
           NEW d, Obey(w, d), Stage(w) = "decide", project'.status = project.status
    PROVE  Attended'
<1>1. CASE Advance(w, worker[w].read)
  BY <1>1, AdvanceGoesOn
<1>2. CASE Raise(w, Unrecorded)
  <2> DEFINE new == [worker[w] EXCEPT !.at = "failing", !.read = 0, !.tokens = Unrecorded]
  <2>1. new.at = "failing" /\ new.run = worker[w].run
    BY DEF TypeOK, WorkerType
  <2>2. worker' = [worker EXCEPT ![w] = new]
    BY <1>2 DEF Raise, Move
  <2> HIDE DEF new
  <2> QED BY <2>1, <2>2, GoesOn
<1> QED BY <1>1, <1>2 DEF Obey

LEMMA DecisionAttended ==
    ASSUME TypeOK, Assigned, Heeding, Attended, NEW w \in Workers,
           \/ Recall(w) \/ AskAgent(w)
           \/ \E tokens \in Tokens : FailsHalfway(w, tokens) \/ \E d \in Verdict : SaveDecision(w, d, tokens)
    PROVE  Attended'
<1> DEFINE r == worker[w].run
<1>0. project \in ProjectType
  BY DEF TypeOK
<1>1. CASE Recall(w)
  <2>1. /\ worker[w].at # "idle" /\ Stage(w) = "decide" /\ UNCHANGED <<project, run>>
        /\ \E d : Obey(w, d)
    BY <1>1 DEF Recall, At, Same
  <2>2. RowsSame
    BY <2>1 DEF RowsSame
  <2> QED BY <2>1, <2>2, ObeyGoesOn
<1>2. CASE AskAgent(w)
  <2> DEFINE u == [run[r] EXCEPT !.hold = IF @ = "none" THEN "reserved" ELSE @]
  <2>1. /\ worker[w].at # "idle" /\ Stage(w) = "decide" /\ UNCHANGED project
        /\ Move(w, [worker[w] EXCEPT !.at = "asking"])
    BY <1>2 DEF AskAgent, At
  <2>2. run' = [run EXCEPT ![r] = u]
    BY <1>2 DEF AskAgent
  <2>3. r \in Runs /\ u.status = run[r].status /\ u.fresh = run[r].fresh /\ u.kind = run[r].kind
    BY <2>1, TaskHeeded DEF RunType
  <2> HIDE DEF u
  <2>4. RowsSame
    BY <2>2, <2>3 DEF RowsSame, TypeOK
  <2> QED BY <2>1, <2>4, OtherwiseGoesOn
<1>3. CASE \E tokens \in Tokens : FailsHalfway(w, tokens)
  <2>1. /\ worker[w].at # "idle" /\ UNCHANGED <<project, run>>
        /\ \E tokens : worker' = [worker EXCEPT ![w].at = "failing", ![w].read = 0, ![w].tokens = tokens]
    BY <1>3 DEF FailsHalfway
  <2>2. RowsSame
    BY <2>1 DEF RowsSame
  <2> QED BY <2>1, <2>2, OtherwiseGoesOn
<1>4. CASE \E tokens \in Tokens, d \in Verdict : SaveDecision(w, d, tokens)
  <2>1. PICK tokens \in Tokens, d \in Verdict : SaveDecision(w, d, tokens)
    BY <1>4
  <2> DEFINE u == [Recorded(run[r], tokens) EXCEPT !.decision = d, !.evidence = worker[w].read]
  <2>2. worker[w].at = "asking" /\ Obey(w, d) /\ run' = [run EXCEPT ![r] = u]
    BY <2>1 DEF SaveDecision
  <2>3. r \in Runs /\ u.status = run[r].status /\ u.fresh = run[r].fresh /\ u.kind = run[r].kind
    BY <2>2, TaskHeeded DEF RunType, Recorded
  <2> HIDE DEF u
  <2>4. RowsSame
    BY <2>2, <2>3 DEF RowsSame, TypeOK
  <2>5. project'.status = project.status
    BY <1>0, <2>1 DEF SaveDecision, ProjectType
  <2>6. Stage(w) = "decide"
    BY <2>2 DEF Attended, Asking
  <2> QED BY <2>2, <2>4, <2>5, <2>6, ObeyGoesOn
<1> QED BY <1>1, <1>2, <1>3, <1>4

LEMMA FailAttended ==
    ASSUME TypeOK, Assigned, Heeding, Attended, NEW w \in Workers, Fail(w)
    PROVE  Attended'
<1> DEFINE r == worker[w].run
           t == run[r]
           s == Settled(t, worker[w].tokens)
           u == Failed(s)
           stops == t.cancel \/ project.cancelling
           again == t.attempt < MaxAttempts
<1>1. worker[w].at # "idle" /\ Move(w, Idle) /\ run' = [run EXCEPT ![r] = u]
  BY DEF Fail, Task
<1>2. r \in Runs /\ t \in RunType /\ t.kind \in Kinds /\ Task(w) = t
      /\ worker[w].tokens \in Nat \cup {Unrecorded}
  BY <1>1, TaskHeeded DEF WorkerType
<1>3. s \in RunType /\ s.cancel = t.cancel /\ s.attempt = t.attempt
  <2>1. CASE worker[w].tokens = Unrecorded
    BY <1>2, <2>1 DEF Settled
  <2>2. CASE worker[w].tokens # Unrecorded
    BY <1>2, <2>2, RecordedKept DEF Settled
  <2> QED BY <2>1, <2>2
<1>4. project' = IF stops THEN CanceledProject ELSE IF again THEN project
                 ELSE [project EXCEPT !.status = "failed"]
  BY <1>2 DEF Fail
<1>5. project \in ProjectType
  BY DEF TypeOK
<1> HIDE DEF s, t
<1>6. CASE stops
  <2>1. u.status = "canceled"
    BY <1>3, <1>6 DEF Failed, Canceled, RunType
  <2>2. project'.status = "canceled"
    BY <1>4, <1>5, <1>6 DEF CanceledProject, ProjectType
  <2> HIDE DEF u
  <2> QED BY <1>1, <2>1, <2>2, EndsAttended DEF Active, Waiting
<1>7. CASE ~stops /\ again
  <2>1. u.status = "queued"
    BY <1>3, <1>7 DEF Failed, RunType
  <2>2. UNCHANGED project
    BY <1>4, <1>7
  <2> HIDE DEF u
  <2> QED BY <1>1, <2>1, <2>2, EndsAttended DEF Active
<1>8. CASE ~stops /\ ~again
  <2>1. u.status = "failed"
    BY <1>3, <1>8 DEF Failed, RunType
  <2>2. project'.status = "failed"
    BY <1>4, <1>5, <1>8 DEF ProjectType
  <2> HIDE DEF u
  <2> QED BY <1>1, <2>1, <2>2, EndsAttended DEF Active, Waiting
<1> QED BY <1>6, <1>7, <1>8

LEMMA WorkAttended ==
    ASSUME TypeOK, Assigned, Heeding, Attended, NEW w \in Workers, Work(w)
    PROVE  Attended'
<1>1. CASE FailRaises(w)
  BY <1>1, DiesAttended DEF FailRaises
<1> QED BY <1>1, StagesAttended, BeginAttended, CompleteAttended, DecisionAttended, FailAttended
    DEF Work

\* A step of no processor, after which the same runs are active and which leaves the
\* status, the lease and the kind of what is executed alone.
LEMMA AsideAttended ==
    ASSUME TypeOK, Assigned, Attended, UNCHANGED <<project, worker>>,
           \A r \in Runs : run'[r].status \in Active <=> run[r].status \in Active,
           \A w \in Workers : worker[w].at # "idle" =>
              /\ Task(w)'.status = Task(w).status /\ Task(w)'.fresh = Task(w).fresh
              /\ Task(w)'.kind = Task(w).kind
    PROVE  Attended'
<1>1. \A w \in Workers : worker[w].at # "idle" => Stage(w)' = Stage(w)
  BY DEF Stage
<1>2. NoActiveRun' => project'.status \notin Waiting
  BY DEF Attended, NoActiveRun
<1>3. OneActive' /\ OneExecutes' /\ Leased'
  BY DEF Attended, OneActive, OneExecutes, Leased
<1>4. ClosesWell' /\ Asking'
  BY <1>1 DEF Attended, ClosesWell, Closing, Asking
<1> QED BY <1>2, <1>3, <1>4 DEF Attended

LEMMA ClaimAttended ==
    ASSUME TypeOK, Assigned, Attended, NEW w \in Workers, NEW r \in Runs, Claim(w, r)
    PROVE  Attended'
<1> DEFINE u == [run[r] EXCEPT !.status = "running", !.fresh = TRUE,
                               !.attempt = IF @ < MaxAttempts THEN @ + 1 ELSE @]
           new == [Idle EXCEPT !.at = "claimed", !.run = r]
<1>1. /\ run' = [run EXCEPT ![r] = u] /\ run[r].status = "queued" /\ run[r] \in RunType
      /\ worker' = [worker EXCEPT ![w] = new]
      /\ project' = [project EXCEPT !.status = RunningStatus[run[r].kind]]
  BY DEF Claim, TypeOK
<1>2. u.status = "running" /\ u.fresh /\ u.kind = run[r].kind
  BY <1>1 DEF RunType
<1>3. new.at = "claimed" /\ new.run = r
  BY DEF Idle
<1> HIDE DEF u, new
<1>4. \A v \in Workers : worker[v].at = "idle"
  <2> SUFFICES ASSUME NEW v \in Workers, worker[v].at # "idle"
               PROVE  FALSE
    OBVIOUS
  <2>1. worker[v].run \in Runs /\ run[worker[v].run].status = "running"
    BY DEF Assigned, Attended, Leased, Task
  <2>2. worker[v].run = r
    BY <1>1, <2>1 DEF Attended, OneActive, Active
  <2> QED BY <1>1, <2>1, <2>2
<1>5. /\ worker'[w] = new /\ \A v \in Workers : v # w => worker'[v].at = "idle"
      /\ \A s \in Runs : run'[s] = IF s = r THEN u ELSE run[s]
      /\ Task(w)' = u
  BY <1>1, <1>3, <1>4 DEF TypeOK, Task
<1>6. OneActive' /\ ~NoActiveRun'
  BY <1>1, <1>2, <1>5 DEF Attended, OneActive, NoActiveRun, Active
<1>7. OneExecutes' /\ Leased' /\ Asking'
  BY <1>2, <1>3, <1>5 DEF OneExecutes, Leased, Asking
<1>8. ClosesWell'
  <2>1. Closing(w)' => run[r].kind = "install"
    BY <1>2, <1>3, <1>5 DEF Closing
  <2>2. run[r].kind = "install" => project'.status = "compiled"
    BY <1>1 DEF RunningStatus, TypeOK, ProjectType
  <2> QED BY <1>5, <2>1, <2>2 DEF ClosesWell, Waiting
<1> QED BY <1>6, <1>7, <1>8 DEF Attended

LEMMA BackgroundAttended ==
    ASSUME ~Slow, TypeOK, Assigned, Heeding, Attended, Background
    PROVE  Attended'
<1>0. \A w \in Workers : worker[w].at # "idle" =>
        /\ worker[w].run \in Runs /\ Task(w) = run[worker[w].run]
        /\ Task(w).status = "running" /\ Task(w).fresh
  BY DEF Assigned, Attended, Leased, Task
<1>1. CASE RecoverExpired
  <2>1. UNCHANGED <<project, worker>>
    BY <1>1 DEF RecoverExpired
  <2>2. \A r \in Runs : run'[r] = IF r \in Expired THEN [run[r] EXCEPT !.status = "queued"] ELSE run[r]
    BY <1>1 DEF RecoverExpired
  <2>3. \A r \in Runs : run'[r].status \in Active <=> run[r].status \in Active
    BY <2>2 DEF Expired, Active, TypeOK, RunType
  <2>4. \A w \in Workers : worker[w].at # "idle" => Task(w)' = Task(w)
    BY <1>0, <2>1, <2>2 DEF Expired, Task
  <2> QED BY <2>1, <2>3, <2>4, AsideAttended
<1>2. CASE Crash
  BY <1>2, DiesAttended DEF Crash
<1>3. CASE \E r \in Runs : LeaseExpires(r)
  <2>1. PICK r \in Runs : LeaseExpires(r)
    BY <1>3
  <2>2. UNCHANGED <<project, worker>> /\ run' = [run EXCEPT ![r].fresh = FALSE] /\ ~Executing(r)
    BY <2>1 DEF LeaseExpires
  <2>3. \A s \in Runs : run'[s].status = run[s].status /\ (s # r => run'[s] = run[s])
    BY <2>2 DEF TypeOK, RunType
  <2>4. \A w \in Workers : worker[w].at # "idle" => Task(w)' = Task(w)
    BY <1>0, <2>2, <2>3 DEF Executing, Task
  <2> QED BY <2>2, <2>3, <2>4, AsideAttended
<1>4. CASE \E r \in Runs : ExpireHold(r)
  <2>1. PICK r \in Runs : ExpireHold(r)
    BY <1>4
  <2>2. UNCHANGED <<project, worker>> /\ run' = [run EXCEPT ![r].hold = "expired"]
    BY <2>1 DEF ExpireHold
  <2>3. \A s \in Runs : /\ run'[s].status = run[s].status /\ run'[s].fresh = run[s].fresh
                         /\ run'[s].kind = run[s].kind
    BY <2>2 DEF TypeOK, RunType
  <2>4. \A w \in Workers : worker[w].at # "idle" =>
          /\ Task(w)'.status = Task(w).status /\ Task(w)'.fresh = Task(w).fresh
          /\ Task(w)'.kind = Task(w).kind
    BY <1>0, <2>2, <2>3 DEF Task
  <2> QED BY <2>2, <2>3, <2>4, AsideAttended
<1>5. CASE \E w \in Workers : Work(w)
  BY <1>5, WorkAttended
<1>6. CASE \E w \in Workers, r \in Runs : Claim(w, r)
  BY <1>6, ClaimAttended
<1> QED BY <1>1, <1>2, <1>3, <1>4, <1>5, <1>6 DEF Background

-----------------------------------------------------------------------------
(* The requests of a project that waits.                                   *)

LEMMA EnqueueAttended ==
    ASSUME TypeOK, Assigned, Attended, NoActiveRun, NEW kind, Enqueue(kind), UNCHANGED <<project, worker>>
    PROVE  Attended'
<1>1. PICK r \in Runs : run' = [run EXCEPT ![r] = Queued(kind)]
  BY DEF Enqueue, FreeRun
<1>2. Queued(kind).status = "queued"
  BY DEF Queued, Unqueued
<1>3. \A s \in Runs : run'[s] = IF s = r THEN Queued(kind) ELSE run[s]
  BY <1>1 DEF TypeOK
<1>4. \A w \in Workers : worker[w].at = "idle"
  BY DEF Assigned, Attended, Leased, Task, NoActiveRun, Active
<1>5. OneActive' /\ ~NoActiveRun'
  BY <1>2, <1>3 DEF OneActive, NoActiveRun, Active
<1>6. OneExecutes' /\ Leased' /\ ClosesWell' /\ Asking'
  BY <1>4 DEF OneExecutes, Leased, ClosesWell, Asking
<1> QED BY <1>5, <1>6 DEF Attended

\* A step that writes the project only, and does not make it wait.
LEMMA ProjectAttended ==
    ASSUME Attended, UNCHANGED <<run, worker>>,
           project'.status \in Waiting => project.status \in Waiting
    PROVE  Attended'
<1>1. \A w \in Workers : Task(w)' = Task(w) /\ Stage(w)' = Stage(w)
  BY DEF Task, Stage
<1> QED BY <1>1 DEF Attended, NoActiveRun, OneActive, OneExecutes, Leased, ClosesWell, Closing, Asking

LEMMA AnswersAttended ==
    ASSUME TypeOK, Assigned, Heeding, Attended, SeenIsCurrent, NEW h \in Handlers, Answers(h)
    PROVE  Attended'
<1>0. UNCHANGED worker /\ project \in ProjectType
  BY DEF Answers, Queue, Retry, Cancel, Upload, DecideOutline, Archive, Publish, Refuse, Answer,
         TypeOK
<1>1. CASE Queue(h) \/ Retry(h)
  <2>1. NoActiveRun /\ UNCHANGED project /\ \E kind : Enqueue(kind)
    BY <1>1 DEF Queue, Retry, SeenIsCurrent
  <2> QED BY <1>0, <2>1, EnqueueAttended
<1>2. CASE Cancel(h)
  <2> DEFINE r == pending[h].run
  <2>1. /\ r \in Runs /\ run[r] \in RunType /\ pending[h].op = "cancel"
        /\ run[r].status = pending[h].kind
    BY <1>2 DEF Cancel, Asked, TypeOK, Assigned, Heeding, CancelIsCurrent
  <2>2. CASE pending[h].kind = "queued"
    <3> DEFINE u == [run[r] EXCEPT !.status = "canceled"]
    <3>1. run' = [run EXCEPT ![r] = u] /\ u.status = "canceled" /\ run[r].status = "queued"
      BY <1>2, <2>1, <2>2 DEF Cancel, RunType
    <3> HIDE DEF u
    <3>2. \A s \in Runs : run'[s] = IF s = r THEN u ELSE run[s]
      BY <3>1 DEF TypeOK
    <3>3. project'.status = "canceled"
      <4>1. pending[h].seen = project
        BY <2>1 DEF SeenIsCurrent, NoRequest
      <4>2. Write(h, "status", "canceled") = "canceled"
        BY <4>1 DEF Write, ProjectType
      <4>3. project' = [project EXCEPT !.status = Write(h, "status", "canceled")]
        BY <1>2, <2>2 DEF Cancel
      <4> QED BY <1>0, <4>2, <4>3 DEF ProjectType
    <3>4. \A w \in Workers : worker[w].at = "idle"
      <4> SUFFICES ASSUME NEW w \in Workers, worker[w].at # "idle"
                   PROVE  FALSE
        OBVIOUS
      <4>1. worker[w].run \in Runs /\ run[worker[w].run].status = "running"
        BY DEF Assigned, Attended, Leased, Task
      <4> QED BY <2>1, <3>1, <4>1 DEF Attended, OneActive, Active
    <3>5. OneActive'
      BY <3>1, <3>2 DEF Attended, OneActive, Active
    <3>6. OneExecutes' /\ Leased' /\ ClosesWell' /\ Asking'
      BY <1>0, <3>4 DEF OneExecutes, Leased, ClosesWell, Asking
    <3> QED BY <3>3, <3>5, <3>6 DEF Attended, Waiting
  <2>3. CASE pending[h].kind # "queued"
    <3>1. /\ run' = [run EXCEPT ![r].cancel = TRUE]
          /\ project' = [project EXCEPT !.cancelling = Write(h, "cancelling", TRUE)]
      BY <1>2, <2>3 DEF Cancel
    <3>2. RowsSame
      BY <2>1, <3>1 DEF RowsSame, TypeOK, RunType
    <3>3. project'.status = project.status
      BY <1>0, <3>1 DEF ProjectType
    <3>4. \A w \in Workers : worker[w].at # "idle" =>
            /\ Task(w)'.status = Task(w).status /\ Task(w)'.fresh = Task(w).fresh
            /\ Task(w)'.kind = Task(w).kind
      BY <1>0, <3>2 DEF RowsSame, Task, Assigned
    <3>5. \A w \in Workers : worker[w].at # "idle" =>
            (Stage(w)' = Stage(w) /\ (Closing(w)' <=> Closing(w)))
      BY <1>0, <3>4 DEF Stage, Closing
    <3>6. NoActiveRun' <=> NoActiveRun
      BY <3>2 DEF NoActiveRun, RowsSame
    <3>7. OneActive' /\ OneExecutes' /\ Leased'
      BY <1>0, <3>2, <3>4 DEF Attended, OneActive, OneExecutes, Leased, RowsSame
    <3>8. ClosesWell' /\ Asking'
      BY <1>0, <3>3, <3>5 DEF Attended, ClosesWell, Asking
    <3> QED BY <3>3, <3>6, <3>7, <3>8 DEF Attended
  <2> QED BY <2>2, <2>3
<1>3. CASE Upload(h)
  <2>1. project'.status = Write(h, "status", "idea") /\ UNCHANGED run
    BY <1>0, <1>3 DEF Upload, ProjectType
  <2>2. project'.status \in {project.status, "idea"}
    BY <2>1, WriteKept
  <2> QED BY <1>0, <2>1, <2>2, ProjectAttended DEF Waiting
<1>4. CASE DecideOutline(h) \/ Archive(h) \/ Publish(h) \/ Refuse(h)
  <2>1. project'.status \in {project.status, "idea", "archived"} /\ UNCHANGED run
    BY <1>0, <1>4 DEF DecideOutline, Archive, Publish, Refuse, ProjectType
  <2> QED BY <1>0, <2>1, ProjectAttended DEF Waiting
<1> QED BY <1>1, <1>2, <1>3, <1>4 DEF Answers

LEMMA AttendedStep ==
    ASSUME Atomic, ~Slow, TypeOK, Assigned, Heeding, Attended, SeenIsCurrent, [Next]_vars
    PROVE  Attended' /\ SeenIsCurrent'
<1>0. NoRequest.op = "none"
  BY DEF NoRequest
<1>1. CASE \E h \in Handlers : Answers(h)
  <2>1. PICK h \in Handlers : Answers(h)
    BY <1>1
  <2>2. pending[h] # NoRequest /\ pending' = [pending EXCEPT ![h] = NoRequest]
    BY <1>0, <2>1 DEF Answers, Queue, Retry, Cancel, Upload, DecideOutline, Archive, Publish,
                      Refuse, Answer, Asked
  <2>3. \A g \in Handlers : pending'[g] = NoRequest
    BY <2>2 DEF TypeOK, Heeding, Alone
  <2> QED BY <1>0, <2>1, <2>3, AnswersAttended DEF SeenIsCurrent, Asked
<1>2. CASE Quiet /\ Background
  <2>1. \A g \in Handlers : pending'[g] = NoRequest
    BY <1>2, BackgroundAlone DEF Quiet
  <2> QED BY <1>0, <1>2, <2>1, BackgroundAttended DEF SeenIsCurrent, Asked
<1>3. CASE Quiet /\ \E h \in Handlers : Requests(h)
  <2>1. PICK h \in Handlers : Requests(h)
    BY <1>3
  <2>2. PICK op, r, kind : Ask(h, op, r, kind) /\ (op = "retry" => NoActiveRun)
    BY <2>1 DEF Requests, AskQueue, AskRetry, AskCancel, AskUpload, AskDecideOutline, AskArchive,
                AskPublish
  <2> DEFINE new == [op |-> op, run |-> r, kind |-> kind, seen |-> project]
  <2>3. /\ new.op = op /\ new.seen = project /\ UNCHANGED <<project, run, worker>>
        /\ pending' = [pending EXCEPT ![h] = new]
    BY <2>2 DEF Ask
  <2> HIDE DEF new
  <2>4. \A g \in Handlers : pending'[g] = IF g = h THEN new ELSE NoRequest
    BY <1>3, <2>3 DEF Quiet, TypeOK
  <2>5. SeenIsCurrent'
    BY <1>0, <2>2, <2>3, <2>4 DEF SeenIsCurrent, Asked, NoActiveRun
  <2> QED BY <2>3, <2>5, ProjectAttended
<1>4. CASE UNCHANGED vars
  BY <1>4, ProjectAttended DEF vars, SeenIsCurrent, Asked, NoActiveRun
<1> QED BY <1>1, <1>2, <1>3, <1>4 DEF Next

LEMMA AttendedInit ==
    ASSUME Init
    PROVE  Attended /\ SeenIsCurrent
<1>1. Unqueued.status = "none" /\ Idle.at = "idle" /\ NoRequest.op = "none"
  BY DEF Unqueued, Idle, NoRequest
<1>2. project.status \notin Waiting
  BY DEF Init, Situations, Situation, Waiting
<1> QED BY <1>1, <1>2 DEF Init, Attended, SeenIsCurrent, Asked, OneActive, OneExecutes, Leased,
                       ClosesWell, Asking, Active

\* A project waits for a run only while one is active, whatever crashes and is recovered,
\* as long as requests do not overlap with anything and no run outlasts its lease.
THEOREM NeverStranded == Atomic /\ ~Slow => (Spec => []NotStranded)
<1>1. Init => Heeding /\ Attended /\ SeenIsCurrent
  BY HeedingInit, AttendedInit
<1>2. Attended => NotStranded
  BY DEF Attended, NotStranded, Waiting
<1>3. ASSUME Atomic, ~Slow
      PROVE  Spec => []NotStranded
  <2>1. TypeOK /\ Assigned /\ Heeding /\ Attended /\ SeenIsCurrent /\ [Next]_vars
          => (Heeding /\ Attended /\ SeenIsCurrent)'
    BY <1>3, HeedingStep, AttendedStep
  <2> QED BY <1>1, <2>1, <1>2, TypeCorrect, PTL DEF Spec
<1> QED BY <1>3

-----------------------------------------------------------------------------
(* What the project has used.                                              *)

\* Leases that last, whatever requests overlap: one processor executes a run, which is
\* not queued meanwhile; who asks the Agent has no decision, nor has a run before it exists.
ExecutesAlone ==
    \A v, w \in Workers :
        worker[v].at # "idle" /\ worker[w].at # "idle" /\ worker[v].run = worker[w].run => v = w
Held ==
    \A w \in Workers : worker[w].at # "idle" =>
        /\ Task(w).status \in {"running", "canceled"}
        /\ Task(w).status = "running" => Task(w).fresh
Undecided ==
    /\ \A w \in Workers : worker[w].at = "asking" => Task(w).decision = "none"
    /\ \A r \in Runs : run[r].status = "none" => run[r].decision = "none"
Alternating == ExecutesAlone /\ Held /\ Undecided

\* What the runs S of the rows l used: a sum of the values of a function.
ConsumedBy(l, S) == (CHOOSE it : it = [s \in SUBSET S |->
    IF s = {} THEN 0 ELSE l[CHOOSE x \in s : TRUE].consumed + it[s \ {CHOOSE x \in s : TRUE}]])[S]
DecidedRuns(l) == {r \in Runs : l[r].decision # "none"}

LEMMA ConsumedIs ==
    ASSUME NEW l, NEW S, IsFiniteSet(S)
    PROVE  ConsumedBy(l, S) = Total([r \in S |-> l[r].consumed], S)
<1> DEFINE f == [r \in S |-> l[r].consumed]
           Sol(it) == it = [s \in SUBSET S |-> IF s = {} THEN 0
               ELSE l[CHOOSE x \in s : TRUE].consumed + it[s \ {CHOOSE x \in s : TRUE}]]
<1>1. ASSUME NEW it PROVE Sol(it) <=> Solves(it, f, S)
  <2>1. \A s \in SUBSET S : s # {} => f[CHOOSE x \in s : TRUE] = l[CHOOSE x \in s : TRUE].consumed
    OBVIOUS
  <2> HIDE DEF f
  <2> QED BY <2>1 DEF Solves
<1> HIDE DEF f, Sol
<1>2. \E it : Sol(it)
  <2>1. PICK it : Solves(it, f, S)
    BY SumExists
  <2> QED BY <1>1, <2>1
<1>3. Sol(CHOOSE it : Sol(it))
  BY <1>2
<1>4. Solves(CHOOSE it : Sol(it), f, S)
  BY <1>1, <1>3
<1>5. ConsumedBy(l, S) = (CHOOSE it : Sol(it))[S]
  BY DEF ConsumedBy, Sol
<1> QED BY <1>4, <1>5, SolutionIsTotal DEF f

LEMMA UsedIs ==
    /\ UsedIsDecided <=> project.used = ConsumedBy(run, DecidedRuns(run))
    /\ UsedIsDecided' <=> project'.used = ConsumedBy(run', DecidedRuns(run'))
<1>1. UsedIsDecided <=> project.used = ConsumedBy(run, DecidedRuns(run))
  BY DEF UsedIsDecided, ConsumedBy, DecidedRuns, MapThenSumSet, MapThenFoldSet
<1>2. UsedIsDecided' <=> project'.used = ConsumedBy(run', DecidedRuns(run'))
  BY DEF UsedIsDecided, ConsumedBy, DecidedRuns, MapThenSumSet, MapThenFoldSet
<1> QED BY <1>1, <1>2

LEMMA RunsFinite ==
    ASSUME NEW l
    PROVE  IsFiniteSet(DecidedRuns(l)) /\ DecidedRuns(l) \subseteq Runs
<1>1. IsFiniteSet(1..MaxRuns)
  BY StudioAssumption, FS_Interval
<1>2. DecidedRuns(l) \subseteq 1..MaxRuns
  BY DEF DecidedRuns, Runs
<1> QED BY <1>1, <1>2, FS_Subset DEF Runs

\* A step that decides nothing.
LEMMA NothingDecided ==
    ASSUME UsedIsDecided, project'.used = project.used,
           \A r \in Runs : /\ run'[r].decision # "none" <=> run[r].decision # "none"
                           /\ run[r].decision # "none" => run'[r].consumed = run[r].consumed
    PROVE  UsedIsDecided'
<1> DEFINE S == DecidedRuns(run)
           f == [r \in S |-> run[r].consumed]
           g == [r \in S |-> run'[r].consumed]
<1>1. DecidedRuns(run') = S
  BY DEF DecidedRuns
<1>2. IsFiniteSet(S) /\ \A r \in S : run'[r].consumed = run[r].consumed
  BY RunsFinite DEF DecidedRuns
<1>3. ConsumedBy(run, S) = Total(f, S)
  BY <1>2, ConsumedIs
<1>4. ASSUME NEW l, l = run' PROVE ConsumedBy(l, S) = Total([r \in S |-> l[r].consumed], S)
  <2> HIDE DEF S
  <2> QED BY <1>2, ConsumedIs
<1>5. ConsumedBy(run', S) = Total(g, S)
  BY <1>4
<1>6. \A r \in S : f[r] = g[r]
  BY <1>2
<1> HIDE DEF S, f, g
<1>7. Total(f, S) = Total(g, S)
  BY <1>2, <1>6, SumOfEqual
<1> QED BY <1>1, <1>3, <1>5, <1>7, UsedIs DEF S

\* A decision is saved, with what it used.
LEMMA OneDecided ==
    ASSUME UsedIsDecided, NEW d \in Runs, run[d].decision = "none", run'[d].decision # "none",
           \A r \in Runs : run[r].consumed \in Int /\ run'[r].consumed \in Int,
           \A r \in Runs \ {d} : run'[r] = run[r],
           project'.used = project.used + run'[d].consumed
    PROVE  UsedIsDecided'
<1> DEFINE R == DecidedRuns(run)
           S == R \cup {d}
           f == [r \in R |-> run[r].consumed]
           g == [r \in S |-> run'[r].consumed]
<1>1. DecidedRuns(run') = S /\ d \notin R
  BY DEF DecidedRuns
<1>2. IsFiniteSet(R) /\ R \subseteq Runs
  BY RunsFinite
<1>3. ConsumedBy(run, R) = Total(f, R)
  BY <1>2, ConsumedIs
<1> HIDE DEF R
<1>4. IsFiniteSet(S)
  BY <1>2, FS_AddElement
<1>5. ASSUME NEW l, l = run' PROVE ConsumedBy(l, S) = Total([r \in S |-> l[r].consumed], S)
  <2> HIDE DEF S
  <2> QED BY <1>4, ConsumedIs
<1>6. ConsumedBy(run', S) = Total(g, S)
  BY <1>5
<1>7. /\ \A r \in S : g[r] \in Int
      /\ \A r \in R : g[r] = f[r] /\ f[r] \in Int
      /\ g[d] = run'[d].consumed /\ d \in S /\ S \ {d} = R
  BY <1>1, <1>2
<1> HIDE DEF S, f, g
<1>8. Total(g, S) = g[d] + Total(g, S \ {d})
  BY <1>4, <1>7, SumWithout
<1>9. Total(g, R) = Total(f, R)
  BY <1>2, <1>7, SumOfEqual
<1>10. Total(f, R) \in Int /\ g[d] \in Int
  BY <1>2, <1>7, SumIsInt
<1>11. project.used = Total(f, R)
  BY <1>3, UsedIs DEF R
<1>12. project'.used = Total(g, S)
  <2>1. Total(g, S) = g[d] + Total(f, R)
    BY <1>7, <1>8, <1>9
  <2>2. project'.used = Total(f, R) + g[d]
    BY <1>7, <1>11
  <2> QED BY <1>10, <2>1, <2>2
<1> QED BY <1>1, <1>6, <1>12, UsedIs

-----------------------------------------------------------------------------
(* One processor at a run.                                                 *)

\* A processor writes its run, and goes on with it or stops.
LEMMA WriterAlternates ==
    ASSUME TypeOK, Assigned, Alternating, NEW w \in Workers, worker[w].at # "idle",
           NEW u, run' = [run EXCEPT ![worker[w].run] = u], u.status # "none",
           NEW new, worker' = [worker EXCEPT ![w] = new],
           \/ new.at = "idle"
           \/ /\ new.run = worker[w].run
              /\ u.status = Task(w).status /\ u.fresh = Task(w).fresh
              /\ new.at = "asking" => u.decision = "none"
    PROVE  Alternating'
<1> DEFINE r == worker[w].run
<1>1. r \in Runs /\ Task(w) = run[r]
  BY DEF Assigned, Task
<1>2. /\ worker'[w] = new /\ \A v \in Workers : v # w => worker'[v] = worker[v]
      /\ run'[r] = u /\ \A s \in Runs : s # r => run'[s] = run[s]
  BY <1>1 DEF TypeOK
<1>3. \A v \in Workers : v # w /\ worker[v].at # "idle" =>
        worker[v].run \in Runs /\ worker[v].run # r /\ Task(v)' = Task(v)
  BY <1>2 DEF Alternating, ExecutesAlone, Assigned, Task
<1>4. new.at # "idle" => Task(w)' = u
  BY <1>2 DEF Task
<1>5. ExecutesAlone'
  BY <1>2, <1>3 DEF Alternating, ExecutesAlone
<1>6. Held'
  BY <1>2, <1>3, <1>4 DEF Alternating, Held
<1>7. Undecided'
  BY <1>2, <1>3, <1>4 DEF Alternating, Undecided
<1> QED BY <1>5, <1>6, <1>7 DEF Alternating

AtWork(r) == \E w \in Workers : worker[w].at # "idle" /\ worker[w].run = r

\* A step of no processor, that leaves what is executed as it is, or cancels it.
LEMMA AsideAlternates ==
    ASSUME TypeOK, Assigned, Alternating, UNCHANGED worker,
           \A r \in Runs :
              /\ run'[r].decision = run[r].decision /\ (run'[r].status = "none" => run[r].status = "none")
              /\ AtWork(r) => /\ run'[r].status \in {run[r].status, "canceled"}
                              /\ run'[r].fresh = run[r].fresh
    PROVE  Alternating'
<1>1. ASSUME NEW w \in Workers, worker[w].at # "idle"
      PROVE  /\ worker[w].run \in Runs /\ Task(w) = run[worker[w].run] /\ Task(w)' = run'[worker[w].run]
             /\ AtWork(worker[w].run)
  BY <1>1 DEF Assigned, Task, AtWork
<1>2. ExecutesAlone'
  BY DEF Alternating, ExecutesAlone
<1>3. Held'
  BY <1>1 DEF Alternating, Held
<1>4. Undecided'
  BY <1>1 DEF Alternating, Undecided
<1> QED BY <1>2, <1>3, <1>4 DEF Alternating

LEMMA DiesAlternates ==
    ASSUME Alternating, Dies
    PROVE  Alternating'
<1>1. \A w \in Workers : worker'[w].at = "idle"
  BY DEF Dies, Idle
<1> QED BY <1>1 DEF Dies, Alternating, ExecutesAlone, Held, Undecided

\* The ways to go on.
LEMMA MovesAlternate ==
    ASSUME TypeOK, Assigned, Alternating, NEW w \in Workers, worker[w].at # "idle",
           NEW u, run' = [run EXCEPT ![worker[w].run] = u],
           u.status = Task(w).status, u.fresh = Task(w).fresh,
           \/ \E read : Advance(w, read) \/ Await(w, read)
           \/ \E tokens : worker' = [worker EXCEPT ![w].at = "failing", ![w].read = 0, ![w].tokens = tokens]
           \/ u.decision = "none" /\ Move(w, [worker[w] EXCEPT !.at = "asking"])
    PROVE  Alternating'
<1>1. worker[w] \in WorkerType /\ u.status # "none"
  BY DEF TypeOK, Alternating, Held
<1>2. \E new : /\ worker' = [worker EXCEPT ![w] = new] /\ new.run = worker[w].run
               /\ new.at = "asking" => u.decision = "none"
  <2>1. ASSUME NEW read, Advance(w, read)
        PROVE  \E new : /\ worker' = [worker EXCEPT ![w] = new] /\ new.run = worker[w].run
                        /\ new.at = "asking" => u.decision = "none"
    <3> DEFINE new == [worker[w] EXCEPT !.at = "working", !.step = @ + 1, !.read = read]
    <3>1. new.at = "working" /\ new.run = worker[w].run
      BY <1>1 DEF WorkerType
    <3>2. worker' = [worker EXCEPT ![w] = new]
      BY <2>1 DEF Advance, Move
    <3> HIDE DEF new
    <3> QED BY <3>1, <3>2
  <2>2. ASSUME NEW read, Await(w, read)
        PROVE  \E new : /\ worker' = [worker EXCEPT ![w] = new] /\ new.run = worker[w].run
                        /\ new.at = "asking" => u.decision = "none"
    <3> DEFINE new == [worker[w] EXCEPT !.at = "awaiting", !.read = read]
    <3>1. new.at = "awaiting" /\ new.run = worker[w].run
      BY <1>1 DEF WorkerType
    <3>2. worker' = [worker EXCEPT ![w] = new]
      BY <2>2 DEF Await, Move
    <3> HIDE DEF new
    <3> QED BY <3>1, <3>2
  <2>3. ASSUME NEW tokens,
               worker' = [worker EXCEPT ![w].at = "failing", ![w].read = 0, ![w].tokens = tokens]
        PROVE  \E new : /\ worker' = [worker EXCEPT ![w] = new] /\ new.run = worker[w].run
                        /\ new.at = "asking" => u.decision = "none"
    <3> DEFINE new == [worker[w] EXCEPT !.at = "failing", !.read = 0, !.tokens = tokens]
    <3>1. new.at = "failing" /\ new.run = worker[w].run
      BY <1>1 DEF WorkerType
    <3>2. worker' = [worker EXCEPT ![w] = new]
      BY <2>3 DEF TypeOK
    <3> HIDE DEF new
    <3> QED BY <3>1, <3>2
  <2>4. ASSUME u.decision = "none", Move(w, [worker[w] EXCEPT !.at = "asking"])
        PROVE  \E new : /\ worker' = [worker EXCEPT ![w] = new] /\ new.run = worker[w].run
                        /\ new.at = "asking" => u.decision = "none"
    <3> DEFINE new == [worker[w] EXCEPT !.at = "asking"]
    <3>1. new.run = worker[w].run
      BY <1>1 DEF WorkerType
    <3>2. worker' = [worker EXCEPT ![w] = new]
      BY <2>4 DEF Move
    <3> HIDE DEF new
    <3> QED BY <2>4, <3>1, <3>2
  <2> QED BY <2>1, <2>2, <2>3, <2>4
<1> QED BY <1>1, <1>2, WriterAlternates

\* A raise is a failure without tokens; obeying a decision is going on or giving up.
LEMMA RaisesFail ==
    ASSUME TypeOK, NEW w \in Workers, NEW tokens, Raise(w, tokens)
    PROVE  worker' = [worker EXCEPT ![w].at = "failing", ![w].read = 0, ![w].tokens = tokens]
  BY DEF Raise, Move, TypeOK

-----------------------------------------------------------------------------
(* The steps.                                                              *)
Booked == Alternating /\ UsedIsDecided

\* The run of a processor that is not idle.
LEMMA TaskFacts ==
    ASSUME TypeOK, Assigned, Alternating, NEW w \in Workers, worker[w].at # "idle"
    PROVE  /\ worker[w].run \in Runs /\ worker[w] \in WorkerType
           /\ Task(w) = run[worker[w].run] /\ Task(w) \in RunType /\ Task(w).kind \in Kinds
           /\ Task(w).status # "none" /\ run = [run EXCEPT ![worker[w].run] = Task(w)]
  BY DEF TypeOK, Assigned, Alternating, Held, Task

\* A processor that writes no row, or one without its decision and what it used.
LEMMA WriterBooks ==
    ASSUME TypeOK, UsedIsDecided, project'.used = project.used,
           NEW r \in Runs, NEW u, run' = [run EXCEPT ![r] = u],
           u.decision = run[r].decision, u.decision # "none" => u.consumed = run[r].consumed
    PROVE  UsedIsDecided'
<1>1. \A s \in Runs : run'[s] = IF s = r THEN u ELSE run[s]
  BY DEF TypeOK
<1> QED BY <1>1, NothingDecided

LEMMA SameBooks ==
    ASSUME UsedIsDecided, UNCHANGED run, project'.used = project.used
    PROVE  UsedIsDecided'
  BY NothingDecided

LEMMA StagesBook ==
    ASSUME TypeOK, Assigned, Booked, NEW w \in Workers,
           \/ Fails(w) \/ StartSkipped(w) \/ Start(w) \/ Started(w) \/ Evidence(w) \/ Store(w) \/ Stored(w)
           \/ PackageSkipped(w) \/ Package(w) \/ Packaged(w)
           \/ Version(w) \/ Check(w) \/ Compile(w) \/ Import(w) \/ Finish(w)
    PROVE  Booked'
<1>0. UNCHANGED run /\ project \in ProjectType /\ worker[w].at # "idle"
  BY DEF Fails, StartSkipped, Start, Started, Evidence, Store, Stored, PackageSkipped, Package,
         Packaged, Version, Check, Compile, Import, Finish, Same, At, Awaits, TypeOK
<1>1. run' = [run EXCEPT ![worker[w].run] = Task(w)]
  BY <1>0, TaskFacts DEF Booked
<1>2. CASE Fails(w)
  <2>1. Raise(w, Unrecorded) /\ UNCHANGED project
    BY <1>2 DEF Fails, Same
  <2>2. UsedIsDecided'
    BY <1>0, <2>1, SameBooks DEF Booked
  <2> QED BY <1>0, <1>1, <2>1, <2>2, RaisesFail, MovesAlternate DEF Booked
<1>3. CASE \/ StartSkipped(w) \/ Start(w) \/ Started(w) \/ Evidence(w) \/ Store(w) \/ Stored(w)
           \/ PackageSkipped(w) \/ Package(w) \/ Packaged(w)
           \/ Version(w) \/ Check(w) \/ Compile(w) \/ Import(w) \/ Finish(w)
  <2>1. \E read : Advance(w, read) \/ Await(w, read)
    BY <1>3 DEF StartSkipped, Start, Started, Evidence, Store, Stored, PackageSkipped, Package,
                Packaged, Version, Check, Compile, Import, Finish
  <2>2. project'.used = project.used
    BY <1>0, <1>3 DEF StartSkipped, Start, Started, Evidence, Store, Stored, PackageSkipped, Package,
                Packaged, Version, Check, Compile, Import, Finish, Same, Finished, ProjectType
  <2>3. UsedIsDecided'
    BY <1>0, <2>2, SameBooks DEF Booked
  <2> QED BY <1>0, <1>1, <2>1, <2>3, MovesAlternate DEF Booked
<1> QED BY <1>2, <1>3

\* A processor stops, with its run canceled, ended or queued again.
LEMMA StopsBook ==
    ASSUME TypeOK, Assigned, Booked, NEW w \in Workers, worker[w].at # "idle", Move(w, Idle),
           NEW u, run' = [run EXCEPT ![worker[w].run] = u], u.status # "none",
           u.decision = Task(w).decision, u.decision # "none" => u.consumed = Task(w).consumed,
           project'.used = project.used
    PROVE  Booked'
<1>1. Idle.at = "idle" /\ worker' = [worker EXCEPT ![w] = Idle]
  BY DEF Idle, Move
<1>2. Alternating'
  BY <1>1, WriterAlternates DEF Booked
<1>3. UsedIsDecided'
  BY TaskFacts, WriterBooks DEF Booked
<1> QED BY <1>2, <1>3 DEF Booked

LEMMA BeginBooks ==
    ASSUME TypeOK, Assigned, Booked, NEW w \in Workers, Begin(w)
    PROVE  Booked'
<1>0. worker[w].at = "claimed" /\ project \in ProjectType
  BY DEF Begin, TypeOK
<1>1. CASE ~Task(w).cancel
  <2>1. Advance(w, 0) /\ UNCHANGED <<project, run>>
    BY <1>1 DEF Begin, Same
  <2>2. run' = [run EXCEPT ![worker[w].run] = Task(w)]
    BY <1>0, <2>1, TaskFacts DEF Booked
  <2>3. UsedIsDecided'
    BY <2>1, SameBooks DEF Booked
  <2> QED BY <1>0, <2>1, <2>2, <2>3, MovesAlternate DEF Booked
<1>2. CASE Task(w).cancel
  <2> DEFINE u == Canceled(Task(w))
  <2>1. run' = [run EXCEPT ![worker[w].run] = u] /\ Move(w, Idle) /\ project' = CanceledProject
    BY <1>2 DEF Begin, Task
  <2>2. u.status = "canceled" /\ u.decision = Task(w).decision /\ u.consumed = Task(w).consumed
    BY <1>0, TaskFacts DEF Canceled, RunType, Booked
  <2>3. project'.used = project.used
    BY <1>0, <2>1 DEF CanceledProject, ProjectType
  <2> HIDE DEF u
  <2> QED BY <1>0, <2>1, <2>2, <2>3, StopsBook
<1> QED BY <1>1, <1>2

LEMMA CompleteBooks ==
    ASSUME TypeOK, Assigned, Booked, NEW w \in Workers, Complete(w)
    PROVE  Booked'
<1> DEFINE r == worker[w].run
           u == [run[r] EXCEPT !.status = "succeeded", !.fresh = FALSE]
<1>1. worker[w].at # "idle" /\ Move(w, Idle) /\ UNCHANGED project /\ run' = [run EXCEPT ![r] = u]
  BY DEF Complete, At
<1>2. u.status = "succeeded" /\ u.decision = Task(w).decision /\ u.consumed = Task(w).consumed
  BY <1>1, TaskFacts DEF RunType, Booked
<1> HIDE DEF u
<1> QED BY <1>1, <1>2, StopsBook

LEMMA ObeyAlternates ==
    ASSUME TypeOK, Assigned, Alternating, NEW w \in Workers, worker[w].at # "idle",
           NEW u, run' = [run EXCEPT ![worker[w].run] = u],
           u.status = Task(w).status, u.fresh = Task(w).fresh, NEW d, Obey(w, d)
    PROVE  Alternating'
<1>1. Advance(w, worker[w].read) \/ Raise(w, Unrecorded)
  BY DEF Obey
<1> QED BY <1>1, RaisesFail, MovesAlternate

LEMMA AskingBooks ==
    ASSUME TypeOK, Assigned, Booked, NEW w \in Workers,
           Recall(w) \/ AskAgent(w) \/ \E tokens \in Tokens : FailsHalfway(w, tokens)
    PROVE  Booked'
<1> DEFINE r == worker[w].run
<1>0. worker[w].at # "idle" /\ UNCHANGED project
  BY DEF Recall, AskAgent, FailsHalfway, At, Same
<1>1. CASE Recall(w)
  <2>1. UNCHANGED run /\ \E d : Obey(w, d)
    BY <1>1 DEF Recall, Same
  <2>2. run' = [run EXCEPT ![r] = Task(w)]
    BY <1>0, <2>1, TaskFacts DEF Booked
  <2>3. UsedIsDecided'
    BY <1>0, <2>1, SameBooks DEF Booked
  <2> QED BY <1>0, <2>1, <2>2, <2>3, ObeyAlternates DEF Booked
<1>2. CASE AskAgent(w)
  <2> DEFINE u == [run[r] EXCEPT !.hold = IF @ = "none" THEN "reserved" ELSE @]
  <2>1. /\ run' = [run EXCEPT ![r] = u] /\ Task(w).decision = "none"
        /\ Move(w, [worker[w] EXCEPT !.at = "asking"])
    BY <1>2 DEF AskAgent
  <2>2. /\ r \in Runs /\ u.status = Task(w).status /\ u.fresh = Task(w).fresh
        /\ u.decision = Task(w).decision /\ u.consumed = Task(w).consumed /\ Task(w) = run[r]
    BY <1>0, TaskFacts DEF RunType, Booked
  <2> HIDE DEF u
  <2>3. UsedIsDecided'
    BY <1>0, <2>1, <2>2, WriterBooks DEF Booked
  <2> QED BY <1>0, <2>1, <2>2, <2>3, MovesAlternate DEF Booked
<1>3. CASE \E tokens \in Tokens : FailsHalfway(w, tokens)
  <2>1. /\ UNCHANGED run
        /\ \E tokens : worker' = [worker EXCEPT ![w].at = "failing", ![w].read = 0, ![w].tokens = tokens]
    BY <1>3 DEF FailsHalfway
  <2>2. run' = [run EXCEPT ![r] = Task(w)]
    BY <1>0, <2>1, TaskFacts DEF Booked
  <2>3. UsedIsDecided'
    BY <1>0, <2>1, SameBooks DEF Booked
  <2> QED BY <1>0, <2>1, <2>2, <2>3, MovesAlternate DEF Booked
<1> QED BY <1>1, <1>2, <1>3

\* The decision is new, for nobody else executes the run.
LEMMA SavingBooks ==
    ASSUME TypeOK, Assigned, Booked, NEW w \in Workers, NEW d \in Verdict, NEW tokens \in Tokens,
           SaveDecision(w, d, tokens)
    PROVE  Booked'
<1> DEFINE r == worker[w].run
           v == Recorded(run[r], tokens)
           u == [v EXCEPT !.decision = d, !.evidence = worker[w].read]
<1>1. /\ worker[w].at = "asking" /\ Obey(w, d) /\ run' = [run EXCEPT ![r] = u]
      /\ project' = [project EXCEPT !.used = @ + tokens]
  BY DEF SaveDecision, Spent
<1>2. r \in Runs /\ run[r] \in RunType /\ Task(w) = run[r]
  BY <1>1, TaskFacts DEF Booked
<1>3. run[r].decision = "none"
  BY <1>1, <1>2 DEF Booked, Alternating, Undecided
<1>4. /\ u.status = run[r].status /\ u.fresh = run[r].fresh /\ u.consumed = tokens /\ u.decision = d
  BY <1>2 DEF Recorded, RunType
<1> HIDE DEF u, v
<1>5. Alternating'
  BY <1>1, <1>2, <1>4, ObeyAlternates DEF Booked
<1>6. tokens \in Int /\ \A s \in Runs : run[s].consumed \in Int
  BY StudioAssumption DEF TypeOK, RunType, Unrecorded
<1>7. \A s \in Runs : run'[s] = IF s = r THEN u ELSE run[s]
  BY <1>1 DEF TypeOK
<1>8. project'.used = project.used + tokens
  BY <1>1 DEF TypeOK, ProjectType
<1>9. UsedIsDecided'
  BY <1>2, <1>3, <1>4, <1>6, <1>7, <1>8, OneDecided DEF Booked, Verdict
<1> QED BY <1>5, <1>9 DEF Booked

\* What a failed call used is recorded anew only for a run without a decision.
LEMMA FailBooks ==
    ASSUME TypeOK, Assigned, MoneyAgrees, Booked, NEW w \in Workers, Fail(w)
    PROVE  Booked'
<1> DEFINE r == worker[w].run
           t == run[r]
           s == Settled(t, worker[w].tokens)
           u == Failed(s)
<1>1. worker[w].at # "idle" /\ Move(w, Idle) /\ run' = [run EXCEPT ![r] = u] /\ MayFail(w)
  BY DEF Fail, Task
<1>2. /\ r \in Runs /\ t \in RunType /\ t.kind \in Kinds /\ Task(w) = t
      /\ worker[w].tokens \in Nat \cup {Unrecorded} /\ PaidFor(t)
  BY <1>1, TaskFacts DEF WorkerType, Booked, MoneyAgrees
<1>3. s \in RunType /\ s.decision = t.decision /\ (t.decision # "none" => s.consumed = t.consumed)
  <2>1. CASE worker[w].tokens = Unrecorded
    BY <1>2, <2>1 DEF Settled
  <2>2. CASE worker[w].tokens # Unrecorded
    <3> DEFINE k == worker[w].tokens
    <3>1. k \in Nat /\ s = Recorded(t, k)
      BY <1>2, <2>2 DEF Settled
    <3>2. s \in RunType
      BY <1>2, <3>1, RecordedKept
    <3>3. s.decision = t.decision /\ s.consumed = k
      BY <1>2, <3>1 DEF Recorded, RunType
    <3>4. t.decision # "none" => t.consumed # Unrecorded
      BY <1>2 DEF PaidFor
    <3>5. t.consumed \in {Unrecorded, k}
      BY <1>1, <1>2, <2>2 DEF MayFail, MayRecord
    <3> QED BY <3>2, <3>3, <3>4, <3>5
  <2> QED BY <2>1, <2>2
<1>4. project'.used = project.used
  BY DEF Fail, CanceledProject, TypeOK, ProjectType
<1> HIDE DEF s, t
<1>5. u.status # "none" /\ u.decision = s.decision /\ u.consumed = s.consumed
  BY <1>3, ZenonT(30) DEF Failed, Canceled, RunType
<1> HIDE DEF u
<1> QED BY <1>1, <1>2, <1>3, <1>4, <1>5, StopsBook

LEMMA WorkBooks ==
    ASSUME TypeOK, Assigned, MoneyAgrees, Booked, NEW w \in Workers, Work(w)
    PROVE  Booked'
<1>1. CASE FailRaises(w)
  <2>1. Dies /\ UNCHANGED <<project, run>>
    BY <1>1 DEF FailRaises, Dies
  <2> QED BY <2>1, DiesAlternates, SameBooks DEF Booked
<1> QED BY <1>1, StagesBook, BeginBooks, CompleteBooks, AskingBooks, SavingBooks, FailBooks DEF Work

LEMMA AsideBooks ==
    ASSUME TypeOK, Assigned, Booked, UNCHANGED worker, project'.used = project.used,
           \A r \in Runs :
              /\ run'[r].decision = run[r].decision /\ (run'[r].status = "none" => run[r].status = "none")
              /\ run[r].decision # "none" => run'[r].consumed = run[r].consumed
              /\ AtWork(r) => /\ run'[r].status \in {run[r].status, "canceled"}
                              /\ run'[r].fresh = run[r].fresh
    PROVE  Booked'
<1>1. Alternating'
  BY AsideAlternates DEF Booked
<1>2. UsedIsDecided'
  BY NothingDecided DEF Booked
<1> QED BY <1>1, <1>2 DEF Booked

LEMMA ClaimBooks ==
    ASSUME TypeOK, Assigned, Booked, NEW w \in Workers, NEW r \in Runs, Claim(w, r)
    PROVE  Booked'
<1> DEFINE u == [run[r] EXCEPT !.status = "running", !.fresh = TRUE,
                               !.attempt = IF @ < MaxAttempts THEN @ + 1 ELSE @]
           new == [Idle EXCEPT !.at = "claimed", !.run = r]
<1>1. /\ run' = [run EXCEPT ![r] = u] /\ run[r].status = "queued" /\ run[r] \in RunType
      /\ worker' = [worker EXCEPT ![w] = new] /\ worker[w].at = "idle"
      /\ project' = [project EXCEPT !.status = RunningStatus[run[r].kind]]
  BY DEF Claim, TypeOK
<1>2. u.status = "running" /\ u.fresh /\ u.decision = run[r].decision /\ u.consumed = run[r].consumed
  BY <1>1 DEF RunType
<1>3. new.at = "claimed" /\ new.run = r
  BY DEF Idle
<1>4. project'.used = project.used
  BY <1>1 DEF TypeOK, ProjectType
<1> HIDE DEF u, new
<1>5. /\ worker'[w] = new /\ \A v \in Workers : v # w => worker'[v] = worker[v]
      /\ run'[r] = u /\ \A s \in Runs : s # r => run'[s] = run[s]
  BY <1>1 DEF TypeOK
<1>6. \A v \in Workers : worker[v].at # "idle" =>
        worker[v].run \in Runs /\ worker[v].run # r /\ Task(v) = run[worker[v].run]
  BY <1>1 DEF Booked, Alternating, Held, Assigned, Task
<1>7. \A v \in Workers : v # w /\ worker'[v].at # "idle" => Task(v)' = Task(v)
  BY <1>5, <1>6 DEF Task
<1>8. Task(w)' = u
  BY <1>3, <1>5 DEF Task
<1>9. ExecutesAlone'
  BY <1>3, <1>5, <1>6 DEF Booked, Alternating, ExecutesAlone
<1>10. Held'
  BY <1>2, <1>5, <1>7, <1>8 DEF Booked, Alternating, Held
<1>11. Undecided'
  BY <1>1, <1>2, <1>3, <1>5, <1>7 DEF Booked, Alternating, Undecided
<1>12. UsedIsDecided'
  BY <1>1, <1>2, <1>4, WriterBooks DEF Booked
<1> QED BY <1>9, <1>10, <1>11, <1>12 DEF Booked, Alternating

LEMMA BackgroundBooks ==
    ASSUME ~Slow, TypeOK, Assigned, MoneyAgrees, Booked, Background
    PROVE  Booked'
<1>0. \A r \in Runs : run[r] \in RunType
  BY DEF TypeOK
<1>1. \A r \in Runs : AtWork(r) =>
         run[r].status \in {"running", "canceled"} /\ (run[r].status = "running" => run[r].fresh)
  BY DEF Booked, Alternating, Held, Task, AtWork
<1>2. CASE RecoverExpired
  <2>1. UNCHANGED <<project, worker>>
    BY <1>2 DEF RecoverExpired
  <2>2. ASSUME NEW r \in Runs
        PROVE  /\ run'[r].decision = run[r].decision /\ (run'[r].status = "none" => run[r].status = "none")
               /\ run'[r].consumed = run[r].consumed
               /\ AtWork(r) => run'[r] = run[r]
    <3>1. run'[r] = IF r \in Expired THEN [run[r] EXCEPT !.status = "queued"] ELSE run[r]
      BY <1>2 DEF RecoverExpired
    <3>2. AtWork(r) => r \notin Expired
      BY <1>1 DEF Expired
    <3> QED BY <1>0, <3>1, <3>2 DEF RunType
  <2> QED BY <2>1, <2>2, AsideBooks
<1>3. CASE Crash
  <2>1. Dies /\ UNCHANGED <<project, run>>
    BY <1>3 DEF Crash, Dies
  <2> QED BY <2>1, DiesAlternates, SameBooks DEF Booked
<1>4. ASSUME NEW r \in Runs, LeaseExpires(r)
      PROVE  Booked'
  <2>1. /\ UNCHANGED <<project, worker>> /\ run' = [run EXCEPT ![r].fresh = FALSE] /\ ~AtWork(r)
        /\ run[r].status = "running"
    BY <1>4 DEF LeaseExpires, Executing, AtWork
  <2>2. \A s \in Runs : /\ run'[s].decision = run[s].decision /\ run'[s].status = run[s].status
                        /\ run'[s].consumed = run[s].consumed /\ (s # r => run'[s] = run[s])
    BY <1>0, <2>1 DEF TypeOK, RunType
  <2> QED BY <2>1, <2>2, AsideBooks
<1>5. ASSUME NEW r \in Runs, ExpireHold(r)
      PROVE  Booked'
  <2>1. UNCHANGED <<project, worker>> /\ run' = [run EXCEPT ![r].hold = "expired"]
    BY <1>5 DEF ExpireHold
  <2>2. \A s \in Runs : /\ run'[s].decision = run[s].decision /\ run'[s].status = run[s].status
                        /\ run'[s].consumed = run[s].consumed /\ run'[s].fresh = run[s].fresh
    BY <1>0, <2>1 DEF TypeOK, RunType
  <2> QED BY <2>1, <2>2, AsideBooks
<1> QED BY <1>2, <1>3, <1>4, <1>5, WorkBooks, ClaimBooks DEF Background

\* Whatever a request does to a row, it neither decides nor revives it.
LEMMA AnswersBook ==
    ASSUME TypeOK, Assigned, Booked, NEW h \in Handlers, Answers(h)
    PROVE  Booked'
<1>0. UNCHANGED worker /\ project \in ProjectType /\ \A r \in Runs : run[r] \in RunType
  BY DEF Answers, Queue, Retry, Cancel, Upload, DecideOutline, Archive, Publish, Refuse, Answer,
         TypeOK
<1>1. CASE Queue(h) \/ Retry(h)
  <2>1. UNCHANGED project /\ \E kind : Enqueue(kind)
    BY <1>1 DEF Queue, Retry
  <2>2. PICK kind : Enqueue(kind)
    BY <2>1
  <2>3. PICK r \in Runs : run[r].status = "none" /\ run' = [run EXCEPT ![r] = Queued(kind)]
    BY <2>2 DEF Enqueue, FreeRun
  <2>4. Queued(kind).status = "queued" /\ Queued(kind).decision = "none"
    BY DEF Queued, Unqueued
  <2>5. run[r].decision = "none" /\ ~AtWork(r)
    BY <2>3 DEF Booked, Alternating, Held, Undecided, Task, AtWork
  <2>6. \A s \in Runs : run'[s] = IF s = r THEN Queued(kind) ELSE run[s]
    BY <2>3 DEF TypeOK
  <2> QED BY <1>0, <2>1, <2>4, <2>5, <2>6, AsideBooks
<1>2. CASE Cancel(h)
  <2> DEFINE r == pending[h].run
  <2>1. r \in Runs
    BY <1>2 DEF Cancel, Assigned
  <2>2. project'.used = project.used
    BY <1>0, <1>2 DEF Cancel, ProjectType
  <2>3. \/ run' = [run EXCEPT ![r].status = "canceled"]
        \/ run' = [run EXCEPT ![r].cancel = TRUE]
    BY <1>2 DEF Cancel
  <2>4. \A s \in Runs : /\ run'[s].decision = run[s].decision /\ run'[s].consumed = run[s].consumed
                        /\ run'[s].status \in {run[s].status, "canceled"} /\ run'[s].fresh = run[s].fresh
    BY <1>0, <2>1, <2>3 DEF TypeOK, RunType
  <2> QED BY <1>0, <2>2, <2>4, AsideBooks
<1>3. CASE Upload(h) \/ DecideOutline(h) \/ Archive(h) \/ Publish(h) \/ Refuse(h)
  <2>1. UNCHANGED run /\ project'.used = project.used
    BY <1>0, <1>3 DEF Upload, DecideOutline, Archive, Publish, Refuse, ProjectType
  <2> QED BY <1>0, <2>1, AsideBooks
<1> QED BY <1>1, <1>2, <1>3 DEF Answers

LEMMA BookedStep ==
    ASSUME ~Slow, TypeOK, Assigned, MoneyAgrees, Booked, [Next]_vars
    PROVE  Booked'
<1>1. CASE \E h \in Handlers : Answers(h)
  BY <1>1, AnswersBook
<1>2. CASE Background
  BY <1>2, BackgroundBooks
<1>3. CASE (\E h \in Handlers : Requests(h)) \/ UNCHANGED vars
  <2>1. UNCHANGED <<project, run, worker>>
    BY <1>3 DEF Requests, AskQueue, AskRetry, AskCancel, AskUpload, AskDecideOutline, AskArchive,
                AskPublish, Ask, vars
  <2> QED BY <2>1, AsideBooks
<1> QED BY <1>1, <1>2, <1>3 DEF Next

LEMMA BookedInit ==
    ASSUME Init
    PROVE  Booked
<1>1. /\ \A w \in Workers : worker[w].at = "idle"
      /\ \A r \in Runs : run[r].decision = "none"
  BY DEF Init, Idle, Unqueued
<1>2. Alternating
  BY <1>1 DEF Alternating, ExecutesAlone, Held, Undecided
<1>3. project.used = 0
  BY DEF Init, Situations, Situation
<1>4. DecidedRuns(run) = {}
  BY <1>1 DEF DecidedRuns
<1>5. ConsumedBy(run, {}) = Total([r \in {} |-> run[r].consumed], {})
  BY FS_EmptySet, ConsumedIs
<1>6. Total([r \in {} |-> run[r].consumed], {}) = 0
  BY FS_EmptySet, SumIs
<1>7. UsedIsDecided
  BY <1>3, <1>4, <1>5, <1>6, UsedIs
<1> QED BY <1>2, <1>7 DEF Booked

\* The project's budget counts every saved decision once, at what its call used, across
\* crashes, recoveries, retries and requests that overlap (`_agent_json`), as long as no run
\* outlasts its lease.
THEOREM UsedOnce == ~Slow => (Spec => []UsedIsDecided)
<1>1. Init => Booked
  BY BookedInit
<1>2. Booked => UsedIsDecided
  BY DEF Booked
<1>3. ASSUME ~Slow
      PROVE  Spec => []UsedIsDecided
  <2>1. TypeOK /\ Assigned /\ MoneyAgrees /\ Booked /\ [Next]_vars => Booked'
    BY <1>3, BookedStep
  <2> QED BY <1>1, <2>1, <1>2, TypeCorrect, MoneyCorrect, PTL DEF Spec
<1> QED BY <1>3

=============================================================================
