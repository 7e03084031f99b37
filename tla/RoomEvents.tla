---------------------------- MODULE RoomEvents -----------------------------
(***************************************************************************)
(* The event log of a campaign room and its way to a browser (api/rooms.py,*)
(* realtime.py, web/room/timeline.js).  Handlers number their events under *)
(* the row lock of the room; the failure record of a turn does so without  *)
(* it.  Each event leaves an outbox row in its own transaction, a          *)
(* dispatcher publishes the rows through Redis, and a stream that is woken,*)
(* or has waited for thirty seconds, reads the log page by page and sends  *)
(* its client what the client may see.  A transaction that holds the lock  *)
(* of the room is one step.                                                *)
(***************************************************************************)
EXTENDS Integers, FiniteSets, FiniteSetsExt

CONSTANTS
    PageSize,          \* events of one page (100)
    MaxEvents,         \* bound: events of the room
    MaxLosses,         \* bound: failures of Redis, the database or a process
    MaxDrops           \* bound: connections that break

ASSUME EventsAssumption ==
    /\ PageSize \in Nat \ {0} /\ MaxEvents \in Nat
    /\ MaxLosses \in Nat /\ MaxDrops \in Nat

VARIABLES
    log,          \* committed events of the room
    next,         \* `next_event_sequence`
    run,          \* the Agent run: "idle", "active" or "over"
    report,       \* an activity report that has passed its check of the run
    failure,      \* the failure record of the run, in its transaction
    outbox,       \* whether outbox rows with a topic of the stream are pending
    dispatcher,   \* the dispatcher task
    listener,     \* the task that listens to Redis
    member,       \* whether the client's user is an active member
    stream,       \* the server's side of the client's event stream
    client,       \* what the browser has
    losses, drops

vars == <<log, next, run, report, failure, outbox, dispatcher, listener,
          member, stream, client, losses, drops>>
room == <<log, next, run, report, failure>>
delivery == <<dispatcher, listener>>

-----------------------------------------------------------------------------
Seqs == 1..MaxEvents

\* `activity_state`: of a report, of `_close_run_activities`, of no activity.
Reported == {"started", "completed"}
Terminal == {"completed", "closed"}
None == "none"

\* An event of the log: what it says of the run's activity, and whether the
\* client's user may see it (the trigger of the run is a public message).
Event(n, state, visible) == [seq |-> n, state |-> state, visible |-> visible]
Plain(n) == Event(n, None, TRUE)

\* The last event of the activity, as a transaction sees it, and its state.
Activity == {e \in log : e.state # None}
Latest == IF Activity = {} THEN Plain(0)
          ELSE CHOOSE e \in Activity : \A f \in Activity : f.seq <= e.seq
Previous == Latest.state

NoFailure == [stage |-> "none", next |-> 0, latest |-> Plain(0)]
Closed == [stage |-> "closed", cursor |-> 0, frames |-> {}, full |-> FALSE,
           woken |-> FALSE]

-----------------------------------------------------------------------------
Init ==
    /\ log = {}
    /\ next = 1
    /\ run = "idle"
    /\ report = None
    /\ failure = NoFailure
    /\ outbox = FALSE
    /\ dispatcher = "up"
    /\ listener = "up"
    /\ member = TRUE
    /\ stream = Closed
    /\ client = [base |-> 0, last |-> 0, got |-> {}]
    /\ losses = 0
    /\ drops = 0

-----------------------------------------------------------------------------
\* `_outbox_for_flush`: a transaction that writes an event or changes a
\* membership leaves an outbox row for it.
Signals == outbox' = TRUE

\* `_emit`: the events take the numbers from `n` on.
\* A number is taken once (`uq_campaign_room_event_sequence`).
\* Mutant: the constraint is missing.
EmitsAnyway(events, n) ==
    /\ log' = log \cup events
    /\ next' = n + Cardinality(events)
    /\ Signals
Emits(events, n) ==
    /\ \A e \in events : \A f \in log : e.seq # f.seq
    /\ log' = log \cup events
    /\ next' = n + Cardinality(events)
    /\ Signals
Fits(k) == next + k <= MaxEvents + 1
Outside == <<delivery, member, stream, client, losses, drops>>

\* `_resolve_room_audience`: the client's user is in an audience or is not.
Audiences == BOOLEAN

\* `_append_message`, in any transaction.
Posts ==
    /\ Fits(1)
    /\ \E visible \in Audiences : Emits({Event(next, None, visible)}, next)
    /\ UNCHANGED <<run, report, failure, Outside>>

\* `set_room_host`: an event that everybody sees.
HostChanges ==
    /\ Fits(1)
    /\ Emits({Plain(next)}, next)
    /\ UNCHANGED <<run, report, failure, Outside>>

\* A run starts: at first, or again after a handoff or a failure record that
\* could not commit.
Starts ==
    /\ run = "idle" /\ Fits(1)
    /\ run' = "active"
    /\ Emits({Plain(next)}, next)
    /\ UNCHANGED <<report, failure, Outside>>

\* `report_room_activity`: the run is read, then the room is locked.
ReportReads ==
    /\ report = None /\ run = "active"
    /\ report' \in Reported
    /\ UNCHANGED <<log, next, run, failure, outbox, Outside>>

\* Mutant: the last state is not looked at.
ReportEmitsAny ==
    /\ report # None
    /\ report' = None
    /\ Fits(1)
    /\ \E visible \in Audiences : Emits({Event(next, report, visible)}, next)
    /\ UNCHANGED <<run, failure, Outside>>
ReportEmits ==
    /\ report # None
    /\ report' = None
    /\ IF Previous = report \/ Previous \in Terminal
          \/ (Previous = None /\ report # "started")
       THEN UNCHANGED <<log, next, outbox>>
       ELSE /\ Fits(1)
            /\ \E visible \in Audiences : Emits({Event(next, report, visible)}, next)
    /\ UNCHANGED <<run, failure, Outside>>

\* `_close_run_activities` and the event of the end.
Ending(n, latest) ==
    IF latest.state = "started"
    THEN {Event(n, "closed", latest.visible), Plain(n + 1)}
    ELSE {Plain(n)}

\* The publication of a turn: its reply, unless an attempt before it left it, the
\* activities, the end.  The row lock of the job keeps it from a failure record.
Publishes ==
    /\ run = "active" /\ failure = NoFailure
    /\ run' = "over"
    /\ \E replies \in {{}} \cup {{Event(next, None, visible)} : visible \in Audiences} :
        LET events == replies \cup Ending(next + Cardinality(replies), Latest)
        IN  Fits(Cardinality(events)) /\ Emits(events, next)
    /\ UNCHANGED <<report, failure, Outside>>

\* `record_room_job_failure`, from `_record_failure` or a cancellation: the room
\* and the activities are read without the lock of the room, and the numbers
\* written when the transaction commits; a number taken meanwhile undoes it.
FailureReads ==
    /\ run = "active" /\ failure = NoFailure
    /\ failure' = [stage |-> "read", next |-> next, latest |-> Latest]
    /\ UNCHANGED <<log, next, run, report, outbox, Outside>>

FailureCommits ==
    /\ failure.stage = "read"
    /\ failure' = NoFailure
    /\ \/ /\ failure.next + Cardinality(Ending(failure.next, failure.latest)) <= MaxEvents + 1
          /\ Emits(Ending(failure.next, failure.latest), failure.next)
          /\ run' = "over"
       \/ /\ \E e \in log : e.seq >= failure.next
          /\ UNCHANGED <<log, next, outbox, run>>
    /\ UNCHANGED <<report, Outside>>

\* The member leaves or is removed; `access.changed`.
Revokes ==
    /\ member
    /\ member' = FALSE
    /\ Signals
    /\ UNCHANGED <<room, delivery, stream, client, losses, drops>>

-----------------------------------------------------------------------------
\* `OutboxDispatcher._run`, `_listen` and `_LocalFanout.publish`: the pending
\* rows are published, completed, and reach the queue of a stream that has
\* subscribed; a full queue keeps the newest notice.  Rows are the same to the
\* stream, a notice on its way through Redis counts as a row still pending, and
\* a batch is one step: a stream woken by its first row reads all the same.
Open == {"reading", "sending", "waiting"}
\* Mutant: the stream subscribes when it waits.
NotifiedWaiting == [stream EXCEPT !.woken = @ \/ (stream.stage = "waiting" /\ listener = "up")]
Notified == [stream EXCEPT !.woken = @ \/ (stream.stage \in Open /\ listener = "up")]
Dispatches ==
    /\ dispatcher = "up" /\ outbox
    /\ outbox' = FALSE
    /\ stream' = Notified
    /\ UNCHANGED <<room, delivery, member, client, losses, drops>>

\* A row is published and cannot be completed: `_retry`, it stays pending and is
\* published again; or `_retry` or `_load` fails, and the task with it.  (A
\* publication that fails and is retried changes nothing.)
Loses == losses < MaxLosses /\ losses' = losses + 1
DeliveryFails ==
    /\ Loses
    /\ dispatcher = "up"
    /\ \/ outbox /\ stream' = Notified
       \/ UNCHANGED stream
    /\ dispatcher' \in {"up", "dead"}
    /\ UNCHANGED <<room, outbox, listener, member, client, drops>>

\* Redis restarts: what is under way is lost and `_listen` ends with an error.
RedisFails ==
    /\ Loses
    /\ outbox' \in {FALSE, outbox}
    /\ listener' = "dead"
    /\ UNCHANGED <<room, dispatcher, member, stream, client, drops>>

\* The process starts again; what it had published and not delivered is lost.
Restarts ==
    /\ Loses
    /\ outbox' \in {FALSE, outbox}
    /\ dispatcher' = "up"
    /\ listener' = "up"
    /\ stream' = Closed
    /\ report' = None
    /\ failure' = NoFailure
    /\ UNCHANGED <<log, next, run, member, client, drops>>

-----------------------------------------------------------------------------
\* `room_snapshot`, `loadRoomSnapshot`: the visible messages and the cursor, under
\* the room lock; all that the client may see up to the cursor is in it.
Visible == {e.seq : e \in {f \in log : f.visible}}
Snapshot == [base |-> next - 1, last |-> next - 1, got |-> {}]

\* `connectRoomEvents`, `room_events`: the stream subscribes and then reads from
\* what the client has, `after` or `Last-Event-ID`.
\* Mutant: the stream starts at the end of the log.
ConnectsAtEnd ==
    /\ member /\ stream.stage = "closed"
    /\ stream' = [Closed EXCEPT !.stage = "reading", !.cursor = next - 1]
    /\ UNCHANGED <<room, outbox, delivery, member, client, losses, drops>>
Connects ==
    /\ member /\ stream.stage = "closed"
    /\ stream' = [Closed EXCEPT !.stage = "reading", !.cursor = client.last]
    /\ UNCHANGED <<room, outbox, delivery, member, client, losses, drops>>

\* `_room_event_batch`.
Beyond(c) == {e.seq : e \in {f \in log : f.seq > c}}
Page(c) == {n \in Beyond(c) : Cardinality({m \in Beyond(c) : m <= n}) <= PageSize}
Pages ==
    /\ stream.stage = "reading"
    /\ IF ~member
       THEN stream' = [Closed EXCEPT !.stage = "revoked"]
       ELSE stream' = [stream EXCEPT
              !.stage = "sending", !.frames = Page(stream.cursor) \cap Visible,
              !.cursor = Max(Page(stream.cursor) \cup {stream.cursor}),
              !.full = Cardinality(Page(stream.cursor)) = PageSize]
    /\ UNCHANGED <<room, outbox, delivery, member, client, losses, drops>>

\* Frames go out in order; the client keeps the number of the last one.
Sends ==
    /\ stream.stage = "sending" /\ stream.frames # {}
    /\ LET n == Min(stream.frames) IN
        /\ stream' = [stream EXCEPT !.frames = @ \ {n}]
        /\ client' = [client EXCEPT !.last = n, !.got = @ \cup {n}]
    /\ UNCHANGED <<room, outbox, delivery, member, losses, drops>>

Waits ==
    /\ stream.stage = "sending" /\ stream.frames = {}
    /\ stream' = [stream EXCEPT !.stage = "waiting"]
    /\ UNCHANGED <<room, outbox, delivery, member, client, losses, drops>>

\* A notice, with all others in the queue, or thirty seconds.
Wakes ==
    /\ stream.stage = "waiting" /\ stream.woken
    /\ stream' = [stream EXCEPT !.stage = "reading", !.full = FALSE, !.woken = FALSE]
    /\ UNCHANGED <<room, outbox, delivery, member, client, losses, drops>>
Reconciles ==
    /\ stream.stage = "waiting"
    /\ stream' = [stream EXCEPT !.stage = "reading", !.full = FALSE]
    /\ UNCHANGED <<room, outbox, delivery, member, client, losses, drops>>

\* The connection breaks, with what was not sent; the browser connects again by
\* itself, or the page is loaded again and starts from a new snapshot.
Drops ==
    /\ stream.stage \in Open
    /\ drops < MaxDrops
    /\ drops' = drops + 1
    /\ stream' = Closed
    /\ \/ UNCHANGED client
       \/ member /\ client' = Snapshot
    /\ UNCHANGED <<room, outbox, delivery, member, losses>>

-----------------------------------------------------------------------------
RoomSteps ==
    \/ Posts \/ HostChanges \/ Starts \/ ReportReads \/ ReportEmits \/ Publishes
    \/ FailureReads \/ FailureCommits \/ Revokes
Faults == DeliveryFails \/ RedisFails \/ Restarts \/ Drops
StreamSteps == Pages \/ Sends \/ Waits \/ Wakes \/ Reconciles

Next ==
    \/ RoomSteps \/ Dispatches \/ Faults
    \/ Connects \/ StreamSteps

Spec == Init /\ [][Next]_vars

-----------------------------------------------------------------------------
\* What the variables hold.
TypeOK ==
    /\ log \subseteq [seq : Seqs, state : Reported \cup Terminal \cup {None},
                      visible : BOOLEAN]
    /\ next \in 1..(MaxEvents + 1)
    /\ run \in {"idle", "active", "over"}
    /\ report \in Reported \cup {None}
    /\ failure.stage \in {"none", "read"} /\ failure.next \in 0..(MaxEvents + 1)
    /\ outbox \in BOOLEAN
    /\ dispatcher \in {"up", "dead"}
    /\ listener \in {"up", "dead"}
    /\ member \in BOOLEAN
    /\ stream \in [stage : {"closed", "reading", "sending", "waiting", "revoked"},
                   cursor : 0..MaxEvents, frames : SUBSET Seqs, full : BOOLEAN,
                   woken : BOOLEAN]
    /\ client \in [base : 0..MaxEvents, last : 0..MaxEvents, got : SUBSET Seqs]
    /\ losses \in 0..MaxLosses /\ drops \in 0..MaxDrops

\* The log is the sequence 1, 2, ... without a hole or a number used twice,
\* although the failure record takes its numbers from a counter it read
\* without the lock (`record_room_job_failure`, `_emit`).
Numbered ==
    /\ {e.seq : e \in log} = 1..(next - 1)
    /\ Cardinality(log) = next - 1

\* An activity starts once and ends at most once: nothing is said of it after
\* its end, whichever of the report, the publication and the failure record
\* ended it, and whatever the others had read before (`report_room_activity`,
\* `_close_run_activities`).
ActivityEndsOnce ==
    \A e, f \in Activity : e.seq < f.seq => e.state = "started" /\ f.state \in Terminal

\* The client has every event it may see up to the last one it was sent: no
\* lost connection, reload or page boundary makes a hole, and a stream never
\* moves past an event it has not sent.
NoGap ==
    /\ \A n \in Visible : client.base < n /\ n <= client.last => n \in client.got
    /\ stream.stage \in Open =>
          \A n \in Visible : client.base < n /\ n <= stream.cursor =>
              n \in client.got \cup stream.frames

\* The log, its pages and its streams implement EventFeed: what a browser may see
\* reaches it in order, each event once and none left out, although the failure
\* record numbers without the lock, pages end anywhere and connections break
\* (`_emit`, `_room_event_batch`, `connectRoomEvents`).
Feed == INSTANCE EventFeed WITH
    visible <- Visible, base <- client.base, last <- client.last, got <- client.got
KeepsFeed == Feed!Spec

\* Without a fault, a stream that waits and has not read everything will be
\* woken: the wake-up of an event is in the outbox, on its way or in the queue
\* until the stream reads, whatever the order of commit, subscription and
\* delivery.  A page that was full is the exception: the rest waits for the
\* next notice or the deadline.
WakeSurvives ==
    stream.stage = "waiting" /\ losses = 0 /\ ~stream.full /\ ~stream.woken
        /\ Beyond(stream.cursor) # {} => outbox
=============================================================================
