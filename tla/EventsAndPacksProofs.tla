------------------------ MODULE EventsAndPacksProofs ------------------------
(***************************************************************************)
(* What two components promise.  RoomEvents, for rooms of any length, pages*)
(* of any size and any number of faults and broken connections: the        *)
(* numbers of the log, one end of an activity, a client without a gap, and *)
(* a wake-up that is not lost.  PackLibrary, for any number of Packs,      *)
(* campaigns, requests, keys and faults: the service's rows claim no import*)
(* and no activation the authority has not made, no exchange file outlives *)
(* the calls that use it, and no user stores more than the quota.          *)
(***************************************************************************)
EXTENDS RoomEvents, PackLibrary, FiniteSums, TLAPS

-----------------------------------------------------------------------------
(* RoomEvents.                                                             *)
\* No two events have one number; with Numbered this makes the log a sequence.
Unique(events) == \A e, f \in events : e.seq = f.seq => e = f
LogInv == IsFiniteSet(log) /\ Unique(log) /\ Numbered

\* What the failure record read is still so if no number was taken since.
FailureKnows ==
    failure.stage = "read" =>
        failure.next \in 1..next /\ (failure.next = next => failure.latest = Latest)

\* Nobody is past the end of the log, and frames are of the page that was read.
StreamInv ==
    /\ stream.cursor < next /\ client.last < next
    /\ \A n \in stream.frames : n <= stream.cursor
    /\ stream.stage \in {"reading", "waiting"} => stream.frames = {}

\* WakeSurvives, from the read on.
WakeInv ==
    /\ losses = 0 => listener = "up"
    /\ stream.stage \in {"sending", "waiting"} /\ losses = 0 /\ ~stream.full
          /\ ~stream.woken /\ Beyond(stream.cursor) # {} => outbox

EventsInv ==
    TypeOK /\ LogInv /\ ActivityEndsOnce /\ FailureKnows /\ StreamInv /\ NoGap /\ WakeInv

-----------------------------------------------------------------------------
(* Batches of events.                                                      *)
States == Reported \cup Terminal \cup {None}
EventType == [seq : Nat, state : States, visible : BOOLEAN]

\* Events with consecutive numbers from n on.
Batch(events, n) ==
    /\ IsFiniteSet(events) /\ events \subseteq EventType /\ events # {}
    /\ Unique(events)
    /\ {e.seq : e \in events} = n..(n + Cardinality(events) - 1)

LEMMA EventFields ==
    \A n \in Nat, state \in States, visible \in BOOLEAN :
        /\ Event(n, state, visible) \in EventType
        /\ Event(n, state, visible).seq = n
        /\ Event(n, state, visible).state = state
  BY DEF Event, EventType

LEMMA PlainFields ==
    \A n \in Nat : Plain(n) \in EventType /\ Plain(n).seq = n /\ Plain(n).state = None
  BY EventFields DEF Plain, States

LEMMA OneEvent ==
    ASSUME NEW e \in EventType
    PROVE  Batch({e}, e.seq) /\ Cardinality({e}) = 1
<1>1. IsFiniteSet({e}) /\ Cardinality({e}) = 1  BY FS_Singleton
<1>2. e.seq \in Nat  BY DEF EventType
<1>3. {f.seq : f \in {e}} = e.seq..(e.seq + 1 - 1)  BY <1>2
<1> QED BY <1>1, <1>3 DEF Batch, Unique

LEMMA OneMoreEvent ==
    ASSUME NEW events, NEW n \in Nat, Batch(events, n), NEW e \in EventType,
           e.seq = n + Cardinality(events)
    PROVE  Batch(events \cup {e}, n) /\ Cardinality(events \cup {e}) = Cardinality(events) + 1
<1>1. Cardinality(events) \in Nat  BY FS_CardinalityType DEF Batch
<1>2. \A f \in events : f.seq \in n..(n + Cardinality(events) - 1)  BY DEF Batch
<1>3. e \notin events  BY <1>1, <1>2
<1>4. IsFiniteSet(events \cup {e}) /\ Cardinality(events \cup {e}) = Cardinality(events) + 1
  BY <1>3, FS_AddElement DEF Batch
<1>5. {f.seq : f \in events \cup {e}} = {f.seq : f \in events} \cup {e.seq}  OBVIOUS
<1>6. {f.seq : f \in events \cup {e}} = n..(n + (Cardinality(events) + 1) - 1)
  BY <1>1, <1>5 DEF Batch
<1>7. Unique(events \cup {e})
  <2> SUFFICES ASSUME NEW f \in events, f.seq = e.seq PROVE FALSE
    BY DEF Batch, Unique
  <2> QED BY <1>1, <1>2
<1> QED BY <1>4, <1>6, <1>7 DEF Batch

LEMMA EndingBatch ==
    ASSUME NEW n \in Nat, NEW latest \in EventType
    PROVE  Batch(Ending(n, latest), n)
<1>1. Plain(n) \in EventType /\ Plain(n).seq = n  BY PlainFields
<1>2. CASE latest.state # "started"
  BY <1>1, <1>2, OneEvent DEF Ending
<1>3. CASE latest.state = "started"
  <2> DEFINE c == Event(n, "closed", latest.visible)
  <2>1. c \in EventType /\ c.seq = n
    BY EventFields DEF EventType, States, Terminal
  <2>2. Plain(n + 1) \in EventType /\ Plain(n + 1).seq = n + 1  BY PlainFields
  <2>3. Batch({c}, n) /\ Cardinality({c}) = 1  BY <2>1, OneEvent
  <2>4. Batch({c} \cup {Plain(n + 1)}, n)  BY <2>2, <2>3, OneMoreEvent
  <2>5. Ending(n, latest) = {c} \cup {Plain(n + 1)}  BY <1>3 DEF Ending
  <2> QED BY <2>4, <2>5
<1> QED BY <1>2, <1>3

\* The reply goes before the end.
LEMMA ReplyBatch ==
    ASSUME NEW n \in Nat, NEW latest \in EventType, NEW visible \in BOOLEAN
    PROVE  LET reply == Event(n, None, visible) IN
           Batch({reply} \cup Ending(n + Cardinality({reply}), latest), n)
<1> DEFINE reply == Event(n, None, visible)
           c == Event(n + 1, "closed", latest.visible)
<1>1. reply \in EventType /\ reply.seq = n  BY EventFields DEF States
<1>2. Batch({reply}, n) /\ Cardinality({reply}) = 1  BY <1>1, OneEvent
<1>3. \A m \in Nat : Plain(m) \in EventType /\ Plain(m).seq = m  BY PlainFields
<1>4. CASE latest.state # "started"
  <2>1. Ending(n + 1, latest) = {Plain(n + 1)}  BY <1>4 DEF Ending
  <2>2. Plain(n + 1) \in EventType /\ Plain(n + 1).seq = n + 1  BY <1>3
  <2>3. Batch({reply} \cup {Plain(n + 1)}, n)  BY <1>2, <2>2, OneMoreEvent
  <2> QED BY <1>2, <2>1, <2>3
<1>5. CASE latest.state = "started"
  <2>1. n + 1 \in Nat /\ latest.visible \in BOOLEAN /\ "closed" \in States
    BY DEF EventType, States, Terminal
  <2>a. c \in EventType /\ c.seq = n + 1  BY <2>1, EventFields
  <2>2. Batch({reply} \cup {c}, n) /\ Cardinality({reply} \cup {c}) = 2
    BY <1>2, <2>a, OneMoreEvent
  <2>3. Batch({reply} \cup {c} \cup {Plain(n + 2)}, n)  BY <1>3, <2>2, OneMoreEvent
  <2>4. {reply} \cup Ending(n + 1, latest) = {reply} \cup {c} \cup {Plain(n + 2)}
    BY <1>5 DEF Ending
  <2> QED BY <1>2, <2>3, <2>4
<1> QED BY <1>4, <1>5

-----------------------------------------------------------------------------
(* What a transaction that numbers events does to the log.                 *)

\* The log grows by events whose numbers were free, and the stream is told.
Grows ==
    /\ LogInv' /\ log \subseteq log' /\ \A e \in log' \ log : e.seq >= next
    /\ log' \subseteq [seq : Seqs, state : States, visible : BOOLEAN]
    /\ next' \in (next + 1)..(MaxEvents + 1)
    /\ outbox' = TRUE
Still == UNCHANGED <<log, next>>

LEMMA NumbersOf ==
    ASSUME TypeOK, LogInv
    PROVE  \A e \in log : e.seq \in Nat /\ 1 <= e.seq /\ e.seq < next
<1>1. next \in Nat  BY DEF TypeOK
<1> QED BY <1>1 DEF LogInv, Numbered

LEMMA EmitsGrows ==
    ASSUME TypeOK, LogInv, NEW events, Batch(events, next), Emits(events, next),
           next + Cardinality(events) <= MaxEvents + 1
    PROVE  Grows /\ log' = log \cup events
<1>1. Cardinality(events) \in Nat /\ Cardinality(events) # 0
  BY FS_CardinalityType, FS_EmptySet DEF Batch
<1>2. next \in Nat /\ 1 <= next /\ MaxEvents \in Nat  BY EventsAssumption DEF TypeOK
<1>3. log' = log \cup events /\ next' = next + Cardinality(events) /\ outbox' = TRUE
  BY DEF Emits, Signals
<1>4. \A e \in events : e.seq \in next..(next + Cardinality(events) - 1)  BY DEF Batch
<1>5. log \cap events = {}  BY <1>2, <1>4, NumbersOf
<1>6. IsFiniteSet(log')
      /\ Cardinality(log') = Cardinality(log) + Cardinality(events) - Cardinality({})
  BY <1>3, <1>5, FS_Union DEF LogInv, Batch
<1>7. Cardinality(log') = next' - 1
  BY <1>1, <1>2, <1>3, <1>6, FS_EmptySet DEF LogInv, Numbered
<1>8. {e.seq : e \in log'} = {e.seq : e \in log} \cup {e.seq : e \in events}  BY <1>3
<1>9. {e.seq : e \in log'} = 1..(next' - 1)
  BY <1>1, <1>2, <1>3, <1>8 DEF LogInv, Numbered, Batch
<1>10. Unique(log')
  <2> SUFFICES ASSUME NEW e \in log', NEW f \in log', e.seq = f.seq PROVE e = f
    BY DEF Unique
  <2>1. CASE e \in log /\ f \in log  BY <2>1 DEF LogInv, Unique
  <2>2. CASE e \in events /\ f \in events  BY <2>2 DEF Batch, Unique
  <2>3. CASE (e \in log /\ f \in events) \/ (e \in events /\ f \in log)
    BY <1>2, <1>4, <2>3, NumbersOf
  <2> QED BY <1>3, <2>1, <2>2, <2>3
<1>11. \A e \in log' \ log : e.seq >= next  BY <1>1, <1>2, <1>3, <1>4
<1>12. log' \subseteq [seq : Seqs, state : States, visible : BOOLEAN]
  <2>1. log \subseteq [seq : Seqs, state : States, visible : BOOLEAN]  BY DEF TypeOK, States
  <2>2. ASSUME NEW e \in events PROVE e \in [seq : Seqs, state : States, visible : BOOLEAN]
    <3>1. e \in EventType  BY DEF Batch
    <3>2. e.seq \in Seqs  BY <1>1, <1>2, <1>4 DEF Seqs
    <3> QED BY <3>1, <3>2 DEF EventType
  <2> QED BY <1>3, <2>1, <2>2
<1> QED BY <1>1, <1>2, <1>3, <1>6, <1>7, <1>9, <1>10, <1>11, <1>12 DEF Grows, LogInv, Numbered

-----------------------------------------------------------------------------
(* The activity.                                                           *)

LEMMA ActivityTypes ==
    ASSUME TypeOK, LogInv
    PROVE  \A e \in Activity : /\ e \in log /\ e \in EventType /\ e.state # None
                               /\ e.seq \in Nat /\ 1 <= e.seq /\ e.seq < next
<1>1. next \in Nat  BY DEF TypeOK
<1>2. \A e \in Activity : e \in log /\ e.state # None  BY DEF Activity
<1>3. log \subseteq EventType  BY DEF TypeOK, EventType, States, Seqs
<1> QED BY <1>2, <1>3, NumbersOf

\* Latest is what its name says; the activity has at most two events.
LEMMA LatestIsLast ==
    ASSUME TypeOK, LogInv, ActivityEndsOnce
    PROVE  /\ Latest \in EventType
           /\ Activity = {} => Latest.state = None
           /\ Activity # {} => Latest \in Activity /\ \A f \in Activity : f.seq <= Latest.seq
           /\ Latest.state = "started" => Activity = {Latest}
<1>0. \A e \in Activity : /\ e \in log /\ e \in EventType /\ e.state # None
                          /\ e.seq \in Nat /\ 1 <= e.seq /\ e.seq < next
  BY ActivityTypes
<1>1. CASE Activity = {}
  <2>1. Latest = Plain(0)  BY <1>1 DEF Latest
  <2> QED BY <1>1, <2>1, PlainFields DEF None
<1>2. CASE Activity # {}
  <2>1. PICK e \in Activity : TRUE  BY <1>2
  <2>2. \E l \in Activity : \A f \in Activity : f.seq <= l.seq
    <3>1. CASE \A f \in Activity : f.seq <= e.seq  BY <3>1
    <3>2. CASE \E f \in Activity : ~(f.seq <= e.seq)
      <4>1. PICK f \in Activity : ~(f.seq <= e.seq)  BY <3>2
      <4>2. e.seq < f.seq  BY <1>0, <4>1
      <4>3. f.state \in Terminal  BY <4>2 DEF ActivityEndsOnce
      <4>4. \A g \in Activity : ~(f.seq < g.seq)
        BY <4>3 DEF ActivityEndsOnce, Terminal
      <4> QED BY <1>0, <4>4
    <3> QED BY <3>1, <3>2
  <2>3. Latest \in Activity /\ \A f \in Activity : f.seq <= Latest.seq
    BY <1>2, <2>2 DEF Latest
  <2>4. ASSUME Latest.state = "started", NEW f \in Activity PROVE f = Latest
    <3>1. ~(f.seq < Latest.seq)  BY <2>3, <2>4 DEF ActivityEndsOnce, Terminal
    <3>2. f.seq = Latest.seq  BY <1>0, <2>3, <3>1
    <3> QED BY <1>0, <2>3, <3>2 DEF LogInv, Unique
  <2> QED BY <1>0, <1>2, <2>3, <2>4
<1> QED BY <1>1, <1>2

\* Events that say nothing of the activity leave it as it was.
LEMMA ActivityUntouched ==
    ASSUME NEW events, log' = log \cup events, \A e \in events : e.state = None
    PROVE  Activity' = Activity
  BY DEF Activity

\* The first event of an activity is its start, the second its end.
LEMMA ActivityContinues ==
    ASSUME TypeOK, LogInv, ActivityEndsOnce, NEW new \in EventType, new.seq >= next,
           Activity' = Activity \cup {new},
           \/ Latest.state = None
           \/ Latest.state = "started" /\ new.state \in Terminal
    PROVE  ActivityEndsOnce'
<1>0. \A e \in Activity : e.state # None /\ e.seq \in Nat /\ e.seq < next  BY ActivityTypes
<1>n. next \in Nat /\ new.seq \in Nat  BY DEF TypeOK, EventType
<1>1. CASE Latest.state = None
  <2>1. Activity = {}  BY <1>0, <1>1, LatestIsLast
  <2>2. Activity' = {new}  BY <2>1
  <2> QED BY <1>n, <2>2 DEF ActivityEndsOnce
<1>2. CASE Latest.state = "started" /\ new.state \in Terminal
  <2>1. Activity = {Latest} /\ Latest.seq < new.seq  BY <1>0, <1>n, <1>2, LatestIsLast
  <2>2. Activity' = {Latest, new}  BY <2>1
  <2>3. Latest.seq \in Nat  BY <1>0, <2>1
  <2>4. SUFFICES ASSUME NEW e \in {Latest, new}, NEW f \in {Latest, new}, e.seq < f.seq
                 PROVE  e.state = "started" /\ f.state \in Terminal
    BY <2>2 DEF ActivityEndsOnce
  <2> QED BY <1>n, <1>2, <2>1, <2>3, <2>4
<1> QED BY <1>1, <1>2

\* The end of a run closes an activity that is under way.
LEMMA EndingContinues ==
    ASSUME TypeOK, LogInv, ActivityEndsOnce, NEW n \in Nat, n >= next, NEW events,
           Ending(n, Latest) \subseteq events,
           \A e \in events \ Ending(n, Latest) : e.state = None,
           log' = log \cup events
    PROVE  ActivityEndsOnce'
<1>1. Latest \in EventType  BY LatestIsLast
<1>2. Plain(n).state = None /\ Plain(n + 1).state = None  BY PlainFields
<1>3. CASE Latest.state # "started"
  <2>1. Ending(n, Latest) = {Plain(n)}  BY <1>3 DEF Ending
  <2>2. Activity' = Activity  BY <1>2, <2>1 DEF Activity
  <2> QED BY <2>2 DEF ActivityEndsOnce
<1>4. CASE Latest.state = "started"
  <2> DEFINE c == Event(n, "closed", Latest.visible)
  <2>1. Latest.visible \in BOOLEAN /\ "closed" \in States
    BY <1>1 DEF EventType, States, Terminal
  <2>2. c \in EventType /\ c.seq = n /\ c.state = "closed"  BY <2>1, EventFields
  <2>3. Ending(n, Latest) = {c, Plain(n + 1)}  BY <1>4 DEF Ending
  <2>4. Activity' = Activity \cup {c}  BY <1>2, <2>2, <2>3 DEF Activity, None
  <2> QED BY <1>4, <2>2, <2>4, ActivityContinues DEF Terminal
<1> QED BY <1>3, <1>4

-----------------------------------------------------------------------------
(* The steps of the room.                                                  *)

\* What a step of the room may do.
LogStep == Grows \/ (Still /\ outbox' \in {outbox, TRUE})
RoomTypes ==
    /\ run' \in {"idle", "active", "over"} /\ report' \in Reported \cup {None}
    /\ failure'.stage \in {"none", "read"} /\ failure'.next \in 0..(MaxEvents + 1)
    /\ member' \in BOOLEAN
RoomKept ==
    /\ LogStep /\ RoomTypes /\ ActivityEndsOnce' /\ FailureKnows'
    /\ UNCHANGED <<delivery, stream, client, losses, drops>>

LEMMA FailureStays ==
    ASSUME TypeOK, FailureKnows, Grows \/ Still, failure' \in {failure, NoFailure}
    PROVE  FailureKnows'
<1>1. CASE failure' = NoFailure  BY <1>1 DEF FailureKnows, NoFailure
<1>2. CASE failure' = failure /\ Still
  <2>1. Latest' = Latest /\ next' = next  BY <1>2 DEF Still, Latest, Activity
  <2> QED BY <1>2, <2>1 DEF FailureKnows
<1>3. CASE failure' = failure /\ Grows
  <2>1. next \in Nat /\ next' \in Nat /\ next < next'  BY <1>3, EventsAssumption DEF TypeOK, Grows
  <2> QED BY <1>3, <2>1 DEF FailureKnows
<1> QED BY <1>1, <1>2, <1>3

LEMMA PlainGrows ==
    ASSUME TypeOK, LogInv, ActivityEndsOnce, NEW e \in EventType, e.seq = next, e.state = None,
           Fits(1), Emits({e}, next)
    PROVE  Grows /\ ActivityEndsOnce'
<1>1. Batch({e}, next) /\ Cardinality({e}) = 1  BY OneEvent
<1>2. Grows /\ log' = log \cup {e}  BY <1>1, EmitsGrows DEF Fits
<1>3. Activity' = Activity  BY <1>2 DEF Activity
<1> QED BY <1>2, <1>3 DEF ActivityEndsOnce

LEMMA NextTypes ==
    ASSUME TypeOK
    PROVE  /\ next \in Nat /\ next # 0 /\ MaxEvents \in Nat
           /\ \A v \in BOOLEAN : /\ Event(next, None, v) \in EventType
                                 /\ Event(next, None, v).seq = next
                                 /\ Event(next, None, v).state = None
           /\ Plain(next) \in EventType /\ Plain(next).seq = next /\ Plain(next).state = None
<1>1. next \in Nat /\ next # 0 /\ MaxEvents \in Nat  BY EventsAssumption DEF TypeOK
<1> QED BY <1>1, EventFields, PlainFields DEF States

LEMMA PlainKept ==
    ASSUME TypeOK, LogInv, ActivityEndsOnce, FailureKnows, Posts \/ HostChanges \/ Starts
    PROVE  RoomKept
<1>1. Grows /\ ActivityEndsOnce'
  <2>1. CASE Posts
    <3>1. PICK v \in BOOLEAN : Emits({Event(next, None, v)}, next)
      BY <2>1 DEF Posts, Audiences
    <3>2. Fits(1)  BY <2>1 DEF Posts
    <3> QED BY <3>1, <3>2, NextTypes, PlainGrows
  <2>2. CASE HostChanges \/ Starts
    <3>1. Fits(1) /\ Emits({Plain(next)}, next)  BY <2>2 DEF HostChanges, Starts
    <3> QED BY <3>1, NextTypes, PlainGrows
  <2> QED BY <2>1, <2>2
<1>2. UNCHANGED <<report, failure, Outside>> /\ run' \in {run, "active"}
  BY DEF Posts, HostChanges, Starts
<1>3. FailureKnows'  BY <1>1, <1>2, FailureStays
<1> QED BY <1>1, <1>2, <1>3 DEF RoomKept, LogStep, RoomTypes, Outside, TypeOK

LEMMA ReadsKept ==
    ASSUME TypeOK, LogInv, ActivityEndsOnce, FailureKnows, ReportReads \/ FailureReads \/ Revokes
    PROVE  RoomKept
<1>1. Still /\ outbox' \in {outbox, TRUE}
  BY DEF ReportReads, FailureReads, Revokes, Still, room, Signals
<1>2. ActivityEndsOnce'  BY <1>1 DEF Still, ActivityEndsOnce, Activity
<1>3. FailureKnows'
  <2>1. CASE ReportReads \/ Revokes
    <3>1. failure' = failure  BY <2>1 DEF ReportReads, Revokes, room
    <3> QED BY <1>1, <3>1, FailureStays
  <2>2. CASE FailureReads
    <3>1. failure'.next = next /\ failure'.latest = Latest  BY <2>2 DEF FailureReads
    <3>2. next' = next /\ Latest' = Latest  BY <1>1 DEF Still, Latest, Activity
    <3> QED BY <3>1, <3>2, NextTypes DEF FailureKnows
  <2> QED BY <2>1, <2>2
<1>4. RoomTypes
  <2>1. CASE ReportReads
    BY <2>1 DEF RoomTypes, TypeOK, ReportReads, Outside
  <2>2. CASE FailureReads
    <3>1. failure'.stage = "read" /\ failure'.next = next  BY <2>2 DEF FailureReads
    <3>2. next \in 0..(MaxEvents + 1)  BY NextTypes DEF TypeOK
    <3>3. UNCHANGED <<run, report, member>>  BY <2>2 DEF FailureReads, Outside
    <3> QED BY <3>1, <3>2, <3>3 DEF RoomTypes, TypeOK
  <2>3. CASE Revokes
    BY <2>3 DEF RoomTypes, TypeOK, Revokes, room
  <2> QED BY <2>1, <2>2, <2>3
<1>5. UNCHANGED <<delivery, stream, client, losses, drops>>
  BY DEF ReportReads, FailureReads, Revokes, Outside
<1> QED BY <1>1, <1>2, <1>3, <1>4, <1>5 DEF RoomKept, LogStep

LEMMA ReportKept ==
    ASSUME TypeOK, LogInv, ActivityEndsOnce, FailureKnows, ReportEmits
    PROVE  RoomKept
<1>1. (Grows \/ (Still /\ UNCHANGED outbox)) /\ ActivityEndsOnce'
  <2>1. CASE UNCHANGED <<log, next, outbox>>
    BY <2>1 DEF Still, ActivityEndsOnce, Activity
  <2>2. CASE ~UNCHANGED <<log, next, outbox>>
    <3>1. /\ ~(Previous = report \/ Previous \in Terminal \/ (Previous = None /\ report # "started"))
          /\ Fits(1) /\ \E v \in BOOLEAN : Emits({Event(next, report, v)}, next)
      BY <2>2 DEF ReportEmits, Audiences
    <3>2. report \in Reported  BY DEF ReportEmits, TypeOK
    <3>3. PICK v \in BOOLEAN : Emits({Event(next, report, v)}, next)  BY <3>1
    <3> DEFINE e == Event(next, report, v)
    <3>4. e \in EventType /\ e.seq = next /\ e.state = report
      BY <3>2, NextTypes, EventFields DEF States
    <3>5. Batch({e}, next) /\ Cardinality({e}) = 1  BY <3>4, OneEvent
    <3>6. Grows /\ log' = log \cup {e}  BY <3>1, <3>3, <3>5, EmitsGrows DEF Fits
    <3>7. Activity' = Activity \cup {e}
      BY <3>2, <3>4, <3>6 DEF Activity, Reported, None
    <3>8. \/ Latest.state = None
          \/ Latest.state = "started" /\ report \in Terminal
      <4>1. Latest.state \in States  BY LatestIsLast DEF EventType
      <4> QED BY <3>1, <3>2, <4>1 DEF Previous, States, Reported, Terminal
    <3> QED BY <3>4, <3>6, <3>7, <3>8, NextTypes, ActivityContinues
  <2> QED BY <2>1, <2>2
<1>2. report' = None /\ UNCHANGED <<run, failure, Outside>>  BY DEF ReportEmits
<1>3. FailureKnows'  BY <1>1, <1>2, FailureStays
<1> QED BY <1>1, <1>2, <1>3 DEF RoomKept, LogStep, RoomTypes, Outside, TypeOK

LEMMA PublishesKept ==
    ASSUME TypeOK, LogInv, ActivityEndsOnce, FailureKnows, Publishes
    PROVE  RoomKept
<1>0. Latest \in EventType  BY LatestIsLast
<1>1. PICK replies \in {{}} \cup {{Event(next, None, v)} : v \in BOOLEAN} :
          LET events == replies \cup Ending(next + Cardinality(replies), Latest)
          IN  Fits(Cardinality(events)) /\ Emits(events, next)
  BY DEF Publishes, Audiences
<1> DEFINE events == replies \cup Ending(next + Cardinality(replies), Latest)
<1>2. Batch(events, next) /\ next + Cardinality(replies) \in Nat
      /\ next + Cardinality(replies) >= next /\ \A e \in replies : e.state = None
  <2>1. CASE replies = {}
    <3>1. Cardinality(replies) = 0  BY <2>1, FS_EmptySet
    <3>2. next + Cardinality(replies) = next  BY <3>1, NextTypes
    <3>3. events = Ending(next, Latest)  BY <2>1, <3>2
    <3> QED BY <1>0, <2>1, <3>2, <3>3, NextTypes, EndingBatch
  <2>2. CASE replies \in {{Event(next, None, v)} : v \in BOOLEAN}
    <3>1. PICK v \in BOOLEAN : replies = {Event(next, None, v)}  BY <2>2
    <3>2. Cardinality(replies) = 1  BY <3>1, FS_Singleton
    <3>3. Batch(events, next)  BY <1>0, <3>1, NextTypes, ReplyBatch
    <3> QED BY <3>1, <3>2, <3>3, NextTypes
  <2> QED BY <2>1, <2>2
<1>3. Grows /\ log' = log \cup events  BY <1>1, <1>2, EmitsGrows DEF Fits
<1>4. ActivityEndsOnce'  BY <1>2, <1>3, EndingContinues
<1>5. run' = "over" /\ UNCHANGED <<report, failure, Outside>>  BY DEF Publishes
<1>6. FailureKnows'  BY <1>3, <1>5, FailureStays
<1> QED BY <1>3, <1>4, <1>5, <1>6 DEF RoomKept, LogStep, RoomTypes, Outside, TypeOK

\* The failure record commits only if no number was taken since it read.
LEMMA FailureKept ==
    ASSUME TypeOK, LogInv, ActivityEndsOnce, FailureKnows, FailureCommits
    PROVE  RoomKept
<1>0. failure.next \in 1..next /\ (failure.next = next => failure.latest = Latest)
  BY DEF FailureCommits, FailureKnows
<1>1. (Grows \/ (Still /\ UNCHANGED outbox)) /\ ActivityEndsOnce' /\ run' \in {run, "over"}
  <2>1. CASE UNCHANGED <<log, next, outbox, run>>
    BY <2>1 DEF Still, ActivityEndsOnce, Activity
  <2>2. CASE ~UNCHANGED <<log, next, outbox, run>>
    <3> DEFINE events == Ending(failure.next, failure.latest)
    <3>1. /\ failure.next + Cardinality(events) <= MaxEvents + 1
          /\ Emits(events, failure.next) /\ run' = "over"
      BY <2>2 DEF FailureCommits
    <3>2. \E e \in events : e.seq = failure.next
      <4>1. failure.next \in Nat  BY <1>0, NextTypes
      <4>2. Plain(failure.next).seq = failure.next
            /\ Event(failure.next, "closed", failure.latest.visible).seq = failure.next
        BY <4>1 DEF Plain, Event
      <4> QED BY <4>2 DEF Ending
    <3>3. failure.next = next
      <4>1. failure.next \notin {e.seq : e \in log}  BY <3>1, <3>2 DEF Emits
      <4>2. failure.next \notin 1..(next - 1)  BY <4>1 DEF LogInv, Numbered
      <4> QED BY <1>0, <4>2, NextTypes
    <3>4. events = Ending(next, Latest)  BY <1>0, <3>3
    <3>5. Batch(events, next)  BY <3>4, NextTypes, LatestIsLast, EndingBatch
    <3>6. Grows /\ log' = log \cup events  BY <3>1, <3>3, <3>5, EmitsGrows
    <3>7. next \in Nat /\ next >= next  BY NextTypes
    <3>8. ActivityEndsOnce'  BY <3>4, <3>6, <3>7, EndingContinues
    <3> QED BY <3>1, <3>6, <3>8
  <2> QED BY <2>1, <2>2
<1>2. failure' = NoFailure /\ UNCHANGED <<report, Outside>>  BY DEF FailureCommits
<1>3. FailureKnows'  BY <1>1, <1>2, FailureStays
<1>4. RoomTypes  BY <1>1, <1>2, NextTypes DEF RoomTypes, NoFailure, Outside, TypeOK
<1> QED BY <1>1, <1>2, <1>3, <1>4 DEF RoomKept, LogStep, Outside

LEMMA RoomStepKept ==
    ASSUME TypeOK, LogInv, ActivityEndsOnce, FailureKnows, RoomSteps
    PROVE  RoomKept
  BY PlainKept, ReadsKept, ReportKept, PublishesKept, FailureKept DEF RoomSteps

-----------------------------------------------------------------------------
(* Pages of the log.                                                       *)

\* The last number of a page.
LastOf(c) == IF c + PageSize < next THEN c + PageSize ELSE next - 1

LEMMA BeyondIs ==
    ASSUME TypeOK, LogInv, NEW c \in Nat, c < next
    PROVE  Beyond(c) = (c + 1)..(next - 1)
<1>1. next \in Nat  BY DEF TypeOK
<1>2. \A n : n \in Beyond(c) <=> n \in {e.seq : e \in log} /\ n > c
  BY DEF Beyond
<1>3. \A n : n \in Beyond(c) <=> n \in 1..(next - 1) /\ n > c
  BY <1>2 DEF LogInv, Numbered
<1>4. \A n : n \in Beyond(c) <=> n \in (c + 1)..(next - 1)  BY <1>1, <1>3
<1> QED BY <1>4

LEMMA PageIs ==
    ASSUME TypeOK, LogInv, NEW c \in Nat, c < next
    PROVE  /\ LastOf(c) \in c..(next - 1)
           /\ Page(c) = (c + 1)..LastOf(c)
           /\ Max(Page(c) \cup {c}) = LastOf(c)
           /\ Cardinality(Page(c)) # PageSize => LastOf(c) = next - 1
<1>1. next \in Nat /\ PageSize \in Nat /\ PageSize # 0  BY EventsAssumption DEF TypeOK
<1>2. LastOf(c) \in c..(next - 1)  BY <1>1 DEF LastOf
<1>3. ASSUME NEW n \in (c + 1)..(next - 1)
      PROVE  Cardinality({m \in Beyond(c) : m <= n}) = n - c
  <2>1. {m \in Beyond(c) : m <= n} = (c + 1)..n  BY <1>1, <1>3, BeyondIs
  <2>2. Cardinality((c + 1)..n) = n - c  BY <1>1, <1>3, FS_Interval
  <2> QED BY <2>1, <2>2
<1>4. Page(c) = (c + 1)..LastOf(c)
  <2>1. Beyond(c) = (c + 1)..(next - 1)  BY BeyondIs
  <2>2. \A n : n \in Page(c) <=>
            n \in Beyond(c) /\ Cardinality({m \in Beyond(c) : m <= n}) <= PageSize
    BY DEF Page
  <2>3. \A n : n \in Page(c) <=> n \in (c + 1)..(next - 1) /\ n - c <= PageSize
    BY <1>3, <2>1, <2>2
  <2>4. \A n : n \in Page(c) <=> n \in (c + 1)..LastOf(c)  BY <1>1, <2>3 DEF LastOf
  <2> QED BY <2>4
<1>5. Max(Page(c) \cup {c}) = LastOf(c)
  <2> DEFINE S == Page(c) \cup {c}
  <2>1. LastOf(c) \in S /\ \A y \in S : y \in Int /\ LastOf(c) >= y  BY <1>1, <1>2, <1>4
  <2>2. Max(S) \in S /\ \A y \in S : Max(S) >= y  BY <2>1 DEF Max
  <2>3. LastOf(c) >= Max(S) /\ Max(S) >= LastOf(c) /\ Max(S) \in Int /\ LastOf(c) \in Int
    BY <2>1, <2>2
  <2> QED BY <2>3
<1>6. Cardinality(Page(c)) # PageSize => LastOf(c) = next - 1
  <2>1. c + PageSize < next => Cardinality((c + 1)..(c + PageSize)) = PageSize
    BY <1>1, FS_Interval
  <2> QED BY <1>4, <2>1 DEF LastOf
<1> QED BY <1>2, <1>4, <1>5, <1>6

-----------------------------------------------------------------------------
(* The stream.                                                             *)
Stages == {"closed", "reading", "sending", "waiting", "revoked"}

LEMMA StreamTypes ==
    ASSUME TypeOK
    PROVE  /\ stream \in [stage : Stages, cursor : 0..MaxEvents, frames : SUBSET Seqs,
                          full : BOOLEAN, woken : BOOLEAN]
           /\ client \in [base : 0..MaxEvents, last : 0..MaxEvents, got : SUBSET Seqs]
           /\ stream.cursor \in Nat /\ client.last \in Nat /\ client.base \in Nat
           /\ stream.frames \subseteq Nat /\ stream.stage \in Stages
           /\ next \in Nat /\ MaxEvents \in Nat /\ next - 1 \in 0..MaxEvents
           /\ losses \in Nat /\ drops \in Nat
<1>1. stream \in [stage : Stages, cursor : 0..MaxEvents, frames : SUBSET Seqs,
                  full : BOOLEAN, woken : BOOLEAN]
      /\ client \in [base : 0..MaxEvents, last : 0..MaxEvents, got : SUBSET Seqs]
  BY DEF TypeOK, Stages
<1>2. next \in Nat /\ MaxEvents \in Nat /\ next - 1 \in 0..MaxEvents
      /\ losses \in Nat /\ drops \in Nat
  BY EventsAssumption DEF TypeOK
<1>3. 0..MaxEvents \subseteq Nat /\ Seqs \subseteq Nat  BY <1>2 DEF Seqs
<1>4. stream.cursor \in Nat /\ stream.frames \subseteq Nat /\ stream.stage \in Stages
  BY <1>1, <1>3
<1>5. client.last \in Nat /\ client.base \in Nat  BY <1>1, <1>3
<1> QED BY <1>1, <1>2, <1>4, <1>5

\* What grows beyond the end is beyond every cursor, and wakes the stream.
LEMMA LogStepKept ==
    ASSUME TypeOK, LogInv, StreamInv, NoGap, WakeInv, LogStep,
           UNCHANGED <<stream, client, listener, losses>>
    PROVE  StreamInv' /\ NoGap' /\ WakeInv'
<1>1. next' \in Nat /\ next <= next'
  <2>1. next \in Nat /\ MaxEvents \in Nat  BY StreamTypes
  <2>2. CASE Grows
    <3>1. next' \in (next + 1)..(MaxEvents + 1)  BY <2>2 DEF Grows
    <3> QED BY <2>1, <3>1
  <2>3. CASE Still  BY <2>1, <2>3 DEF Still
  <2> QED BY <2>2, <2>3 DEF LogStep
<1>2. \A n \in Visible' : n \in Visible \/ (n \in Nat /\ n >= next)
  <2>1. CASE Grows
    <3>1. \A e \in log' : e \in log \/ (e.seq \in Nat /\ e.seq >= next)
      BY <2>1 DEF Grows, Seqs
    <3> QED BY <3>1 DEF Visible
  <2>2. CASE Still  BY <2>2 DEF Still, Visible
  <2> QED BY <2>1, <2>2 DEF LogStep
<1>3. StreamInv'  BY <1>1, StreamTypes DEF StreamInv
<1>4. NoGap'  BY <1>2, StreamTypes DEF NoGap, StreamInv, Open
<1>5. WakeInv'
  <2>1. CASE outbox' = TRUE  BY <2>1 DEF WakeInv
  <2>2. CASE Still /\ outbox' = outbox
    <3>1. Beyond(stream.cursor)' = Beyond(stream.cursor)  BY <2>2 DEF Still, Beyond
    <3> QED BY <2>2, <3>1 DEF WakeInv
  <2> QED BY <2>1, <2>2 DEF LogStep, Grows
<1> QED BY <1>3, <1>4, <1>5

\* The log stays as it was in every other step.
LEMMA LogKept ==
    ASSUME TypeOK, LogInv, ActivityEndsOnce, FailureKnows, Still, failure' \in {failure, NoFailure}
    PROVE  LogInv' /\ ActivityEndsOnce' /\ FailureKnows'
<1>1. LogInv'  BY DEF LogInv, Unique, Numbered, Still
<1>2. ActivityEndsOnce'  BY DEF ActivityEndsOnce, Activity, Still
<1>3. FailureKnows'  BY FailureStays
<1> QED BY <1>1, <1>2, <1>3

\* A step of the stream: the room and the ways of delivery stay.
StreamType ==
    /\ stream' \in [stage : Stages, cursor : 0..MaxEvents, frames : SUBSET Seqs,
                    full : BOOLEAN, woken : BOOLEAN]
    /\ client' \in [base : 0..MaxEvents, last : 0..MaxEvents, got : SUBSET Seqs]
StreamKept == StreamType /\ StreamInv' /\ NoGap' /\ WakeInv'

LEMMA VisibleStays == ASSUME Still PROVE Visible' = Visible /\ \A c : Beyond(c)' = Beyond(c)
  BY DEF Still, Visible, Beyond

LEMMA ClosedKept ==
    ASSUME TypeOK, LogInv, StreamInv, NoGap, WakeInv, Still, stream' = Closed, client' = client,
           losses' = 0 => listener' = "up"
    PROVE  StreamKept
<1>1. stream' = [stage |-> "closed", cursor |-> 0, frames |-> {}, full |-> FALSE, woken |-> FALSE]
  BY DEF Closed
<1>2. StreamType  BY <1>1, StreamTypes DEF StreamType, Stages
<1>3. StreamInv'  BY <1>1, NextTypes, StreamTypes DEF StreamInv, Still
<1>4. NoGap'  BY <1>1, VisibleStays DEF NoGap, Open
<1>5. WakeInv'  BY <1>1 DEF WakeInv
<1> QED BY <1>2, <1>3, <1>4, <1>5 DEF StreamKept

LEMMA ConnectsKept ==
    ASSUME TypeOK, LogInv, StreamInv, NoGap, WakeInv, Connects
    PROVE  StreamKept
<1>1. stream' = [stage |-> "reading", cursor |-> client.last, frames |-> {}, full |-> FALSE,
                 woken |-> FALSE]
  BY DEF Connects, Closed
<1>2. Still /\ UNCHANGED <<client, listener, losses>>  BY DEF Connects, Still, room, delivery
<1>3. StreamType  BY <1>1, <1>2, StreamTypes DEF StreamType, Stages
<1>4. StreamInv'  BY <1>1, <1>2, StreamTypes DEF StreamInv, Still
<1>5. NoGap'  BY <1>1, <1>2, VisibleStays DEF NoGap, Open
<1>6. WakeInv'  BY <1>1, <1>2 DEF WakeInv
<1> QED BY <1>3, <1>4, <1>5, <1>6 DEF StreamKept

LEMMA PagesKept ==
    ASSUME TypeOK, LogInv, StreamInv, NoGap, WakeInv, Pages
    PROVE  StreamKept
<1>0. /\ Still /\ UNCHANGED <<outbox, client, listener, losses>>
      /\ stream.stage = "reading" /\ stream.frames = {}
  BY DEF Pages, Still, room, delivery, StreamInv
<1>1. CASE ~member
  <2>1. stream' = [stage |-> "revoked", cursor |-> 0, frames |-> {}, full |-> FALSE,
                   woken |-> FALSE]
    BY <1>1 DEF Pages, Closed
  <2>2. stream'.stage = "revoked" /\ stream'.frames = {} /\ stream'.cursor = 0
    BY <2>1
  <2>3. StreamType  BY <1>0, <2>1, StreamTypes DEF StreamType, Stages
  <2>4. StreamInv'  BY <1>0, <2>2, NextTypes, StreamTypes DEF StreamInv, Still
  <2>5. NoGap'  BY <1>0, <2>2, VisibleStays DEF NoGap, Open
  <2>6. WakeInv'  BY <1>0, <2>2 DEF WakeInv
  <2> QED BY <2>3, <2>4, <2>5, <2>6 DEF StreamKept
<1>2. CASE member
  <2> DEFINE c == stream.cursor
  <2>1. c \in Nat /\ c < next  BY StreamTypes DEF StreamInv
  <2>2. /\ LastOf(c) \in c..(next - 1) /\ Page(c) = (c + 1)..LastOf(c)
        /\ Max(Page(c) \cup {c}) = LastOf(c)
        /\ Cardinality(Page(c)) # PageSize => LastOf(c) = next - 1
    BY <2>1, PageIs
  <2>3. stream' = [stream EXCEPT
            !.stage = "sending", !.frames = Page(c) \cap Visible,
            !.cursor = Max(Page(c) \cup {c}), !.full = Cardinality(Page(c)) = PageSize]
    BY <1>2 DEF Pages
  <2>4. /\ stream'.stage = "sending" /\ stream'.frames = Page(c) \cap Visible
        /\ stream'.cursor = LastOf(c) /\ stream'.full = (Cardinality(Page(c)) = PageSize)
    BY <2>2, <2>3, StreamTypes
  <2>5. StreamType
    <3>1. Page(c) \cap Visible \subseteq Seqs  BY <2>1, <2>2, StreamTypes DEF Seqs
    <3>2. LastOf(c) \in 0..MaxEvents  BY <2>1, <2>2, StreamTypes
    <3> QED BY <1>0, <2>2, <2>3, <3>1, <3>2, StreamTypes DEF StreamType, Stages
  <2>6. StreamInv'
    <3>1. LastOf(c) \in Int /\ LastOf(c) < next /\ \A n \in Page(c) : n <= LastOf(c)
      BY <2>1, <2>2, StreamTypes
    <3> QED BY <1>0, <2>4, <3>1 DEF StreamInv, Still
  <2>7. NoGap'
    <3>1. ASSUME NEW n \in Visible, client.base < n, n <= LastOf(c)
          PROVE  n \in client.got \cup (Page(c) \cap Visible)
      <4>1. n \in Nat  BY NumbersOf DEF Visible
      <4>2. CASE n <= c  BY <1>0, <3>1, <4>2 DEF NoGap, Open
      <4>3. CASE n > c  BY <2>1, <2>2, <3>1, <4>1, <4>3
      <4> QED BY <2>1, <4>1, <4>2, <4>3
    <3> QED BY <1>0, <2>4, <3>1, VisibleStays DEF NoGap, Open
  <2>8. WakeInv'
    <3>1. Cardinality(Page(c)) # PageSize => Beyond(LastOf(c)) = {}
      <4>1. LastOf(c) \in Nat /\ LastOf(c) < next  BY <2>1, <2>2, StreamTypes
      <4>2. Beyond(LastOf(c)) = (LastOf(c) + 1)..(next - 1)  BY <4>1, BeyondIs
      <4> QED BY <2>2, <4>1, <4>2, StreamTypes
    <3>2. Beyond(stream.cursor)' = Beyond(LastOf(c))
      BY <1>0, <2>4 DEF Beyond, Still
    <3> QED BY <1>0, <2>4, <3>1, <3>2 DEF WakeInv
  <2> QED BY <2>5, <2>6, <2>7, <2>8 DEF StreamKept
<1> QED BY <1>1, <1>2

\* The first of the frames.
LEMMA LeastOf ==
    ASSUME NEW S, S \subseteq Nat, S # {}
    PROVE  Min(S) \in S /\ \A n \in S : Min(S) <= n
<1> DEFINE R == {p \in Nat \X Nat : p[1] < p[2]}
<1>1. IsWellFoundedOn(R, Nat)  BY NatLessThanWellFounded DEF OpToRel
<1>2. PICK x \in S : \A y \in S : ~(<<y, x>> \in R)  BY <1>1, WFMin
<1>3. ASSUME NEW y \in S PROVE x <= y
  <2>1. x \in Nat /\ y \in Nat  OBVIOUS
  <2>2. <<y, x>> \notin R  BY <1>2
  <2>3. ~(y < x)  BY <2>1, <2>2
  <2> QED BY <2>1, <2>3
<1> QED BY <1>3 DEF Min

LEMMA SendsKept ==
    ASSUME TypeOK, LogInv, StreamInv, NoGap, WakeInv, Sends
    PROVE  StreamKept
<1> DEFINE n == Min(stream.frames)
<1>0. /\ Still /\ UNCHANGED <<outbox, listener, losses>>
      /\ stream.stage = "sending" /\ stream.frames # {}
  BY DEF Sends, Still, room, delivery
<1>1. n \in stream.frames /\ \A m \in stream.frames : n <= m  BY <1>0, LeastOf, StreamTypes
<1>2. stream' = [stream EXCEPT !.frames = @ \ {n}]
      /\ client' = [client EXCEPT !.last = n, !.got = @ \cup {n}]
  BY DEF Sends
<1>3. /\ stream'.stage = "sending" /\ stream'.frames = stream.frames \ {n}
      /\ stream'.cursor = stream.cursor /\ stream'.full = stream.full
      /\ stream'.woken = stream.woken
      /\ client'.base = client.base /\ client'.last = n /\ client'.got = client.got \cup {n}
  BY <1>0, <1>2, StreamTypes
<1>4. n \in Seqs /\ n \in Nat /\ n <= stream.cursor /\ n < next /\ n \in 0..MaxEvents
  BY <1>1, StreamTypes DEF StreamInv, Seqs
<1>5. StreamType  BY <1>2, <1>4, StreamTypes DEF StreamType
<1>6. StreamInv'  BY <1>0, <1>3, <1>4 DEF StreamInv, Still
<1>7. NoGap'
  <2>1. ASSUME NEW m \in Visible, client.base < m, m <= stream.cursor
        PROVE  m \in client.got \cup stream.frames
    BY <1>0, <2>1 DEF NoGap, Open
  <2>2. ASSUME NEW m \in Visible, client.base < m, m <= n PROVE m \in client.got \cup {n}
    <3>1. m \in Nat  BY NumbersOf DEF Visible
    <3>2. m <= stream.cursor  BY <1>4, <2>2, <3>1, StreamTypes
    <3>3. CASE m \in stream.frames  BY <1>1, <1>4, <2>2, <3>1, <3>3
    <3> QED BY <2>1, <2>2, <3>2, <3>3
  <2> QED BY <1>0, <1>3, <2>1, <2>2, VisibleStays DEF NoGap, Open
<1>8. WakeInv'  BY <1>0, <1>3, VisibleStays DEF WakeInv, Beyond, Still
<1> QED BY <1>5, <1>6, <1>7, <1>8 DEF StreamKept

LEMMA WaitsKept ==
    ASSUME TypeOK, LogInv, StreamInv, NoGap, WakeInv, Waits \/ Wakes \/ Reconciles
    PROVE  StreamKept
<1>0. Still /\ UNCHANGED <<outbox, client, listener, losses>>
  BY DEF Waits, Wakes, Reconciles, Still, room, delivery
<1>1. /\ stream.stage \in {"sending", "waiting"} /\ stream.frames = {}
      /\ stream'.stage \in {"reading", "waiting"} /\ stream'.frames = {}
      /\ stream'.cursor = stream.cursor
      /\ stream'.stage = "waiting" => /\ stream.stage = "sending"
                                       /\ stream'.woken = stream.woken /\ stream'.full = stream.full
  <2>1. CASE Waits
    <3>1. stream' = [stream EXCEPT !.stage = "waiting"]  BY <2>1 DEF Waits
    <3> QED BY <2>1, <3>1, StreamTypes DEF Waits
  <2>2. CASE Wakes
    <3>1. stream' = [stream EXCEPT !.stage = "reading", !.full = FALSE, !.woken = FALSE]  BY <2>2 DEF Wakes
    <3> QED BY <2>2, <3>1, StreamTypes DEF Wakes, StreamInv
  <2>3. CASE Reconciles
    <3>1. stream' = [stream EXCEPT !.stage = "reading", !.full = FALSE]  BY <2>3 DEF Reconciles
    <3> QED BY <2>3, <3>1, StreamTypes DEF Reconciles, StreamInv
  <2> QED BY <2>1, <2>2, <2>3
<1>2. StreamType
  BY <1>0, StreamTypes DEF Waits, Wakes, Reconciles, StreamType, Stages
<1>3. StreamInv'  BY <1>0, <1>1 DEF StreamInv, Still
<1>4. NoGap'  BY <1>0, <1>1, VisibleStays DEF NoGap, Open
<1>5. WakeInv'  BY <1>0, <1>1 DEF WakeInv, Beyond, Still
<1> QED BY <1>2, <1>3, <1>4, <1>5 DEF StreamKept

\* A notice reaches every stream while Redis is heard.
LEMMA NotifiedKept ==
    ASSUME TypeOK, LogInv, StreamInv, NoGap, WakeInv, Still, client' = client,
           stream' = stream \/ stream' = Notified,
           \/ losses' # 0
           \/ stream' = Notified /\ UNCHANGED <<listener, losses>>
    PROVE  StreamKept
<1>1. /\ stream'.stage = stream.stage /\ stream'.frames = stream.frames
      /\ stream'.cursor = stream.cursor /\ stream'.full = stream.full
  BY StreamTypes DEF Notified
<1>2. StreamType
  <2>1. (stream.woken \/ (stream.stage \in Open /\ listener = "up")) \in BOOLEAN  OBVIOUS
  <2> QED BY <2>1, StreamTypes DEF StreamType, Notified
<1>3. StreamInv'  BY <1>1 DEF StreamInv, Still
<1>4. NoGap'  BY <1>1, VisibleStays DEF NoGap, Open
<1>5. WakeInv'
  <2>1. CASE losses' # 0  BY <2>1 DEF WakeInv
  <2>2. CASE stream' = Notified /\ UNCHANGED <<listener, losses>>
    <3>1. stream.stage \in Open /\ listener = "up" => stream'.woken
      BY <2>2, StreamTypes DEF Notified
    <3> QED BY <1>1, <2>2, <3>1 DEF WakeInv, Open
  <2> QED BY <2>1, <2>2
<1> QED BY <1>2, <1>3, <1>4, <1>5 DEF StreamKept

\* A client that loads the room again has all it may see up to the end.
LEMMA DropsKept ==
    ASSUME TypeOK, LogInv, StreamInv, NoGap, WakeInv, Drops
    PROVE  StreamKept
<1>0. Still /\ UNCHANGED <<listener, losses>> /\ stream' = Closed
  BY DEF Drops, Still, room, delivery
<1>1. CASE client' = client  BY <1>0, <1>1, ClosedKept DEF WakeInv
<1>2. CASE client' = Snapshot
  <2>1. client' = [base |-> next - 1, last |-> next - 1, got |-> {}]  BY <1>2 DEF Snapshot
  <2>2. stream' = [stage |-> "closed", cursor |-> 0, frames |-> {}, full |-> FALSE,
                   woken |-> FALSE]
    BY <1>0 DEF Closed
  <2>3. StreamType  BY <2>1, <2>2, StreamTypes DEF StreamType, Stages
  <2>4. StreamInv'  BY <1>0, <2>1, <2>2, NextTypes DEF StreamInv, Still
  <2>5. NoGap'
    <3>1. \A m \in Visible : ~(next - 1 < m /\ m <= next - 1)
      BY NumbersOf, NextTypes DEF Visible
    <3> QED BY <1>0, <2>1, <2>2, <3>1, VisibleStays DEF NoGap, Open
  <2>6. WakeInv'  BY <1>0, <2>2 DEF WakeInv
  <2> QED BY <2>3, <2>4, <2>5, <2>6 DEF StreamKept
<1> QED BY <1>1, <1>2 DEF Drops

-----------------------------------------------------------------------------
(* Every step.                                                             *)
LEMMA InitInv == Init => EventsInv
<1> SUFFICES ASSUME Init PROVE EventsInv  OBVIOUS
<1>1. TypeOK
  <2>1. /\ 0 \in 0..(MaxEvents + 1) /\ 1 \in 1..(MaxEvents + 1) /\ 0 \in 0..MaxEvents
        /\ 0 \in 0..MaxLosses /\ 0 \in 0..MaxDrops
    BY EventsAssumption
  <2>2. stream \in [stage : Stages, cursor : 0..MaxEvents, frames : SUBSET Seqs,
                    full : BOOLEAN, woken : BOOLEAN]
    BY <2>1 DEF Init, Closed, Stages
  <2>3. client \in [base : 0..MaxEvents, last : 0..MaxEvents, got : SUBSET Seqs]
    BY <2>1 DEF Init
  <2>4. failure.stage = "none" /\ failure.next = 0  BY DEF Init, NoFailure
  <2> QED BY <2>1, <2>2, <2>3, <2>4 DEF Init, TypeOK, Stages
<1>2. LogInv
  <2>1. {e.seq : e \in log} = 1..(next - 1)  BY DEF Init
  <2>2. Cardinality(log) = next - 1 /\ IsFiniteSet(log)  BY FS_EmptySet DEF Init
  <2> QED BY <2>1, <2>2 DEF LogInv, Numbered, Unique, Init
<1>3. ActivityEndsOnce /\ FailureKnows
  BY DEF Init, ActivityEndsOnce, Activity, FailureKnows, NoFailure
<1>4. StreamInv /\ NoGap /\ WakeInv
  BY DEF Init, StreamInv, NoGap, WakeInv, Visible, Closed, Open
<1> QED BY <1>1, <1>2, <1>3, <1>4 DEF EventsInv

\* The types of what a step of delivery or of the stream changes.
LEMMA OtherTypes ==
    ASSUME TypeOK, StreamType, Still, run' = run, report' \in {report, None},
           failure' \in {failure, NoFailure}, outbox' \in BOOLEAN,
           dispatcher' \in {"up", "dead"}, listener' \in {"up", "dead"}, member' = member,
           losses' \in 0..MaxLosses, drops' \in 0..MaxDrops
    PROVE  TypeOK'
<1>1. NoFailure.stage = "none" /\ NoFailure.next = 0  BY DEF NoFailure
<1>2. failure'.stage \in {"none", "read"} /\ failure'.next \in 0..(MaxEvents + 1)
  BY <1>1, EventsAssumption DEF TypeOK
<1> QED BY <1>2 DEF TypeOK, StreamType, Still, Stages

LEMMA OutsideTypes ==
    ASSUME TypeOK
    PROVE  /\ outbox \in BOOLEAN /\ dispatcher \in {"up", "dead"} /\ listener \in {"up", "dead"}
           /\ losses \in 0..MaxLosses /\ drops \in 0..MaxDrops
           /\ losses < MaxLosses => losses + 1 \in 0..MaxLosses /\ losses + 1 # 0
           /\ drops < MaxDrops => drops + 1 \in 0..MaxDrops
  BY EventsAssumption DEF TypeOK

LEMMA Inductive == EventsInv /\ [Next]_vars => EventsInv'
<1> SUFFICES ASSUME EventsInv, [Next]_vars PROVE EventsInv'  OBVIOUS
<1> USE DEF EventsInv
<1>1. CASE RoomSteps
  <2>1. RoomKept  BY <1>1, RoomStepKept
  <2>2. StreamInv' /\ NoGap' /\ WakeInv'
    BY <2>1, LogStepKept DEF RoomKept, delivery
  <2>3. LogInv'
    BY <2>1 DEF RoomKept, LogStep, Grows, Still, LogInv, Unique, Numbered
  <2>4. TypeOK'
    <3>1. /\ log' \subseteq [seq : Seqs, state : States, visible : BOOLEAN]
          /\ next' \in 1..(MaxEvents + 1) /\ outbox' \in BOOLEAN
      <4>1. CASE Grows
        <5>1. next' \in (next + 1)..(MaxEvents + 1)  BY <4>1 DEF Grows
        <5>2. next' \in 1..(MaxEvents + 1)  BY <5>1, StreamTypes
        <5> QED BY <4>1, <5>2 DEF Grows
      <4>2. CASE Still /\ outbox' \in {outbox, TRUE}
        BY <4>2 DEF Still, TypeOK, States
      <4> QED BY <2>1, <4>1, <4>2 DEF RoomKept, LogStep
    <3> QED BY <2>1, <3>1 DEF RoomKept, RoomTypes, TypeOK, States, delivery
  <2> QED BY <2>1, <2>2, <2>3, <2>4 DEF RoomKept
<1>2. CASE Dispatches
  <2>1. Still /\ UNCHANGED <<run, report, failure, dispatcher, listener, member, client, losses, drops>>
        /\ outbox' = FALSE /\ stream' = Notified
    BY <1>2 DEF Dispatches, Still, room, delivery
  <2>2. StreamKept  BY <2>1, NotifiedKept
  <2>3. TypeOK'  BY <2>1, <2>2, OtherTypes, OutsideTypes DEF StreamKept
  <2> QED BY <2>1, <2>2, <2>3, LogKept DEF StreamKept
<1>3. CASE DeliveryFails
  <2>1. Still /\ UNCHANGED <<run, report, failure, outbox, listener, member, client, drops>>
        /\ losses < MaxLosses /\ losses' = losses + 1 /\ dispatcher' \in {"up", "dead"}
        /\ (stream' = stream \/ stream' = Notified)
    BY <1>3 DEF DeliveryFails, Loses, Still, room
  <2>2. losses' # 0 /\ losses' \in 0..MaxLosses  BY <2>1, OutsideTypes
  <2>3. StreamKept  BY <2>1, <2>2, NotifiedKept
  <2>4. TypeOK'  BY <2>1, <2>2, <2>3, OtherTypes, OutsideTypes DEF StreamKept
  <2> QED BY <2>1, <2>3, <2>4, LogKept DEF StreamKept
<1>4. CASE RedisFails
  <2>1. Still /\ UNCHANGED <<run, report, failure, dispatcher, member, stream, client, drops>>
        /\ losses < MaxLosses /\ losses' = losses + 1 /\ outbox' \in {FALSE, outbox}
        /\ listener' = "dead"
    BY <1>4 DEF RedisFails, Loses, Still, room
  <2>2. losses' # 0 /\ losses' \in 0..MaxLosses /\ outbox' \in BOOLEAN  BY <2>1, OutsideTypes
  <2>3. StreamKept  BY <2>1, <2>2, NotifiedKept
  <2>4. TypeOK'  BY <2>1, <2>2, <2>3, OtherTypes, OutsideTypes DEF StreamKept
  <2> QED BY <2>1, <2>3, <2>4, LogKept DEF StreamKept
<1>5. CASE Restarts
  <2>1. Still /\ UNCHANGED <<run, member, client, drops>>
        /\ losses < MaxLosses /\ losses' = losses + 1 /\ outbox' \in {FALSE, outbox}
        /\ dispatcher' = "up" /\ listener' = "up" /\ stream' = Closed
        /\ report' = None /\ failure' = NoFailure
    BY <1>5 DEF Restarts, Loses, Still
  <2>2. losses' # 0 /\ losses' \in 0..MaxLosses /\ outbox' \in BOOLEAN  BY <2>1, OutsideTypes
  <2>3. StreamKept  BY <2>1, ClosedKept
  <2>4. TypeOK'  BY <2>1, <2>2, <2>3, OtherTypes, OutsideTypes DEF StreamKept
  <2> QED BY <2>1, <2>3, <2>4, LogKept DEF StreamKept
<1>6. CASE Drops
  <2>1. Still /\ UNCHANGED <<run, report, failure, outbox, dispatcher, listener, member, losses>>
        /\ drops < MaxDrops /\ drops' = drops + 1
    BY <1>6 DEF Drops, Still, room, delivery
  <2>2. StreamKept  BY <1>6, DropsKept
  <2>3. TypeOK'  BY <2>1, <2>2, OtherTypes, OutsideTypes DEF StreamKept
  <2> QED BY <2>1, <2>2, <2>3, LogKept DEF StreamKept
<1>7. CASE Connects \/ StreamSteps
  <2>1. Still /\ UNCHANGED <<run, report, failure, outbox, dispatcher, listener, member, losses, drops>>
    BY <1>7 DEF Connects, StreamSteps, Pages, Sends, Waits, Wakes, Reconciles, Still, room, delivery
  <2>2. StreamKept  BY <1>7, ConnectsKept, PagesKept, SendsKept, WaitsKept DEF StreamSteps
  <2>3. TypeOK'  BY <2>1, <2>2, OtherTypes, OutsideTypes DEF StreamKept
  <2> QED BY <2>1, <2>2, <2>3, LogKept DEF StreamKept
<1>8. CASE UNCHANGED vars
  <2>1. Still /\ UNCHANGED <<run, report, failure, outbox, dispatcher, listener, member, stream,
                             client, losses, drops>>
    BY <1>8 DEF vars, Still
  <2>2. TypeOK'  BY <2>1 DEF TypeOK, Still
  <2>3. LogInv' /\ ActivityEndsOnce' /\ FailureKnows'  BY <2>1, LogKept
  <2>4. StreamInv' /\ NoGap' /\ WakeInv'  BY <2>1, LogStepKept DEF LogStep
  <2> QED BY <2>2, <2>3, <2>4
<1> QED BY <1>1, <1>2, <1>3, <1>4, <1>5, <1>6, <1>7, <1>8 DEF Next, Faults

LEMMA InvAlways == Spec => []EventsInv
  BY InitInv, Inductive, PTL DEF Spec

-----------------------------------------------------------------------------
\* Every row, task and stream keeps its type.
THEOREM TypeCorrect == Spec => []TypeOK
<1>1. EventsInv => TypeOK  BY DEF EventsInv
<1> QED BY <1>1, InvAlways, PTL

\* The log of a room is 1, 2, ... without a hole, although the failure record
\* numbers its events without the lock of the room.
THEOREM NumberedLog == Spec => []Numbered
<1>1. EventsInv => Numbered  BY DEF EventsInv, LogInv
<1> QED BY <1>1, InvAlways, PTL

\* An activity starts once and ends at most once, whoever reports, publishes or
\* fails beside whom.
THEOREM OneEnd == Spec => []ActivityEndsOnce
<1>1. EventsInv => ActivityEndsOnce  BY DEF EventsInv
<1> QED BY <1>1, InvAlways, PTL

\* Pages of any size, broken connections and reloads leave no gap in what a
\* client has.
THEOREM ClientWithoutGap == Spec => []NoGap
<1>1. EventsInv => NoGap  BY DEF EventsInv
<1> QED BY <1>1, InvAlways, PTL

\* Without a fault a stream that has not read everything is going to be woken.
THEOREM WakeUpSurvives == Spec => []WakeSurvives
<1>1. EventsInv => WakeSurvives  BY DEF EventsInv, WakeInv, WakeSurvives
<1> QED BY <1>1, InvAlways, PTL

-----------------------------------------------------------------------------
(* The refinement of EventFeed.                                            *)

\* What an open stream has read and not sent is what its client has not got and may see,
\* up to where it has read.
Behind ==
    stream.stage \in Open =>
        /\ client.last <= stream.cursor
        /\ \A n \in stream.frames : n \in Visible /\ n > client.last
        /\ \A n \in Visible : client.last < n /\ n <= stream.cursor => n \in stream.frames

\* New events have new numbers.
LEMMA VisibleGrows ==
    ASSUME TypeOK, LogInv, Grows
    PROVE  /\ Visible \subseteq Visible' /\ Visible' \ Visible \subseteq next..(next' - 1)
           /\ next' \in Nat /\ next' > next
<1>1. next \in Nat /\ next' \in Nat /\ next' > next
  BY EventsAssumption DEF TypeOK, Grows
<1>2. log \subseteq log' /\ \A e \in log' \ log : e.seq >= next
  BY DEF Grows
<1>3. \A e \in log' : e.seq \in 1..(next' - 1)
  BY DEF Grows, LogInv, Numbered
<1>4. Visible \subseteq Visible'
  BY <1>2 DEF Visible
<1>5. ASSUME NEW n \in Visible', n \notin Visible PROVE n \in next..(next' - 1)
  <2>1. PICK e \in log' : e.visible /\ e.seq = n
    BY <1>5 DEF Visible
  <2>2. e \notin log
    BY <1>5, <2>1 DEF Visible
  <2> QED BY <1>1, <1>2, <1>3, <2>1, <2>2
<1> QED BY <1>1, <1>4, <1>5

\* A step of the room adds events, if it touches the log.
LEMMA RoomFeeds ==
    ASSUME TypeOK, LogInv, StreamInv, Behind, LogStep, UNCHANGED <<stream, client>>
    PROVE  Behind' /\ [Feed!Next]_Feed!vars
<1>1. CASE Still
  <2>1. Visible' = Visible /\ next' = next
    BY <1>1, VisibleStays DEF Still
  <2> QED BY <2>1 DEF Behind, Feed!vars
<1>2. CASE Grows
  <2>1. Feed!Adds
    BY <1>2, VisibleGrows DEF Feed!Adds
  <2>2. \A n \in Visible' : n \in Visible \/ (n \in Nat /\ n >= next)
    BY <1>2, VisibleGrows, StreamTypes
  <2>3. Behind'
    BY <1>2, <2>2, VisibleGrows, StreamTypes DEF Behind, StreamInv
  <2> QED BY <2>1, <2>3 DEF Feed!Next
<1> QED BY <1>1, <1>2 DEF LogStep

\* A stream that opens begins where its client is.
LEMMA ConnectsFeeds ==
    ASSUME TypeOK, LogInv, Behind, Connects
    PROVE  Behind' /\ UNCHANGED Feed!vars
<1>1. stream' = [stage |-> "reading", cursor |-> client.last, frames |-> {}, full |-> FALSE,
                 woken |-> FALSE]
  BY DEF Connects, Closed
<1>2. Still /\ client' = client
  BY DEF Connects, Still, room
<1>3. \A n \in Visible : n \in Nat
  BY NumbersOf DEF Visible
<1>4. Behind'
  BY <1>1, <1>2, <1>3, VisibleStays, StreamTypes DEF Behind
<1> QED BY <1>2, <1>4, VisibleStays DEF Feed!vars, Still

\* A page is all there is between the end of the last one and its own.
LEMMA PagesFeeds ==
    ASSUME TypeOK, LogInv, StreamInv, Behind, Pages
    PROVE  Behind' /\ UNCHANGED Feed!vars
<1>0. Still /\ client' = client /\ stream.stage = "reading" /\ stream.frames = {}
  BY DEF Pages, Still, room, StreamInv
<1>1. UNCHANGED Feed!vars
  BY <1>0, VisibleStays DEF Feed!vars, Still
<1>2. CASE ~member
  <2>1. stream'.stage = "revoked"
    BY <1>2, StreamTypes DEF Pages, Closed
  <2> QED BY <1>1, <2>1 DEF Behind, Open
<1>3. CASE member
  <2> DEFINE c == stream.cursor
  <2>1. c \in Nat /\ c < next /\ client.last <= c /\ client.last \in Nat
    BY <1>0, StreamTypes DEF StreamInv, Behind, Open
  <2>2. /\ LastOf(c) \in c..(next - 1) /\ Page(c) = (c + 1)..LastOf(c)
        /\ Max(Page(c) \cup {c}) = LastOf(c)
    BY <2>1, PageIs
  <2>3. stream' = [stream EXCEPT
            !.stage = "sending", !.frames = Page(c) \cap Visible,
            !.cursor = Max(Page(c) \cup {c}), !.full = Cardinality(Page(c)) = PageSize]
    BY <1>3 DEF Pages
  <2>4. stream'.frames = Page(c) \cap Visible /\ stream'.cursor = LastOf(c)
    BY <2>2, <2>3, StreamTypes
  <2>5. ASSUME NEW n \in Visible, client.last < n, n <= LastOf(c)
        PROVE  n \in Page(c)
    <3>1. n \in Nat
      BY NumbersOf DEF Visible
    <3>2. n > c
      BY <1>0, <2>1, <2>5, <3>1 DEF Behind, Open
    <3> QED BY <2>1, <2>2, <2>5, <3>1, <3>2
  <2>6. \A n \in Page(c) : n > client.last
    BY <2>1, <2>2
  <2>7. client.last <= LastOf(c)
    BY <2>1, <2>2
  <2> QED BY <1>0, <1>1, <2>4, <2>5, <2>6, <2>7, VisibleStays DEF Behind
<1> QED BY <1>2, <1>3

\* The first frame is the first event that the client has not got.
LEMMA SendsFeeds ==
    ASSUME TypeOK, LogInv, StreamInv, Behind, Sends
    PROVE  Behind' /\ Feed!Delivers
<1> DEFINE n == Min(stream.frames)
<1>0. Still /\ stream.stage = "sending" /\ stream.frames # {}
  BY DEF Sends, Still, room
<1>1. n \in stream.frames /\ \A m \in stream.frames : n <= m
  BY <1>0, LeastOf, StreamTypes
<1>2. stream' = [stream EXCEPT !.frames = @ \ {n}]
      /\ client' = [client EXCEPT !.last = n, !.got = @ \cup {n}]
  BY DEF Sends
<1>3. /\ stream'.stage = "sending" /\ stream'.frames = stream.frames \ {n}
      /\ stream'.cursor = stream.cursor
      /\ client'.base = client.base /\ client'.last = n /\ client'.got = client.got \cup {n}
  BY <1>0, <1>2, StreamTypes
<1>4. /\ \A m \in stream.frames : m \in Visible /\ m > client.last
      /\ \A m \in Visible : client.last < m /\ m <= stream.cursor => m \in stream.frames
      /\ client.last <= stream.cursor
  BY <1>0 DEF Behind, Open
<1>5. \A m \in Visible \cup stream.frames : m \in Nat
  BY NumbersOf, StreamTypes DEF Visible
<1>6. n \in Nat /\ n <= stream.cursor /\ n \in Visible /\ n > client.last
  BY <1>1, <1>4, <1>5 DEF StreamInv
<1>7. ASSUME NEW m \in Visible, m > client.last PROVE m >= n
  <2>1. CASE m <= stream.cursor
    BY <1>1, <1>4, <1>5, <1>7, <2>1, StreamTypes
  <2>2. CASE ~(m <= stream.cursor)
    BY <1>5, <1>6, <2>2, StreamTypes
  <2> QED BY <2>1, <2>2
<1>8. Feed!Delivers
  BY <1>0, <1>3, <1>6, <1>7, VisibleStays DEF Feed!Delivers, Still
<1>9. \A m \in stream.frames \ {n} : m > n
  BY <1>1, <1>5, <1>6
<1>10. \A m \in Visible : n < m /\ m <= stream.cursor => m \in stream.frames \ {n}
  BY <1>4, <1>5, <1>6, StreamTypes
<1>11. Behind'
  BY <1>0, <1>3, <1>4, <1>6, <1>9, <1>10, VisibleStays DEF Behind
<1> QED BY <1>8, <1>11

\* Any other step of delivery, of the stream or of a process that goes leaves the client
\* as it is, and what is read as it is or forgotten.
LEMMA OthersFeed ==
    ASSUME TypeOK, LogInv, StreamInv, Behind, Still, client' = client,
           \/ stream'.stage \notin Open
           \/ /\ stream.stage \in Open
              /\ stream'.cursor = stream.cursor /\ stream'.frames = stream.frames
    PROVE  Behind' /\ UNCHANGED Feed!vars
<1>1. UNCHANGED Feed!vars
  BY VisibleStays DEF Feed!vars, Still
<1>2. Behind'
  BY VisibleStays DEF Behind, Open
<1> QED BY <1>1, <1>2

LEMMA DropsFeeds ==
    ASSUME TypeOK, LogInv, StreamInv, Behind, Drops
    PROVE  Behind' /\ [Feed!Next]_Feed!vars
<1>0. Still /\ stream' = Closed
  BY DEF Drops, Still, room
<1>1. stream'.stage \notin Open
  BY <1>0 DEF Closed, Open
<1>2. Behind'
  BY <1>1 DEF Behind, Open
<1>3. CASE client' = client
  BY <1>0, <1>1, <1>3, OthersFeed
<1>4. CASE client' = Snapshot
  <2>1. Feed!Begins
    BY <1>0, <1>4, VisibleStays DEF Feed!Begins, Snapshot, Still
  <2> QED BY <1>2, <2>1 DEF Feed!Next
<1> QED BY <1>3, <1>4 DEF Drops

LEMMA FeedSteps ==
    ASSUME EventsInv, Behind, [Next]_vars
    PROVE  Behind' /\ [Feed!Next]_Feed!vars
<1> USE DEF EventsInv
<1>1. CASE RoomSteps
  <2>1. RoomKept
    BY <1>1, RoomStepKept
  <2> QED BY <2>1, RoomFeeds DEF RoomKept
<1>2. CASE Dispatches \/ DeliveryFails \/ RedisFails
  <2>1. Still /\ client' = client /\ (stream' = stream \/ stream' = Notified)
    BY <1>2 DEF Dispatches, DeliveryFails, RedisFails, Still, room
  <2>2. /\ stream'.stage = stream.stage /\ stream'.cursor = stream.cursor
        /\ stream'.frames = stream.frames
    BY <2>1, StreamTypes DEF Notified
  <2> QED BY <2>1, <2>2, OthersFeed
<1>3. CASE Restarts
  <2>1. Still /\ client' = client /\ stream'.stage \notin Open
    BY <1>3 DEF Restarts, Still, Closed, Open
  <2> QED BY <2>1, OthersFeed
<1>4. CASE Drops
  BY <1>4, DropsFeeds
<1>5. CASE Connects
  BY <1>5, ConnectsFeeds
<1>6. CASE Pages
  BY <1>6, PagesFeeds
<1>7. CASE Sends
  BY <1>7, SendsFeeds DEF Feed!Next
<1>8. CASE Waits \/ Wakes \/ Reconciles
  <2>1. Still /\ client' = client /\ stream.stage \in Open
    BY <1>8 DEF Waits, Wakes, Reconciles, Still, room, Open
  <2>2. stream'.cursor = stream.cursor /\ stream'.frames = stream.frames
    BY <1>8, StreamTypes DEF Waits, Wakes, Reconciles
  <2> QED BY <2>1, <2>2, OthersFeed
<1>9. CASE UNCHANGED vars
  <2>1. Still /\ client' = client /\ stream' = stream
    BY <1>9 DEF vars, Still
  <2> QED BY <2>1, OthersFeed
<1> QED
  BY <1>1, <1>2, <1>3, <1>4, <1>5, <1>6, <1>7, <1>8, <1>9 DEF Next, Faults, StreamSteps

\* Whatever is posted, reported, published or recorded beside whom, whatever is lost and
\* however often the connection breaks, a browser gets the events it may see in the order
\* of their numbers, each once and none left out: the room implements EventFeed.
THEOREM FeedKept == Spec => KeepsFeed
<1>1. Init => Feed!Init /\ Behind
  BY DEF Init, Feed!Init, Behind, Visible, Closed, Open
<1>2. EventsInv /\ Behind /\ [Next]_vars => Behind' /\ [Feed!Next]_Feed!vars
  BY FeedSteps
<1> QED BY <1>1, <1>2, InvAlways, PTL DEF Spec, KeepsFeed, Feed!Spec

-----------------------------------------------------------------------------
(* PackLibrary.                                                            *)
(* The invariant.                                                          *)
Fields == {"pc", "op", "c", "p", "key", "activate", "seen", "bytes", "limit"}

\* Every request is a record of its kind: one that uploads, or one about a Pack and
\* a campaign.
Placed == {"import", "install", "activate"}
Shape(q) ==
    /\ DOMAIN q = Fields
    /\ q.op \in Placed => q.c \in Campaigns /\ q.p \in Packs
    /\ q.op \in {"import", "install"} => q.key \in Clients \cup {Import}
    /\ q.pc \in {"locking", "storing", "stored"} => q.op \notin Placed
    /\ q.pc \in {"copying", "calling", "returned"} => q.op \in {"import", "install"}
    /\ q.pc \in {"activating", "recording"} => q.op \in {"install", "activate"}
    /\ q.op = "activate" => q.pc \in {"activating", "recording"}
    /\ q.pc = "inserting" => q.op \in {"upload", "import", "install"}

Cells(S) == [Campaigns -> [Packs -> S]]
Shapes ==
    /\ DOMAIN handler = Handlers /\ \A h \in Handlers : Shape(handler[h])
    /\ DOMAIN exchange = Packs
    /\ projection \in Cells({"none", "imported", "activated"})
    /\ installed \in Cells({"none", "installed", "activated"})
    /\ projLock \in Cells(Handlers \cup {Nobody})
    /\ imports \in Cells(SUBSET (Clients \cup {Import})) /\ active \in [Campaigns -> SUBSET Packs]

\* What a handler was told by the authority is so, and the row it is about is as it
\* left it: inserted by itself and not committed, or committed.
Heard(h) ==
    handler[h].pc \in {"returned", "inserting"} /\ handler[h].op \in {"import", "install"} =>
        /\ handler[h].seen \in {"none", "imported"}
        /\ handler[h].seen = "none" => handler[h].pc = "returned"
        /\ handler[h].seen = "imported" => imports[C(h)][P(h)] # {}
Activating(h) == handler[h].op = "activate" =>
    /\ projLock[C(h)][P(h)] = h /\ projection[C(h)][P(h)] # "none"
    /\ handler[h].pc = "recording" => P(h) \in active[C(h)]
Recording(h) == handler[h].op = "install" /\ handler[h].pc \in {"activating", "recording"} =>
    /\ handler[h].seen \in {"imported", "activated"} /\ imports[C(h)][P(h)] # {}
    /\ projLock[C(h)][P(h)] = h <=> projection[C(h)][P(h)] = "none"
    /\ handler[h].pc = "activating" => handler[h].activate
    /\ handler[h].pc = "recording" =>
          /\ handler[h].seen = "activated" => P(h) \in active[C(h)]
          /\ handler[h].activate => handler[h].seen = "activated"
          /\ handler[h].seen = "activated" /\ ~handler[h].activate =>
                projection[C(h)][P(h)] = "activated"
Locking(h) == \A c \in Campaigns, p \in Packs : projLock[c][p] = h =>
    handler[h].pc \in {"activating", "recording"} /\ C(h) = c /\ P(h) = p
Told(h) == Heard(h) /\ Activating(h) /\ Recording(h) /\ Locking(h)

LibraryInv ==
    /\ Shapes /\ \A h \in Handlers : Told(h)
    /\ ExchangeIsCleaned /\ RowsFollowAuthority

-----------------------------------------------------------------------------
(* What a step of one handler owes to the others, the files and the rows.  *)
Alone(h) == \A k \in Handlers \ {h} : handler'[k] = handler[k]
Calls == {"copying", "calling", "returned"}

\* It takes no lock of another, unsays nothing of the authority, and writes no row
\* that another has locked.
Spares(h) ==
    /\ Alone(h)
    /\ \A c \in Campaigns, p \in Packs :
          /\ imports[c][p] \subseteq imports'[c][p] /\ active[c] \subseteq active'[c]
          /\ \A k \in Handlers \ {h} : projLock'[c][p] = k <=> projLock[c][p] = k
          /\ \/ projection'[c][p] = projection[c][p]
             \/ /\ projLock[c][p] \in {Nobody, h} /\ projection'[c][p] # "none"
                /\ projection[c][p] = "activated" => projection'[c][p] = "activated"

\* It leaves no file behind.
Tidies(h) ==
    /\ Alone(h)
    /\ abandoned => abandoned'
    /\ \A p \in Packs :
          /\ \/ exchange'[p] \in {exchange[p], "none"}
             \/ handler'[h].p = p /\ handler'[h].pc \in Calls
          /\ P(h) = p /\ handler[h].pc \in Calls =>
                \/ abandoned' \/ exchange'[p] = "none"
                \/ handler'[h].p = p /\ handler'[h].pc \in Calls

LEMMA OthersKeep ==
    ASSUME Shapes, NEW h \in Handlers, Spares(h), NEW k \in Handlers \ {h}, Told(k)
    PROVE  Told(k)'
<1>1. handler'[k] = handler[k] /\ Shape(handler[k])  BY DEF Spares, Alone, Shapes
<1>2. Locking(k)'  BY <1>1 DEF Told, Locking, Spares, C, P
<1>3. CASE handler[k].op \notin Placed
  BY <1>1, <1>2, <1>3 DEF Told, Heard, Activating, Recording, Placed
<1>4. CASE handler[k].op \in Placed
  <2>1. PICK c \in Campaigns, p \in Packs : c = C(k) /\ p = P(k)
    BY <1>1, <1>4 DEF Shape, C, P
  <2>2. handler'[k].c = c /\ handler'[k].p = p  BY <1>1, <2>1 DEF C, P
  <2>3. /\ imports[c][p] \subseteq imports'[c][p] /\ active[c] \subseteq active'[c]
        /\ projLock'[c][p] = k <=> projLock[c][p] = k
        /\ \/ projection'[c][p] = projection[c][p]
           \/ /\ projLock[c][p] \in {Nobody, h} /\ projection'[c][p] # "none"
              /\ projection[c][p] = "activated" => projection'[c][p] = "activated"
    BY DEF Spares
  <2>4. Heard(k)'  BY <1>1, <2>1, <2>2, <2>3 DEF Told, Heard, C, P
  <2>5. Activating(k)'  BY <1>1, <2>1, <2>2, <2>3 DEF Told, Activating, C, P
  <2>6. Recording(k)'
    <3>1. projLock[c][p] = k => projection'[c][p] = projection[c][p]
      BY <2>3, LibraryAssumption
    <3> QED BY <1>1, <2>1, <2>2, <2>3, <3>1 DEF Told, Recording, C, P
  <2> QED BY <1>2, <2>4, <2>5, <2>6 DEF Told
<1> QED BY <1>3, <1>4

LEMMA TidiesKeeps ==
    ASSUME NEW h \in Handlers, Tidies(h), ExchangeIsCleaned
    PROVE  ExchangeIsCleaned'
<1> SUFFICES ASSUME ~abandoned', NEW p \in Packs, (Using(p) = {})' PROVE exchange'[p] = "none"
  BY DEF ExchangeIsCleaned
<1>1. ~abandoned  BY DEF Tidies
<1>2. \A k \in Handlers : ~(handler'[k].p = p /\ handler'[k].pc \in Calls)
  BY DEF Using, P, Calls
<1>3. CASE P(h) = p /\ handler[h].pc \in Calls  BY <1>2, <1>3 DEF Tidies
<1>4. CASE ~(P(h) = p /\ handler[h].pc \in Calls)
  <2>1. Using(p) = {}  BY <1>2, <1>4 DEF Using, Tidies, Alone, P, Calls
  <2>2. exchange[p] = "none"  BY <1>1, <2>1 DEF ExchangeIsCleaned
  <2> QED BY <1>2, <2>2 DEF Tidies
<1> QED BY <1>3, <1>4

\* The rows stay true when they are left alone and the authority only adds.
LEMMA RowsKept ==
    ASSUME Shapes, RowsFollowAuthority, UNCHANGED rows,
           \A c \in Campaigns, p \in Packs :
               imports[c][p] \subseteq imports'[c][p] /\ active[c] \subseteq active'[c]
    PROVE  RowsFollowAuthority'
  BY DEF RowsFollowAuthority, rows

-----------------------------------------------------------------------------
(* One handler's step.                                                     *)
Sound(h) == Shapes' /\ Spares(h) /\ Told(h)' /\ Tidies(h) /\ RowsFollowAuthority'

LEMMA SoundInv ==
    ASSUME LibraryInv, NEW h \in Handlers, Sound(h)
    PROVE  LibraryInv'
<1>1. \A k \in Handlers : Told(k)'  BY OthersKeep DEF LibraryInv, Sound
<1>2. ExchangeIsCleaned'  BY TidiesKeeps DEF LibraryInv, Sound
<1> QED BY <1>1, <1>2 DEF LibraryInv, Sound

LEMMA IdleFacts == Idle.pc = "idle" /\ Idle.op = "none" /\ Shape(Idle)
  BY DEF Idle, Shape, Fields, Placed

LEMMA EndsFacts ==
    ASSUME Shapes, NEW h \in Handlers, Ends(h)
    PROVE  /\ DOMAIN handler' = Handlers /\ handler'[h] = Idle /\ Alone(h)
           /\ projLock' \in Cells(Handlers \cup {Nobody})
           /\ \A c \in Campaigns, p \in Packs, k \in Handlers \ {h} :
                 projLock'[c][p] = k <=> projLock[c][p] = k
           /\ \A c \in Campaigns, p \in Packs : projLock'[c][p] # h
<1>1. DOMAIN handler' = Handlers /\ handler'[h] = Idle /\ Alone(h)
  BY DEF Ends, Shapes, Alone
<1>2. projLock' = [c \in Campaigns |-> [p \in Packs |-> Freed(projLock[c][p], h)]]
  BY DEF Ends
<1>3. \A c \in Campaigns, p \in Packs :
          projLock'[c][p] = Freed(projLock[c][p], h) /\ projLock[c][p] \in Handlers \cup {Nobody}
  BY <1>2 DEF Shapes, Cells
<1>4. projLock' \in Cells(Handlers \cup {Nobody})  BY <1>2, <1>3 DEF Cells, Freed
<1>5. ASSUME NEW c \in Campaigns, NEW p \in Packs, NEW k \in Handlers \ {h}
      PROVE  projLock'[c][p] = k <=> projLock[c][p] = k
  BY <1>3, LibraryAssumption DEF Freed
<1>6. \A c \in Campaigns, p \in Packs : projLock'[c][p] # h
  BY <1>3, LibraryAssumption DEF Freed
<1> QED BY <1>1, <1>4, <1>5, <1>6

\* The authority adds what it imported or activated, or nothing.
Adds ==
    /\ imports' \in Cells(SUBSET (Clients \cup {Import})) /\ active' \in [Campaigns -> SUBSET Packs]
    /\ \A c \in Campaigns, p \in Packs :
          imports[c][p] \subseteq imports'[c][p] /\ active[c] \subseteq active'[c]

LEMMA AddsNothing == ASSUME Shapes, UNCHANGED mcp PROVE Adds
  BY DEF Shapes, mcp, Adds

LEMMA EndsQuietly ==
    ASSUME LibraryInv, NEW h \in Handlers, Ends(h), UNCHANGED rows, Adds,
           abandoned => abandoned', DOMAIN exchange' = Packs,
           \A p \in Packs : /\ exchange'[p] \in {exchange[p], "none"}
                            /\ P(h) = p /\ handler[h].pc \in Calls =>
                                  abandoned' \/ exchange'[p] = "none"
    PROVE  LibraryInv'
<1>1. /\ DOMAIN handler' = Handlers /\ handler'[h] = Idle /\ Alone(h)
      /\ projLock' \in Cells(Handlers \cup {Nobody})
      /\ \A c \in Campaigns, p \in Packs, k \in Handlers \ {h} :
                 projLock'[c][p] = k <=> projLock[c][p] = k
      /\ \A c \in Campaigns, p \in Packs : projLock'[c][p] # h
  BY EndsFacts DEF LibraryInv
<1>2. Shapes'
  <2>1. \A k \in Handlers : Shape(handler'[k])  BY <1>1, IdleFacts DEF LibraryInv, Shapes, Alone
  <2> QED BY <1>1, <2>1 DEF LibraryInv, Shapes, Adds, rows
<1>3. Spares(h)  BY <1>1 DEF Spares, Adds, rows
<1>4. Told(h)'  BY <1>1, IdleFacts DEF Told, Heard, Activating, Recording, Locking
<1>5. Tidies(h)  BY <1>1 DEF Tidies
<1>6. RowsFollowAuthority'  BY RowsKept DEF LibraryInv, Adds
<1> QED BY <1>2, <1>3, <1>4, <1>5, <1>6, SoundInv DEF Sound

LEMMA BecomesQuietly ==
    ASSUME LibraryInv, NEW h \in Handlers, NEW q, handler' = [handler EXCEPT ![h] = q], Shape(q),
           UNCHANGED <<rows, projLock>>, Adds, Told(h)',
           abandoned => abandoned', DOMAIN exchange' = Packs,
           \A p \in Packs :
               /\ exchange'[p] \in {exchange[p], "none"} \/ (q.p = p /\ q.pc \in Calls)
               /\ P(h) = p /\ handler[h].pc \in Calls =>
                     exchange'[p] = "none" \/ (q.p = p /\ q.pc \in Calls)
    PROVE  LibraryInv'
<1>1. DOMAIN handler' = Handlers /\ handler'[h] = q /\ Alone(h)
  BY DEF LibraryInv, Shapes, Alone
<1>2. Shapes'
  <2>1. \A k \in Handlers : Shape(handler'[k])  BY <1>1 DEF LibraryInv, Shapes, Alone
  <2> QED BY <1>1, <2>1 DEF LibraryInv, Shapes, Adds, rows
<1>3. Spares(h)  BY <1>1 DEF Spares, Adds, rows
<1>4. Tidies(h)  BY <1>1 DEF Tidies
<1>5. RowsFollowAuthority'  BY RowsKept DEF LibraryInv, Adds
<1> QED BY <1>2, <1>3, <1>4, <1>5, SoundInv DEF Sound

\* A request that uploads owes nothing to the authority.
LEMMA UploadsTold ==
    ASSUME NEW h \in Handlers, Told(h), handler[h].pc \notin {"activating", "recording"},
           UNCHANGED projLock, handler'[h].op \notin Placed
    PROVE  Told(h)'
  BY DEF Told, Heard, Activating, Recording, Locking, Placed

\* A handler moves on.
LEMMA MovesFacts ==
    ASSUME Shapes, NEW h \in Handlers, NEW pc, Moves(h, pc)
    PROVE  \E q : /\ handler' = [handler EXCEPT ![h] = q] /\ handler'[h] = q
                  /\ DOMAIN q = Fields /\ q.pc = pc
                  /\ q.op = handler[h].op /\ q.p = P(h) /\ q.c = C(h)
                  /\ q.seen = handler[h].seen /\ q.activate = handler[h].activate
                  /\ q.key = handler[h].key
                  /\ q.bytes = handler[h].bytes /\ q.limit = handler[h].limit
<1> DEFINE q == [handler[h] EXCEPT !.pc = pc]
<1>1. handler' = [handler EXCEPT ![h] = q]  BY DEF Moves
<1>2. DOMAIN handler[h] = Fields  BY DEF Shapes, Shape
<1>3. /\ DOMAIN q = Fields /\ q.pc = pc /\ q.op = handler[h].op /\ q.p = P(h) /\ q.c = C(h)
      /\ q.seen = handler[h].seen /\ q.activate = handler[h].activate /\ q.key = handler[h].key
      /\ q.bytes = handler[h].bytes /\ q.limit = handler[h].limit
  BY <1>2 DEF Fields, P, C
<1> HIDE DEF q
<1> QED BY <1>1, <1>3 DEF Shapes

-----------------------------------------------------------------------------
(* Uploads.                                                                *)
LEMMA UploadSteps ==
    ASSUME LibraryInv, NEW h \in Handlers,
           \/ \E size \in Sizes : SourceStarts(h, size) \/ \E p \in Packs : UploadStarts(h, p, size)
           \/ UploadInserts(h) \/ Allowed(h) \/ Exhausted(h)
           \/ Stores(h) \/ TooLarge(h) \/ UploadCommits(h)
    PROVE  LibraryInv'
<1>1. /\ UNCHANGED <<exchange, rows, mcp, abandoned>>
      /\ handler[h].pc \in {"idle", "inserting", "locking", "storing", "stored"}
  BY DEF SourceStarts, UploadStarts, UploadInserts, Allowed, Exhausted, Stores, TooLarge,
         UploadCommits, count, At, Opens
<1>2. Adds /\ DOMAIN exchange' = Packs  BY <1>1, AddsNothing DEF LibraryInv, Shapes
<1>3. CASE Ends(h)  BY <1>1, <1>2, <1>3, EndsQuietly DEF Calls
<1>4. ASSUME NEW q, handler' = [handler EXCEPT ![h] = q], Shape(q), q.op \notin Placed,
             UNCHANGED projLock
      PROVE  LibraryInv'
  <2>1. handler'[h] = q  BY <1>4 DEF LibraryInv, Shapes
  <2>2. Told(h)'  BY <1>1, <1>4, <2>1, UploadsTold DEF LibraryInv
  <2> QED BY <1>1, <1>2, <1>4, <2>2, BecomesQuietly DEF Calls
<1>5. CASE \E size \in Sizes : SourceStarts(h, size)
  <2>1. PICK size \in Sizes : SourceStarts(h, size)  BY <1>5
  <2> DEFINE q == [Idle EXCEPT !.pc = "locking", !.op = "source", !.bytes = size]
  <2>2. Shape(q) /\ q.op \notin Placed  BY DEF Idle, Shape, Fields, Placed
  <2>3. handler' = [handler EXCEPT ![h] = q] /\ UNCHANGED projLock
    BY <2>1 DEF SourceStarts, Opens
  <2> HIDE DEF q
  <2> QED BY <1>4, <2>2, <2>3
<1>6. CASE \E size \in Sizes, p \in Packs : UploadStarts(h, p, size)
  <2>1. PICK size \in Sizes, p \in Packs : UploadStarts(h, p, size)  BY <1>6
  <2> DEFINE q == [Idle EXCEPT !.pc = "inserting", !.op = "upload", !.p = p, !.bytes = size]
  <2>2. Shape(q) /\ q.op \notin Placed  BY DEF Idle, Shape, Fields, Placed
  <2>3. handler' = [handler EXCEPT ![h] = q] /\ UNCHANGED projLock
    BY <2>1 DEF UploadStarts, Opens
  <2> HIDE DEF q
  <2> QED BY <1>4, <2>2, <2>3
<1>7. ASSUME NEW pc \in {"locking", "storing", "stored"}, Moves(h, pc), UNCHANGED projLock,
             handler[h].op \notin Placed
      PROVE  LibraryInv'
  <2>1. PICK q : /\ handler' = [handler EXCEPT ![h] = q] /\ DOMAIN q = Fields /\ q.pc = pc
                 /\ q.op = handler[h].op
    BY <1>7, MovesFacts DEF LibraryInv
  <2>2. Shape(q)  BY <1>7, <2>1 DEF Shape, Placed
  <2> QED BY <1>4, <1>7, <2>1, <2>2
<1>8. CASE UploadInserts(h) /\ ~Ends(h)
  <2>1. Moves(h, "locking") /\ UNCHANGED projLock /\ handler[h].op = "upload"
    BY <1>8 DEF UploadInserts, At
  <2> QED BY <1>7, <2>1 DEF Placed
<1>9. CASE Allowed(h)
  <2> DEFINE n == Min({FileLimit, Remaining})
             q == [handler[h] EXCEPT !.pc = "storing", !.limit = n]
  <2>1. handler' = [handler EXCEPT ![h] = q] /\ UNCHANGED projLock /\ handler[h].pc = "locking"
    BY <1>9 DEF Allowed
  <2> HIDE DEF n
  <2>2. DOMAIN handler[h] = Fields /\ handler[h].op \notin Placed
    BY <2>1 DEF LibraryInv, Shapes, Shape
  <2>3. DOMAIN q = Fields /\ q.op = handler[h].op /\ q.pc = "storing"  BY <2>2 DEF Fields
  <2> HIDE DEF q
  <2>4. Shape(q)  BY <2>2, <2>3 DEF Shape, Placed
  <2> QED BY <1>4, <2>1, <2>2, <2>3, <2>4
<1>10. CASE Stores(h)
  <2>1. Moves(h, "stored") /\ UNCHANGED projLock /\ handler[h].pc = "storing"
    BY <1>10 DEF Stores
  <2>2. handler[h].op \notin Placed  BY <2>1 DEF LibraryInv, Shapes, Shape
  <2> QED BY <1>7, <2>1, <2>2
<1>11. Exhausted(h) \/ TooLarge(h) \/ UploadCommits(h) => Ends(h)
  BY DEF Exhausted, TooLarge, UploadCommits
<1> QED BY <1>3, <1>5, <1>6, <1>8, <1>9, <1>10, <1>11

-----------------------------------------------------------------------------
(* The copy and the import.                                                *)
LEMMA CopyStartsSteps ==
    ASSUME LibraryInv, NEW h \in Handlers, NEW q, CopyStarts(h, q), DOMAIN q = Fields,
           q.c \in Campaigns, q.p \in Packs, q.op \in {"import", "install"},
           q.key \in Clients \cup {Import}
    PROVE  LibraryInv'
<1> DEFINE r == [q EXCEPT !.pc = "copying"]
<1>1. /\ DOMAIN r = Fields /\ r.pc = "copying" /\ r.op = q.op /\ r.c = q.c /\ r.p = q.p
      /\ r.key = q.key
  BY DEF Fields
<1>2. /\ handler' = [handler EXCEPT ![h] = r] /\ handler[h].pc = "idle"
      /\ exchange' = [exchange EXCEPT ![q.p] = "partial"]
      /\ UNCHANGED <<rows, projLock, mcp, abandoned>>
  BY DEF CopyStarts, Opens
<1> HIDE DEF r
<1>3. Shape(r)  BY <1>1 DEF Shape, Placed
<1>4. handler'[h] = r  BY <1>2 DEF LibraryInv, Shapes
<1>5. Told(h)'  BY <1>1, <1>2, <1>4 DEF LibraryInv, Told, Heard, Activating, Recording, Locking
<1>6. DOMAIN exchange' = Packs /\ \A p \in Packs \ {q.p} : exchange'[p] = exchange[p]
  BY <1>2 DEF LibraryInv, Shapes
<1>7. Adds  BY <1>2, AddsNothing DEF LibraryInv
<1> QED BY <1>1, <1>2, <1>3, <1>5, <1>6, <1>7, BecomesQuietly DEF Calls

LEMMA CopySteps ==
    ASSUME LibraryInv, NEW h \in Handlers,
           Copies(h) \/ CopyFails(h) \/ ImportCalls(h) \/ ImportFails(h) \/ ImportLost(h)
    PROVE  LibraryInv'
<1>1. handler[h].pc \in {"copying", "calling"} /\ UNCHANGED <<rows, abandoned>>
  BY DEF Copies, CopyFails, ImportCalls, ImportFails, ImportLost, count
<1>2. PICK c \in Campaigns, p \in Packs :
          c = C(h) /\ p = P(h) /\ handler[h].op \in {"import", "install"}
  BY <1>1 DEF LibraryInv, Shapes, Shape, Placed, C, P
<1>3. CASE CopyFails(h)
  <2>1. /\ Ends(h) /\ exchange' = [exchange EXCEPT ![p] = "none"] /\ UNCHANGED mcp
    BY <1>2, <1>3 DEF CopyFails
  <2>2. DOMAIN exchange' = Packs /\ exchange'[p] = "none"
        /\ \A r \in Packs \ {p} : exchange'[r] = exchange[r]
    BY <2>1 DEF LibraryInv, Shapes
  <2>3. Adds  BY <2>1, AddsNothing DEF LibraryInv
  <2> QED BY <1>1, <1>2, <2>1, <2>2, <2>3, EndsQuietly
<1>4. ASSUME NEW q, handler' = [handler EXCEPT ![h] = q], DOMAIN q = Fields,
             q.op = handler[h].op, q.key = handler[h].key, q.c = c, q.p = p, q.pc \in {"calling", "returned"},
             DOMAIN exchange' = Packs, \A r \in Packs \ {p} : exchange'[r] = exchange[r],
             UNCHANGED projLock, Adds,
             q.pc = "returned" => \/ q.seen = "none"
                                  \/ q.seen = "imported" /\ imports'[c][p] # {}
      PROVE  LibraryInv'
  <2>1. handler'[h] = q  BY <1>4 DEF LibraryInv, Shapes
  <2>2. Shape(q)  BY <1>2, <1>4 DEF LibraryInv, Shapes, Shape, Placed
  <2>3. Told(h)'
    BY <1>1, <1>2, <1>4, <2>1 DEF LibraryInv, Told, Heard, Activating, Recording, Locking, C, P
  <2> QED BY <1>1, <1>2, <1>4, <2>2, <2>3, BecomesQuietly DEF Calls
<1>5. CASE Copies(h)
  <2>1. /\ Moves(h, "calling") /\ UNCHANGED <<projLock, mcp>>
        /\ exchange' = exchange \/ exchange' = [exchange EXCEPT ![p] = "complete"]
    BY <1>2, <1>5 DEF Copies
  <2>2. PICK q : /\ handler' = [handler EXCEPT ![h] = q] /\ DOMAIN q = Fields /\ q.pc = "calling"
                 /\ q.op = handler[h].op /\ q.p = P(h) /\ q.c = C(h) /\ q.key = handler[h].key
    BY <2>1, MovesFacts DEF LibraryInv
  <2>3. DOMAIN exchange' = Packs /\ \A r \in Packs \ {p} : exchange'[r] = exchange[r]
    BY <2>1 DEF LibraryInv, Shapes
  <2>4. Adds  BY <2>1, AddsNothing DEF LibraryInv
  <2> QED BY <1>2, <1>4, <2>1, <2>2, <2>3, <2>4
<1>6. ASSUME NEW seen, Returns(h, seen), UNCHANGED <<projLock, exchange>>, Adds,
             seen = "none" \/ (seen = "imported" /\ imports'[c][p] # {})
      PROVE  LibraryInv'
  <2> DEFINE q == [handler[h] EXCEPT !.pc = "returned", !.seen = seen]
  <2>1. handler' = [handler EXCEPT ![h] = q]  BY <1>6 DEF Returns
  <2>2. DOMAIN handler[h] = Fields  BY DEF LibraryInv, Shapes, Shape
  <2>3. /\ DOMAIN q = Fields /\ q.pc = "returned" /\ q.seen = seen
        /\ q.op = handler[h].op /\ q.p = p /\ q.c = c /\ q.key = handler[h].key
    BY <1>2, <2>2 DEF Fields, C, P
  <2> HIDE DEF q
  <2>4. DOMAIN exchange' = Packs /\ \A r \in Packs \ {p} : exchange'[r] = exchange[r]
    BY <1>6 DEF LibraryInv, Shapes
  <2> QED BY <1>4, <1>6, <2>1, <2>3, <2>4
<1>7. ASSUME Imports(h), handler[h].key \in Clients \cup {Import}
      PROVE  Adds /\ imports'[c][p] # {}
  <2>1. /\ imports' = [imports EXCEPT ![c][p] = @ \cup {handler[h].key}]
        /\ active' = active
    BY <1>2, <1>7 DEF Imports
  <2>2. imports \in Cells(SUBSET (Clients \cup {Import})) /\ active \in [Campaigns -> SUBSET Packs]
    BY DEF LibraryInv, Shapes
  <2>3. /\ imports' \in Cells(SUBSET (Clients \cup {Import}))
        /\ handler[h].key \in imports'[c][p]
        /\ \A d \in Campaigns, r \in Packs : imports[d][r] \subseteq imports'[d][r]
    BY <1>7, <2>1, <2>2 DEF Cells
  <2> QED BY <2>1, <2>2, <2>3 DEF Adds
<1>8. CASE ImportFails(h)
  <2>1. UNCHANGED <<projLock, exchange>> /\ UNCHANGED mcp /\ Returns(h, "none")
    BY <1>8 DEF ImportFails
  <2>2. Adds  BY <2>1, AddsNothing DEF LibraryInv
  <2> QED BY <1>6, <2>1, <2>2
<1>9. CASE ImportCalls(h) \/ ImportLost(h)
  <2>1. /\ UNCHANGED <<projLock, exchange>> /\ Imports(h)
        /\ Returns(h, "imported") \/ Returns(h, "none")
    BY <1>9 DEF ImportCalls, ImportLost
  <2>2. handler[h].key \in Clients \cup {Import}
    BY <1>1, <1>2 DEF LibraryInv, Shapes, Shape
  <2> QED BY <1>6, <1>7, <2>1, <2>2
<1> QED BY <1>3, <1>5, <1>8, <1>9

LEMMA CleansSteps ==
    ASSUME LibraryInv, NEW h \in Handlers, Cleans(h) \/ AlreadyImported(h)
    PROVE  LibraryInv'
<1>1. UNCHANGED rows /\ UNCHANGED mcp /\ UNCHANGED abandoned
  BY DEF Cleans, AlreadyImported, count
<1>2. Adds  BY <1>1, AddsNothing DEF LibraryInv
<1>3. CASE AlreadyImported(h)
  <2>1. Ends(h) /\ UNCHANGED exchange /\ handler[h].pc = "inserting"
    BY <1>3 DEF AlreadyImported
  <2> QED BY <1>1, <1>2, <2>1, EndsQuietly DEF LibraryInv, Shapes, Calls
<1>4. CASE Cleans(h)
  <2>1. PICK c \in Campaigns, p \in Packs :
            /\ c = C(h) /\ p = P(h) /\ handler[h].op \in {"import", "install"}
            /\ handler[h].key \in Clients \cup {Import}
    BY <1>4 DEF Cleans, LibraryInv, Shapes, Shape, Placed, C, P
  <2>2. /\ exchange' = [exchange EXCEPT ![p] = "none"] /\ handler[h].pc = "returned"
        /\ \/ Ends(h)
           \/ handler[h].seen # "none" /\ Moves(h, "inserting") /\ UNCHANGED projLock
    BY <1>4, <2>1 DEF Cleans
  <2>3. DOMAIN exchange' = Packs /\ exchange'[p] = "none"
        /\ \A r \in Packs \ {p} : exchange'[r] = exchange[r]
    BY <2>2 DEF LibraryInv, Shapes
  <2>4. CASE Ends(h)  BY <1>1, <1>2, <2>1, <2>3, <2>4, EndsQuietly
  <2>5. CASE handler[h].seen # "none" /\ Moves(h, "inserting") /\ UNCHANGED projLock
    <3>1. PICK q : /\ handler' = [handler EXCEPT ![h] = q] /\ handler'[h] = q /\ DOMAIN q = Fields
                   /\ q.pc = "inserting" /\ q.op = handler[h].op /\ q.p = P(h) /\ q.c = C(h)
                   /\ q.key = handler[h].key /\ q.seen = handler[h].seen
      BY <2>5, MovesFacts DEF LibraryInv
    <3>2. Shape(q)  BY <2>1, <3>1 DEF Shape, Placed
    <3>3. handler[h].seen = "imported" /\ imports[c][p] # {}
      BY <2>1, <2>2, <2>5 DEF LibraryInv, Told, Heard
    <3>4. imports'[c][p] # {}  BY <1>2, <3>3 DEF Adds
    <3>5. Told(h)'
      BY <2>1, <2>2, <2>5, <3>1, <3>3, <3>4
      DEF LibraryInv, Told, Heard, Activating, Recording, Locking, C, P
    <3> QED BY <1>1, <1>2, <2>1, <2>3, <2>5, <3>1, <3>2, <3>5, BecomesQuietly
  <2> QED BY <2>2, <2>4, <2>5
<1> QED BY <1>3, <1>4

-----------------------------------------------------------------------------
(* Activation and installation.                                            *)
LEMMA ActivateStartsSteps ==
    ASSUME LibraryInv, NEW h \in Handlers, NEW c \in Campaigns, NEW p \in Packs,
           ActivateStarts(h, c, p)
    PROVE  LibraryInv'
<1> DEFINE q == [Idle EXCEPT !.pc = "activating", !.op = "activate", !.c = c, !.p = p,
                             !.seen = projection[c][p]]
<1>1. /\ handler' = [handler EXCEPT ![h] = q] /\ handler[h].pc = "idle"
      /\ projLock[c][p] = Nobody /\ projLock' = [projLock EXCEPT ![c][p] = h]
      /\ projection[c][p] = "imported" /\ UNCHANGED <<exchange, abandoned>>
      /\ UNCHANGED rows /\ UNCHANGED mcp
  BY DEF ActivateStarts, Opens, TakesProjection, Activatable
<1>2. /\ DOMAIN q = Fields /\ q.pc = "activating" /\ q.op = "activate" /\ q.c = c /\ q.p = p
  BY DEF Idle, Fields
<1> HIDE DEF q
<1>3. Shape(q)  BY <1>2 DEF Shape, Placed
<1>4. DOMAIN handler' = Handlers /\ handler'[h] = q /\ Alone(h)
  BY <1>1 DEF LibraryInv, Shapes, Alone
<1>5. /\ projLock' \in Cells(Handlers \cup {Nobody}) /\ projLock'[c][p] = h
      /\ \A d \in Campaigns, r \in Packs :
            d # c \/ r # p => projLock'[d][r] = projLock[d][r]
  BY <1>1 DEF LibraryInv, Shapes, Cells
<1>6. Adds  BY <1>1, AddsNothing DEF LibraryInv
<1>7. Shapes'
  <2>1. \A k \in Handlers : Shape(handler'[k])  BY <1>3, <1>4 DEF LibraryInv, Shapes, Alone
  <2> QED BY <1>1, <1>4, <1>5, <1>6, <2>1 DEF LibraryInv, Shapes, Adds, rows
<1>8. Spares(h)
  <2>1. \A d \in Campaigns, r \in Packs, k \in Handlers \ {h} :
            projLock'[d][r] = k <=> projLock[d][r] = k
    BY <1>1, <1>5, LibraryAssumption
  <2> QED BY <1>1, <1>4, <1>6, <2>1 DEF Spares, Adds, rows
<1>9. Told(h)'
  <2>1. Locking(h)'  BY <1>1, <1>2, <1>4, <1>5 DEF LibraryInv, Told, Locking, C, P
  <2> QED BY <1>1, <1>2, <1>4, <1>5, <2>1 DEF Told, Heard, Activating, Recording, C, P, rows
<1>10. Tidies(h)  BY <1>1, <1>4 DEF Tidies, Calls
<1>11. RowsFollowAuthority'  BY <1>1, <1>6, RowsKept DEF LibraryInv, Adds
<1> QED BY <1>7, <1>8, <1>9, <1>10, <1>11, SoundInv DEF Sound

LEMMA InstallStartsSteps ==
    ASSUME LibraryInv, NEW h \in Handlers, NEW c \in Campaigns, NEW p \in Packs,
           NEW key \in Clients, NEW a \in BOOLEAN, InstallStarts(h, c, p, key, a)
    PROVE  LibraryInv'
<1> DEFINE r == Installing(c, p, key, a)
<1>1. /\ DOMAIN r = Fields /\ r.op = "install" /\ r.c = c /\ r.p = p /\ r.key = key
      /\ r.activate = a
  BY DEF Installing, Idle, Fields
<1>2. CASE CopyStarts(h, r)
  <2> HIDE DEF r
  <2> QED BY <1>1, <1>2, CopyStartsSteps
<1>3. CASE ~CopyStarts(h, r)
  <2> DEFINE q == [r EXCEPT !.seen = projection[c][p], !.pc = Wanted(r, projection[c][p])]
  <2>1. /\ projection[c][p] # "none" /\ handler[h].pc = "idle"
        /\ handler' = [handler EXCEPT ![h] = q]
        /\ UNCHANGED <<exchange, projLock, abandoned>> /\ UNCHANGED rows /\ UNCHANGED mcp
    BY <1>3 DEF InstallStarts, Opens
  <2> HIDE DEF r
  <2>2. /\ DOMAIN q = Fields /\ q.op = "install" /\ q.c = c /\ q.p = p /\ q.key = key
        /\ q.activate = a /\ q.seen = projection[c][p] /\ q.pc = Wanted(r, projection[c][p])
    BY <1>1 DEF Fields
  <2> HIDE DEF q
  <2>3. /\ q.pc \in {"activating", "recording"}
        /\ q.pc = "recording" /\ q.activate => q.seen = "activated"
        /\ q.pc = "activating" => q.activate
    BY <1>1, <2>2 DEF Wanted
  <2>4. Shape(q)  BY <2>2, <2>3 DEF Shape, Placed
  <2>5. handler'[h] = q  BY <2>1 DEF LibraryInv, Shapes
  <2>6. projection[c][p] \in {"imported", "activated"}
    BY <2>1 DEF LibraryInv, Shapes, Cells
  <2>7. imports[c][p] # {} /\ (projection[c][p] = "activated" => p \in active[c])
    BY <2>1 DEF LibraryInv, RowsFollowAuthority
  <2>8. projLock[c][p] # h
    BY <2>1 DEF LibraryInv, Told, Locking
  <2>9. Told(h)'
    <3>1. Locking(h)'  BY <2>1, <2>5 DEF LibraryInv, Told, Locking
    <3> QED BY <2>1, <2>2, <2>3, <2>5, <2>6, <2>7, <2>8, <3>1
        DEF Told, Heard, Activating, Recording, C, P, rows, mcp
  <2>10. Adds  BY <2>1, AddsNothing DEF LibraryInv
  <2> QED BY <2>1, <2>2, <2>3, <2>4, <2>9, <2>10, BecomesQuietly DEF LibraryInv, Shapes, Calls
<1> QED BY <1>2, <1>3

LEMMA InstallInsertsSteps ==
    ASSUME LibraryInv, NEW h \in Handlers, InstallInserts(h)
    PROVE  LibraryInv'
<1>1. /\ handler[h].pc = "inserting" /\ handler[h].op = "install" /\ Insertable(h)
      /\ Moves(h, Wanted(handler[h], "imported"))
      /\ UNCHANGED <<exchange, abandoned>> /\ UNCHANGED rows /\ UNCHANGED mcp
  BY DEF InstallInserts, At, count
<1>2. PICK c \in Campaigns, p \in Packs :
          c = C(h) /\ p = P(h) /\ handler[h].key \in Clients \cup {Import}
  BY <1>1 DEF LibraryInv, Shapes, Shape, Placed, C, P
<1>3. /\ projLock[c][p] \in {Nobody, h} /\ projection[c][p] = "none"
      /\ projLock' = [projLock EXCEPT ![c][p] = h]
  BY <1>1, <1>2 DEF Insertable, Unlocked, InstallInserts
<1>4. PICK q : /\ handler' = [handler EXCEPT ![h] = q] /\ handler'[h] = q /\ DOMAIN q = Fields
               /\ q.pc = Wanted(handler[h], "imported") /\ q.op = "install" /\ q.p = p /\ q.c = c
               /\ q.key = handler[h].key /\ q.seen = handler[h].seen
               /\ q.activate = handler[h].activate
  BY <1>1, <1>2, MovesFacts DEF LibraryInv
<1>5. /\ q.pc \in {"activating", "recording"}
      /\ q.pc = "recording" <=> ~q.activate
  BY <1>4 DEF Wanted
<1>6. Shape(q)  BY <1>2, <1>4, <1>5 DEF Shape, Placed
<1>7. DOMAIN handler' = Handlers /\ Alone(h)  BY <1>4 DEF LibraryInv, Shapes, Alone
<1>8. /\ projLock' \in Cells(Handlers \cup {Nobody}) /\ projLock'[c][p] = h
      /\ \A d \in Campaigns, r \in Packs :
            d # c \/ r # p => projLock'[d][r] = projLock[d][r]
  BY <1>3 DEF LibraryInv, Shapes, Cells
<1>9. Adds  BY <1>1, AddsNothing DEF LibraryInv
<1>10. Shapes'
  <2>1. \A k \in Handlers : Shape(handler'[k])
    BY <1>4, <1>6, <1>7 DEF LibraryInv, Shapes, Alone
  <2> QED BY <1>1, <1>7, <1>8, <1>9, <2>1 DEF LibraryInv, Shapes, Adds, rows
<1>11. Spares(h)
  <2>1. \A d \in Campaigns, r \in Packs, k \in Handlers \ {h} :
            projLock'[d][r] = k <=> projLock[d][r] = k
    BY <1>3, <1>8, LibraryAssumption
  <2> QED BY <1>1, <1>7, <1>9, <2>1 DEF Spares, Adds, rows
<1>12. handler[h].seen = "imported" /\ imports[c][p] # {}
  BY <1>1, <1>2 DEF LibraryInv, Told, Heard
<1>13. Told(h)'
  <2>1. Locking(h)'  BY <1>1, <1>2, <1>4, <1>5, <1>8 DEF LibraryInv, Told, Locking, C, P
  <2>2. Recording(h)'
    BY <1>1, <1>3, <1>4, <1>5, <1>8, <1>12 DEF Recording, C, P, rows, mcp
  <2> QED BY <1>4, <1>5, <2>1, <2>2 DEF Told, Heard, Activating
<1>14. Tidies(h)  BY <1>1, <1>7 DEF Tidies, Calls
<1>15. RowsFollowAuthority'  BY <1>1, <1>9, RowsKept DEF LibraryInv, Adds
<1> QED BY <1>10, <1>11, <1>13, <1>14, <1>15, SoundInv DEF Sound

LEMMA ActivatesAdds ==
    ASSUME LibraryInv, NEW h \in Handlers, Activates(h), C(h) \in Campaigns, P(h) \in Packs
    PROVE  Adds /\ P(h) \in active'[C(h)]
<1>1. active' = [active EXCEPT ![C(h)] = @ \cup {P(h)}] /\ imports' = imports
  BY DEF Activates
<1> QED BY <1>1 DEF Adds, LibraryInv, Shapes

LEMMA ActivateSteps ==
    ASSUME LibraryInv, NEW h \in Handlers,
           ActivateCalls(h) \/ ActivateRefused(h) \/ ActivateLost(h) \/ InstalledTwice(h)
    PROVE  LibraryInv'
<1>1. /\ handler[h].pc \in {"activating", "recording"}
      /\ UNCHANGED <<exchange, abandoned>> /\ UNCHANGED rows
  BY DEF ActivateCalls, ActivateRefused, ActivateLost, InstalledTwice, At, count
<1>2. PICK c \in Campaigns, p \in Packs :
          c = C(h) /\ p = P(h) /\ handler[h].op \in {"install", "activate"}
  BY <1>1 DEF LibraryInv, Shapes, Shape, Placed, C, P
<1>3. ActivateLost(h) => Adds  BY <1>2, ActivatesAdds DEF ActivateLost
<1>4. CASE ActivateRefused(h) \/ ActivateLost(h) \/ InstalledTwice(h)
  <2>1. Ends(h)  BY <1>4 DEF ActivateRefused, ActivateLost, InstalledTwice
  <2>2. Adds
    BY <1>3, <1>4, AddsNothing DEF LibraryInv, ActivateRefused, InstalledTwice
  <2> QED BY <1>1, <2>1, <2>2, EndsQuietly DEF LibraryInv, Shapes, Calls
<1>5. CASE ActivateCalls(h)
  <2> DEFINE q == [handler[h] EXCEPT !.pc = "recording", !.seen = "activated"]
  <2>1. /\ handler' = [handler EXCEPT ![h] = q] /\ Activates(h) /\ UNCHANGED projLock
        /\ handler[h].pc = "activating"
    BY <1>5 DEF ActivateCalls
  <2>2. DOMAIN handler[h] = Fields  BY DEF LibraryInv, Shapes, Shape
  <2>3. /\ DOMAIN q = Fields /\ q.pc = "recording" /\ q.seen = "activated"
        /\ q.op = handler[h].op /\ q.p = p /\ q.c = c /\ q.key = handler[h].key
        /\ q.activate = handler[h].activate
    BY <1>2, <2>2 DEF Fields, C, P
  <2> HIDE DEF q
  <2>4. Shape(q)  BY <1>2, <2>3 DEF LibraryInv, Shapes, Shape, Placed
  <2>5. handler'[h] = q  BY <2>1 DEF LibraryInv, Shapes
  <2>6. Adds /\ p \in active'[c]  BY <1>2, <2>1, ActivatesAdds
  <2>7. Told(h)
    BY DEF LibraryInv
  <2>8. Locking(h)'  BY <1>2, <2>1, <2>3, <2>5, <2>7 DEF Told, Locking, C, P
  <2>9. Activating(h)'
    BY <1>1, <1>2, <2>1, <2>3, <2>5, <2>6, <2>7 DEF Told, Activating, C, P, rows
  <2>10. Recording(h)'
    <3>1. handler[h].op = "install" => handler[h].activate
      BY <2>1 DEF LibraryInv, Told, Recording
    <3> QED BY <1>1, <1>2, <2>1, <2>3, <2>5, <2>6, <2>7, <3>1
            DEF Told, Recording, C, P, rows, Adds
  <2>11. Told(h)'  BY <2>3, <2>5, <2>8, <2>9, <2>10 DEF Told, Heard
  <2> QED BY <1>1, <2>1, <2>3, <2>4, <2>6, <2>11, BecomesQuietly DEF LibraryInv, Shapes, Calls
<1> QED BY <1>4, <1>5

-----------------------------------------------------------------------------
(* The commits of projections and installations.                           *)
LEMMA CommitsSoundly ==
    ASSUME LibraryInv, NEW h \in Handlers, Ends(h), UNCHANGED <<exchange, abandoned>>,
           UNCHANGED mcp, handler[h].pc \notin Calls,
           projection' \in Cells({"none", "imported", "activated"}),
           installed' \in Cells({"none", "installed", "activated"}),
           \A c \in Campaigns, p \in Packs :
               \/ projection'[c][p] = projection[c][p]
               \/ /\ projLock[c][p] \in {Nobody, h} /\ projection'[c][p] # "none"
                  /\ projection[c][p] = "activated" => projection'[c][p] = "activated",
           RowsFollowAuthority'
    PROVE  LibraryInv'
<1>1. /\ DOMAIN handler' = Handlers /\ handler'[h] = Idle /\ Alone(h)
      /\ projLock' \in Cells(Handlers \cup {Nobody})
      /\ \A c \in Campaigns, p \in Packs, k \in Handlers \ {h} :
                 projLock'[c][p] = k <=> projLock[c][p] = k
      /\ \A c \in Campaigns, p \in Packs : projLock'[c][p] # h
  BY EndsFacts DEF LibraryInv
<1>2. Adds  BY AddsNothing DEF LibraryInv
<1>3. Shapes'
  <2>1. \A k \in Handlers : Shape(handler'[k])  BY <1>1, IdleFacts DEF LibraryInv, Shapes, Alone
  <2> QED BY <1>1, <1>2, <2>1 DEF LibraryInv, Shapes, Adds
<1>4. Spares(h)  BY <1>1, <1>2 DEF Spares, Adds
<1>5. Told(h)'  BY <1>1, IdleFacts DEF Told, Heard, Activating, Recording, Locking
<1>6. Tidies(h)  BY <1>1 DEF Tidies
<1> QED BY <1>3, <1>4, <1>5, <1>6, SoundInv DEF Sound

LEMMA CommitSteps ==
    ASSUME LibraryInv, NEW h \in Handlers,
           ImportCommits(h) \/ ActivateCommits(h) \/ InstallCommits(h)
    PROVE  LibraryInv'
<1>1. /\ Ends(h) /\ UNCHANGED <<exchange, abandoned>> /\ UNCHANGED mcp
      /\ handler[h].pc \in {"inserting", "recording"}
      /\ handler[h].op \in Placed
  BY DEF ImportCommits, ActivateCommits, InstallCommits, At, count, Placed
<1>2. PICK c \in Campaigns, p \in Packs : c = C(h) /\ p = P(h)
  BY <1>1 DEF LibraryInv, Shapes, Shape, C, P
<1>3. /\ projection \in Cells({"none", "imported", "activated"})
      /\ installed \in Cells({"none", "installed", "activated"})
      /\ RowsFollowAuthority /\ Told(h)
  BY DEF LibraryInv, Shapes
<1>4. CASE ImportCommits(h)
  <2>1. /\ projection[c][p] = "none" /\ projLock[c][p] \in {Nobody, h}
        /\ projection' = [projection EXCEPT ![c][p] = "imported"] /\ installed' = installed
        /\ handler[h].pc = "inserting" /\ handler[h].op = "import"
    BY <1>2, <1>4 DEF ImportCommits, Insertable, Unlocked, At
  <2>2. /\ projection' \in Cells({"none", "imported", "activated"})
        /\ projection'[c][p] = "imported"
        /\ \A d \in Campaigns, r \in Packs :
              d # c \/ r # p => projection'[d][r] = projection[d][r]
    BY <1>3, <2>1 DEF Cells
  <2>3. imports[c][p] # {}  BY <1>2, <1>3, <2>1 DEF Told, Heard
  <2>4. RowsFollowAuthority'  BY <1>1, <1>3, <2>1, <2>2, <2>3 DEF RowsFollowAuthority, mcp
  <2> QED BY <1>1, <1>3, <2>1, <2>2, <2>4, CommitsSoundly DEF Calls
<1>5. CASE ActivateCommits(h)
  <2>1. /\ projection' = [projection EXCEPT ![c][p] = "activated"] /\ installed' = installed
        /\ handler[h].pc = "recording" /\ handler[h].op = "activate"
    BY <1>2, <1>5 DEF ActivateCommits, At
  <2>2. /\ projection' \in Cells({"none", "imported", "activated"})
        /\ projection'[c][p] = "activated"
        /\ \A d \in Campaigns, r \in Packs :
              d # c \/ r # p => projection'[d][r] = projection[d][r]
    BY <1>3, <2>1 DEF Cells
  <2>3. projLock[c][p] = h /\ projection[c][p] # "none" /\ p \in active[c]
    BY <1>2, <1>3, <2>1 DEF Told, Activating
  <2>4. RowsFollowAuthority'  BY <1>1, <1>3, <2>1, <2>2, <2>3 DEF RowsFollowAuthority, mcp
  <2> QED BY <1>1, <1>3, <2>1, <2>2, <2>3, <2>4, CommitsSoundly DEF Calls
<1>6. CASE InstallCommits(h)
  <2> DEFINE seen == handler[h].seen
  <2>1. /\ handler[h].pc = "recording" /\ handler[h].op = "install"
        /\ projLock[c][p] \in {Nobody, h}
        /\ projection' = IF Changed(h) THEN [projection EXCEPT ![c][p] = seen] ELSE projection
        /\ installed' = [installed EXCEPT ![c][p] =
                            IF seen = "activated" THEN "activated" ELSE "installed"]
    BY <1>2, <1>6 DEF InstallCommits, At, Unlocked
  <2>2. /\ seen \in {"imported", "activated"} /\ imports[c][p] # {}
        /\ projLock[c][p] = h <=> projection[c][p] = "none"
        /\ seen = "activated" => p \in active[c]
        /\ handler[h].activate => seen = "activated"
        /\ seen = "activated" /\ ~handler[h].activate => projection[c][p] = "activated"
    BY <1>2, <1>3, <2>1 DEF Told, Recording
  <2>3. Changed(h) <=> projLock[c][p] = h \/ (handler[h].activate /\ seen = "activated")
    BY <1>2 DEF Changed
  <2>4. /\ installed' \in Cells({"none", "installed", "activated"})
        /\ installed'[c][p] = IF seen = "activated" THEN "activated" ELSE "installed"
        /\ \A d \in Campaigns, r \in Packs :
              d # c \/ r # p => installed'[d][r] = installed[d][r]
    BY <1>3, <2>1 DEF Cells
  <2>5. /\ projection' \in Cells({"none", "imported", "activated"})
        /\ projection'[c][p] = IF Changed(h) THEN seen ELSE projection[c][p]
        /\ \A d \in Campaigns, r \in Packs :
              d # c \/ r # p => projection'[d][r] = projection[d][r]
    BY <1>3, <2>1, <2>2 DEF Cells
  <2>6. /\ projection'[c][p] # "none"
        /\ projection'[c][p] = "activated" => p \in active[c]
        /\ seen = "activated" => projection'[c][p] = "activated"
        /\ projection[c][p] = "activated" => projection'[c][p] = "activated"
    BY <1>3, <2>2, <2>3, <2>5 DEF RowsFollowAuthority
  <2>7. RowsFollowAuthority'
    BY <1>1, <1>3, <2>2, <2>4, <2>5, <2>6 DEF RowsFollowAuthority, mcp
  <2>8. \A d \in Campaigns, r \in Packs :
            \/ projection'[d][r] = projection[d][r]
            \/ /\ projLock[d][r] \in {Nobody, h} /\ projection'[d][r] # "none"
               /\ projection[d][r] = "activated" => projection'[d][r] = "activated"
    BY <2>1, <2>5, <2>6
  <2> QED BY <1>1, <2>1, <2>4, <2>5, <2>7, <2>8, CommitsSoundly DEF Calls
<1> QED BY <1>4, <1>5, <1>6

LEMMA DiesSteps ==
    ASSUME LibraryInv, NEW h \in Handlers, Dies(h)
    PROVE  LibraryInv'
<1>1. /\ Ends(h) /\ UNCHANGED exchange /\ UNCHANGED rows /\ UNCHANGED mcp
      /\ abandoned' = (abandoned \/ h \in Using(P(h)))
  BY DEF Dies
<1>2. Adds  BY <1>1, AddsNothing DEF LibraryInv
<1>3. handler[h].pc \in Calls => abandoned'  BY <1>1 DEF Using, Calls
<1>4. abandoned => abandoned'  BY <1>1
<1> QED BY <1>1, <1>2, <1>3, <1>4, EndsQuietly DEF LibraryInv, Shapes

-----------------------------------------------------------------------------
(* The specification.                                                      *)
LEMMA InvInit == LibraryInit => LibraryInv
<1> SUFFICES ASSUME LibraryInit PROVE LibraryInv  OBVIOUS
<1>1. /\ handler = [h \in Handlers |-> Idle] /\ exchange = [p \in Packs |-> "none"]
      /\ projection = [c \in Campaigns |-> [p \in Packs |-> "none"]]
      /\ projLock = [c \in Campaigns |-> [p \in Packs |-> Nobody]]
      /\ installed = [c \in Campaigns |-> [p \in Packs |-> "none"]]
      /\ imports = [c \in Campaigns |-> [p \in Packs |-> {}]]
      /\ active = [c \in Campaigns |-> {}]
  BY DEF LibraryInit
<1>2. \A h \in Handlers : handler[h] = Idle  BY <1>1
<1>3. Shapes  BY <1>1, <1>2, IdleFacts DEF Shapes, Cells
<1>4. \A h \in Handlers : Told(h)
  BY <1>1, <1>2, IdleFacts, LibraryAssumption DEF Told, Heard, Activating, Recording, Locking
<1>5. ExchangeIsCleaned  BY <1>1 DEF ExchangeIsCleaned
<1>6. RowsFollowAuthority  BY <1>1 DEF RowsFollowAuthority
<1> QED BY <1>3, <1>4, <1>5, <1>6 DEF LibraryInv

\* A step that no request takes.
LEMMA StillInv ==
    ASSUME LibraryInv, UNCHANGED <<handler, exchange, projLock, abandoned>>, UNCHANGED rows,
           UNCHANGED mcp
    PROVE  LibraryInv'
<1>1. Shapes'  BY DEF LibraryInv, Shapes, rows, mcp
<1>2. \A h \in Handlers : Told(h)'
  BY DEF LibraryInv, Told, Heard, Activating, Recording, Locking, C, P, rows, mcp
<1>3. ExchangeIsCleaned'  BY DEF LibraryInv, ExchangeIsCleaned, Using, P
<1>4. RowsFollowAuthority'  BY DEF LibraryInv, RowsFollowAuthority, rows, mcp
<1> QED BY <1>1, <1>2, <1>3, <1>4 DEF LibraryInv

LEMMA InvNext == LibraryInv /\ [LibraryNext]_libraryVars => LibraryInv'
<1> SUFFICES ASSUME LibraryInv, [LibraryNext]_libraryVars PROVE LibraryInv'  OBVIOUS
<1>1. CASE \E size \in Sizes : WorkerStores(size)
  <2>1. UNCHANGED <<handler, exchange, projLock, abandoned>> /\ UNCHANGED rows /\ UNCHANGED mcp
    BY <1>1 DEF WorkerStores, count
  <2> QED BY <2>1, StillInv
<1>2. CASE UNCHANGED libraryVars
  <2>1. UNCHANGED <<handler, exchange, projLock, abandoned>> /\ UNCHANGED rows /\ UNCHANGED mcp
    BY <1>2 DEF libraryVars, count
  <2> QED BY <2>1, StillInv
<1>3. ASSUME NEW h \in Handlers, NEW c \in Campaigns, NEW p \in Packs, ImportStarts(h, c, p)
      PROVE  LibraryInv'
  <2> DEFINE q == [Idle EXCEPT !.op = "import", !.c = c, !.p = p, !.key = Import]
  <2>1. DOMAIN q = Fields /\ q.c = c /\ q.p = p /\ q.op = "import" /\ q.key = Import
    BY DEF Idle, Fields
  <2>2. CopyStarts(h, q)  BY <1>3 DEF ImportStarts
  <2> HIDE DEF q
  <2> QED BY <2>1, <2>2, CopyStartsSteps
<1>4. ASSUME NEW h \in Handlers, NEW c \in Campaigns, NEW p \in Packs,
             \/ ImportStarts(h, c, p) \/ ActivateStarts(h, c, p)
             \/ \E k \in Clients, a \in BOOLEAN : InstallStarts(h, c, p, k, a)
      PROVE  LibraryInv'
  BY <1>3, <1>4, ActivateStartsSteps, InstallStartsSteps
<1>5. ASSUME NEW h \in Handlers,
             \/ \E size \in Sizes : SourceStarts(h, size) \/ \E p \in Packs : UploadStarts(h, p, size)
             \/ UploadInserts(h) \/ Allowed(h) \/ Exhausted(h)
             \/ Stores(h) \/ TooLarge(h) \/ UploadCommits(h)
      PROVE  LibraryInv'
  BY <1>5, UploadSteps
<1>6. ASSUME NEW h \in Handlers,
             \/ Copies(h) \/ CopyFails(h) \/ ImportCalls(h) \/ ImportFails(h) \/ ImportLost(h)
             \/ Cleans(h) \/ ImportCommits(h) \/ AlreadyImported(h) \/ InstallInserts(h)
             \/ ActivateCalls(h) \/ ActivateRefused(h) \/ ActivateLost(h) \/ ActivateCommits(h)
             \/ InstallCommits(h) \/ InstalledTwice(h) \/ Dies(h)
      PROVE  LibraryInv'
  BY <1>6, CopySteps, CleansSteps, CommitSteps, InstallInsertsSteps, ActivateSteps, DiesSteps
<1> QED BY <1>1, <1>2, <1>4, <1>5, <1>6 DEF LibraryNext

LEMMA LibraryInvAlways == LibrarySpec => []LibraryInv
<1>1. LibraryInit => LibraryInv  BY InvInit
<1>2. LibraryInv /\ [LibraryNext]_libraryVars => LibraryInv'  BY InvNext
<1> QED BY <1>1, <1>2, PTL DEF LibrarySpec

\* While no process died between its copy and its clean-up, a file on the exchange
\* volume is one that a request is copying or importing (`import_private_pack`,
\* `install_release`), however many of them share its path and however they fail.
THEOREM ExchangeCleaned == LibrarySpec => []ExchangeIsCleaned
<1>1. LibraryInv => ExchangeIsCleaned  BY DEF LibraryInv
<1> QED BY <1>1, LibraryInvAlways, PTL

\* A projection or an installation that was committed claims no import and no
\* activation the authority has not made, and an installation never more than its
\* projection, whichever requests overlap, lose their answers or die
\* (`activate_private_pack`, `install_release`).
THEOREM RowsFollow == LibrarySpec => []RowsFollowAuthority
<1>1. LibraryInv => RowsFollowAuthority  BY DEF LibraryInv
<1> QED BY <1>1, LibraryInvAlways, PTL

-----------------------------------------------------------------------------
(* The storage quota.                                                      *)
Storing == {"storing", "stored"}

\* Whoever copies bytes holds the row of the user, and its allowance still fits into
\* what the quota leaves; what was copied is within the allowance.
Carries(q) == q.op \in {"upload", "source"} => q.bytes \in Nat /\ (q.op = "upload" => q.p \in Packs)
Allots(h) ==
    /\ Carries(handler[h])
    /\ handler[h].pc \in Storing =>
          userLock = h /\ handler[h].limit \in Int /\ Uploaded + handler[h].limit <= Quota
    /\ handler[h].pc = "stored" => handler[h].bytes <= handler[h].limit
StorageInv ==
    /\ pack \in [Packs -> Nat] /\ sources \in Nat /\ generated \in Nat
    /\ \A h \in Handlers : Allots(h)
    /\ StorageBounded

\* What is uploaded, as the sum of the values of a function; the same after a step.
LEMMA UploadedSums ==
    /\ Uploaded = Total(pack, DOMAIN pack) + sources
    /\ Uploaded' = Total(pack', DOMAIN pack') + sources'
  BY DEF Uploaded, SumFunction, SumFunctionOnSet, FoldFunctionOnSet, MapThenFoldSet, Total, Solves

LEMMA UploadedIsInt ==
    ASSUME StorageInv PROVE Uploaded \in Nat
<1>1. IsFiniteSet(Packs) /\ DOMAIN pack = Packs /\ \A p \in Packs : pack[p] \in Nat
  BY LibraryAssumption DEF StorageInv
<1>2. Total(pack, Packs) \in Nat  BY <1>1, SumIsNat
<1> QED BY <1>1, <1>2, UploadedSums DEF StorageInv

\* A Pack that is written adds no more than its size.
LEMMA UploadedGrows ==
    ASSUME StorageInv, NEW p \in Packs, NEW n \in Nat, pack' = [pack EXCEPT ![p] = n],
           UNCHANGED sources
    PROVE  Uploaded' \in Nat /\ Uploaded' <= Uploaded + n
<1> DEFINE R == Packs \ {p}
<1>1. /\ IsFiniteSet(Packs) /\ IsFiniteSet(R) /\ DOMAIN pack = Packs /\ DOMAIN pack' = Packs
      /\ pack'[p] = n /\ \A q \in Packs : pack[q] \in Nat /\ pack'[q] \in Nat
      /\ \A q \in R : pack'[q] = pack[q]
  BY LibraryAssumption, FS_Subset DEF StorageInv
<1>2. Total(pack, Packs) = pack[p] + Total(pack, R)
  BY <1>1, SumWithout
<1>3. Total(pack', Packs) = n + Total(pack', R)
  <2>1. \A f : (\A q \in Packs : f[q] \in Int) => Total(f, Packs) = f[p] + Total(f, R)
    BY <1>1, SumWithout
  <2>2. \A q \in Packs : pack'[q] \in Int
    BY <1>1
  <2> HIDE DEF R
  <2> QED BY <1>1, <2>1, <2>2
<1>4. Total(pack', R) = Total(pack, R)
  BY <1>1, SumOfEqual
<1>5. Total(pack, R) \in Nat
  BY <1>1, SumIsNat
<1> HIDE DEF R
<1>6. sources \in Nat /\ pack[p] \in Nat
  BY <1>1 DEF StorageInv
<1> QED BY <1>1, <1>2, <1>3, <1>4, <1>5, <1>6, UploadedSums

LEMMA SameUploaded == ASSUME UNCHANGED <<pack, sources>> PROVE Uploaded' = Uploaded
  BY UploadedSums

\* A request that carries on without storing leaves the others their allowance.
LEMMA FitsOn ==
    ASSUME StorageInv, NEW h \in Handlers, Alone(h), UNCHANGED <<pack, sources, generated>>,
           \A k \in Handlers \ {h} : userLock = k => userLock' = k, Allots(h)'
    PROVE  StorageInv'
<1>1. Uploaded' = Uploaded  BY SameUploaded
<1>2. \A k \in Handlers : Allots(k)'  BY <1>1 DEF StorageInv, Allots, Alone
<1> QED BY <1>1, <1>2 DEF StorageInv, StorageBounded

LEMMA EndsFits ==
    ASSUME Shapes, StorageInv, NEW h \in Handlers, Ends(h), UNCHANGED <<pack, sources, generated>>
    PROVE  StorageInv'
<1>1. Alone(h) /\ handler'[h] = Idle /\ userLock' = Freed(userLock, h)  BY EndsFacts DEF Ends
<1>2. Allots(h)'  BY <1>1 DEF Allots, Idle, Carries, Storing
<1>3. \A k \in Handlers \ {h} : userLock = k => userLock' = k  BY <1>1 DEF Freed
<1> QED BY <1>1, <1>2, <1>3, FitsOn

LEMMA BecomesFits ==
    ASSUME Shapes, StorageInv, NEW h \in Handlers, NEW q, handler' = [handler EXCEPT ![h] = q],
           UNCHANGED <<pack, sources, generated, userLock>>, Carries(q), q.pc \notin Storing
    PROVE  StorageInv'
<1>1. Alone(h) /\ handler'[h] = q  BY DEF Shapes, Alone
<1>2. Allots(h)'  BY <1>1 DEF Allots, Storing
<1> QED BY <1>1, <1>2, FitsOn

LEMMA MovesFits ==
    ASSUME Shapes, StorageInv, NEW h \in Handlers, NEW pc, Moves(h, pc), pc \notin Storing,
           UNCHANGED <<pack, sources, generated, userLock>>
    PROVE  StorageInv'
<1>1. PICK q : /\ handler' = [handler EXCEPT ![h] = q] /\ q.pc = pc
               /\ q.op = handler[h].op /\ q.p = handler[h].p /\ q.bytes = handler[h].bytes
  BY MovesFacts DEF P
<1>2. Carries(q)  BY <1>1 DEF StorageInv, Allots, Carries
<1> QED BY <1>1, <1>2, BecomesFits

\* A request that uploads opens without storing.
LEMMA OpensFits ==
    ASSUME LibraryInv, StorageInv, NEW h \in Handlers,
           \E size \in Sizes : SourceStarts(h, size) \/ \E p \in Packs : UploadStarts(h, p, size)
    PROVE  StorageInv'
<1>1. PICK size \in Sizes : SourceStarts(h, size) \/ \E p \in Packs : UploadStarts(h, p, size)
  OBVIOUS
<1>2. size \in Nat  BY LibraryAssumption
<1>3. CASE SourceStarts(h, size)
  <2> DEFINE q == [Idle EXCEPT !.pc = "locking", !.op = "source", !.bytes = size]
  <2>1. handler' = [handler EXCEPT ![h] = q] /\ UNCHANGED <<pack, sources, generated, userLock>>
    BY <1>3 DEF SourceStarts, Opens, library
  <2>2. Carries(q) /\ q.pc \notin Storing  BY <1>2 DEF Carries, Storing, Idle
  <2> HIDE DEF q
  <2> QED BY <2>1, <2>2, BecomesFits DEF LibraryInv
<1>4. ASSUME NEW p \in Packs, UploadStarts(h, p, size) PROVE StorageInv'
  <2> DEFINE q == [Idle EXCEPT !.pc = "inserting", !.op = "upload", !.p = p, !.bytes = size]
  <2>1. handler' = [handler EXCEPT ![h] = q] /\ UNCHANGED <<pack, sources, generated, userLock>>
    BY <1>4 DEF UploadStarts, Opens, library
  <2>2. Carries(q) /\ q.pc \notin Storing  BY <1>2 DEF Carries, Storing, Idle
  <2> HIDE DEF q
  <2> QED BY <2>1, <2>2, BecomesFits DEF LibraryInv
<1> QED BY <1>1, <1>3, <1>4

\* The allowance is what the quota leaves while nobody else stores.
LEMMA AllowedFits ==
    ASSUME LibraryInv, StorageInv, NEW h \in Handlers, Allowed(h)
    PROVE  StorageInv'
<1> DEFINE n == Min({FileLimit, Remaining})
           q == [handler[h] EXCEPT !.pc = "storing", !.limit = n]
<1>1. /\ handler' = [handler EXCEPT ![h] = q] /\ UNCHANGED <<pack, sources, generated>>
      /\ userLock = Nobody /\ userLock' = h
  BY DEF Allowed, TakesUser
<1>2. n \in Int /\ n <= Remaining /\ Remaining = Quota - Uploaded - generated
  <2>1. FileLimit \in Int /\ Remaining \in Int
    BY UploadedIsInt, LibraryAssumption DEF Remaining, StorageInv
  <2>2. \E x \in {FileLimit, Remaining} : \A y \in {FileLimit, Remaining} : x <= y
    BY <2>1
  <2>3. n \in {FileLimit, Remaining} /\ \A y \in {FileLimit, Remaining} : n <= y
    BY <2>2 DEF Min
  <2> QED BY <2>1, <2>3 DEF Remaining
<1> HIDE DEF n
<1>3. /\ DOMAIN handler[h] = Fields /\ DOMAIN handler = Handlers
      /\ h # Nobody
  BY LibraryAssumption DEF LibraryInv, Shapes, Shape
<1>4. /\ q.pc = "storing" /\ q.limit = n /\ q.op = handler[h].op /\ q.p = handler[h].p
      /\ q.bytes = handler[h].bytes
  BY <1>3 DEF Fields
<1> HIDE DEF q
<1>5. Alone(h) /\ handler'[h] = q  BY <1>1, <1>3 DEF Alone
<1>6. Uploaded' = Uploaded /\ Uploaded \in Nat  BY <1>1, SameUploaded, UploadedIsInt
<1>7. Allots(h)'
  <2>1. Carries(q)  BY <1>4 DEF StorageInv, Allots, Carries
  <2>2. Uploaded + n <= Quota
    BY <1>2, <1>6, LibraryAssumption DEF StorageInv
  <2> QED BY <1>1, <1>2, <1>4, <1>5, <1>6, <2>1, <2>2 DEF Allots
<1>8. \A k \in Handlers \ {h} : userLock = k => userLock' = k  BY <1>1, LibraryAssumption
<1> QED BY <1>1, <1>5, <1>7, <1>8, FitsOn

LEMMA StoresFits ==
    ASSUME LibraryInv, StorageInv, NEW h \in Handlers, Stores(h)
    PROVE  StorageInv'
<1>1. /\ Moves(h, "stored") /\ UNCHANGED <<pack, sources, generated, userLock>>
      /\ handler[h].pc = "storing" /\ handler[h].bytes <= handler[h].limit
  BY DEF Stores, library
<1>2. PICK q : /\ handler' = [handler EXCEPT ![h] = q] /\ q.op = handler[h].op
               /\ q.p = handler[h].p /\ q.bytes = handler[h].bytes /\ q.limit = handler[h].limit
  BY <1>1, MovesFacts DEF P, LibraryInv
<1>3. Alone(h) /\ handler'[h] = q  BY <1>2 DEF LibraryInv, Shapes, Alone
<1>4. Uploaded' = Uploaded  BY <1>1, SameUploaded
<1>5. Allots(h)'  BY <1>1, <1>2, <1>3, <1>4 DEF StorageInv, Allots, Carries, Storing
<1> QED BY <1>1, <1>3, <1>5, FitsOn

\* The commit adds at most the allowance, and nobody else has one.
LEMMA CommitFits ==
    ASSUME LibraryInv, StorageInv, NEW h \in Handlers, UploadCommits(h)
    PROVE  StorageInv'
<1> DEFINE n == handler[h].bytes
<1>1. /\ Ends(h) /\ UNCHANGED generated /\ handler[h].pc = "stored"
      /\ \/ handler[h].op = "upload" /\ pack' = [pack EXCEPT ![P(h)] = n] /\ UNCHANGED sources
         \/ handler[h].op = "source" /\ sources' = sources + n /\ UNCHANGED pack
  BY DEF UploadCommits
<1>2. Alone(h) /\ handler'[h] = Idle  BY <1>1, EndsFacts DEF LibraryInv
<1>3. n \in Nat /\ Uploaded + n <= Quota /\ Uploaded \in Nat
  <2>1. n \in Nat  BY <1>1 DEF StorageInv, Allots, Carries
  <2>2. handler[h].limit \in Int /\ Uploaded + handler[h].limit <= Quota /\ n <= handler[h].limit
    BY <1>1 DEF StorageInv, Allots, Storing
  <2> QED BY <2>1, <2>2, UploadedIsInt, LibraryAssumption
<1>4. pack' \in [Packs -> Nat] /\ sources' \in Nat /\ Uploaded' \in Nat /\ Uploaded' <= Uploaded + n
  <2> HIDE DEF n
  <2>1. CASE handler[h].op = "upload" /\ pack' = [pack EXCEPT ![P(h)] = n] /\ UNCHANGED sources
    <3>1. P(h) \in Packs  BY <2>1 DEF StorageInv, Allots, Carries, P
    <3> QED BY <1>3, <2>1, <3>1, UploadedGrows DEF StorageInv
  <2>2. CASE sources' = sources + n /\ UNCHANGED pack
    <3>1. Total(pack, DOMAIN pack) \in Nat
      BY LibraryAssumption, SumIsNat DEF StorageInv
    <3> QED BY <1>3, <2>2, <3>1, UploadedSums DEF StorageInv
  <2> QED BY <1>1, <2>1, <2>2
<1>5. \A k \in Handlers : Allots(k)'
  <2>1. Allots(h)'  BY <1>2 DEF Allots, Idle, Carries, Storing
  <2>2. ASSUME NEW k \in Handlers \ {h} PROVE Allots(k)'
    <3>1. userLock = h  BY <1>1 DEF StorageInv, Allots, Storing
    <3>2. handler[k].pc \notin Storing  BY <3>1 DEF StorageInv, Allots
    <3> QED BY <1>2, <3>2 DEF StorageInv, Allots, Alone, Storing
  <2> QED BY <2>1, <2>2
<1>6. StorageBounded'  BY <1>3, <1>4, LibraryAssumption DEF StorageBounded
<1> QED BY <1>1, <1>4, <1>5, <1>6 DEF StorageInv

LEMMA RowsFits ==
    ASSUME LibraryInv, StorageInv, NEW h \in Handlers, NEW c \in Campaigns, NEW p \in Packs,
           \/ ImportStarts(h, c, p) \/ ActivateStarts(h, c, p)
           \/ \E k \in Clients, a \in BOOLEAN : InstallStarts(h, c, p, k, a)
    PROVE  StorageInv'
<1> DEFINE Elsewhere(q) == Carries(q) /\ q.pc \notin Storing
<1>1. ASSUME NEW q, Opens(h, q), UNCHANGED library, Elsewhere(q) PROVE StorageInv'
  BY <1>1, BecomesFits DEF Opens, library, LibraryInv
<1>2. ASSUME NEW q, q.op \in {"import", "install"}, DOMAIN q = Fields, CopyStarts(h, q)
      PROVE  StorageInv'
  <2> DEFINE r == [q EXCEPT !.pc = "copying"]
  <2>1. Opens(h, r) /\ UNCHANGED library  BY <1>2 DEF CopyStarts
  <2>2. Elsewhere(r)  BY <1>2 DEF Carries, Storing, Fields
  <2> HIDE DEF r, Elsewhere
  <2> QED BY <1>1, <2>1, <2>2
<1>3. CASE ImportStarts(h, c, p)
  <2> DEFINE q == [Idle EXCEPT !.op = "import", !.c = c, !.p = p, !.key = Import]
  <2>1. CopyStarts(h, q)  BY <1>3 DEF ImportStarts
  <2>2. q.op = "import" /\ DOMAIN q = Fields  BY DEF Idle, Fields
  <2> HIDE DEF q
  <2> QED BY <1>2, <2>1, <2>2
<1>4. CASE ActivateStarts(h, c, p)
  <2> DEFINE q == [Idle EXCEPT !.pc = "activating", !.op = "activate", !.c = c, !.p = p,
                               !.seen = projection[c][p]]
  <2>1. Opens(h, q) /\ UNCHANGED library  BY <1>4 DEF ActivateStarts
  <2>2. Elsewhere(q)  BY DEF Carries, Storing, Idle
  <2> HIDE DEF q, Elsewhere
  <2> QED BY <1>1, <2>1, <2>2
<1>5. ASSUME NEW k \in Clients, NEW a \in BOOLEAN, InstallStarts(h, c, p, k, a) PROVE StorageInv'
  <2> DEFINE q == Installing(c, p, k, a)
             r == [q EXCEPT !.seen = projection[c][p], !.pc = Wanted(q, projection[c][p])]
  <2>1. CopyStarts(h, q) \/ (Opens(h, r) /\ UNCHANGED library)  BY <1>5 DEF InstallStarts
  <2>2. q.op = "install" /\ DOMAIN q = Fields  BY DEF Installing, Idle, Fields
  <2>3. Wanted(q, projection[c][p]) \in {"activating", "recording"}  BY DEF Wanted
  <2> HIDE DEF q
  <2>4. Elsewhere(r)  BY <2>2, <2>3 DEF Carries, Storing, Fields
  <2> HIDE DEF r, Elsewhere
  <2> QED BY <1>1, <1>2, <2>1, <2>2, <2>4
<1> QED BY <1>3, <1>4, <1>5

LEMMA ImportFits ==
    ASSUME LibraryInv, StorageInv, NEW h \in Handlers,
           ImportCalls(h) \/ ImportFails(h) \/ ImportLost(h) \/ ActivateCalls(h)
    PROVE  StorageInv'
<1>1. PICK pc \in {"returned", "recording"}, seen \in {"imported", "none", "activated"} :
          /\ handler' = [handler EXCEPT ![h].pc = pc, ![h].seen = seen]
          /\ UNCHANGED library
  BY DEF ImportCalls, ImportFails, ImportLost, ActivateCalls, Returns
<1> DEFINE q == [handler[h] EXCEPT !.pc = pc, !.seen = seen]
<1>2. handler' = [handler EXCEPT ![h] = q]  BY <1>1
<1>3. DOMAIN handler[h] = Fields  BY DEF LibraryInv, Shapes, Shape
<1>4. /\ q.pc = pc /\ q.op = handler[h].op /\ q.p = handler[h].p /\ q.bytes = handler[h].bytes
  BY <1>3 DEF Fields
<1> HIDE DEF q
<1>5. Carries(q) /\ q.pc \notin Storing  BY <1>4 DEF StorageInv, Allots, Carries, Storing
<1> QED BY <1>1, <1>2, <1>5, BecomesFits DEF library, LibraryInv

LEMMA StorageNext ==
    ASSUME LibraryInv, StorageInv, [LibraryNext]_libraryVars
    PROVE  StorageInv'
<1>1. ASSUME NEW size \in Sizes, WorkerStores(size) PROVE StorageInv'
  <2>1. generated' \in Nat /\ UNCHANGED <<pack, sources, userLock, handler>>
    BY <1>1, LibraryAssumption DEF WorkerStores, StorageInv
  <2>2. Uploaded' = Uploaded  BY <2>1, SameUploaded
  <2> QED BY <2>1, <2>2 DEF StorageInv, Allots, StorageBounded
<1>2. CASE UNCHANGED libraryVars
  <2>1. UNCHANGED <<pack, sources, generated, userLock, handler>>  BY <1>2 DEF libraryVars, library
  <2>2. Uploaded' = Uploaded  BY <2>1, SameUploaded
  <2> QED BY <2>1, <2>2 DEF StorageInv, Allots, StorageBounded
<1>3. ASSUME NEW h \in Handlers, Ends(h), UNCHANGED <<pack, sources, generated>> PROVE StorageInv'
  BY <1>3, EndsFits DEF LibraryInv
<1>4. ASSUME NEW h \in Handlers, NEW pc, Moves(h, pc), pc \notin Storing,
             UNCHANGED <<pack, sources, generated, userLock>>
      PROVE  StorageInv'
  BY <1>4, MovesFits DEF LibraryInv
<1>5. ASSUME NEW h \in Handlers,
             \/ Exhausted(h) \/ TooLarge(h) \/ CopyFails(h) \/ ImportCommits(h)
             \/ AlreadyImported(h) \/ ActivateRefused(h) \/ ActivateLost(h) \/ ActivateCommits(h)
             \/ InstallCommits(h) \/ InstalledTwice(h) \/ Dies(h)
      PROVE  StorageInv'
  BY <1>3, <1>5 DEF Exhausted, TooLarge, CopyFails, ImportCommits, AlreadyImported,
         ActivateRefused, ActivateLost, ActivateCommits, InstallCommits, InstalledTwice, Dies
<1>6. ASSUME NEW h \in Handlers, UploadInserts(h) \/ Copies(h) \/ Cleans(h) \/ InstallInserts(h)
      PROVE  StorageInv'
  <2>1. UNCHANGED <<pack, sources, generated>>
    BY <1>6 DEF UploadInserts, Copies, Cleans, InstallInserts, library
  <2>2. \/ Ends(h)
        \/ UNCHANGED userLock /\ \E pc : Moves(h, pc) /\ pc \notin Storing
    BY <1>6 DEF UploadInserts, Copies, Cleans, InstallInserts, library, Wanted, Storing
  <2> QED BY <1>3, <1>4, <2>1, <2>2
<1>7. ASSUME NEW h \in Handlers PROVE
      /\ ((\E size \in Sizes : SourceStarts(h, size) \/ \E p \in Packs : UploadStarts(h, p, size))
             => StorageInv')
      /\ (Allowed(h) => StorageInv') /\ (Stores(h) => StorageInv')
      /\ (UploadCommits(h) => StorageInv')
      /\ ((ImportCalls(h) \/ ImportFails(h) \/ ImportLost(h) \/ ActivateCalls(h)) => StorageInv')
  BY OpensFits, AllowedFits, StoresFits, CommitFits, ImportFits
<1> QED BY <1>1, <1>2, <1>5, <1>6, <1>7, RowsFits DEF LibraryNext

\* However many uploads of Packs and sources overlap, whichever of them fail or die and
\* whatever the worker stores meanwhile, a user never uploads more than the quota
\* (`upload_allowance`, which keeps the row of the user until the upload commits).
THEOREM QuotaKept == LibrarySpec => []StorageBounded
<1>1. LibraryInit => StorageInv
  <2> SUFFICES ASSUME LibraryInit PROVE StorageInv  OBVIOUS
  <2>1. /\ pack \in [Packs -> Nat] /\ sources = 0 /\ generated = 0
        /\ \A p \in Packs : pack[p] = 0
    BY DEF LibraryInit
  <2>2. \A h \in Handlers : Allots(h)  BY DEF LibraryInit, Allots, Idle, Carries, Storing
  <2>3. StorageBounded
    <3>1. Total(pack, Packs) = 0  BY <2>1, LibraryAssumption, SumOfZeros
    <3>2. DOMAIN pack = Packs  BY <2>1
    <3> QED BY <2>1, <3>1, <3>2, UploadedSums, LibraryAssumption DEF StorageBounded
  <2> QED BY <2>1, <2>2, <2>3 DEF StorageInv
<1>2. LibraryInv /\ StorageInv /\ [LibraryNext]_libraryVars => StorageInv'  BY StorageNext
<1>3. StorageInv => StorageBounded  BY DEF StorageInv
<1> QED BY <1>1, <1>2, <1>3, LibraryInvAlways, PTL DEF LibrarySpec
=============================================================================
