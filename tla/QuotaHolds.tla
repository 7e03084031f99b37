----------------------------- MODULE QuotaHolds ----------------------------
(***************************************************************************)
(* Quota holds of one payer and one metric (quota.py), driven by the direct*)
(* conversations with an Agent (api/agent.py): a message is admitted under *)
(* the row locks of the active grants, its hold and its run are committed, *)
(* the provider is called outside any transaction, and the tokens are      *)
(* settled against the grants that are active then.  The same message may  *)
(* be sent again, by another attempt, at any time.                         *)
(* An attempt keeps the hold as its session loaded it: the session neither *)
(* expires objects on commit nor refreshes them under a row lock.          *)
(***************************************************************************)
EXTENDS Integers, FiniteSets, FiniteSetsExt

CONSTANTS
    Messages,          \* idempotency keys of the user's messages
    Attempts,          \* requests being handled, in any process
    Grants,            \* quota grants of the payer
    Granted,           \* quantity of each grant
    Start, End,        \* its period
    Order,             \* its place by (period_end, period_start, id)
    Hold,              \* agent_reservation_tokens
    TTL,               \* agent_reservation_ttl_seconds
    CallTime,          \* agent_completion_timeout_seconds
    Tokens,            \* bound: what an answer says was consumed, 0 without usage data
    MaxTime,           \* bound: readings of the clock
    MaxDeaths,         \* bound: attempts that die
    None               \* no attempt, no message

\* `CallTime < TTL` is what the settings require at startup.
ASSUME HoldsAssumption ==
    /\ IsFiniteSet(Grants) /\ Hold \in Nat \ {0} /\ TTL \in Nat /\ CallTime \in Nat /\ CallTime < TTL
    /\ Tokens \subseteq Nat /\ MaxTime \in Nat /\ MaxDeaths \in Nat
    /\ {Granted, Start, End, Order} \subseteq [Grants -> Nat]
    /\ \A g, h \in Grants : Order[g] = Order[h] => g = h
    /\ None \notin Attempts \cup Messages

VARIABLES
    clock,
    run,          \* `AgentRun.status` of each message, "none" before it exists
    hold,         \* `QuotaReservation` of each message
    ledger,       \* `UsageLedger` row of each message
    consumed,     \* `provider_consumption_ledger` quantity
    grantLock,    \* row locks of the grants
    holdLock,     \* row locks of the holds
    attempt,      \* the handlers
    deaths

vars == <<clock, run, hold, ledger, consumed, grantLock, holdLock, attempt, deaths>>
books == <<run, hold, ledger, consumed>>

-----------------------------------------------------------------------------
NoHold == [status |-> "none", expires |-> 0]
Absent == -1     \* the quantity of a row that does not exist: a row may be of 0
NoRow == [quantity |-> Absent, at |-> 0, to |-> [g \in Grants |-> 0]]
Request(pc, msg, now, seen, expiring, since) ==
    [pc |-> pc, msg |-> msg, now |-> now, seen |-> seen, expiring |-> expiring,
     since |-> since, tokens |-> 0, outcome |-> "none",
     overtaken |-> FALSE, fits |-> FALSE, to |-> NoRow.to]
Idle == Request("idle", None, 0, "none", {}, 0)

Init ==
    /\ clock = 0
    /\ run = [m \in Messages |-> "none"]
    /\ hold = [m \in Messages |-> NoHold]
    /\ ledger = [m \in Messages |-> NoRow]
    /\ consumed = [m \in Messages |-> Absent]
    /\ grantLock = [g \in Grants |-> None]
    /\ holdLock = [m \in Messages |-> None]
    /\ attempt = [a \in Attempts |-> Idle]
    /\ deaths = 0

Least(x, y) == IF x < y THEN x ELSE y
Covers(g, t) == Start[g] <= t /\ t < End[g]
Active(t) == {g \in Grants : Covers(g, t)}

-----------------------------------------------------------------------------
(* The balance, as a transaction that read the clock at t computes it; a   *)
(* row of 0 adds nothing to it.                                            *)
RowsBy(t) == {m \in Messages : ledger[m].quantity > 0 /\ ledger[m].at <= t}
AllocatedTo(g, t) == MapThenSumSet(LAMBDA m : ledger[m].to[g], RowsBy(t))

\* A row without allocations counts for the grant that covered it and ends first.
Unallocated(m) == \A g \in Grants : ledger[m].to[g] = 0
FirstOf(t) == CHOOSE g \in Active(t) : \A h \in Active(t) : Order[g] <= Order[h]
CountsAt(m, t) == /\ Unallocated(m) /\ Active(ledger[m].at) # {}
                  /\ FirstOf(ledger[m].at) \in Active(t)

UsedBy(t, s) ==
    MapThenSumSet(LAMBDA g : AllocatedTo(g, s), Active(t))
    + MapThenSumSet(LAMBDA m : ledger[m].quantity, {m \in RowsBy(s) : CountsAt(m, t)})
GrantedAt(t) == MapThenSumSet(LAMBDA g : Granted[g], Active(t))
Reserved == Hold * Cardinality({m \in Messages : hold[m].status = "reserved"})
Available(t) == GrantedAt(t) - UsedBy(t, t) - Reserved

\* `_allocate_to_grants`: the grants in order, each up to what is left of it.
Left(g, t) == IF AllocatedTo(g, t) < Granted[g] THEN Granted[g] - AllocatedTo(g, t) ELSE 0
Before(g, t) == MapThenSumSet(LAMBDA h : Left(h, t), {h \in Active(t) : Order[h] < Order[g]})
Allocation(q, t) ==
    [g \in Grants |-> IF g \in Active(t) /\ Before(g, t) < q
                      THEN Least(Left(g, t), q - Before(g, t)) ELSE 0]

-----------------------------------------------------------------------------
(* `send_message`, up to the commit of its hold and its run.               *)
Pc(a) == attempt[a].pc
InBooks(a) == Pc(a) \in {"admitting", "balanced", "settling", "allocated"}
Msg(a) == attempt[a].msg
Locked(a) == {g \in Grants : grantLock[g] = a}
Unlocked(lock, a) == [x \in DOMAIN lock |-> IF lock[x] = a THEN None ELSE lock[x]]

Leaves(a) ==
    /\ attempt' = [attempt EXCEPT ![a] = Idle]
    /\ grantLock' = Unlocked(grantLock, a)
    /\ holdLock' = Unlocked(holdLock, a)

\* `expire_abandoned`: no durable job owns the hold of a direct message.
Abandoned == {m \in Messages : /\ hold[m].status = "reserved"
                               /\ hold[m].expires <= clock /\ holdLock[m] = None}
Expired(h, ms) == [m \in Messages |-> IF m \in ms THEN [h[m] EXCEPT !.status = "expired"] ELSE h[m]]

\* A new message: `reserve` finds no hold of its key, `balance` reads the clock
\* and marks the abandoned holds, whose rows it keeps locked.
Sends(a, m) ==
    /\ Pc(a) = "idle" /\ run[m] = "none"
    /\ attempt' = [attempt EXCEPT ![a] = Request("admitting", m, clock, "none", Abandoned, 0)]
    /\ holdLock' = [h \in Messages |-> IF h \in Abandoned THEN a ELSE holdLock[h]]
    /\ UNCHANGED <<clock, books, grantLock, deaths>>

\* A message whose run is still running goes to the provider again, with the
\* hold it has, whatever became of it; a finished one is answered at once.
SendsAgain(a, m) ==
    /\ Pc(a) = "idle" /\ run[m] = "running"
    /\ attempt' = [attempt EXCEPT ![a] = Request("calling", m, 0, hold[m].status, {}, clock)]
    /\ UNCHANGED <<clock, books, grantLock, holdLock, deaths>>

\* Mutant: the grants are read without locking their rows.
WantsNone(a) == {}

\* The row locks of the active grants: `balance` names no order, the
\* settlement locks them in theirs.
Wanted(a) == Active(attempt[a].now) \ Locked(a)
Asks(a) ==
    IF Pc(a) = "admitting" THEN Wanted(a)
    ELSE {g \in Wanted(a) : \A h \in Wanted(a) : Order[g] <= Order[h]}
LocksGrant(a, g) ==
    /\ Pc(a) \in {"admitting", "settling"} /\ g \in Asks(a) /\ grantLock[g] = None
    /\ grantLock' = [grantLock EXCEPT ![g] = a]
    /\ UNCHANGED <<clock, books, holdLock, attempt, deaths>>

\* The database ends a circular wait by failing one of the transactions.
Deadlocks(a) ==
    /\ Pc(a) \in {"admitting", "settling"}
    /\ \E b \in Attempts \ {a} :
           /\ Pc(b) \in {"admitting", "settling"}
           /\ Asks(a) # {} /\ Asks(a) \subseteq Locked(b)
           /\ Asks(b) # {} /\ Asks(b) \subseteq Locked(a)
    /\ Leaves(a) /\ UNCHANGED <<clock, books, deaths>>

\* With the locks, the transaction reads what its decision rests on.
Balances(a) ==
    /\ Pc(a) = "admitting" /\ Wanted(a) = {}
    /\ attempt' = [attempt EXCEPT ![a].pc = "balanced",
                                 ![a].fits = Available(attempt[a].now) >= Hold]
    /\ UNCHANGED <<clock, books, grantLock, holdLock, deaths>>
Allocates(a) ==
    /\ Pc(a) = "settling" /\ Wanted(a) = {}
    /\ attempt' = [attempt EXCEPT ![a].pc = "allocated", ![a].to =
           Allocation(Least(attempt[a].tokens, Hold), attempt[a].now)]
    /\ UNCHANGED <<clock, books, grantLock, holdLock, deaths>>

\* An observation of the model: what a commits escapes the transaction b, when
\* a settles with a later reading of the clock than b has, or when no active
\* grant is common to the two, so that no row lock is.
Overtakes(a, b) ==
    /\ b # a /\ InBooks(b)
    /\ \/ Pc(a) = "allocated" /\ attempt[b].now < attempt[a].now
       \/ Active(attempt[a].now) \cap Active(attempt[b].now) = {}
Overtaking(a, after) ==
    [b \in Attempts |-> IF b = a THEN after
        ELSE [attempt[b] EXCEPT !.overtaken = @ \/ Overtakes(a, b)]]

\* The abandoned holds still count: their new status is written with the hold.
Reserves(a) ==
    LET m == Msg(a) IN
    /\ Pc(a) = "balanced" /\ attempt[a].fits /\ hold[m].status = "none"
    /\ hold' = [Expired(hold, attempt[a].expiring) EXCEPT
           ![m] = [status |-> "reserved", expires |-> clock + TTL]]
    /\ run' = [run EXCEPT ![m] = "running"]
    /\ attempt' = Overtaking(a, Request("calling", m, 0, "reserved", {}, clock))
    /\ grantLock' = Unlocked(grantLock, a) /\ holdLock' = Unlocked(holdLock, a)
    /\ UNCHANGED <<clock, ledger, consumed, deaths>>

\* No room, or the same message was admitted meanwhile: nothing is written.
Refuses(a) ==
    /\ Pc(a) = "balanced" /\ (~attempt[a].fits \/ hold[Msg(a)].status # "none")
    /\ Leaves(a) /\ UNCHANGED <<clock, books, deaths>>

-----------------------------------------------------------------------------
(* The call and what follows it.                                           *)

\* The provider answers, or fails having consumed tokens.
Answers(a, t, outcome) ==
    /\ Pc(a) = "calling" /\ t \in Tokens /\ outcome \in {"completed", "failed"}
    /\ attempt' = [attempt EXCEPT ![a].pc = "answered", ![a].tokens = t, ![a].outcome = outcome,
                                 ![a].since = 0]
    /\ UNCHANGED <<clock, books, grantLock, holdLock, deaths>>

\* Mutant of Fails: the hold is left to its expiry.
FailsHolding(a) ==
    /\ Pc(a) = "calling" /\ holdLock[Msg(a)] = None
    /\ run' = [run EXCEPT ![Msg(a)] = "failed"]
    /\ Leaves(a) /\ UNCHANGED <<clock, hold, ledger, consumed, deaths>>

\* A failure without tokens releases the hold the attempt holds for reserved.
Fails(a) ==
    LET m == Msg(a) IN
    /\ Pc(a) = "calling" /\ holdLock[m] = None
    /\ hold' = IF attempt[a].seen = "reserved"
               THEN [hold EXCEPT ![m].status = "released"] ELSE hold
    /\ run' = [run EXCEPT ![m] = "failed"]
    /\ Leaves(a) /\ UNCHANGED <<clock, ledger, consumed, deaths>>

\* `record_provider_consumption` and `settle` find the rows of another attempt:
\* they agree with this one's tokens, or the handler fails.
Replays(a) ==
    LET m == Msg(a) IN
    /\ Pc(a) = "answered" /\ holdLock[m] = None /\ consumed[m] # Absent
    /\ run' = IF consumed[m] = attempt[a].tokens
              THEN [run EXCEPT ![m] = attempt[a].outcome] ELSE run
    /\ Leaves(a) /\ UNCHANGED <<clock, hold, ledger, consumed, deaths>>

\* Mutant of TooLate: a hold that cannot be settled does not stop the answer.
AnswersAnyway(a) ==
    /\ Pc(a) = "answered" /\ holdLock[Msg(a)] = None /\ consumed[Msg(a)] = Absent
    /\ attempt[a].seen # "reserved"
    /\ run' = [run EXCEPT ![Msg(a)] = attempt[a].outcome]
    /\ Leaves(a) /\ UNCHANGED <<clock, hold, ledger, consumed, deaths>>

\* A hold the attempt loaded as expired cannot be settled: the handler fails.
TooLate(a) ==
    /\ Pc(a) = "answered" /\ holdLock[Msg(a)] = None /\ consumed[Msg(a)] = Absent
    /\ attempt[a].seen # "reserved"
    /\ Leaves(a) /\ UNCHANGED <<clock, books, deaths>>

LocksHold(a) ==
    /\ Pc(a) = "answered" /\ holdLock[Msg(a)] = None /\ consumed[Msg(a)] = Absent
    /\ attempt[a].seen = "reserved"
    /\ holdLock' = [holdLock EXCEPT ![Msg(a)] = a]
    /\ attempt' = [attempt EXCEPT ![a].pc = IF attempt[a].tokens = 0 THEN "closing" ELSE "settling",
                                 ![a].now = clock]
    /\ UNCHANGED <<clock, books, grantLock, deaths>>

\* Nothing consumed, or an answer without usage data: no grant is locked, and
\* rows of 0 are written.
SettlesNothing(a) ==
    LET m == Msg(a) IN
    /\ Pc(a) = "closing"
    /\ consumed' = [consumed EXCEPT ![m] = 0]
    /\ ledger' = [ledger EXCEPT ![m] = [quantity |-> 0, at |-> attempt[a].now, to |-> NoRow.to]]
    /\ hold' = [hold EXCEPT ![m].status = "settled"]
    /\ run' = [run EXCEPT ![m] = attempt[a].outcome]
    /\ Leaves(a) /\ UNCHANGED <<clock, deaths>>

Settles(a) ==
    LET m == Msg(a) IN
    /\ Pc(a) = "allocated"
    /\ consumed' = [consumed EXCEPT ![m] = attempt[a].tokens]
    /\ ledger' = [ledger EXCEPT ![m] =
           [quantity |-> Least(attempt[a].tokens, Hold), at |-> attempt[a].now, to |-> attempt[a].to]]
    /\ hold' = [hold EXCEPT ![m].status = "settled"]
    /\ run' = [run EXCEPT ![m] = attempt[a].outcome]
    /\ attempt' = Overtaking(a, Idle)
    /\ grantLock' = Unlocked(grantLock, a) /\ holdLock' = Unlocked(holdLock, a)
    /\ UNCHANGED <<clock, deaths>>

-----------------------------------------------------------------------------
\* `expire_abandoned` in the recovery pass of the room jobs.
Sweeps ==
    /\ Abandoned # {} /\ hold' = Expired(hold, Abandoned)
    /\ UNCHANGED <<clock, run, ledger, consumed, grantLock, holdLock, attempt, deaths>>

\* The process of a handler dies, or its client goes.
Dies(a) ==
    /\ Pc(a) # "idle" /\ deaths < MaxDeaths /\ deaths' = deaths + 1
    /\ Leaves(a) /\ UNCHANGED <<clock, books>>

\* A call of the Agent has ended, or timed out, within CallTime.
Tick ==
    /\ clock < MaxTime
    /\ \A a \in Attempts : Pc(a) = "calling" => clock < attempt[a].since + CallTime
    /\ clock' = clock + 1
    /\ UNCHANGED <<books, grantLock, holdLock, attempt, deaths>>

Next ==
    \/ \E a \in Attempts :
           \/ \E m \in Messages : Sends(a, m) \/ SendsAgain(a, m)
           \/ \E g \in Grants : LocksGrant(a, g)
           \/ Deadlocks(a) \/ Balances(a) \/ Allocates(a) \/ Reserves(a) \/ Refuses(a)
           \/ \E t \in Tokens, o \in {"completed", "failed"} : Answers(a, t, o)
           \/ Fails(a) \/ Replays(a) \/ TooLate(a) \/ LocksHold(a) \/ Settles(a)
           \/ SettlesNothing(a) \/ Dies(a)
    \/ Sweeps
    \/ Tick

Spec == Init /\ [][Next]_vars

-----------------------------------------------------------------------------
\* A message that was answered is charged, once, with what its provider is
\* recorded to have consumed, capped by its hold, and the charge and the record
\* exist together (`record_provider_consumption`, `settle`).  An answer without
\* usage data is recorded, and charged, as 0.
AnsweredIsCharged == \A m \in Messages :
    /\ run[m] = "completed" => consumed[m] # Absent
    /\ ledger[m].quantity = Least(consumed[m], Hold)

\* A finished run leaves nothing reserved, whoever else handled its message and
\* whatever the sweep did meanwhile (`send_message`).
FinishedHoldsNothing == \A m \in Messages :
    run[m] \in {"completed", "failed"} => hold[m].status # "reserved"

\* What a transaction that commits adds, fits: a hold into the grants of its
\* moment, an allocation into its grant.
Fits(a, t) ==
    /\ Pc(a) = "balanced" /\ hold' # hold
          => Reserved' + (UsedBy(t, MaxTime))' <= GrantedAt(t)
    /\ Pc(a) = "allocated" /\ ledger' # ledger
          => \A g \in Grants : (AllocatedTo(g, MaxTime))' \in {AllocatedTo(g, MaxTime)} \cup 0..Granted[g]

\* The row locks of the grants keep the balance: no hold is admitted and
\* nothing is allocated beyond the grants, except by a transaction that read the
\* clock before a settlement that had the locks first, or in another period.
LocksKeepTheBalance ==
    [][\A a \in Attempts : Pc(a)' # Pc(a) /\ ~attempt[a].overtaken
          => \A t \in {attempt[a].now} : Fits(a, t)]_vars

\* "PostgreSQL row locks serialize ... quota balance changes": no hold and no
\* allocation is ever beyond the grants.
NeverOverAllocated ==
    [][\A a \in Attempts : Pc(a)' # Pc(a) => \A t \in {attempt[a].now} : Fits(a, t)]_vars
=============================================================================
