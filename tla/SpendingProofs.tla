-------------------------- MODULE SpendingProofs ---------------------------
(***************************************************************************)
(* What the two sets of books promise, for any number of messages, grants, *)
(* attempts, tasks, handlers and deaths.  QuotaHolds: an answered message  *)
(* is charged with what its provider consumed, a finished run holds        *)
(* nothing, and the row locks of the grants keep the balance.              *)
(* ProviderBudget: one open attempt per task, records that agree, a        *)
(* settlement that is final and an admission that fits its budgets.        *)
(***************************************************************************)
EXTENDS QuotaHolds, ProviderBudget, FiniteSums, TLAPS

-----------------------------------------------------------------------------
(* Quota holds.                                                            *)


Runs == {"none", "running", "completed", "failed"}
Statuses == {"none", "reserved", "settled", "released", "expired"}
Pcs == {"idle", "admitting", "balanced", "calling", "answered", "settling", "allocated", "closing"}

\* The allocations of a row and of an attempt are left open.
IsAttempt(x) ==
    /\ x = [pc |-> x.pc, msg |-> x.msg, now |-> x.now, seen |-> x.seen, expiring |-> x.expiring,
            since |-> x.since, tokens |-> x.tokens, outcome |-> x.outcome,
            overtaken |-> x.overtaken, fits |-> x.fits, to |-> x.to]
    /\ x.pc \in Pcs /\ x.seen \in Statuses /\ x.expiring \subseteq Messages
    /\ x.pc # "idle" => x.msg \in Messages
    /\ x.pc \in {"answered", "settling", "allocated", "closing"} =>
          x.tokens \in Tokens /\ x.outcome \in {"completed", "failed"}
    /\ x.pc \in {"settling", "allocated"} => x.tokens # 0
IsRow(x) == x = [quantity |-> x.quantity, at |-> x.at, to |-> x.to]
Types ==
    /\ run \in [Messages -> Runs] /\ consumed \in [Messages -> Nat \cup {Absent}]
    /\ DOMAIN hold = Messages /\ hold = [m \in Messages |-> hold[m]]
    /\ \A m \in Messages : /\ hold[m] = [status |-> hold[m].status, expires |-> hold[m].expires]
                           /\ hold[m].status \in Statuses
    /\ ledger = [m \in Messages |-> ledger[m]] /\ \A m \in Messages : IsRow(ledger[m])
    /\ attempt = [a \in Attempts |-> attempt[a]] /\ \A a \in Attempts : IsAttempt(attempt[a])

\* The hold of a message comes with its run.
HoldsComeWithRuns == \A m \in Messages : run[m] = "none" <=> hold[m].status = "none"

\* What was charged is no longer reserved.
ChargedIsSpent == \A m \in Messages :
    consumed[m] # Absent => hold[m].status \notin {"none", "reserved"}

\* A hold an attempt did not find reserved is not reserved again, and one that is
\* to expire exists.
SeenStays == \A a \in Attempts :
    /\ Pc(a) \in {"calling", "answered", "settling", "allocated", "closing"} =>
          /\ run[Msg(a)] # "none"
          /\ attempt[a].seen # "reserved" => hold[Msg(a)].status # "reserved"
    /\ Pc(a) \in {"admitting", "balanced"} =>
          \A m \in attempt[a].expiring : hold[m].status # "none"

HoldsInv ==
    Types /\ HoldsComeWithRuns /\ ChargedIsSpent /\ SeenStays
          /\ AnsweredIsCharged /\ FinishedHoldsNothing

-----------------------------------------------------------------------------
LEMMA Numbers == Hold \in Nat /\ Hold > 0 /\ Tokens \subseteq Nat /\ Absent = -1
  BY HoldsAssumption DEF Absent

LEMMA IdleFacts == IsAttempt(Idle) /\ Idle.pc = "idle"
  BY DEF Idle, Request, IsAttempt, Pcs, Statuses

\* An attempt is replaced and the others keep all but an observation.
Becomes(a, x) ==
    /\ attempt' = [b \in Attempts |-> attempt'[b]]
    /\ attempt'[a] = x
    /\ \A b \in Attempts \ {a} :
          /\ IsAttempt(attempt'[b])
          /\ attempt'[b].pc = attempt[b].pc /\ attempt'[b].msg = attempt[b].msg
          /\ attempt'[b].seen = attempt[b].seen /\ attempt'[b].expiring = attempt[b].expiring

LEMMA OneBecomes ==
    ASSUME Types, NEW a \in Attempts, NEW x, attempt' = [attempt EXCEPT ![a] = x]
    PROVE  Becomes(a, x)
  BY DEF Types, Becomes

LEMMA OvertakingBecomes ==
    ASSUME Types, NEW a \in Attempts, NEW x, attempt' = Overtaking(a, x)
    PROVE  Becomes(a, x)
<1>1. attempt' = [b \in Attempts |-> IF b = a THEN x
                    ELSE [attempt[b] EXCEPT !.overtaken = @ \/ Overtakes(a, b)]]
  BY DEF Overtaking
<1>2. ASSUME NEW b \in Attempts \ {a}
      PROVE  /\ IsAttempt(attempt'[b])
             /\ attempt'[b].pc = attempt[b].pc /\ attempt'[b].msg = attempt[b].msg
             /\ attempt'[b].seen = attempt[b].seen /\ attempt'[b].expiring = attempt[b].expiring
  <2> DEFINE o == attempt[b].overtaken \/ Overtakes(a, b)
             y == attempt[b]
  <2>1. attempt'[b] = [y EXCEPT !.overtaken = o]  BY <1>1
  <2>2. IsAttempt(y)  BY DEF Types
  <2> HIDE DEF o, y
  <2>3. attempt'[b] = [pc |-> y.pc, msg |-> y.msg, now |-> y.now, seen |-> y.seen,
            expiring |-> y.expiring, since |-> y.since, tokens |-> y.tokens,
            outcome |-> y.outcome, overtaken |-> o, fits |-> y.fits, to |-> y.to]
    BY <2>1, <2>2 DEF IsAttempt
  <2>4. IsAttempt(attempt'[b])  BY <2>2, <2>3 DEF IsAttempt
  <2> QED BY <2>3, <2>4 DEF y
<1> QED BY <1>1, <1>2 DEF Becomes

\* What every step does to the books: runs and holds stay once they exist, and a
\* hold is reserved only when it comes to exist.
BookTypes ==
    /\ run' \in [Messages -> Runs] /\ consumed' \in [Messages -> Nat \cup {Absent}]
    /\ DOMAIN hold' = Messages /\ hold' = [m \in Messages |-> hold'[m]]
    /\ \A m \in Messages : /\ hold'[m] = [status |-> hold'[m].status, expires |-> hold'[m].expires]
                           /\ hold'[m].status \in Statuses
    /\ ledger' = [m \in Messages |-> ledger'[m]] /\ \A m \in Messages : IsRow(ledger'[m])
BooksGrow == \A m \in Messages :
    /\ run[m] # "none" => run'[m] # "none"
    /\ hold[m].status # "none" => hold'[m].status # "none"
    /\ hold[m].status \notin {"none", "reserved"} => hold'[m].status # "reserved"
BooksInv == HoldsComeWithRuns /\ ChargedIsSpent /\ AnsweredIsCharged /\ FinishedHoldsNothing

\* What holds of the request of an attempt beside its type.
SeenFits(x) ==
    /\ x.pc \in {"calling", "answered", "settling", "allocated", "closing"} =>
          /\ run'[x.msg] # "none"
          /\ x.seen # "reserved" => hold'[x.msg].status # "reserved"
    /\ x.pc \in {"admitting", "balanced"} => \A m \in x.expiring : hold'[m].status # "none"

LEMMA BooksStay ==
    ASSUME HoldsInv, UNCHANGED books PROVE BookTypes /\ BooksGrow /\ BooksInv'
<1>1. run' = run /\ hold' = hold /\ ledger' = ledger /\ consumed' = consumed  BY DEF books
<1>2. BookTypes /\ BooksGrow  BY <1>1 DEF BookTypes, BooksGrow, HoldsInv, Types
<1> QED BY <1>1, <1>2
    DEF BooksInv, HoldsComeWithRuns, ChargedIsSpent, AnsweredIsCharged, FinishedHoldsNothing, HoldsInv

LEMMA AttemptKept ==
    ASSUME HoldsInv, NEW b \in Attempts, BooksGrow
    PROVE  SeenFits(attempt[b])
<1>1. IsAttempt(attempt[b])  BY DEF HoldsInv, Types
<1>2. CASE attempt[b].pc \in {"calling", "answered", "settling", "allocated", "closing"}
  <2> DEFINE m == attempt[b].msg
  <2>1. m \in Messages  BY <1>1, <1>2 DEF IsAttempt
  <2>2. run[m] # "none" /\ hold[m].status # "none"
        /\ (attempt[b].seen # "reserved" => hold[m].status # "reserved")
    BY <1>2, <2>1 DEF HoldsInv, SeenStays, HoldsComeWithRuns, Pc, Msg
  <2> QED BY <1>2, <2>1, <2>2 DEF BooksGrow, SeenFits
<1>3. CASE attempt[b].pc \in {"admitting", "balanced"}
  <2>1. attempt[b].expiring \subseteq Messages  BY <1>1 DEF IsAttempt
  <2>2. \A m \in attempt[b].expiring : hold[m].status # "none"
    BY <1>3 DEF HoldsInv, SeenStays, Pc
  <2> QED BY <1>3, <2>1, <2>2 DEF BooksGrow, SeenFits
<1> QED BY <1>2, <1>3 DEF SeenFits

LEMMA StepKept ==
    ASSUME HoldsInv, BookTypes, BooksGrow, BooksInv',
           NEW a \in Attempts, NEW x, Becomes(a, x), IsAttempt(x), SeenFits(x)
    PROVE  HoldsInv'
<1>1. attempt' = [b \in Attempts |-> attempt'[b]] /\ \A b \in Attempts : IsAttempt(attempt'[b])
  BY DEF Becomes
<1>2. Types'  BY <1>1 DEF BookTypes, Types, IsRow, IsAttempt
<1>3. ASSUME NEW b \in Attempts PROVE SeenFits(attempt'[b])
  <2>1. CASE b = a  BY <2>1 DEF Becomes
  <2>2. CASE b # a
    <3>1. SeenFits(attempt[b])  BY AttemptKept
    <3> QED BY <2>2, <3>1 DEF SeenFits, Becomes
  <2> QED BY <2>1, <2>2
<1>4. SeenStays'  BY <1>3 DEF SeenStays, SeenFits, Pc, Msg
<1> QED BY <1>2, <1>4 DEF HoldsInv, BooksInv

\* The steps that leave the books alone.
LEMMA ReadingKept ==
    ASSUME HoldsInv, UNCHANGED books, NEW a \in Attempts, NEW x, attempt' = [attempt EXCEPT ![a] = x],
           IsAttempt(x), SeenFits(x)
    PROVE  HoldsInv'
  BY BooksStay, OneBecomes, StepKept DEF HoldsInv

LEMMA LeavesKept ==
    ASSUME HoldsInv, BookTypes, BooksGrow, BooksInv', NEW a \in Attempts, Leaves(a)
    PROVE  HoldsInv'
<1>1. Becomes(a, Idle)  BY OneBecomes DEF Leaves, HoldsInv
<1>2. SeenFits(Idle)  BY IdleFacts DEF SeenFits
<1> QED BY <1>1, <1>2, IdleFacts, StepKept

\* An attempt that goes on with the same message.
SameRequest(x, y) ==
    /\ IsAttempt(x) /\ x.msg = y.msg /\ x.seen = y.seen
    /\ x.pc \in {"answered", "settling", "allocated", "closing"}
    /\ y.pc \in {"calling", "answered", "settling"}
LEMMA SameRequestKept ==
    ASSUME HoldsInv, UNCHANGED books, NEW a \in Attempts, NEW x, attempt' = [attempt EXCEPT ![a] = x],
           SameRequest(x, attempt[a])
    PROVE  HoldsInv'
<1>1. SeenFits(attempt[a])  BY BooksStay, AttemptKept
<1>2. SeenFits(x)  BY <1>1 DEF SeenFits, SameRequest
<1> QED BY <1>2, ReadingKept DEF SameRequest

-----------------------------------------------------------------------------
(* Admission.                                                              *)
LEMMA SendsKept ==
    ASSUME HoldsInv, NEW a \in Attempts, NEW m \in Messages, Sends(a, m)
    PROVE  HoldsInv'
<1> DEFINE x == [pc |-> "admitting", msg |-> m, now |-> clock, seen |-> "none",
                 expiring |-> Abandoned, since |-> 0, tokens |-> 0, outcome |-> "none",
                 overtaken |-> FALSE, fits |-> FALSE, to |-> NoRow.to]
<1>1. attempt' = [attempt EXCEPT ![a] = x] /\ UNCHANGED books
  BY DEF Sends, Request, books
<1>2. Abandoned \subseteq Messages /\ \A n \in Abandoned : hold'[n].status = "reserved"
  BY <1>1 DEF Abandoned, books
<1>3. IsAttempt(x)  BY <1>2 DEF IsAttempt, Pcs, Statuses
<1>4. SeenFits(x)  BY <1>2 DEF SeenFits
<1> QED BY <1>1, <1>3, <1>4, ReadingKept

LEMMA SendsAgainKept ==
    ASSUME HoldsInv, NEW a \in Attempts, NEW m \in Messages, SendsAgain(a, m)
    PROVE  HoldsInv'
<1> DEFINE x == [pc |-> "calling", msg |-> m, now |-> 0, seen |-> hold[m].status,
                 expiring |-> {}, since |-> clock, tokens |-> 0, outcome |-> "none",
                 overtaken |-> FALSE, fits |-> FALSE, to |-> NoRow.to]
<1>1. attempt' = [attempt EXCEPT ![a] = x] /\ UNCHANGED books /\ run[m] = "running"
  BY DEF SendsAgain, Request, books
<1>2. hold[m].status \in Statuses  BY DEF HoldsInv, Types
<1>3. IsAttempt(x)  BY <1>2 DEF IsAttempt, Pcs
<1>4. SeenFits(x)  BY <1>1 DEF SeenFits, books
<1> QED BY <1>1, <1>3, <1>4, ReadingKept

LEMMA BalancesKept ==
    ASSUME HoldsInv, NEW a \in Attempts, Balances(a)
    PROVE  HoldsInv'
<1> DEFINE y == attempt[a]
           fits == Available(attempt[a].now) >= Hold
           z == [y EXCEPT !.pc = "balanced"]
           x == [z EXCEPT !.fits = fits]
<1>1. attempt' = [attempt EXCEPT ![a] = x] /\ UNCHANGED books /\ y.pc = "admitting"
  BY DEF Balances, books, Pc, HoldsInv, Types
<1>2. IsAttempt(y) /\ SeenFits(y)  BY <1>1, BooksStay, AttemptKept DEF HoldsInv, Types
<1> HIDE DEF y, fits
<1>3. z = [pc |-> "balanced", msg |-> y.msg, now |-> y.now, seen |-> y.seen,
           expiring |-> y.expiring, since |-> y.since, tokens |-> y.tokens,
           outcome |-> y.outcome, overtaken |-> y.overtaken, fits |-> y.fits, to |-> y.to]
  BY <1>2 DEF IsAttempt
<1> HIDE DEF z
<1>4. x = [pc |-> "balanced", msg |-> y.msg, now |-> y.now, seen |-> y.seen,
           expiring |-> y.expiring, since |-> y.since, tokens |-> y.tokens,
           outcome |-> y.outcome, overtaken |-> y.overtaken, fits |-> fits, to |-> y.to]
  BY <1>3
<1> HIDE DEF x
<1>5. IsAttempt(x)  BY <1>1, <1>2, <1>4 DEF IsAttempt, Pcs
<1>6. SeenFits(x)  BY <1>1, <1>2, <1>4 DEF SeenFits
<1> QED BY <1>1, <1>5, <1>6, ReadingKept

\* Holds that are marked expired.
LEMMA ExpiredFacts ==
    ASSUME HoldsInv, NEW ms \in SUBSET Messages, \A m \in ms : hold[m].status # "none"
    PROVE  LET e == Expired(hold, ms) IN
           /\ e = [m \in Messages |-> e[m]]
           /\ \A m \in Messages :
                 /\ e[m] = [status |-> e[m].status, expires |-> e[m].expires]
                 /\ e[m].status \in Statuses
                 /\ e[m].status = "none" <=> hold[m].status = "none"
                 /\ e[m].status = "reserved" => hold[m].status = "reserved"
<1> DEFINE e == Expired(hold, ms)
<1>1. e = [m \in Messages |-> IF m \in ms THEN [hold[m] EXCEPT !.status = "expired"] ELSE hold[m]]
  BY DEF Expired
<1>2. ASSUME NEW m \in Messages
      PROVE  /\ e[m] = [status |-> e[m].status, expires |-> e[m].expires]
             /\ e[m].status \in Statuses
             /\ e[m].status = "none" <=> hold[m].status = "none"
             /\ e[m].status = "reserved" => hold[m].status = "reserved"
  <2>1. hold[m] = [status |-> hold[m].status, expires |-> hold[m].expires]
        /\ hold[m].status \in Statuses
    BY DEF HoldsInv, Types
  <2>2. CASE m \in ms
    <3>1. e[m] = [status |-> "expired", expires |-> hold[m].expires]  BY <1>1, <2>1, <2>2
    <3> QED BY <2>2, <3>1 DEF Statuses
  <2>3. CASE m \notin ms
    <3>1. e[m] = hold[m]  BY <1>1, <2>3
    <3> QED BY <2>1, <3>1
  <2> QED BY <2>2, <2>3
<1> QED BY <1>1, <1>2

LEMMA ReservesKept ==
    ASSUME HoldsInv, NEW a \in Attempts, Reserves(a)
    PROVE  HoldsInv'
<1> DEFINE m == Msg(a)
           y == attempt[a]
           e == Expired(hold, y.expiring)
           x == [pc |-> "calling", msg |-> m, now |-> 0, seen |-> "reserved",
                 expiring |-> {}, since |-> clock, tokens |-> 0, outcome |-> "none",
                 overtaken |-> FALSE, fits |-> FALSE, to |-> NoRow.to]
           new == [status |-> "reserved", expires |-> clock + TTL]
<1>1. /\ y.pc = "balanced" /\ hold[m].status = "none" /\ hold' = [e EXCEPT ![m] = new]
      /\ run' = [run EXCEPT ![m] = "running"] /\ UNCHANGED <<ledger, consumed>>
  BY DEF Reserves, Pc
<1>2. attempt' = Overtaking(a, x)  BY DEF Reserves, Request
<1>3. m \in Messages /\ y.expiring \subseteq Messages
      /\ \A n \in y.expiring : hold[n].status # "none"
  BY <1>1 DEF HoldsInv, Types, IsAttempt, SeenStays, Pc, Msg
<1>4. /\ e = [n \in Messages |-> e[n]]
      /\ \A n \in Messages :
            /\ e[n] = [status |-> e[n].status, expires |-> e[n].expires]
            /\ e[n].status \in Statuses
            /\ e[n].status = "none" <=> hold[n].status = "none"
            /\ e[n].status = "reserved" => hold[n].status = "reserved"
  BY <1>3, ExpiredFacts
<1> HIDE DEF e
<1>5. /\ hold' = [n \in Messages |-> hold'[n]] /\ hold'[m] = new
      /\ \A n \in Messages \ {m} : hold'[n] = e[n]
  BY <1>1, <1>3, <1>4
<1>6. /\ run' \in [Messages -> Runs] /\ run'[m] = "running" /\ run[m] = "none"
      /\ \A n \in Messages \ {m} : run'[n] = run[n]
  BY <1>1, <1>3 DEF HoldsInv, Types, Runs, HoldsComeWithRuns
<1>7. \A n \in Messages : /\ hold'[n] = [status |-> hold'[n].status, expires |-> hold'[n].expires]
                         /\ hold'[n].status \in Statuses
  BY <1>4, <1>5 DEF Statuses
<1>8. BookTypes
  <2>1. DOMAIN hold' = Messages  BY <1>5
  <2>2. /\ consumed' \in [Messages -> Nat \cup {Absent}] /\ ledger' = [n \in Messages |-> ledger'[n]]
        /\ \A n \in Messages : IsRow(ledger'[n])
    BY <1>1 DEF HoldsInv, Types
  <2> QED BY <1>5, <1>6, <1>7, <2>1, <2>2 DEF BookTypes
<1>9. BooksGrow  BY <1>1, <1>4, <1>5, <1>6 DEF BooksGrow
<1>10. BooksInv'
  <2>1. HoldsComeWithRuns'  BY <1>4, <1>5, <1>6 DEF HoldsComeWithRuns, HoldsInv
  <2>2. ChargedIsSpent'  BY <1>1, <1>3, <1>4, <1>5 DEF ChargedIsSpent, HoldsInv
  <2>3. AnsweredIsCharged'  BY <1>1, <1>6 DEF AnsweredIsCharged, HoldsInv
  <2>4. FinishedHoldsNothing'  BY <1>4, <1>5, <1>6 DEF FinishedHoldsNothing, HoldsInv
  <2> QED BY <2>1, <2>2, <2>3, <2>4 DEF BooksInv
<1>11. IsAttempt(x)  BY <1>3 DEF IsAttempt, Pcs, Statuses
<1>12. SeenFits(x)  BY <1>6 DEF SeenFits
<1>13. Becomes(a, x)  BY <1>2, OvertakingBecomes DEF HoldsInv
<1> HIDE DEF x
<1> QED BY <1>8, <1>9, <1>10, <1>11, <1>12, <1>13, StepKept

-----------------------------------------------------------------------------
(* The call and what follows it.                                           *)

\* Records with fields that are changed.
LEMMA Changed ==
    ASSUME NEW y, IsAttempt(y), NEW p, NEW t, NEW o, NEW n, NEW to
    PROVE  /\ [[[[y EXCEPT !.pc = p] EXCEPT !.tokens = t] EXCEPT !.outcome = o] EXCEPT !.since = 0]
              = [pc |-> p, msg |-> y.msg, now |-> y.now, seen |-> y.seen,
                   expiring |-> y.expiring, since |-> 0, tokens |-> t,
                   outcome |-> o, overtaken |-> y.overtaken, fits |-> y.fits, to |-> y.to]
           /\ [[y EXCEPT !.pc = p] EXCEPT !.now = n]
              = [pc |-> p, msg |-> y.msg, now |-> n, seen |-> y.seen,
                   expiring |-> y.expiring, since |-> y.since, tokens |-> y.tokens,
                   outcome |-> y.outcome, overtaken |-> y.overtaken, fits |-> y.fits, to |-> y.to]
           /\ [[y EXCEPT !.pc = p] EXCEPT !.to = to]
              = [pc |-> p, msg |-> y.msg, now |-> y.now, seen |-> y.seen,
                   expiring |-> y.expiring, since |-> y.since, tokens |-> y.tokens,
                   outcome |-> y.outcome, overtaken |-> y.overtaken, fits |-> y.fits, to |-> to]
<1> DEFINE z == [y EXCEPT !.pc = p]
<1>1. z = [pc |-> p, msg |-> y.msg, now |-> y.now, seen |-> y.seen,
                   expiring |-> y.expiring, since |-> y.since, tokens |-> y.tokens,
                   outcome |-> y.outcome, overtaken |-> y.overtaken, fits |-> y.fits, to |-> y.to]
  BY DEF IsAttempt
<1> HIDE DEF z
<1> DEFINE u == [z EXCEPT !.tokens = t]
<1>2. u = [pc |-> p, msg |-> y.msg, now |-> y.now, seen |-> y.seen,
                   expiring |-> y.expiring, since |-> y.since, tokens |-> t,
                   outcome |-> y.outcome, overtaken |-> y.overtaken, fits |-> y.fits, to |-> y.to]
  BY <1>1
<1> HIDE DEF u
<1> DEFINE v == [u EXCEPT !.outcome = o]
<1>3. v = [pc |-> p, msg |-> y.msg, now |-> y.now, seen |-> y.seen,
                   expiring |-> y.expiring, since |-> y.since, tokens |-> t,
                   outcome |-> o, overtaken |-> y.overtaken, fits |-> y.fits, to |-> y.to]
  BY <1>2
<1> HIDE DEF v
<1>6. [v EXCEPT !.since = 0] = [pc |-> p, msg |-> y.msg, now |-> y.now, seen |-> y.seen,
                   expiring |-> y.expiring, since |-> 0, tokens |-> t,
                   outcome |-> o, overtaken |-> y.overtaken, fits |-> y.fits, to |-> y.to]
  BY <1>3
<1>4. [z EXCEPT !.now = n] = [pc |-> p, msg |-> y.msg, now |-> n, seen |-> y.seen,
                   expiring |-> y.expiring, since |-> y.since, tokens |-> y.tokens,
                   outcome |-> y.outcome, overtaken |-> y.overtaken, fits |-> y.fits, to |-> y.to]
  BY <1>1
<1>5. [z EXCEPT !.to = to] = [pc |-> p, msg |-> y.msg, now |-> y.now, seen |-> y.seen,
                   expiring |-> y.expiring, since |-> y.since, tokens |-> y.tokens,
                   outcome |-> y.outcome, overtaken |-> y.overtaken, fits |-> y.fits, to |-> to]
  BY <1>1
<1> QED BY <1>6, <1>4, <1>5 DEF v, u, z

LEMMA StatusChanged ==
    ASSUME NEW h, h = [status |-> h.status, expires |-> h.expires], NEW s
    PROVE  [h EXCEPT !.status = s] = [status |-> s, expires |-> h.expires]
  OBVIOUS

\* The three steps of an attempt that goes on.
LEMMA GoesOnKept ==
    ASSUME HoldsInv, NEW a \in Attempts,
           \/ \E t \in Tokens, o \in {"completed", "failed"} : Answers(a, t, o)
           \/ LocksHold(a) \/ Allocates(a)
    PROVE  HoldsInv'
<1> DEFINE y == attempt[a]
<1>1. UNCHANGED books /\ y.pc \in {"calling", "answered", "settling"} /\ IsAttempt(y)
  BY DEF Answers, LocksHold, Allocates, books, Pc, HoldsInv, Types
<1>2. CASE \E t \in Tokens, o \in {"completed", "failed"} : Answers(a, t, o)
  <2>1. PICK t \in Tokens, o \in {"completed", "failed"} : Answers(a, t, o)  BY <1>2
  <2> DEFINE x == [[[[y EXCEPT !.pc = "answered"] EXCEPT !.tokens = t] EXCEPT !.outcome = o]
              EXCEPT !.since = 0]
  <2>2. attempt' = [attempt EXCEPT ![a] = x]  BY <2>1 DEF Answers, HoldsInv, Types
  <2> HIDE DEF y
  <2>3. x = [pc |-> "answered", msg |-> y.msg, now |-> y.now, seen |-> y.seen,
             expiring |-> y.expiring, since |-> 0, tokens |-> t,
             outcome |-> o, overtaken |-> y.overtaken, fits |-> y.fits, to |-> y.to]
    <3> DEFINE p == "answered"
    <3>1. x = [[[[y EXCEPT !.pc = p] EXCEPT !.tokens = t] EXCEPT !.outcome = o] EXCEPT !.since = 0]
      OBVIOUS
    <3> HIDE DEF x, p
    <3>2. x = [pc |-> p, msg |-> y.msg, now |-> y.now, seen |-> y.seen,
               expiring |-> y.expiring, since |-> 0, tokens |-> t,
               outcome |-> o, overtaken |-> y.overtaken, fits |-> y.fits, to |-> y.to]
      BY <1>1, <3>1, Changed, ZenonT(30)
    <3> QED BY <3>2 DEF p
  <2> HIDE DEF x
  <2>4. SameRequest(x, y)  BY <1>1, <2>3 DEF SameRequest, IsAttempt, Pcs
  <2> QED BY <1>1, <2>2, <2>4, SameRequestKept DEF y
<1>3. CASE LocksHold(a)
  <2> DEFINE p == IF y.tokens = 0 THEN "closing" ELSE "settling"
             x == [[y EXCEPT !.pc = p] EXCEPT !.now = clock]
  <2>1. attempt' = [attempt EXCEPT ![a] = x] /\ y.pc = "answered"
    BY <1>3 DEF LocksHold, Pc, HoldsInv, Types
  <2>p. p \in {"closing", "settling"} /\ (p = "settling" => y.tokens # 0)  OBVIOUS
  <2> HIDE DEF y, p
  <2>2. x = [pc |-> p, msg |-> y.msg, now |-> clock, seen |-> y.seen,
             expiring |-> y.expiring, since |-> y.since, tokens |-> y.tokens,
             outcome |-> y.outcome, overtaken |-> y.overtaken, fits |-> y.fits, to |-> y.to]
    BY <1>1, Changed
  <2> HIDE DEF x
  <2>3. SameRequest(x, y)  BY <1>1, <2>1, <2>p, <2>2 DEF SameRequest, IsAttempt, Pcs
  <2> QED BY <1>1, <2>1, <2>3, SameRequestKept DEF y
<1>4. CASE Allocates(a)
  <2> DEFINE to == Allocation(Least(attempt[a].tokens, Hold), attempt[a].now)
             x == [[y EXCEPT !.pc = "allocated"] EXCEPT !.to = to]
  <2>1. attempt' = [attempt EXCEPT ![a] = x] /\ y.pc = "settling"
    BY <1>4 DEF Allocates, Pc, HoldsInv, Types
  <2> HIDE DEF y, to
  <2>2. x = [pc |-> "allocated", msg |-> y.msg, now |-> y.now, seen |-> y.seen,
             expiring |-> y.expiring, since |-> y.since, tokens |-> y.tokens,
             outcome |-> y.outcome, overtaken |-> y.overtaken, fits |-> y.fits, to |-> to]
    BY <1>1, Changed
  <2> HIDE DEF x
  <2>3. SameRequest(x, y)  BY <1>1, <2>1, <2>2 DEF SameRequest, IsAttempt, Pcs
  <2> QED BY <1>1, <2>1, <2>3, SameRequestKept DEF y
<1> QED BY <1>2, <1>3, <1>4

\* An attempt that has a message.
LEMMA Requested ==
    ASSUME HoldsInv, NEW a \in Attempts, Pc(a) # "idle"
    PROVE  IsAttempt(attempt[a]) /\ Msg(a) \in Messages
  BY DEF HoldsInv, Types, IsAttempt, Pc, Msg

LEMMA FailsKept ==
    ASSUME HoldsInv, NEW a \in Attempts, Fails(a)
    PROVE  HoldsInv'
<1> DEFINE m == Msg(a)
<1>1. /\ Pc(a) = "calling" /\ Leaves(a) /\ run' = [run EXCEPT ![m] = "failed"]
      /\ hold' = IF attempt[a].seen = "reserved"
                 THEN [hold EXCEPT ![m].status = "released"] ELSE hold
      /\ UNCHANGED <<ledger, consumed>>
  BY DEF Fails
<1>2. /\ m \in Messages /\ run[m] # "none" /\ hold[m].status # "none"
      /\ (attempt[a].seen # "reserved" => hold[m].status # "reserved")
  BY <1>1, Requested DEF HoldsInv, SeenStays, HoldsComeWithRuns
<1>3. hold[m] = [status |-> hold[m].status, expires |-> hold[m].expires]
      /\ hold = [n \in Messages |-> hold[n]]
  BY <1>2 DEF HoldsInv, Types
<1>4. /\ hold' = [n \in Messages |-> hold'[n]]
      /\ \A n \in Messages \ {m} : hold'[n] = hold[n]
      /\ hold'[m] = [status |-> hold'[m].status, expires |-> hold'[m].expires]
      /\ hold'[m].status \in Statuses \ {"none", "reserved"}
  <2>1. CASE attempt[a].seen = "reserved"
    <3>1. hold' = [hold EXCEPT ![m] = [status |-> "released", expires |-> hold[m].expires]]
      BY <1>1, <1>3, <2>1, StatusChanged
    <3> QED BY <1>2, <1>3, <3>1 DEF Statuses
  <2>2. CASE attempt[a].seen # "reserved"
    BY <1>1, <1>2, <1>3, <2>2 DEF HoldsInv, Types
  <2> QED BY <2>1, <2>2
<1>5. /\ run' \in [Messages -> Runs] /\ run'[m] = "failed"
      /\ \A n \in Messages \ {m} : run'[n] = run[n]
  BY <1>1, <1>2 DEF HoldsInv, Types, Runs
<1>6. BookTypes
  <2>1. DOMAIN hold' = Messages  BY <1>4
  <2>2. /\ consumed' \in [Messages -> Nat \cup {Absent}] /\ ledger' = [n \in Messages |-> ledger'[n]]
        /\ \A n \in Messages : IsRow(ledger'[n])
    BY <1>1 DEF HoldsInv, Types
  <2>3. \A n \in Messages : /\ hold'[n] = [status |-> hold'[n].status, expires |-> hold'[n].expires]
                           /\ hold'[n].status \in Statuses
    BY <1>4 DEF HoldsInv, Types
  <2> QED BY <1>4, <1>5, <2>1, <2>2, <2>3 DEF BookTypes
<1>7. BooksGrow  BY <1>2, <1>4, <1>5 DEF BooksGrow
<1>8. BooksInv'
  <2>1. HoldsComeWithRuns'  BY <1>2, <1>4, <1>5 DEF HoldsComeWithRuns, HoldsInv
  <2>2. ChargedIsSpent'  BY <1>1, <1>4 DEF ChargedIsSpent, HoldsInv
  <2>3. AnsweredIsCharged'  BY <1>1, <1>5 DEF AnsweredIsCharged, HoldsInv
  <2>4. FinishedHoldsNothing'  BY <1>4, <1>5 DEF FinishedHoldsNothing, HoldsInv
  <2> QED BY <2>1, <2>2, <2>3, <2>4 DEF BooksInv
<1> QED BY <1>1, <1>6, <1>7, <1>8, LeavesKept

LEMMA ReplaysKept ==
    ASSUME HoldsInv, NEW a \in Attempts, Replays(a)
    PROVE  HoldsInv'
<1> DEFINE m == Msg(a)
           o == attempt[a].outcome
<1>1. /\ Pc(a) = "answered" /\ Leaves(a) /\ consumed[m] # Absent
      /\ run' = IF consumed[m] = attempt[a].tokens THEN [run EXCEPT ![m] = o] ELSE run
      /\ UNCHANGED <<hold, ledger, consumed>>
  BY DEF Replays
<1>2. m \in Messages /\ o \in {"completed", "failed"} /\ run[m] # "none"
      /\ hold[m].status \notin {"none", "reserved"}
  BY <1>1, Requested DEF IsAttempt, Pc, HoldsInv, SeenStays, ChargedIsSpent
<1>3. /\ run' \in [Messages -> Runs] /\ run'[m] \in {run[m], o}
      /\ \A n \in Messages \ {m} : run'[n] = run[n]
  BY <1>1, <1>2 DEF HoldsInv, Types, Runs
<1>4. BookTypes  BY <1>1, <1>3 DEF BookTypes, HoldsInv, Types
<1>5. BooksGrow  BY <1>1, <1>2, <1>3 DEF BooksGrow
<1>6. BooksInv'
  <2>1. HoldsComeWithRuns'  BY <1>1, <1>2, <1>3 DEF HoldsComeWithRuns, HoldsInv
  <2>2. ChargedIsSpent'  BY <1>1 DEF ChargedIsSpent, HoldsInv
  <2>3. AnsweredIsCharged'  BY <1>1, <1>3 DEF AnsweredIsCharged, HoldsInv
  <2>4. FinishedHoldsNothing'  BY <1>1, <1>2, <1>3 DEF FinishedHoldsNothing, HoldsInv
  <2> QED BY <2>1, <2>2, <2>3, <2>4 DEF BooksInv
<1> QED BY <1>1, <1>4, <1>5, <1>6, LeavesKept

LEMMA SettlesKept ==
    ASSUME HoldsInv, NEW a \in Attempts, Settles(a)
    PROVE  HoldsInv'
<1> DEFINE m == Msg(a)
           t == attempt[a].tokens
           o == attempt[a].outcome
           row == [quantity |-> Least(t, Hold), at |-> attempt[a].now, to |-> attempt[a].to]
<1>1. /\ Pc(a) = "allocated" /\ run' = [run EXCEPT ![m] = o]
      /\ consumed' = [consumed EXCEPT ![m] = t] /\ ledger' = [ledger EXCEPT ![m] = row]
      /\ hold' = [hold EXCEPT ![m].status = "settled"]
      /\ attempt' = Overtaking(a, Idle)
  BY DEF Settles
<1>2. m \in Messages /\ t \in Nat /\ t # Absent /\ o \in {"completed", "failed"} /\ run[m] # "none"
  <2>1. m \in Messages /\ t \in Tokens /\ o \in {"completed", "failed"}
    BY <1>1, Requested DEF IsAttempt, Pc
  <2>2. run[m] # "none"  BY <1>1 DEF HoldsInv, SeenStays
  <2> HIDE DEF t, o, m
  <2> QED BY <2>1, <2>2, Numbers
<1>3. hold[m] = [status |-> hold[m].status, expires |-> hold[m].expires]
      /\ hold = [n \in Messages |-> hold[n]] /\ hold[m].status # "none"
  BY <1>2 DEF HoldsInv, Types, HoldsComeWithRuns
<1>4. /\ hold' = [n \in Messages |-> hold'[n]]
      /\ \A n \in Messages \ {m} : hold'[n] = hold[n]
      /\ hold'[m] = [status |-> "settled", expires |-> hold[m].expires]
  <2>1. hold' = [hold EXCEPT ![m] = [status |-> "settled", expires |-> hold[m].expires]]
    BY <1>1, <1>3, StatusChanged
  <2> QED BY <1>2, <1>3, <2>1
<1>5. /\ run' \in [Messages -> Runs] /\ run'[m] = o
      /\ \A n \in Messages \ {m} : run'[n] = run[n]
  BY <1>1, <1>2 DEF HoldsInv, Types, Runs
<1>6. /\ consumed' \in [Messages -> Nat \cup {Absent}] /\ consumed'[m] = t
      /\ \A n \in Messages \ {m} : consumed'[n] = consumed[n]
  BY <1>1, <1>2 DEF HoldsInv, Types
<1>7. /\ ledger' = [n \in Messages |-> ledger'[n]] /\ ledger'[m] = row
      /\ \A n \in Messages \ {m} : ledger'[n] = ledger[n]
  <2>1. ledger = [n \in Messages |-> ledger[n]]  BY DEF HoldsInv, Types
  <2> HIDE DEF row
  <2> QED BY <1>1, <1>2, <2>1
<1>8. BookTypes
  <2>1. DOMAIN hold' = Messages  BY <1>4
  <2>2. \A n \in Messages : IsRow(ledger'[n])  BY <1>7 DEF IsRow, HoldsInv, Types
  <2>3. \A n \in Messages : /\ hold'[n] = [status |-> hold'[n].status, expires |-> hold'[n].expires]
                           /\ hold'[n].status \in Statuses
    BY <1>4 DEF HoldsInv, Types, Statuses
  <2>4. ledger' = [n \in Messages |-> ledger'[n]]  BY <1>7
  <2> HIDE DEF row
  <2> QED BY <1>4, <1>5, <1>6, <2>1, <2>2, <2>3, <2>4 DEF BookTypes
<1>9. BooksGrow  BY <1>2, <1>4, <1>5 DEF BooksGrow
<1>10. BooksInv'
  <2>1. HoldsComeWithRuns'  BY <1>2, <1>3, <1>4, <1>5 DEF HoldsComeWithRuns, HoldsInv
  <2>2. ChargedIsSpent'  BY <1>4, <1>6 DEF ChargedIsSpent, HoldsInv
  <2>3. ledger'[m].quantity = Least(consumed'[m], Hold)  BY <1>6, <1>7
  <2>4. \A n \in Messages \ {m} : ledger'[n] = ledger[n]  BY <1>7
  <2> HIDE DEF row
  <2>5. AnsweredIsCharged'  BY <1>2, <1>5, <1>6, <2>3, <2>4 DEF AnsweredIsCharged, HoldsInv
  <2>6. FinishedHoldsNothing'  BY <1>4, <1>5 DEF FinishedHoldsNothing, HoldsInv
  <2> QED BY <2>1, <2>2, <2>5, <2>6 DEF BooksInv
<1>11. Becomes(a, Idle)  BY <1>1, OvertakingBecomes DEF HoldsInv
<1>12. SeenFits(Idle)  BY IdleFacts DEF SeenFits
<1> QED BY <1>8, <1>9, <1>10, <1>11, <1>12, IdleFacts, StepKept

LEMMA SettlesNothingKept ==
    ASSUME HoldsInv, NEW a \in Attempts, SettlesNothing(a)
    PROVE  HoldsInv'
<1> DEFINE m == Msg(a)
           o == attempt[a].outcome
           row == [quantity |-> 0, at |-> attempt[a].now, to |-> NoRow.to]
<1>1. /\ Pc(a) = "closing" /\ Leaves(a) /\ run' = [run EXCEPT ![m] = o]
      /\ consumed' = [consumed EXCEPT ![m] = 0] /\ ledger' = [ledger EXCEPT ![m] = row]
      /\ hold' = [hold EXCEPT ![m].status = "settled"]
  BY DEF SettlesNothing
<1>2. m \in Messages /\ o \in {"completed", "failed"} /\ run[m] # "none"
  <2>1. m \in Messages /\ o \in {"completed", "failed"}
    BY <1>1, Requested DEF IsAttempt, Pc
  <2>2. run[m] # "none"  BY <1>1 DEF HoldsInv, SeenStays
  <2> QED BY <2>1, <2>2
<1>3. hold[m] = [status |-> hold[m].status, expires |-> hold[m].expires]
      /\ hold = [n \in Messages |-> hold[n]] /\ hold[m].status # "none"
  BY <1>2 DEF HoldsInv, Types, HoldsComeWithRuns
<1>4. /\ hold' = [n \in Messages |-> hold'[n]]
      /\ \A n \in Messages \ {m} : hold'[n] = hold[n]
      /\ hold'[m] = [status |-> "settled", expires |-> hold[m].expires]
  <2>1. hold' = [hold EXCEPT ![m] = [status |-> "settled", expires |-> hold[m].expires]]
    BY <1>1, <1>3, StatusChanged
  <2> QED BY <1>2, <1>3, <2>1
<1>5. /\ run' \in [Messages -> Runs] /\ run'[m] = o
      /\ \A n \in Messages \ {m} : run'[n] = run[n]
  BY <1>1, <1>2 DEF HoldsInv, Types, Runs
<1>6. /\ consumed' \in [Messages -> Nat \cup {Absent}] /\ consumed'[m] = 0
      /\ \A n \in Messages \ {m} : consumed'[n] = consumed[n]
  BY <1>1, <1>2 DEF HoldsInv, Types
<1>7. /\ ledger' = [n \in Messages |-> ledger'[n]] /\ ledger'[m] = row
      /\ \A n \in Messages \ {m} : ledger'[n] = ledger[n]
  <2>1. ledger = [n \in Messages |-> ledger[n]]  BY DEF HoldsInv, Types
  <2> HIDE DEF row
  <2> QED BY <1>1, <1>2, <2>1
<1>8. BookTypes
  <2>1. DOMAIN hold' = Messages  BY <1>4
  <2>2. \A n \in Messages : IsRow(ledger'[n])  BY <1>7 DEF IsRow, HoldsInv, Types
  <2>3. \A n \in Messages : /\ hold'[n] = [status |-> hold'[n].status, expires |-> hold'[n].expires]
                           /\ hold'[n].status \in Statuses
    BY <1>4 DEF HoldsInv, Types, Statuses
  <2>4. ledger' = [n \in Messages |-> ledger'[n]]  BY <1>7
  <2> HIDE DEF row
  <2> QED BY <1>4, <1>5, <1>6, <2>1, <2>2, <2>3, <2>4 DEF BookTypes
<1>9. BooksGrow  BY <1>2, <1>4, <1>5 DEF BooksGrow
<1>10. BooksInv'
  <2>1. HoldsComeWithRuns'  BY <1>2, <1>3, <1>4, <1>5 DEF HoldsComeWithRuns, HoldsInv
  <2>2. ChargedIsSpent'  BY <1>4, <1>6 DEF ChargedIsSpent, HoldsInv
  <2>3. ledger'[m].quantity = Least(consumed'[m], Hold) /\ consumed'[m] # Absent
    BY <1>6, <1>7, Numbers DEF Least
  <2>4. \A n \in Messages \ {m} : ledger'[n] = ledger[n]  BY <1>7
  <2> HIDE DEF row
  <2>5. AnsweredIsCharged'  BY <1>2, <1>5, <1>6, <2>3, <2>4 DEF AnsweredIsCharged, HoldsInv
  <2>6. FinishedHoldsNothing'  BY <1>4, <1>5 DEF FinishedHoldsNothing, HoldsInv
  <2> QED BY <2>1, <2>2, <2>5, <2>6 DEF BooksInv
<1> QED BY <1>1, <1>8, <1>9, <1>10, LeavesKept

-----------------------------------------------------------------------------
(* Every step.                                                             *)
LEMMA NobodyMoves ==
    ASSUME HoldsInv, BookTypes, BooksGrow, BooksInv', attempt' = attempt
    PROVE  HoldsInv'
<1>1. Types'  BY DEF BookTypes, HoldsInv, Types
<1>2. \A b \in Attempts : SeenFits(attempt'[b])  BY AttemptKept
<1>3. SeenStays'  BY <1>2 DEF SeenStays, SeenFits, Pc, Msg
<1> QED BY <1>1, <1>3 DEF HoldsInv, BooksInv

LEMMA SweepsKept == ASSUME HoldsInv, Sweeps PROVE HoldsInv'
<1>1. /\ hold' = Expired(hold, Abandoned) /\ UNCHANGED <<run, ledger, consumed, attempt>>
      /\ Abandoned \in SUBSET Messages /\ \A m \in Abandoned : hold[m].status # "none"
  BY DEF Sweeps, Abandoned
<1>2. /\ hold' = [m \in Messages |-> hold'[m]]
      /\ \A m \in Messages :
            /\ hold'[m] = [status |-> hold'[m].status, expires |-> hold'[m].expires]
            /\ hold'[m].status \in Statuses
            /\ hold'[m].status = "none" <=> hold[m].status = "none"
            /\ hold'[m].status = "reserved" => hold[m].status = "reserved"
  BY <1>1, ExpiredFacts
<1>3. BookTypes
  <2>1. DOMAIN hold' = Messages  BY <1>2
  <2> QED BY <1>1, <1>2, <2>1 DEF BookTypes, HoldsInv, Types
<1>4. BooksGrow  BY <1>1, <1>2 DEF BooksGrow
<1>5. BooksInv'
  <2>1. HoldsComeWithRuns'  BY <1>1, <1>2 DEF HoldsComeWithRuns, HoldsInv
  <2>2. ChargedIsSpent'  BY <1>1, <1>2 DEF ChargedIsSpent, HoldsInv
  <2>3. AnsweredIsCharged'  BY <1>1 DEF AnsweredIsCharged, HoldsInv
  <2>4. FinishedHoldsNothing'  BY <1>1, <1>2 DEF FinishedHoldsNothing, HoldsInv
  <2> QED BY <2>1, <2>2, <2>3, <2>4 DEF BooksInv
<1> QED BY <1>1, <1>3, <1>4, <1>5, NobodyMoves

LEMMA InitInv == Init => HoldsInv
<1> SUFFICES ASSUME Init PROVE HoldsInv  OBVIOUS
<1>1. /\ \A a \in Attempts : attempt[a] = Idle
      /\ attempt = [a \in Attempts |-> attempt[a]]
  BY DEF Init
<1>2. /\ \A m \in Messages : run[m] = "none" /\ hold[m] = NoHold /\ ledger[m] = NoRow
                             /\ consumed[m] = Absent
      /\ run = [m \in Messages |-> run[m]] /\ hold = [m \in Messages |-> hold[m]]
      /\ ledger = [m \in Messages |-> ledger[m]] /\ consumed = [m \in Messages |-> consumed[m]]
  BY DEF Init
<1>3. NoHold = [status |-> "none", expires |-> 0] /\ IsRow(NoRow) /\ NoRow.quantity = Absent
  BY DEF NoHold, NoRow, IsRow
<1>4. Types
  <2>1. run \in [Messages -> Runs] /\ consumed \in [Messages -> Nat \cup {Absent}] /\ DOMAIN hold = Messages
    BY <1>2 DEF Runs
  <2>2. \A m \in Messages : /\ hold[m] = [status |-> hold[m].status, expires |-> hold[m].expires]
                           /\ hold[m].status \in Statuses
    BY <1>2, <1>3 DEF Statuses
  <2> QED BY <1>1, <1>2, <1>3, <2>1, <2>2, IdleFacts DEF Types
<1>5. HoldsComeWithRuns /\ ChargedIsSpent /\ FinishedHoldsNothing
  BY <1>2, <1>3 DEF HoldsComeWithRuns, ChargedIsSpent, FinishedHoldsNothing
<1>6. AnsweredIsCharged  BY <1>2, <1>3, Numbers DEF AnsweredIsCharged, Least
<1>7. SeenStays  BY <1>1, IdleFacts DEF SeenStays, Pc
<1> QED BY <1>4, <1>5, <1>6, <1>7 DEF HoldsInv

LEMMA Inductive == HoldsInv /\ [Next]_vars => HoldsInv'
<1> SUFFICES ASSUME HoldsInv, [Next]_vars PROVE HoldsInv'  OBVIOUS
<1>1. CASE Sweeps  BY <1>1, SweepsKept
<1>2. CASE Tick \/ UNCHANGED vars
  <2>1. UNCHANGED books /\ attempt' = attempt  BY <1>2 DEF Tick, vars, books
  <2> QED BY <2>1, BooksStay, NobodyMoves
<1>3. ASSUME NEW a \in Attempts,
             \/ \E m \in Messages : Sends(a, m) \/ SendsAgain(a, m)
             \/ \E g \in Grants : LocksGrant(a, g)
             \/ Deadlocks(a) \/ Balances(a) \/ Allocates(a) \/ Reserves(a) \/ Refuses(a)
             \/ \E t \in Tokens, o \in {"completed", "failed"} : Answers(a, t, o)
             \/ Fails(a) \/ Replays(a) \/ TooLate(a) \/ LocksHold(a) \/ Settles(a)
             \/ SettlesNothing(a) \/ Dies(a)
      PROVE  HoldsInv'
  <2>1. CASE \E m \in Messages : Sends(a, m) \/ SendsAgain(a, m)
    BY <2>1, SendsKept, SendsAgainKept
  <2>2. CASE \E g \in Grants : LocksGrant(a, g)
    <3>1. UNCHANGED books /\ attempt' = attempt  BY <2>2 DEF LocksGrant
    <3> QED BY <3>1, BooksStay, NobodyMoves
  <2>3. CASE Deadlocks(a) \/ Refuses(a) \/ TooLate(a) \/ Dies(a)
    <3>1. UNCHANGED books /\ Leaves(a)  BY <2>3 DEF Deadlocks, Refuses, TooLate, Dies
    <3> QED BY <3>1, BooksStay, LeavesKept
  <2>4. CASE Balances(a)  BY <2>4, BalancesKept
  <2>5. CASE \/ \E t \in Tokens, o \in {"completed", "failed"} : Answers(a, t, o)
             \/ LocksHold(a) \/ Allocates(a)
    BY <2>5, GoesOnKept
  <2>6. CASE Reserves(a)  BY <2>6, ReservesKept
  <2>7. CASE Fails(a)  BY <2>7, FailsKept
  <2>8. CASE Replays(a)  BY <2>8, ReplaysKept
  <2>9. CASE Settles(a)  BY <2>9, SettlesKept
  <2>10. CASE SettlesNothing(a)  BY <2>10, SettlesNothingKept
  <2> QED BY <1>3, <2>1, <2>2, <2>3, <2>4, <2>5, <2>6, <2>7, <2>8, <2>9, <2>10
<1> QED BY <1>1, <1>2, <1>3 DEF Next

LEMMA HoldsInvAlways == Spec => []HoldsInv
  BY InitInv, Inductive, PTL DEF Spec

-----------------------------------------------------------------------------
\* However often a message is sent again, and whatever expires, dies or deadlocks
\* meanwhile, one that was answered is charged what its provider is recorded to
\* have consumed, capped by its hold, 0 for an answer without usage data
\* (`record_provider_consumption`, `settle`).
THEOREM AnswersAreCharged == Spec => []AnsweredIsCharged
<1>1. HoldsInv => AnsweredIsCharged  BY DEF HoldsInv
<1> QED BY <1>1, HoldsInvAlways, PTL

\* A finished run leaves nothing reserved (`send_message`).
THEOREM FinishedReleases == Spec => []FinishedHoldsNothing
<1>1. HoldsInv => FinishedHoldsNothing  BY DEF HoldsInv
<1> QED BY <1>1, HoldsInvAlways, PTL

-----------------------------------------------------------------------------
(* The sums of the balance, of the rows l.                                 *)

\* What the rows S allocate to a grant and what they charge, what the rows R
\* allocate to the grants S, and what they leave of them.
ColumnSum(l, g, S) == (CHOOSE it : it = [s \in SUBSET S |->
    IF s = {} THEN 0 ELSE l[CHOOSE x \in s : TRUE].to[g] + it[s \ {CHOOSE x \in s : TRUE}]])[S]
QuantitySum(l, S) == (CHOOSE it : it = [s \in SUBSET S |->
    IF s = {} THEN 0 ELSE l[CHOOSE x \in s : TRUE].quantity + it[s \ {CHOOSE x \in s : TRUE}]])[S]
GrantsSum(l, R, S) == (CHOOSE it : it = [s \in SUBSET S |->
    IF s = {} THEN 0 ELSE ColumnSum(l, CHOOSE x \in s : TRUE, R) + it[s \ {CHOOSE x \in s : TRUE}]])[S]
LeftOf(l, g, R) == IF ColumnSum(l, g, R) < Granted[g] THEN Granted[g] - ColumnSum(l, g, R) ELSE 0
LeftSum(l, R, S) == (CHOOSE it : it = [s \in SUBSET S |->
    IF s = {} THEN 0 ELSE LeftOf(l, CHOOSE x \in s : TRUE, R) + it[s \ {CHOOSE x \in s : TRUE}]])[S]

\* They are sums of the values of functions.
LEMMA ColumnIs ==
    ASSUME NEW l, NEW g, NEW S, IsFiniteSet(S)
    PROVE  ColumnSum(l, g, S) = Total([m \in S |-> l[m].to[g]], S)
<1> DEFINE f == [m \in S |-> l[m].to[g]]
           Sol(it) == it = [s \in SUBSET S |-> IF s = {} THEN 0
               ELSE l[CHOOSE x \in s : TRUE].to[g] + it[s \ {CHOOSE x \in s : TRUE}]]
<1>1. ASSUME NEW it PROVE Sol(it) <=> Solves(it, f, S)
  <2>1. \A s \in SUBSET S : s # {} => f[CHOOSE x \in s : TRUE] = l[CHOOSE x \in s : TRUE].to[g]
    OBVIOUS
  <2> HIDE DEF f
  <2> QED BY <2>1 DEF Solves
<1> HIDE DEF f, Sol
<1>2. \E it : Sol(it)
  <2>1. PICK it : Solves(it, f, S)  BY SumExists
  <2> QED BY <1>1, <2>1
<1>3. Sol(CHOOSE it : Sol(it))  BY <1>2
<1>4. Solves(CHOOSE it : Sol(it), f, S)  BY <1>1, <1>3
<1>5. ColumnSum(l, g, S) = (CHOOSE it : Sol(it))[S]  BY DEF ColumnSum, Sol
<1> QED BY <1>4, <1>5, SolutionIsTotal DEF f

LEMMA QuantityIs ==
    ASSUME NEW l, NEW S, IsFiniteSet(S)
    PROVE  QuantitySum(l, S) = Total([m \in S |-> l[m].quantity], S)
<1> DEFINE f == [m \in S |-> l[m].quantity]
           Sol(it) == it = [s \in SUBSET S |-> IF s = {} THEN 0
               ELSE l[CHOOSE x \in s : TRUE].quantity + it[s \ {CHOOSE x \in s : TRUE}]]
<1>1. ASSUME NEW it PROVE Sol(it) <=> Solves(it, f, S)
  <2>1. \A s \in SUBSET S : s # {} => f[CHOOSE x \in s : TRUE] = l[CHOOSE x \in s : TRUE].quantity
    OBVIOUS
  <2> HIDE DEF f
  <2> QED BY <2>1 DEF Solves
<1> HIDE DEF f, Sol
<1>2. \E it : Sol(it)
  <2>1. PICK it : Solves(it, f, S)  BY SumExists
  <2> QED BY <1>1, <2>1
<1>3. Sol(CHOOSE it : Sol(it))  BY <1>2
<1>4. Solves(CHOOSE it : Sol(it), f, S)  BY <1>1, <1>3
<1>5. QuantitySum(l, S) = (CHOOSE it : Sol(it))[S]  BY DEF QuantitySum, Sol
<1> QED BY <1>4, <1>5, SolutionIsTotal DEF f

LEMMA GrantsIs ==
    ASSUME NEW l, NEW R, NEW S, IsFiniteSet(S)
    PROVE  GrantsSum(l, R, S) = Total([g \in S |-> ColumnSum(l, g, R)], S)
<1> DEFINE f == [g \in S |-> ColumnSum(l, g, R)]
           Sol(it) == it = [s \in SUBSET S |-> IF s = {} THEN 0
               ELSE ColumnSum(l, CHOOSE x \in s : TRUE, R) + it[s \ {CHOOSE x \in s : TRUE}]]
<1>1. ASSUME NEW it PROVE Sol(it) <=> Solves(it, f, S)
  <2>1. \A s \in SUBSET S : s # {} => f[CHOOSE x \in s : TRUE] = ColumnSum(l, CHOOSE x \in s : TRUE, R)
    OBVIOUS
  <2> HIDE DEF f
  <2> QED BY <2>1 DEF Solves
<1> HIDE DEF f, Sol
<1>2. \E it : Sol(it)
  <2>1. PICK it : Solves(it, f, S)  BY SumExists
  <2> QED BY <1>1, <2>1
<1>3. Sol(CHOOSE it : Sol(it))  BY <1>2
<1>4. Solves(CHOOSE it : Sol(it), f, S)  BY <1>1, <1>3
<1>5. GrantsSum(l, R, S) = (CHOOSE it : Sol(it))[S]  BY DEF GrantsSum, Sol
<1> QED BY <1>4, <1>5, SolutionIsTotal DEF f

LEMMA LeftIs ==
    ASSUME NEW l, NEW R, NEW S, IsFiniteSet(S)
    PROVE  LeftSum(l, R, S) = Total([g \in S |-> LeftOf(l, g, R)], S)
<1> DEFINE f == [g \in S |-> LeftOf(l, g, R)]
           Sol(it) == it = [s \in SUBSET S |-> IF s = {} THEN 0
               ELSE LeftOf(l, CHOOSE x \in s : TRUE, R) + it[s \ {CHOOSE x \in s : TRUE}]]
<1>1. ASSUME NEW it PROVE Sol(it) <=> Solves(it, f, S)
  <2>1. \A s \in SUBSET S : s # {} => f[CHOOSE x \in s : TRUE] = LeftOf(l, CHOOSE x \in s : TRUE, R)
    OBVIOUS
  <2> HIDE DEF f
  <2> QED BY <2>1 DEF Solves
<1> HIDE DEF f, Sol
<1>2. \E it : Sol(it)
  <2>1. PICK it : Solves(it, f, S)  BY SumExists
  <2> QED BY <1>1, <2>1
<1>3. Sol(CHOOSE it : Sol(it))  BY <1>2
<1>4. Solves(CHOOSE it : Sol(it), f, S)  BY <1>1, <1>3
<1>5. LeftSum(l, R, S) = (CHOOSE it : Sol(it))[S]  BY DEF LeftSum, Sol
<1> QED BY <1>4, <1>5, SolutionIsTotal DEF f

\* The balance, and after a step.
LEMMA BalanceIs ==
    ASSUME NEW t, NEW u
    PROVE  /\ \A g : AllocatedTo(g, t) = ColumnSum(ledger, g, RowsBy(t))
           /\ \A g : Left(g, t) = LeftOf(ledger, g, RowsBy(t))
           /\ \A g : Before(g, t) = LeftSum(ledger, RowsBy(t), {h \in Active(t) : Order[h] < Order[g]})
           /\ UsedBy(t, u) = GrantsSum(ledger, RowsBy(u), Active(t))
                             + QuantitySum(ledger, {m \in RowsBy(u) : CountsAt(m, t)})
           /\ GrantedAt(t) = Total(Granted, Active(t))
<1>1. \A g : AllocatedTo(g, t) = ColumnSum(ledger, g, RowsBy(t))
  BY DEF AllocatedTo, ColumnSum, MapThenSumSet, MapThenFoldSet
<1>2. \A g : Left(g, t) = LeftOf(ledger, g, RowsBy(t))
  BY <1>1 DEF Left, LeftOf
<1>3. \A g : Before(g, t) = LeftSum(ledger, RowsBy(t), {h \in Active(t) : Order[h] < Order[g]})
  BY DEF Before, LeftSum, Left, LeftOf, AllocatedTo, ColumnSum, MapThenSumSet, MapThenFoldSet
<1>4. UsedBy(t, u) = GrantsSum(ledger, RowsBy(u), Active(t))
                     + QuantitySum(ledger, {m \in RowsBy(u) : CountsAt(m, t)})
  BY DEF UsedBy, GrantsSum, QuantitySum, AllocatedTo, ColumnSum, MapThenSumSet, MapThenFoldSet
<1>5. GrantedAt(t) = Total(Granted, Active(t))
  BY DEF GrantedAt, MapThenSumSet, MapThenFoldSet, Total, Solves
<1> QED BY <1>1, <1>2, <1>3, <1>4, <1>5

LEMMA BalanceIsNext ==
    ASSUME NEW t, NEW u
    PROVE  /\ \A g : (AllocatedTo(g, t))' = ColumnSum(ledger', g, (RowsBy(t))')
           /\ (UsedBy(t, u))' = GrantsSum(ledger', (RowsBy(u))', Active(t))
                                + QuantitySum(ledger', {m \in (RowsBy(u))' : (CountsAt(m, t))'})
<1>1. \A g : (AllocatedTo(g, t))' = ColumnSum(ledger', g, (RowsBy(t))')
  BY DEF AllocatedTo, ColumnSum, MapThenSumSet, MapThenFoldSet
<1>2. (UsedBy(t, u))' = GrantsSum(ledger', (RowsBy(u))', Active(t))
                        + QuantitySum(ledger', {m \in (RowsBy(u))' : (CountsAt(m, t))'})
  BY DEF UsedBy, GrantsSum, QuantitySum, AllocatedTo, ColumnSum, MapThenSumSet, MapThenFoldSet
<1> QED BY <1>1, <1>2

-----------------------------------------------------------------------------
(* What an attempt that decides relies on.                                 *)
Ran == {m \in Messages : run[m] # "none"}
HeldMessages == {m \in Messages : hold[m].status = "reserved"}

Rows ==
    /\ clock \in 0..MaxTime /\ IsFiniteSet(Ran)
    /\ grantLock = [g \in Grants |-> grantLock[g]] /\ holdLock = [m \in Messages |-> holdLock[m]]
    /\ \A m \in Messages : ledger[m].at \in 0..clock /\ ledger[m].to \in [Grants -> Nat]

\* A transaction that settles, with or without grants.
Settling(a) == Pc(a) \in {"settling", "allocated", "closing"}

\* It has the rows it asked for, and its message is not charged.
Locks(a) ==
    /\ Settling(a) => holdLock[Msg(a)] = a /\ consumed[Msg(a)] = Absent
    /\ Pc(a) \in {"balanced", "allocated"} =>
          \A t \in Nat : t = attempt[a].now => \A g \in Active(t) : grantLock[g] = a

\* Unless it was overtaken no row that counts is younger than its reading of the clock.
NoneAfter(t) == \A m \in Messages : ledger[m].quantity > 0 => ledger[m].at <= t
Sees(a) ==
    /\ attempt[a].overtaken \in BOOLEAN /\ attempt[a].fits \in BOOLEAN
    /\ InBooks(a) \/ Settling(a) => attempt[a].now \in 0..clock
    /\ InBooks(a) /\ ~attempt[a].overtaken => NoneAfter(attempt[a].now)

\* Unless it was overtaken what it decided still fits.
Decides(a) ==
    /\ Pc(a) = "balanced" /\ attempt[a].fits /\ ~attempt[a].overtaken =>
          \A t \in Nat : t = attempt[a].now => Reserved + UsedBy(t, MaxTime) + Hold <= GrantedAt(t)
    /\ Pc(a) = "allocated" => attempt[a].to \in [Grants -> Nat]
    /\ Pc(a) = "allocated" /\ ~attempt[a].overtaken =>
          \A g \in Grants : attempt[a].to[g] # 0 =>
              AllocatedTo(g, MaxTime) + attempt[a].to[g] <= Granted[g]

BalanceInv == Rows /\ \A a \in Attempts : Locks(a) /\ Sees(a) /\ Decides(a)

-----------------------------------------------------------------------------
(* The numbers.                                                            *)
LEMMA Times ==
    ASSUME NEW h \in Nat, NEW x \in Nat, NEW y \in Nat
    PROVE  /\ h * x \in Nat /\ (x <= y => h * x <= h * y)
           /\ x <= y + 1 => h * x <= h * y + h
<1>1. \A k \in Nat : h * k \in Nat  OBVIOUS
<1>2. \A k \in Nat, u \in Nat : h * (u + k) = h * u + h * k  OBVIOUS
<1>3. ASSUME x <= y PROVE h * x <= h * y
  <2>1. y - x \in Nat /\ y = x + (y - x)  BY <1>3
  <2>2. h * y = h * x + h * (y - x)  BY <1>2, <2>1
  <2> QED BY <1>1, <2>1, <2>2
<1>4. ASSUME x <= y + 1 PROVE h * x <= h * y + h
  <2>1. y + 1 - x \in Nat /\ y + 1 = x + (y + 1 - x)  BY <1>4
  <2>2. h * (y + 1) = h * x + h * (y + 1 - x)  BY <1>2, <2>1
  <2>3. h * (y + 1) = h * y + h  OBVIOUS
  <2> QED BY <1>1, <2>1, <2>2, <2>3
<1> QED BY <1>1, <1>3, <1>4

\* A row exists only for a message that ran.
LEMMA Charged ==
    ASSUME HoldsInv, NEW m \in Messages
    PROVE  /\ ledger[m].quantity \in Nat \cup {Absent}
           /\ consumed[m] = Absent <=> ledger[m].quantity = Absent
           /\ ledger[m].quantity > 0 => m \in Ran
           /\ hold[m].status = "reserved" => m \in Ran
<1>1. consumed[m] \in Nat \cup {Absent} /\ ledger[m].quantity = Least(consumed[m], Hold)
  BY DEF HoldsInv, Types, AnsweredIsCharged
<1>2. consumed[m] # Absent => hold[m].status # "none"
  BY DEF HoldsInv, ChargedIsSpent
<1>3. hold[m].status # "none" => m \in Ran
  BY DEF HoldsInv, HoldsComeWithRuns, Ran
<1> QED BY <1>1, <1>2, <1>3, Numbers DEF Least

LEMMA ReservedIs ==
    ASSUME HoldsInv, Rows
    PROVE  Reserved = Hold * Cardinality(HeldMessages) /\ Cardinality(HeldMessages) \in Nat
           /\ IsFiniteSet(HeldMessages) /\ Reserved \in Nat
<1>1. HeldMessages \subseteq Ran  BY Charged DEF HeldMessages
<1>2. IsFiniteSet(HeldMessages)  BY <1>1, FS_Subset DEF Rows
<1>3. Cardinality(HeldMessages) \in Nat  BY <1>2, FS_CardinalityType
<1>4. Reserved = Hold * Cardinality(HeldMessages)  BY DEF Reserved, HeldMessages
<1>5. Hold * Cardinality(HeldMessages) \in Nat  BY <1>3, Numbers, Times
<1> QED BY <1>2, <1>3, <1>4, <1>5

LEMMA FewerReserved ==
    ASSUME HoldsInv, Rows,
           \A m \in Messages : hold'[m].status = "reserved" => hold[m].status = "reserved"
    PROVE  Reserved' \in Nat /\ Reserved' <= Reserved
<1>1. /\ Reserved = Hold * Cardinality(HeldMessages) /\ Cardinality(HeldMessages) \in Nat
      /\ IsFiniteSet(HeldMessages)
  BY ReservedIs
<1>2. HeldMessages' \subseteq HeldMessages  BY DEF HeldMessages
<1>3. Cardinality(HeldMessages') \in Nat /\ Cardinality(HeldMessages') <= Cardinality(HeldMessages)
  BY <1>1, <1>2, FS_Subset, FS_CardinalityType
<1>4. Reserved' = Hold * Cardinality(HeldMessages')  BY DEF Reserved, HeldMessages
<1>5. /\ Hold * Cardinality(HeldMessages') \in Nat
      /\ Hold * Cardinality(HeldMessages') <= Hold * Cardinality(HeldMessages)
  BY <1>1, <1>3, Numbers, Times
<1> QED BY <1>1, <1>4, <1>5

LEMMA OneMoreReserved ==
    ASSUME HoldsInv, Rows, NEW n,
           \A m \in Messages : hold'[m].status = "reserved" => hold[m].status = "reserved" \/ m = n
    PROVE  Reserved' \in Nat /\ Reserved' <= Reserved + Hold
<1>1. /\ Reserved = Hold * Cardinality(HeldMessages) /\ Cardinality(HeldMessages) \in Nat
      /\ IsFiniteSet(HeldMessages)
  BY ReservedIs
<1> DEFINE T == HeldMessages \cup {n}
<1>2. HeldMessages' \subseteq T  BY DEF HeldMessages
<1>3. IsFiniteSet(T) /\ Cardinality(T) \in Nat /\ Cardinality(T) <= Cardinality(HeldMessages) + 1
  <2> DEFINE S == HeldMessages
  <2>1. IsFiniteSet(S) /\ Cardinality(S) \in Nat  BY <1>1
  <2> HIDE DEF S
  <2>2. /\ IsFiniteSet(S \cup {n})
        /\ Cardinality(S \cup {n}) = Cardinality(S) \/ Cardinality(S \cup {n}) = Cardinality(S) + 1
    BY <2>1, FS_AddElement
  <2>3. T = S \cup {n}  BY DEF S
  <2> QED BY <2>1, <2>2, <2>3 DEF S
<1> HIDE DEF T
<1>4. Cardinality(HeldMessages') \in Nat /\ Cardinality(HeldMessages') <= Cardinality(T)
  BY <1>2, <1>3, FS_Subset, FS_CardinalityType
<1>5. Reserved' = Hold * Cardinality(HeldMessages')  BY DEF Reserved, HeldMessages
<1>6. Cardinality(HeldMessages') <= Cardinality(HeldMessages) + 1  BY <1>1, <1>3, <1>4
<1>7. /\ Hold * Cardinality(HeldMessages') \in Nat
      /\ Hold * Cardinality(HeldMessages') <= Hold * Cardinality(HeldMessages) + Hold
  BY <1>1, <1>4, <1>6, Numbers, Times
<1> QED BY <1>1, <1>5, <1>7

LEMMA RowsFinite ==
    ASSUME HoldsInv, Rows, NEW t
    PROVE  IsFiniteSet(RowsBy(t)) /\ IsFiniteSet(Active(t))
<1>1. RowsBy(t) \subseteq Ran  BY Charged DEF RowsBy
<1>2. IsFiniteSet(RowsBy(t))  BY <1>1, FS_Subset DEF Rows
<1>3. Active(t) \subseteq Grants  BY DEF Active
<1>4. IsFiniteSet(Active(t))  BY <1>3, FS_Subset, HoldsAssumption
<1> QED BY <1>2, <1>4

LEMMA ColumnIsNat ==
    ASSUME HoldsInv, Rows, NEW t, NEW g \in Grants
    PROVE  ColumnSum(ledger, g, RowsBy(t)) \in Nat
<1> DEFINE S == RowsBy(t)
           f == [m \in S |-> ledger[m].to[g]]
<1>1. IsFiniteSet(S) /\ S \subseteq Messages  BY RowsFinite DEF RowsBy
<1>2. \A m \in S : f[m] \in Nat  BY <1>1 DEF Rows
<1>3. ColumnSum(ledger, g, S) = Total(f, S)  BY <1>1, ColumnIs
<1> HIDE DEF f, S
<1>4. Total(f, S) \in Nat  BY <1>1, <1>2, SumIsNat
<1> QED BY <1>3, <1>4 DEF S

LEMMA BalanceNumbers ==
    ASSUME HoldsInv, Rows, NEW t, NEW u
    PROVE  UsedBy(t, u) \in Nat /\ GrantedAt(t) \in Nat
<1> DEFINE R == RowsBy(u)
           A == Active(t)
           f == [g \in A |-> ColumnSum(ledger, g, R)]
           S == {m \in R : CountsAt(m, t)}
           q == [m \in S |-> ledger[m].quantity]
<1>1. IsFiniteSet(R) /\ IsFiniteSet(A) /\ R \subseteq Messages /\ A \subseteq Grants
  BY RowsFinite DEF RowsBy, Active
<1>2. IsFiniteSet(S)  BY <1>1, FS_Subset
<1>3. \A g \in A : f[g] \in Nat  BY <1>1, ColumnIsNat
<1>4. \A m \in S : q[m] \in Nat  BY <1>1, Charged, Numbers DEF RowsBy
<1>5. UsedBy(t, u) = GrantsSum(ledger, R, A) + QuantitySum(ledger, S)  BY BalanceIs
<1>6. GrantsSum(ledger, R, A) = Total(f, A)  BY <1>1, GrantsIs
<1>7. QuantitySum(ledger, S) = Total(q, S)  BY <1>2, QuantityIs
<1> HIDE DEF f, q, R, A, S
<1>8. Total(f, A) \in Nat /\ Total(q, S) \in Nat  BY <1>1, <1>2, <1>3, <1>4, SumIsNat
<1>9. GrantedAt(t) = Total(Granted, A)  BY BalanceIs DEF A
<1>10. \A g \in A : Granted[g] \in Nat  BY <1>1, HoldsAssumption
<1>11. Total(Granted, A) \in Nat  BY <1>1, <1>10, SumIsNat
<1> QED BY <1>5, <1>6, <1>7, <1>8, <1>9, <1>11

\* The balance depends on the rows only, and a new row of 0 adds nothing to it.
SameRows == \A m \in Messages :
    \/ ledger'[m] = ledger[m]
    \/ ledger[m].quantity = Absent /\ ledger'[m].quantity = 0

LEMMA SameUsed ==
    ASSUME HoldsInv, Rows, SameRows, NEW t, NEW u
    PROVE  (UsedBy(t, u))' = UsedBy(t, u) /\ \A g : (AllocatedTo(g, u))' = AllocatedTo(g, u)
<1> DEFINE R == RowsBy(u)
           A == Active(t)
           S == {m \in R : CountsAt(m, t)}
           l == ledger'
<1>1. R' = R /\ \A m \in R : l[m] = ledger[m]  BY Numbers DEF RowsBy, SameRows
<1>2. {m \in R' : (CountsAt(m, t))'} = S
  <2>1. ASSUME NEW m \in R PROVE (CountsAt(m, t))' <=> CountsAt(m, t)
    <3>1. ledger'[m] = ledger[m]  BY <1>1
    <3> QED BY <3>1 DEF CountsAt, Unallocated
  <2> HIDE DEF R
  <2> QED BY <1>1, <2>1
<1>3. IsFiniteSet(R) /\ IsFiniteSet(A)  BY RowsFinite
<1>4. IsFiniteSet(S)  BY <1>3, FS_Subset
<1>5. /\ (UsedBy(t, u))' = GrantsSum(l, R, A) + QuantitySum(l, S)
      /\ \A g : (AllocatedTo(g, u))' = ColumnSum(l, g, R)
  BY <1>1, <1>2, BalanceIsNext
<1>6. /\ UsedBy(t, u) = GrantsSum(ledger, R, A) + QuantitySum(ledger, S)
      /\ \A g : AllocatedTo(g, u) = ColumnSum(ledger, g, R)
  BY BalanceIs
<1>7. \A m \in R : l[m] = ledger[m]  BY <1>1
<1>8. S \subseteq R  OBVIOUS
<1> HIDE DEF R, A, S, l
<1>9. ASSUME NEW g PROVE ColumnSum(l, g, R) = ColumnSum(ledger, g, R)
  <2>1. [m \in R |-> l[m].to[g]] = [m \in R |-> ledger[m].to[g]]  BY <1>7
  <2>2. ColumnSum(l, g, R) = Total([m \in R |-> l[m].to[g]], R)  BY <1>3, ColumnIs
  <2>3. ColumnSum(ledger, g, R) = Total([m \in R |-> ledger[m].to[g]], R)  BY <1>3, ColumnIs
  <2> QED BY <2>1, <2>2, <2>3
<1>10. GrantsSum(l, R, A) = GrantsSum(ledger, R, A)
  <2>1. [g \in A |-> ColumnSum(l, g, R)] = [g \in A |-> ColumnSum(ledger, g, R)]  BY <1>9
  <2>2. GrantsSum(l, R, A) = Total([g \in A |-> ColumnSum(l, g, R)], A)  BY <1>3, GrantsIs
  <2>3. GrantsSum(ledger, R, A) = Total([g \in A |-> ColumnSum(ledger, g, R)], A)  BY <1>3, GrantsIs
  <2> QED BY <2>1, <2>2, <2>3
<1>11. QuantitySum(l, S) = QuantitySum(ledger, S)
  <2>1. [m \in S |-> l[m].quantity] = [m \in S |-> ledger[m].quantity]  BY <1>7, <1>8
  <2> QED BY <1>4, <2>1, QuantityIs
<1> QED BY <1>5, <1>6, <1>9, <1>10, <1>11

\* A transaction that sees no younger row sees them all.
LEMMA SeesAll ==
    ASSUME Rows, NEW t \in Nat, t <= MaxTime, NoneAfter(t)
    PROVE  UsedBy(t, t) = UsedBy(t, MaxTime) /\ RowsBy(t) = RowsBy(MaxTime)
<1>1. MaxTime \in Nat  BY HoldsAssumption
<1>2. RowsBy(t) = RowsBy(MaxTime)  BY <1>1 DEF RowsBy, Rows, NoneAfter
<1> QED BY <1>2, BalanceIs

\* What is allocated to a grant is no more than is left of it.
LEMMA AllocationFits ==
    ASSUME HoldsInv, Rows, NEW q \in Nat, NEW t
    PROVE  /\ Allocation(q, t) \in [Grants -> Nat]
           /\ \A g \in Grants : Allocation(q, t)[g] # 0 =>
                 AllocatedTo(g, t) + Allocation(q, t)[g] <= Granted[g]
<1> DEFINE R == RowsBy(t)
<1>1. \A g \in Grants : /\ ColumnSum(ledger, g, R) \in Nat /\ Granted[g] \in Nat
                        /\ AllocatedTo(g, t) = ColumnSum(ledger, g, R)
                        /\ Left(g, t) = LeftOf(ledger, g, R)
  BY ColumnIsNat, BalanceIs, HoldsAssumption
<1>2. \A g \in Grants : /\ LeftOf(ledger, g, R) \in Nat
                        /\ LeftOf(ledger, g, R) # 0 => AllocatedTo(g, t) + LeftOf(ledger, g, R) <= Granted[g]
  BY <1>1 DEF LeftOf
<1>3. ASSUME NEW g \in Grants PROVE Before(g, t) \in Nat
  <2> DEFINE S == {h \in Active(t) : Order[h] < Order[g]}
             f == [h \in S |-> LeftOf(ledger, h, R)]
  <2>1. IsFiniteSet(S) /\ S \subseteq Grants
    <3>1. IsFiniteSet(Active(t))  BY RowsFinite
    <3>2. IsFiniteSet(S)  BY <3>1, FS_Subset
    <3> QED BY <3>2 DEF Active
  <2>2. \A h \in S : f[h] \in Nat  BY <1>2, <2>1
  <2>3. Before(g, t) = LeftSum(ledger, R, S)  BY BalanceIs
  <2>4. LeftSum(ledger, R, S) = Total(f, S)  BY <2>1, LeftIs
  <2> HIDE DEF f, S
  <2>5. Total(f, S) \in Nat  BY <2>1, <2>2, SumIsNat
  <2> QED BY <2>3, <2>4, <2>5
<1> HIDE DEF R
<1>4. ASSUME NEW g \in Grants
      PROVE  Allocation(q, t)[g] \in Nat /\ (Allocation(q, t)[g] # 0 =>
                 AllocatedTo(g, t) + Allocation(q, t)[g] <= Granted[g])
  <2>1. Allocation(q, t)[g] = IF g \in Active(t) /\ Before(g, t) < q
                              THEN Least(LeftOf(ledger, g, R), q - Before(g, t)) ELSE 0
    BY <1>1 DEF Allocation
  <2>2. Before(g, t) \in Nat  BY <1>3
  <2>3. AllocatedTo(g, t) \in Nat /\ Granted[g] \in Nat  BY <1>1
  <2> QED BY <1>2, <2>1, <2>2, <2>3 DEF Least
<1>5. Allocation(q, t) = [g \in Grants |-> Allocation(q, t)[g]]  BY DEF Allocation
<1> QED BY <1>4, <1>5

-----------------------------------------------------------------------------
(* What a step of one attempt owes to another.                             *)
Untouched(b) ==
    /\ Pc(b)' = Pc(b) /\ Msg(b)' = Msg(b) /\ attempt'[b].now = attempt[b].now
    /\ attempt'[b].fits = attempt[b].fits /\ attempt'[b].to = attempt[b].to
    /\ attempt'[b].overtaken \in BOOLEAN /\ (attempt[b].overtaken => attempt'[b].overtaken)
    /\ \A g \in Grants : grantLock[g] = b => grantLock'[g] = b
    /\ \A m \in Messages : holdLock[m] = b => holdLock'[m] = b

\* An attempt that was not overtaken sees the rows it saw and no younger one, and if
\* it has decided, they are all the rows, and no more is reserved.
LEMMA UntouchedKept ==
    ASSUME HoldsInv, BalanceInv, Rows', clock <= clock', NEW b \in Attempts, Untouched(b),
           Settling(b) => consumed'[Msg(b)] = consumed[Msg(b)],
           ~attempt'[b].overtaken /\ InBooks(b) =>
               /\ \A m \in Messages : ledger'[m].quantity > 0 => ledger'[m].at <= attempt[b].now
               /\ Pc(b) \in {"balanced", "allocated"} =>
                     SameRows /\ Reserved' \in Nat /\ Reserved' <= Reserved
    PROVE  (Locks(b) /\ Sees(b) /\ Decides(b))'
<1>1. Locks(b) /\ Sees(b) /\ Decides(b) /\ Rows  BY DEF BalanceInv
<1>2. Locks(b)'
  <2>1. Settling(b) => Msg(b) \in Messages
    BY Requested DEF Settling
  <2> QED BY <1>1, <2>1 DEF Locks, Settling, Untouched, Active, Covers
<1>3. Sees(b)'
  <2>1. clock \in Nat /\ clock' \in Nat  BY <1>1, HoldsAssumption DEF Rows
  <2> QED BY <1>1, <2>1 DEF Sees, NoneAfter, Settling, Untouched, InBooks
<1>4. Decides(b)'
  <2>1. ASSUME Pc(b)' = "balanced", attempt'[b].fits, ~attempt'[b].overtaken,
               NEW t \in Nat, t = attempt'[b].now
        PROVE  Reserved' + (UsedBy(t, MaxTime))' + Hold <= GrantedAt(t)
    <3>1. Pc(b) = "balanced" /\ attempt[b].fits /\ ~attempt[b].overtaken /\ t = attempt[b].now
      BY <2>1 DEF Untouched
    <3>2. Reserved + UsedBy(t, MaxTime) + Hold <= GrantedAt(t)  BY <1>1, <3>1 DEF Decides
    <3>3. SameRows /\ Reserved' \in Nat /\ Reserved' <= Reserved
      BY <2>1, <3>1 DEF InBooks
    <3>4. (UsedBy(t, MaxTime))' = UsedBy(t, MaxTime)  BY <1>1, <3>3, SameUsed
    <3>5. UsedBy(t, MaxTime) \in Nat /\ GrantedAt(t) \in Nat /\ Reserved \in Nat
      BY <1>1, BalanceNumbers, ReservedIs
    <3> QED BY <3>2, <3>3, <3>4, <3>5, Numbers
  <2>2. ASSUME Pc(b)' = "allocated", ~attempt'[b].overtaken, NEW g \in Grants, attempt'[b].to[g] # 0
        PROVE  (AllocatedTo(g, MaxTime))' + attempt'[b].to[g] <= Granted[g]
    <3>1. Pc(b) = "allocated" /\ ~attempt[b].overtaken /\ attempt'[b].to = attempt[b].to
      BY <2>2 DEF Untouched
    <3>2. SameRows  BY <2>2, <3>1 DEF InBooks
    <3>3. (AllocatedTo(g, MaxTime))' = AllocatedTo(g, MaxTime)  BY <1>1, <3>2, SameUsed
    <3> QED BY <1>1, <2>2, <3>1, <3>3 DEF Decides
  <2>3. Pc(b)' = "allocated" => attempt'[b].to \in [Grants -> Nat]
    BY <1>1 DEF Decides, Untouched
  <2>4. \A t : (GrantedAt(t))' = GrantedAt(t)
    BY DEF GrantedAt, MapThenSumSet, MapThenFoldSet, Active, Covers
  <2> QED BY <2>1, <2>2, <2>3, <2>4 DEF Decides
<1> QED BY <1>2, <1>3, <1>4

\* A step that writes no row but one of 0, of a message that is its own, and
\* reserves nothing disturbs nobody else.
Quiet ==
    /\ SameRows /\ clock <= clock' /\ Rows'
    /\ \A b \in Attempts, m \in Messages :
          holdLock[m] = b /\ holdLock'[m] = b => consumed'[m] = consumed[m]
    /\ \A m \in Messages : hold'[m].status = "reserved" => hold[m].status = "reserved"

LEMMA QuietKept ==
    ASSUME HoldsInv, BalanceInv, Quiet, NEW b \in Attempts, Untouched(b)
    PROVE  (Locks(b) /\ Sees(b) /\ Decides(b))'
<1>1. Reserved' \in Nat /\ Reserved' <= Reserved  BY FewerReserved DEF BalanceInv, Quiet
<1>2. ~attempt'[b].overtaken /\ InBooks(b) =>
          \A m \in Messages : ledger'[m].quantity > 0 => ledger'[m].at <= attempt[b].now
  BY DEF BalanceInv, Sees, NoneAfter, Quiet, SameRows, Untouched
<1>3. Settling(b) => consumed'[Msg(b)] = consumed[Msg(b)]
  <2>1. Settling(b) => Msg(b) \in Messages /\ holdLock[Msg(b)] = b
    BY Requested DEF Settling, BalanceInv, Locks
  <2> QED BY <2>1 DEF Quiet, Untouched
<1> QED BY <1>1, <1>2, <1>3, UntouchedKept DEF Quiet

\* An attempt that goes: the others keep their rows.
LEMMA LeavesBalance ==
    ASSUME HoldsInv, BalanceInv, NEW a \in Attempts, Leaves(a), Quiet
    PROVE  BalanceInv'
<1>1. /\ attempt' = [attempt EXCEPT ![a] = Idle]
      /\ grantLock' = Unlocked(grantLock, a) /\ holdLock' = Unlocked(holdLock, a)
  BY DEF Leaves
<1>2. ASSUME NEW b \in Attempts \ {a} PROVE Untouched(b)
  <2>1. attempt'[b] = attempt[b]  BY <1>1 DEF HoldsInv, Types
  <2>2. attempt[b].overtaken \in BOOLEAN  BY DEF BalanceInv, Sees
  <2>3. \A g \in Grants : grantLock[g] = b => grantLock'[g] = b
    BY <1>1 DEF Unlocked, BalanceInv, Rows
  <2>4. \A m \in Messages : holdLock[m] = b => holdLock'[m] = b
    BY <1>1 DEF Unlocked, BalanceInv, Rows
  <2> QED BY <2>1, <2>2, <2>3, <2>4 DEF Untouched, Pc, Msg
<1>3. (Locks(a) /\ Sees(a) /\ Decides(a))'
  <2>1. attempt'[a] = Idle  BY <1>1 DEF HoldsInv, Types
  <2>2. Idle.pc = "idle" /\ Idle.overtaken \in BOOLEAN /\ Idle.fits \in BOOLEAN
    BY DEF Idle, Request
  <2> QED BY <2>1, <2>2 DEF Locks, Settling, Sees, NoneAfter, Decides, Pc, InBooks
<1>4. \A b \in Attempts : (Locks(b) /\ Sees(b) /\ Decides(b))'
  <2>1. \A b \in Attempts \ {a} : (Locks(b) /\ Sees(b) /\ Decides(b))'  BY <1>2, QuietKept
  <2> QED BY <1>3, <2>1
<1> QED BY <1>4 DEF BalanceInv, Quiet

\* An attempt that goes on: the others keep their rows.
LEMMA GoesOnBalance ==
    ASSUME HoldsInv, BalanceInv, NEW a \in Attempts, NEW x, attempt' = [attempt EXCEPT ![a] = x],
           Quiet, (Locks(a) /\ Sees(a) /\ Decides(a))', UNCHANGED grantLock,
           \A b \in Attempts \ {a}, m \in Messages : holdLock[m] = b => holdLock'[m] = b
    PROVE  BalanceInv'
<1>1. ASSUME NEW b \in Attempts \ {a} PROVE Untouched(b)
  <2>1. attempt'[b] = attempt[b]  BY DEF HoldsInv, Types
  <2>2. attempt[b].overtaken \in BOOLEAN  BY DEF BalanceInv, Sees
  <2> QED BY <2>1, <2>2 DEF Untouched, Pc, Msg
<1>2. \A b \in Attempts \ {a} : (Locks(b) /\ Sees(b) /\ Decides(b))'  BY <1>1, QuietKept
<1> QED BY <1>2 DEF BalanceInv, Quiet

\* Nobody goes on.
LEMMA NobodyBalance ==
    ASSUME HoldsInv, BalanceInv, UNCHANGED attempt, Quiet, UNCHANGED holdLock,
           \A b \in Attempts, g \in Grants : grantLock[g] = b => grantLock'[g] = b
    PROVE  BalanceInv'
<1>1. ASSUME NEW b \in Attempts PROVE Untouched(b)
  <2>1. attempt[b].overtaken \in BOOLEAN  BY DEF BalanceInv, Sees
  <2> QED BY <2>1 DEF Untouched, Pc, Msg
<1>2. \A b \in Attempts : (Locks(b) /\ Sees(b) /\ Decides(b))'  BY <1>1, QuietKept
<1> QED BY <1>2 DEF BalanceInv, Quiet

-----------------------------------------------------------------------------
(* The steps.                                                              *)
LEMMA RowsStay ==
    ASSUME Rows, UNCHANGED <<clock, ledger>>, Ran' \subseteq Ran,
           grantLock' = [g \in Grants |-> grantLock'[g]], holdLock' = [m \in Messages |-> holdLock'[m]]
    PROVE  Rows'
<1>1. IsFiniteSet(Ran')  BY FS_Subset DEF Rows
<1> QED BY <1>1 DEF Rows

LEMMA LeavesQuietly ==
    ASSUME HoldsInv, BalanceInv, NEW a \in Attempts, Leaves(a), UNCHANGED <<clock, ledger, consumed>>,
           Ran' \subseteq Ran,
           \A m \in Messages : hold'[m].status = "reserved" => hold[m].status = "reserved"
    PROVE  BalanceInv'
<1>1. grantLock' = [g \in Grants |-> grantLock'[g]] /\ holdLock' = [m \in Messages |-> holdLock'[m]]
  BY DEF Leaves, Unlocked, BalanceInv, Rows
<1>2. Rows'  BY <1>1, RowsStay DEF BalanceInv
<1>3. clock <= clock'  BY HoldsAssumption DEF BalanceInv, Rows
<1> QED BY <1>2, <1>3, LeavesBalance DEF Quiet, SameRows

LEMMA LeavingBalance ==
    ASSUME HoldsInv, BalanceInv, NEW a \in Attempts,
           Deadlocks(a) \/ Refuses(a) \/ TooLate(a) \/ Dies(a) \/ Fails(a) \/ Replays(a)
    PROVE  BalanceInv'
<1>1. CASE Deadlocks(a) \/ Refuses(a) \/ TooLate(a) \/ Dies(a)
  <2>1. Leaves(a) /\ UNCHANGED <<clock, run, hold, ledger, consumed>>
    BY <1>1 DEF Deadlocks, Refuses, TooLate, Dies, books
  <2>2. Ran' \subseteq Ran  BY <2>1 DEF Ran
  <2> QED BY <2>1, <2>2, LeavesQuietly
<1>2. CASE Fails(a)
  <2> DEFINE m == Msg(a)
  <2>1. /\ Leaves(a) /\ UNCHANGED <<clock, ledger, consumed>> /\ Pc(a) = "calling"
        /\ run' = [run EXCEPT ![m] = "failed"]
        /\ hold' = hold \/ hold' = [hold EXCEPT ![m].status = "released"]
    BY <1>2 DEF Fails
  <2>2. m \in Messages /\ run[m] # "none"
    BY <2>1, Requested DEF HoldsInv, SeenStays
  <2>3. Ran' \subseteq Ran  BY <2>1, <2>2 DEF Ran, HoldsInv, Types
  <2>4. ASSUME NEW n \in Messages, hold'[n].status = "reserved" PROVE hold[n].status = "reserved"
    <3>1. hold[n] = [status |-> hold[n].status, expires |-> hold[n].expires] /\ DOMAIN hold = Messages
      BY DEF HoldsInv, Types
    <3> QED BY <2>1, <2>4, <3>1
  <2> QED BY <2>1, <2>3, <2>4, LeavesQuietly
<1>3. CASE Replays(a)
  <2> DEFINE m == Msg(a)
  <2>1. /\ Leaves(a) /\ UNCHANGED <<clock, hold, ledger, consumed>> /\ Pc(a) = "answered"
        /\ run' = run \/ run' = [run EXCEPT ![m] = attempt[a].outcome]
    BY <1>3 DEF Replays
  <2>2. m \in Messages /\ run[m] # "none"
    BY <2>1, Requested DEF HoldsInv, SeenStays
  <2>3. Ran' \subseteq Ran  BY <2>1, <2>2 DEF Ran, HoldsInv, Types
  <2> QED BY <2>1, <2>3, LeavesQuietly
<1> QED BY <1>1, <1>2, <1>3

\* A settlement of nothing has its message to itself.
LEMMA ClosingBalance ==
    ASSUME HoldsInv, BalanceInv, NEW a \in Attempts, SettlesNothing(a)
    PROVE  BalanceInv'
<1> DEFINE m == Msg(a)
           row == [quantity |-> 0, at |-> attempt[a].now, to |-> NoRow.to]
<1>1. /\ Pc(a) = "closing" /\ Leaves(a) /\ UNCHANGED clock
      /\ run' = [run EXCEPT ![m] = attempt[a].outcome]
      /\ consumed' = [consumed EXCEPT ![m] = 0] /\ ledger' = [ledger EXCEPT ![m] = row]
      /\ hold' = [hold EXCEPT ![m].status = "settled"]
  BY DEF SettlesNothing
<1>2. /\ m \in Messages /\ run[m] # "none" /\ holdLock[m] = a /\ consumed[m] = Absent
      /\ attempt[a].now \in 0..clock /\ Rows
  BY <1>1, Requested DEF HoldsInv, SeenStays, BalanceInv, Locks, Sees, Settling
<1>3. /\ row.quantity = 0 /\ row.at = attempt[a].now /\ row.to \in [Grants -> Nat]
  BY DEF NoRow
<1> HIDE DEF row
<1>4. ledger'[m] = row /\ \A n \in Messages \ {m} : ledger'[n] = ledger[n]
  BY <1>1, <1>2 DEF HoldsInv, Types
<1>5. SameRows  BY <1>2, <1>3, <1>4, Charged DEF SameRows
<1>6. /\ grantLock' = [g \in Grants |-> grantLock'[g]] /\ holdLock' = [n \in Messages |-> holdLock'[n]]
      /\ holdLock'[m] = None
  BY <1>1, <1>2 DEF Leaves, Unlocked, Rows
<1>7. Rows'
  <2>1. Ran' \subseteq Ran  BY <1>1, <1>2 DEF Ran, HoldsInv, Types
  <2>2. IsFiniteSet(Ran')  BY <1>2, <2>1, FS_Subset DEF Rows
  <2> QED BY <1>1, <1>2, <1>3, <1>4, <1>6, <2>2 DEF Rows
<1>8. ASSUME NEW n \in Messages, hold'[n].status = "reserved" PROVE hold[n].status = "reserved"
  <2>1. hold[n] = [status |-> hold[n].status, expires |-> hold[n].expires] /\ DOMAIN hold = Messages
    BY DEF HoldsInv, Types
  <2> QED BY <1>1, <1>8, <2>1
<1>9. ASSUME NEW b \in Attempts, NEW n \in Messages, holdLock'[n] = b PROVE consumed'[n] = consumed[n]
  <2>1. n # m  BY <1>6, <1>9, HoldsAssumption
  <2> QED BY <1>1, <2>1 DEF HoldsInv, Types
<1>10. clock <= clock'  BY <1>1, <1>2, HoldsAssumption DEF Rows
<1>11. Quiet  BY <1>5, <1>7, <1>8, <1>9, <1>10 DEF Quiet
<1> QED BY <1>1, <1>11, LeavesBalance

LEMMA IdlingBalance ==
    ASSUME HoldsInv, BalanceInv,
           \/ Sweeps \/ Tick \/ UNCHANGED vars
           \/ \E a \in Attempts, g \in Grants : LocksGrant(a, g)
    PROVE  BalanceInv'
<1>1. UNCHANGED <<attempt, run, ledger, consumed, holdLock>>
  BY DEF Sweeps, Tick, LocksGrant, vars, books
<1>2. Ran' \subseteq Ran  BY <1>1 DEF Ran
<1>3. clock \in Nat /\ clock <= MaxTime /\ MaxTime \in Nat /\ Rows
  BY HoldsAssumption DEF BalanceInv, Rows
<1>4. CASE Sweeps
  <2>1. /\ hold' = Expired(hold, Abandoned) /\ UNCHANGED <<clock, grantLock>>
    BY <1>4 DEF Sweeps
  <2>2. ASSUME NEW n \in Messages, hold'[n].status = "reserved" PROVE hold[n].status = "reserved"
    <3>1. hold[n] = [status |-> hold[n].status, expires |-> hold[n].expires]
      BY DEF HoldsInv, Types
    <3> QED BY <2>1, <2>2, <3>1 DEF Expired
  <2>3. Rows'  BY <1>1, <1>2, <1>3, <2>1, RowsStay DEF Rows
  <2> QED BY <1>1, <1>3, <2>1, <2>2, <2>3, NobodyBalance DEF Quiet, SameRows
<1>5. CASE Tick
  <2>1. clock < MaxTime /\ clock' = clock + 1 /\ UNCHANGED <<hold, grantLock>>
    BY <1>5 DEF Tick, books
  <2>2. IsFiniteSet(Ran')  BY <1>2, <1>3, FS_Subset DEF Rows
  <2>3. Rows'  BY <1>1, <1>3, <2>1, <2>2 DEF Rows
  <2> QED BY <1>1, <1>3, <2>1, <2>3, NobodyBalance DEF Quiet, SameRows
<1>6. CASE UNCHANGED vars
  <2>1. UNCHANGED <<clock, hold, grantLock>>  BY <1>6 DEF vars, books
  <2>2. Rows'  BY <1>1, <1>2, <1>3, <2>1, RowsStay DEF Rows
  <2> QED BY <1>1, <1>3, <2>1, <2>2, NobodyBalance DEF Quiet, SameRows
<1>7. ASSUME NEW a \in Attempts, NEW g \in Grants, LocksGrant(a, g) PROVE BalanceInv'
  <2>1. grantLock[g] = None /\ grantLock' = [grantLock EXCEPT ![g] = a] /\ UNCHANGED <<clock, hold>>
    BY <1>7 DEF LocksGrant, books
  <2>2. grantLock' = [h \in Grants |-> grantLock'[h]]  BY <1>3, <2>1 DEF Rows
  <2>3. Rows'  BY <1>1, <1>2, <1>3, <2>1, <2>2, RowsStay DEF Rows
  <2>4. \A b \in Attempts, h \in Grants : grantLock[h] = b => grantLock'[h] = b
    BY <1>3, <2>1, HoldsAssumption DEF Rows
  <2> QED BY <1>1, <1>3, <2>1, <2>3, <2>4, NobodyBalance DEF Quiet, SameRows
<1> QED BY <1>4, <1>5, <1>6, <1>7

LEMMA SendingBalance ==
    ASSUME HoldsInv, BalanceInv, NEW a \in Attempts, NEW m \in Messages, Sends(a, m) \/ SendsAgain(a, m)
    PROVE  BalanceInv'
<1>1. UNCHANGED <<clock, run, hold, ledger, consumed, grantLock>>  BY DEF Sends, SendsAgain, books
<1>2. Rows /\ clock \in Nat /\ clock <= clock' /\ Ran' \subseteq Ran
  BY <1>1, HoldsAssumption DEF BalanceInv, Rows, Ran
<1>3. CASE Sends(a, m)
  <2> DEFINE x == [pc |-> "admitting", msg |-> m, now |-> clock, seen |-> "none",
                   expiring |-> Abandoned, since |-> 0, tokens |-> 0, outcome |-> "none",
                   overtaken |-> FALSE, fits |-> FALSE, to |-> NoRow.to]
  <2>1. /\ attempt' = [attempt EXCEPT ![a] = x]
        /\ holdLock' = [h \in Messages |-> IF h \in Abandoned THEN a ELSE holdLock[h]]
    BY <1>3 DEF Sends, Request
  <2>2. attempt'[a] = x  BY <2>1 DEF HoldsInv, Types
  <2>3. (Locks(a) /\ Sees(a) /\ Decides(a))'
    BY <1>1, <1>2, <2>2 DEF Locks, Settling, Sees, NoneAfter, Decides, Pc, InBooks, Rows
  <2> HIDE DEF x
  <2>4. holdLock' = [h \in Messages |-> holdLock'[h]]  BY <2>1
  <2>5. Rows'  BY <1>1, <1>2, <2>4, RowsStay DEF Rows
  <2>6. \A b \in Attempts \ {a}, h \in Messages : holdLock[h] = b => holdLock'[h] = b
    BY <2>1, HoldsAssumption DEF Abandoned
  <2>7. Quiet  BY <1>1, <1>2, <2>5 DEF Quiet, SameRows
  <2> QED BY <1>1, <2>1, <2>3, <2>6, <2>7, GoesOnBalance
<1>4. CASE SendsAgain(a, m)
  <2> DEFINE x == [pc |-> "calling", msg |-> m, now |-> 0, seen |-> hold[m].status,
                   expiring |-> {}, since |-> clock, tokens |-> 0, outcome |-> "none",
                   overtaken |-> FALSE, fits |-> FALSE, to |-> NoRow.to]
  <2>1. attempt' = [attempt EXCEPT ![a] = x] /\ UNCHANGED holdLock
    BY <1>4 DEF SendsAgain, Request
  <2>2. attempt'[a] = x  BY <2>1 DEF HoldsInv, Types
  <2>3. (Locks(a) /\ Sees(a) /\ Decides(a))'
    BY <2>2 DEF Locks, Settling, Sees, NoneAfter, Decides, Pc, InBooks
  <2> HIDE DEF x
  <2>4. Rows'  BY <1>1, <1>2, <2>1, RowsStay DEF Rows
  <2>5. Quiet  BY <1>1, <1>2, <2>4 DEF Quiet, SameRows
  <2> QED BY <1>1, <2>1, <2>3, <2>5, GoesOnBalance
<1> QED BY <1>3, <1>4

LEMMA AnsweringBalance ==
    ASSUME HoldsInv, BalanceInv, NEW a \in Attempts,
           LocksHold(a) \/ \E t \in Tokens, o \in {"completed", "failed"} : Answers(a, t, o)
    PROVE  BalanceInv'
<1> DEFINE y == attempt[a]
<1>1. UNCHANGED <<clock, run, hold, ledger, consumed, grantLock>>  BY DEF Answers, LocksHold, books
<1>2. Rows /\ clock \in Nat /\ clock <= clock' /\ Ran' \subseteq Ran
  BY <1>1, HoldsAssumption DEF BalanceInv, Rows, Ran
<1>3. IsAttempt(y) /\ y.overtaken \in BOOLEAN /\ y.fits \in BOOLEAN
  BY DEF HoldsInv, Types, BalanceInv, Sees
<1>4. ASSUME NEW t \in Tokens, NEW o \in {"completed", "failed"}, Answers(a, t, o) PROVE BalanceInv'
  <2> DEFINE x == [[[[y EXCEPT !.pc = "answered"] EXCEPT !.tokens = t] EXCEPT !.outcome = o]
              EXCEPT !.since = 0]
  <2>1. attempt' = [attempt EXCEPT ![a] = x] /\ UNCHANGED holdLock
    BY <1>4 DEF Answers, HoldsInv, Types
  <2> HIDE DEF y
  <2>2. x.pc = "answered" /\ x.overtaken = y.overtaken /\ x.fits = y.fits
    <3> DEFINE p == "answered"
    <3>1. x = [[[[y EXCEPT !.pc = p] EXCEPT !.tokens = t] EXCEPT !.outcome = o] EXCEPT !.since = 0]
      OBVIOUS
    <3> HIDE DEF x, p
    <3>2. IsAttempt(y)  BY <1>3
    <3>3. x = [pc |-> p, msg |-> y.msg, now |-> y.now, seen |-> y.seen,
               expiring |-> y.expiring, since |-> 0, tokens |-> t,
               outcome |-> o, overtaken |-> y.overtaken, fits |-> y.fits, to |-> y.to]
      BY <3>1, <3>2, Changed, ZenonT(30)
    <3> QED BY <3>3 DEF p
  <2> HIDE DEF x
  <2>3. attempt'[a] = x  BY <2>1 DEF HoldsInv, Types
  <2>4. (Locks(a) /\ Sees(a) /\ Decides(a))'
    BY <1>3, <2>2, <2>3 DEF Locks, Settling, Sees, NoneAfter, Decides, Pc, InBooks
  <2>5. Rows'  BY <1>1, <1>2, <2>1, RowsStay DEF Rows
  <2>6. Quiet  BY <1>1, <1>2, <2>5 DEF Quiet, SameRows
  <2> QED BY <1>1, <2>1, <2>4, <2>6, GoesOnBalance
<1>5. CASE LocksHold(a)
  <2> DEFINE p == IF y.tokens = 0 THEN "closing" ELSE "settling"
             x == [[y EXCEPT !.pc = p] EXCEPT !.now = clock]
             m == Msg(a)
  <2>1. /\ attempt' = [attempt EXCEPT ![a] = x] /\ holdLock' = [holdLock EXCEPT ![m] = a]
        /\ holdLock[m] = None /\ consumed[m] = Absent /\ y.msg = m /\ Pc(a) = "answered"
    BY <1>5 DEF LocksHold, HoldsInv, Types, Msg
  <2>2. m \in Messages  BY <2>1, Requested
  <2>p. p \in {"closing", "settling"}  OBVIOUS
  <2> HIDE DEF y, p
  <2>3. x = [pc |-> p, msg |-> y.msg, now |-> clock, seen |-> y.seen,
             expiring |-> y.expiring, since |-> y.since, tokens |-> y.tokens,
             outcome |-> y.outcome, overtaken |-> y.overtaken, fits |-> y.fits, to |-> y.to]
    BY <1>3, Changed
  <2> HIDE DEF x, m
  <2>4. x.pc \in {"closing", "settling"} /\ x.msg = m /\ x.now = clock /\ x.overtaken = y.overtaken /\ x.fits = y.fits
    BY <2>1, <2>3, <2>p
  <2>5. attempt'[a] = x  BY <2>1 DEF HoldsInv, Types
  <2>6. /\ holdLock' = [h \in Messages |-> holdLock'[h]] /\ holdLock'[m] = a
        /\ \A b \in Attempts \ {a}, h \in Messages : holdLock[h] = b => holdLock'[h] = b
    BY <1>2, <2>1, <2>2, HoldsAssumption DEF Rows
  <2>7. (Locks(a) /\ Sees(a) /\ Decides(a))'
    BY <1>1, <1>2, <1>3, <2>1, <2>4, <2>5, <2>6 DEF Locks, Settling, Sees, NoneAfter, Decides, Pc, Msg, InBooks, Rows
  <2>8. Rows'  BY <1>1, <1>2, <2>6, RowsStay DEF Rows
  <2>9. Quiet  BY <1>1, <1>2, <2>8 DEF Quiet, SameRows
  <2> QED BY <1>1, <2>1, <2>6, <2>7, <2>9, GoesOnBalance
<1> QED BY <1>4, <1>5

\* With the locks, an attempt that was not overtaken reads all the rows.
LEMMA DecidingBalance ==
    ASSUME HoldsInv, BalanceInv, NEW a \in Attempts, Balances(a) \/ Allocates(a)
    PROVE  BalanceInv'
<1> DEFINE y == attempt[a]
<1>1. UNCHANGED <<clock, run, hold, ledger, consumed, grantLock, holdLock>>
  BY DEF Balances, Allocates, books
<1>2. Rows /\ clock \in Nat /\ clock <= clock' /\ Ran' \subseteq Ran /\ MaxTime \in Nat /\ clock <= MaxTime
  BY <1>1, HoldsAssumption DEF BalanceInv, Rows, Ran
<1>3. /\ IsAttempt(y) /\ y.overtaken \in BOOLEAN /\ y.fits \in BOOLEAN
      /\ Locks(a) /\ Sees(a) /\ Decides(a)
  BY DEF HoldsInv, Types, BalanceInv, Sees
<1>4. Rows' /\ Quiet
  <2>1. Rows'  BY <1>1, <1>2, RowsStay DEF Rows
  <2> QED BY <1>1, <1>2, <2>1 DEF Quiet, SameRows
<1>5. y.now \in 0..clock /\ \A g \in Active(y.now) : grantLock[g] = a
  <2>1. InBooks(a) /\ Wanted(a) = {}  BY DEF Balances, Allocates, InBooks
  <2> QED BY <1>3, <2>1 DEF Sees, Wanted, Locked, Active
<1>6. ~y.overtaken => \A t \in Nat : t = y.now =>
          /\ UsedBy(t, t) = UsedBy(t, MaxTime)
          /\ \A g : AllocatedTo(g, t) = AllocatedTo(g, MaxTime)
  <2>1. ASSUME ~y.overtaken, NEW t \in Nat, t = y.now
        PROVE  UsedBy(t, t) = UsedBy(t, MaxTime) /\ \A g : AllocatedTo(g, t) = AllocatedTo(g, MaxTime)
    <3>1. InBooks(a)  BY DEF Balances, Allocates, InBooks
    <3>2. NoneAfter(t)  BY <1>3, <2>1, <3>1 DEF Sees
    <3>3. t <= MaxTime  BY <1>2, <1>5, <2>1
    <3>4. UsedBy(t, t) = UsedBy(t, MaxTime) /\ RowsBy(t) = RowsBy(MaxTime)
      BY <1>2, <3>2, <3>3, SeesAll
    <3>5. \A g : AllocatedTo(g, t) = AllocatedTo(g, MaxTime)  BY <3>4, BalanceIs
    <3> QED BY <3>4, <3>5
  <2> QED BY <2>1
<1>7. \A t : (GrantedAt(t))' = GrantedAt(t)
  BY DEF GrantedAt, MapThenSumSet, MapThenFoldSet, Active, Covers
<1>8. \A t, g : (UsedBy(t, MaxTime))' = UsedBy(t, MaxTime) /\ (AllocatedTo(g, MaxTime))' = AllocatedTo(g, MaxTime)
  BY <1>1, <1>2, SameUsed DEF SameRows
<1>9. Reserved' = Reserved  BY <1>1 DEF Reserved
<1>10. CASE Balances(a)
  <2> DEFINE f == Available(y.now) >= Hold
             z == [y EXCEPT !.pc = "balanced"]
             x == [z EXCEPT !.fits = f]
  <2>1. attempt' = [attempt EXCEPT ![a] = x] /\ y.pc = "admitting"
    BY <1>10 DEF Balances, Pc, HoldsInv, Types
  <2>2. f \in BOOLEAN  OBVIOUS
  <2>3. f => \A t \in Nat : t = y.now => Available(t) >= Hold  OBVIOUS
  <2> HIDE DEF y, f
  <2>4. z = [pc |-> "balanced", msg |-> y.msg, now |-> y.now, seen |-> y.seen,
             expiring |-> y.expiring, since |-> y.since, tokens |-> y.tokens,
             outcome |-> y.outcome, overtaken |-> y.overtaken, fits |-> y.fits, to |-> y.to]
    BY <1>3 DEF IsAttempt
  <2> HIDE DEF z
  <2>5. x.pc = "balanced" /\ x.now = y.now /\ x.overtaken = y.overtaken /\ x.fits = f
    BY <2>4
  <2> HIDE DEF x
  <2>6. attempt'[a] = x  BY <2>1 DEF HoldsInv, Types
  <2>7. Locks(a)'
    BY <1>1, <1>5, <2>5, <2>6 DEF Locks, Settling, Pc, Active, Covers
  <2>8. Sees(a)'
    BY <1>1, <1>3, <2>1, <2>2, <2>5, <2>6 DEF Sees, NoneAfter, Settling, Pc, InBooks, y
  <2>9. ASSUME x.fits, ~x.overtaken, NEW t \in Nat, t = x.now
        PROVE  Reserved' + (UsedBy(t, MaxTime))' + Hold <= (GrantedAt(t))'
    <3>1. Available(t) >= Hold  BY <2>3, <2>5, <2>9
    <3>2. UsedBy(t, t) = UsedBy(t, MaxTime)  BY <1>6, <2>5, <2>9
    <3>3. Reserved \in Nat /\ UsedBy(t, MaxTime) \in Nat /\ GrantedAt(t) \in Nat
      BY <1>2, ReservedIs, BalanceNumbers
    <3>4. Available(t) = GrantedAt(t) - UsedBy(t, MaxTime) - Reserved  BY <3>2 DEF Available
    <3>5. Reserved + UsedBy(t, MaxTime) + Hold <= GrantedAt(t)  BY <3>1, <3>3, <3>4, Numbers
    <3> QED BY <1>7, <1>8, <1>9, <3>5
  <2>10. Decides(a)'  BY <2>5, <2>6, <2>9 DEF Decides, Pc
  <2> QED BY <1>1, <1>4, <2>1, <2>7, <2>8, <2>10, GoesOnBalance
<1>11. CASE Allocates(a)
  <2> DEFINE q == Least(y.tokens, Hold)
             f == Allocation(q, y.now)
             x == [[y EXCEPT !.pc = "allocated"] EXCEPT !.to = f]
  <2>1. attempt' = [attempt EXCEPT ![a] = x] /\ y.pc = "settling"
    BY <1>11 DEF Allocates, Pc, HoldsInv, Types
  <2>2. q \in Nat
    <3>1. y.tokens \in Tokens  BY <1>3, <2>1 DEF IsAttempt
    <3> QED BY <3>1, Numbers DEF Least
  <2> HIDE DEF q
  <2>3. /\ f \in [Grants -> Nat]
        /\ \A g \in Grants : f[g] # 0 => AllocatedTo(g, y.now) + f[g] <= Granted[g]
    BY <1>2, <2>2, AllocationFits
  <2>4. ~y.overtaken => \A g : AllocatedTo(g, y.now) = AllocatedTo(g, MaxTime)
    BY <1>2, <1>5, <1>6
  <2> HIDE DEF y, f
  <2>5. x = [pc |-> "allocated", msg |-> y.msg, now |-> y.now, seen |-> y.seen,
             expiring |-> y.expiring, since |-> y.since, tokens |-> y.tokens,
             outcome |-> y.outcome, overtaken |-> y.overtaken, fits |-> y.fits, to |-> f]
    BY <1>3, Changed
  <2> HIDE DEF x
  <2>6. /\ x.pc = "allocated" /\ x.now = y.now /\ x.overtaken = y.overtaken /\ x.fits = y.fits
        /\ x.msg = y.msg /\ x.to = f
    BY <2>5
  <2>7. attempt'[a] = x  BY <2>1 DEF HoldsInv, Types
  <2>8. Locks(a)'
    <3>1. holdLock[y.msg] = a /\ consumed[y.msg] = Absent  BY <1>3, <2>1 DEF Locks, Settling, Pc, Msg, y
    <3> QED BY <1>1, <1>5, <2>6, <2>7, <3>1 DEF Locks, Settling, Pc, Msg, Active, Covers
  <2>9. Sees(a)'
    BY <1>1, <1>3, <2>1, <2>6, <2>7 DEF Sees, NoneAfter, Settling, Pc, InBooks, y
  <2>10. Decides(a)'  BY <1>8, <2>3, <2>4, <2>6, <2>7 DEF Decides, Pc
  <2> QED BY <1>1, <1>4, <2>1, <2>8, <2>9, <2>10, GoesOnBalance
<1> QED BY <1>10, <1>11

\* A transaction that commits marks those it overtook, and lets its locks go.
LEMMA CommitTouches ==
    ASSUME HoldsInv, BalanceInv, NEW a \in Attempts, NEW x, attempt' = Overtaking(a, x),
           grantLock' = Unlocked(grantLock, a), holdLock' = Unlocked(holdLock, a)
    PROVE  /\ attempt'[a] = x
           /\ \A b \in Attempts \ {a} : Untouched(b) /\ (Overtakes(a, b) => attempt'[b].overtaken)
           /\ grantLock' = [g \in Grants |-> grantLock'[g]]
           /\ holdLock' = [m \in Messages |-> holdLock'[m]]
<1>1. attempt' = [b \in Attempts |-> IF b = a THEN x
                    ELSE [attempt[b] EXCEPT !.overtaken = @ \/ Overtakes(a, b)]]
  BY DEF Overtaking
<1>2. ASSUME NEW b \in Attempts \ {a}
      PROVE  Untouched(b) /\ (Overtakes(a, b) => attempt'[b].overtaken)
  <2> DEFINE o == attempt[b].overtaken \/ Overtakes(a, b)
             y == attempt[b]
  <2>1. attempt'[b] = [y EXCEPT !.overtaken = o]  BY <1>1
  <2>2. IsAttempt(y) /\ y.overtaken \in BOOLEAN  BY DEF HoldsInv, Types, BalanceInv, Sees
  <2>3. o \in BOOLEAN /\ (y.overtaken => o) /\ (Overtakes(a, b) => o)
    <3>1. y.overtaken \in BOOLEAN  BY <2>2
    <3> QED BY <3>1
  <2> HIDE DEF o, y
  <2>4. attempt'[b] = [pc |-> y.pc, msg |-> y.msg, now |-> y.now, seen |-> y.seen,
            expiring |-> y.expiring, since |-> y.since, tokens |-> y.tokens,
            outcome |-> y.outcome, overtaken |-> o, fits |-> y.fits, to |-> y.to]
    BY <2>1, <2>2 DEF IsAttempt
  <2>5. /\ attempt'[b].pc = y.pc /\ attempt'[b].msg = y.msg /\ attempt'[b].now = y.now
        /\ attempt'[b].fits = y.fits /\ attempt'[b].to = y.to /\ attempt'[b].overtaken = o
    BY <2>4
  <2>6. \A g \in Grants : grantLock[g] = b => grantLock'[g] = b
    BY DEF Unlocked, BalanceInv, Rows
  <2>7. \A m \in Messages : holdLock[m] = b => holdLock'[m] = b
    BY DEF Unlocked, BalanceInv, Rows
  <2> QED BY <2>3, <2>5, <2>6, <2>7 DEF Untouched, Pc, Msg, y
<1>3. attempt'[a] = x  BY <1>1
<1>4. grantLock' = [g \in Grants |-> grantLock'[g]] /\ holdLock' = [m \in Messages |-> holdLock'[m]]
  BY DEF Unlocked, BalanceInv, Rows
<1> QED BY <1>2, <1>3, <1>4

\* Two that have decided hold no grant in common.
LEMMA DecidedApart ==
    ASSUME BalanceInv, NEW a \in Attempts, NEW b \in Attempts \ {a},
           Pc(a) \in {"balanced", "allocated"}, Pc(b) \in {"balanced", "allocated"}
    PROVE  Overtakes(a, b)
<1>1. attempt[a].now \in Nat /\ attempt[b].now \in Nat
  BY HoldsAssumption DEF BalanceInv, Rows, Sees, InBooks
<1>2. /\ \A g \in Active(attempt[a].now) : grantLock[g] = a
      /\ \A g \in Active(attempt[b].now) : grantLock[g] = b
  BY <1>1 DEF BalanceInv, Locks
<1>3. Active(attempt[a].now) \cap Active(attempt[b].now) = {}
  BY <1>2
<1> QED BY <1>3 DEF Overtakes, InBooks

LEMMA ReservingBalance ==
    ASSUME HoldsInv, BalanceInv, NEW a \in Attempts, Reserves(a)
    PROVE  BalanceInv'
<1> DEFINE m == Msg(a)
           x == [pc |-> "calling", msg |-> m, now |-> 0, seen |-> "reserved",
                 expiring |-> {}, since |-> clock, tokens |-> 0, outcome |-> "none",
                 overtaken |-> FALSE, fits |-> FALSE, to |-> NoRow.to]
<1>1. /\ Pc(a) = "balanced" /\ UNCHANGED <<clock, ledger, consumed>>
      /\ run' = [run EXCEPT ![m] = "running"]
      /\ grantLock' = Unlocked(grantLock, a) /\ holdLock' = Unlocked(holdLock, a)
  BY DEF Reserves
<1>2. attempt' = Overtaking(a, x)  BY DEF Reserves, Request
<1>3. x.pc = "calling" /\ x.overtaken \in BOOLEAN /\ x.fits \in BOOLEAN  OBVIOUS
<1> HIDE DEF x
<1>4. /\ attempt'[a] = x
      /\ \A b \in Attempts \ {a} : Untouched(b) /\ (Overtakes(a, b) => attempt'[b].overtaken)
      /\ grantLock' = [g \in Grants |-> grantLock'[g]]
      /\ holdLock' = [n \in Messages |-> holdLock'[n]]
  BY <1>1, <1>2, CommitTouches
<1>5. Rows /\ clock \in Nat /\ clock <= clock'  BY <1>1, HoldsAssumption DEF BalanceInv, Rows
<1>6. Rows'
  <2>1. Ran' \subseteq Ran \cup {m}  BY <1>1 DEF Ran, HoldsInv, Types
  <2>2. IsFiniteSet(Ran \cup {m})  BY <1>5, FS_AddElement DEF Rows
  <2>3. IsFiniteSet(Ran')  BY <2>1, <2>2, FS_Subset
  <2> QED BY <1>1, <1>4, <1>5, <2>3 DEF Rows
<1>7. (Locks(a) /\ Sees(a) /\ Decides(a))'
  BY <1>3, <1>4 DEF Locks, Settling, Sees, NoneAfter, Decides, Pc, InBooks
<1>8. ASSUME NEW b \in Attempts \ {a} PROVE (Locks(b) /\ Sees(b) /\ Decides(b))'
  <2>1. Untouched(b)  BY <1>4
  <2>2. Pc(b) \in {"balanced", "allocated"} => attempt'[b].overtaken
    BY <1>1, <1>4, DecidedApart
  <2>3. ~attempt'[b].overtaken /\ InBooks(b) =>
            \A n \in Messages : ledger'[n].quantity > 0 => ledger'[n].at <= attempt[b].now
    BY <1>1, <2>1 DEF BalanceInv, Sees, NoneAfter, Untouched
  <2> QED BY <1>1, <1>5, <1>6, <2>1, <2>2, <2>3, UntouchedKept
<1> QED BY <1>6, <1>7, <1>8 DEF BalanceInv

\* The row of a settlement, which has the message to itself.
LEMMA SettlesRow ==
    ASSUME HoldsInv, BalanceInv, NEW a \in Attempts, Settles(a), NEW m, m = Msg(a)
    PROVE  /\ m \in Messages /\ m \in Ran /\ holdLock[m] = a /\ consumed[m] = Absent
           /\ attempt[a].now \in 0..clock /\ attempt[a].to \in [Grants -> Nat]
           /\ attempt[a].tokens \in Nat \ {0}
           /\ ledger'[m] = [quantity |-> Least(attempt[a].tokens, Hold), at |-> attempt[a].now,
                            to |-> attempt[a].to]
           /\ \A n \in Messages \ {m} : ledger'[n] = ledger[n] /\ consumed'[n] = consumed[n]
           /\ run' = [run EXCEPT ![m] = attempt[a].outcome]
           /\ attempt[a].outcome # "none"
<1>1. /\ Pc(a) = "allocated" /\ consumed' = [consumed EXCEPT ![m] = attempt[a].tokens]
      /\ ledger' = [ledger EXCEPT ![m] =
           [quantity |-> Least(attempt[a].tokens, Hold), at |-> attempt[a].now, to |-> attempt[a].to]]
      /\ run' = [run EXCEPT ![m] = attempt[a].outcome]
  BY DEF Settles
<1>2. m \in Messages /\ run[m] # "none"
  BY <1>1, Requested DEF HoldsInv, SeenStays
<1>3. holdLock[m] = a /\ consumed[m] = Absent /\ attempt[a].now \in 0..clock /\ attempt[a].to \in [Grants -> Nat]
  BY <1>1 DEF BalanceInv, Locks, Settling, Sees, Decides, InBooks
<1>4. attempt[a].tokens \in Nat \ {0} /\ attempt[a].outcome # "none"
  <2>1. IsAttempt(attempt[a])  BY DEF HoldsInv, Types
  <2> QED BY <1>1, <2>1, Numbers DEF IsAttempt, Pc
<1>5. /\ ledger = [n \in Messages |-> ledger[n]] /\ consumed \in [Messages -> Nat \cup {Absent}]
  BY DEF HoldsInv, Types
<1> QED BY <1>1, <1>2, <1>3, <1>4, <1>5 DEF Ran

LEMMA SettlingBalance ==
    ASSUME HoldsInv, BalanceInv, NEW a \in Attempts, Settles(a)
    PROVE  BalanceInv'
<1> DEFINE m == Msg(a)
           y == attempt[a]
<1>1. /\ Pc(a) = "allocated" /\ clock' = clock /\ attempt' = Overtaking(a, Idle)
      /\ grantLock' = Unlocked(grantLock, a) /\ holdLock' = Unlocked(holdLock, a)
  BY DEF Settles
<1>2. /\ m \in Messages /\ m \in Ran /\ holdLock[m] = a
      /\ y.now \in 0..clock /\ y.to \in [Grants -> Nat]
      /\ ledger'[m].at = y.now /\ ledger'[m].to = y.to
      /\ \A n \in Messages \ {m} : ledger'[n] = ledger[n] /\ consumed'[n] = consumed[n]
      /\ run' = [run EXCEPT ![m] = y.outcome]
  <2> HIDE DEF m
  <2>1. m = Msg(a)  BY DEF m
  <2>2. ledger'[m] = [quantity |-> Least(attempt[a].tokens, Hold), at |-> attempt[a].now,
                      to |-> attempt[a].to]
    BY <2>1, SettlesRow
  <2> QED BY <2>1, <2>2, SettlesRow
<1> HIDE DEF m
<1>3. /\ attempt'[a] = Idle
      /\ \A b \in Attempts \ {a} : Untouched(b) /\ (Overtakes(a, b) => attempt'[b].overtaken)
      /\ grantLock' = [g \in Grants |-> grantLock'[g]]
      /\ holdLock' = [n \in Messages |-> holdLock'[n]]
  BY <1>1, CommitTouches
<1>4. Rows /\ clock \in Nat /\ clock <= clock'  BY <1>1, HoldsAssumption DEF BalanceInv, Rows
<1>5. Rows'
  <2>1. Ran' \subseteq Ran  BY <1>2 DEF Ran, HoldsInv, Types
  <2>2. IsFiniteSet(Ran')  BY <1>4, <2>1, FS_Subset DEF Rows
  <2>3. \A n \in Messages : ledger'[n].at \in 0..clock' /\ ledger'[n].to \in [Grants -> Nat]
    BY <1>1, <1>2, <1>4 DEF Rows
  <2> QED BY <1>1, <1>3, <1>4, <2>2, <2>3 DEF Rows
<1>6. (Locks(a) /\ Sees(a) /\ Decides(a))'
  <2>1. Idle.pc = "idle" /\ Idle.overtaken \in BOOLEAN /\ Idle.fits \in BOOLEAN
    BY DEF Idle, Request
  <2> QED BY <1>3, <2>1 DEF Locks, Settling, Sees, NoneAfter, Decides, Pc, InBooks
<1>7. ASSUME NEW b \in Attempts \ {a} PROVE (Locks(b) /\ Sees(b) /\ Decides(b))'
  <2>1. Untouched(b) /\ (Overtakes(a, b) => attempt'[b].overtaken)  BY <1>3
  <2>2. Pc(b) \in {"balanced", "allocated"} => attempt'[b].overtaken
    BY <1>1, <2>1, DecidedApart
  <2>3. ASSUME ~attempt'[b].overtaken, InBooks(b), NEW n \in Messages, ledger'[n].quantity > 0
        PROVE  ledger'[n].at <= attempt[b].now
    <3>1. /\ ~attempt[b].overtaken /\ attempt[b].now \in 0..clock
          /\ ledger[n].quantity > 0 => ledger[n].at <= attempt[b].now
      BY <2>1, <2>3 DEF BalanceInv, Sees, NoneAfter, Untouched
    <3>2. ~(attempt[b].now < y.now)  BY <1>1, <2>1, <2>3 DEF Overtakes
    <3>3. CASE n = m  BY <1>2, <1>4, <3>1, <3>2, <3>3
    <3>4. CASE n # m
      <4>1. ledger'[n] = ledger[n]  BY <1>2, <3>4
      <4> QED BY <2>3, <3>1, <4>1
    <3> QED BY <3>3, <3>4
  <2>4. Settling(b) => consumed'[Msg(b)] = consumed[Msg(b)]
    <3>1. ASSUME Settling(b) PROVE Msg(b) \in Messages \ {m}
      <4>1. Msg(b) \in Messages  BY <3>1, Requested DEF Settling
      <4>2. holdLock[Msg(b)] = b  BY <3>1 DEF BalanceInv, Locks
      <4> QED BY <1>2, <4>1, <4>2
    <3> QED BY <1>2, <3>1
  <2> QED BY <1>4, <1>5, <2>1, <2>2, <2>3, <2>4, UntouchedKept
<1> QED BY <1>5, <1>6, <1>7 DEF BalanceInv

LEMMA InitBalance == ASSUME Init PROVE BalanceInv
<1>1. Ran = {}  BY DEF Init, Ran
<1>2. IsFiniteSet(Ran)  BY <1>1, FS_EmptySet
<1>3. clock \in 0..MaxTime  BY HoldsAssumption DEF Init
<1>4. \A m \in Messages : ledger[m].at \in 0..clock /\ ledger[m].to \in [Grants -> Nat]
  BY DEF Init, NoRow
<1>5. grantLock = [g \in Grants |-> grantLock[g]] /\ holdLock = [m \in Messages |-> holdLock[m]]
  BY DEF Init
<1>6. ASSUME NEW a \in Attempts PROVE Locks(a) /\ Sees(a) /\ Decides(a)
  <2>1. attempt[a] = Idle  BY DEF Init
  <2>2. Idle.pc = "idle" /\ Idle.overtaken \in BOOLEAN /\ Idle.fits \in BOOLEAN
    BY DEF Idle, Request
  <2> QED BY <2>1, <2>2 DEF Locks, Settling, Sees, NoneAfter, Decides, Pc, InBooks
<1> QED BY <1>2, <1>3, <1>4, <1>5, <1>6 DEF BalanceInv, Rows

LEMMA BalanceNext == ASSUME HoldsInv, BalanceInv, [Next]_vars PROVE BalanceInv'
<1>1. CASE Sweeps \/ Tick \/ UNCHANGED vars  BY <1>1, IdlingBalance
<1>2. ASSUME NEW a \in Attempts, NEW m \in Messages, Sends(a, m) \/ SendsAgain(a, m) PROVE BalanceInv'
  BY <1>2, SendingBalance
<1>3. ASSUME NEW a \in Attempts, NEW g \in Grants, LocksGrant(a, g) PROVE BalanceInv'
  BY <1>3, IdlingBalance
<1>4. ASSUME NEW a \in Attempts,
             Deadlocks(a) \/ Refuses(a) \/ TooLate(a) \/ Dies(a) \/ Fails(a) \/ Replays(a)
      PROVE  BalanceInv'
  BY <1>4, LeavingBalance
<1>5. ASSUME NEW a \in Attempts,
             LocksHold(a) \/ \E t \in Tokens, o \in {"completed", "failed"} : Answers(a, t, o)
      PROVE  BalanceInv'
  BY <1>5, AnsweringBalance
<1>6. ASSUME NEW a \in Attempts, Balances(a) \/ Allocates(a) PROVE BalanceInv'
  BY <1>6, DecidingBalance
<1>7. ASSUME NEW a \in Attempts, Reserves(a) PROVE BalanceInv'  BY <1>7, ReservingBalance
<1>8. ASSUME NEW a \in Attempts, Settles(a) PROVE BalanceInv'  BY <1>8, SettlingBalance
<1>9. ASSUME NEW a \in Attempts, SettlesNothing(a) PROVE BalanceInv'  BY <1>9, ClosingBalance
<1> QED BY <1>1, <1>2, <1>3, <1>4, <1>5, <1>6, <1>7, <1>8, <1>9 DEF Next

-----------------------------------------------------------------------------
(* What a commit adds.                                                     *)

\* A settlement adds its allocations to those of its grants.
LEMMA SettlesAdds ==
    ASSUME HoldsInv, BalanceInv, NEW a \in Attempts, Settles(a), NEW g \in Grants
    PROVE  /\ (AllocatedTo(g, MaxTime))' = AllocatedTo(g, MaxTime) + attempt[a].to[g]
           /\ AllocatedTo(g, MaxTime) \in Nat
<1> DEFINE m == Msg(a)
           y == attempt[a]
           R == RowsBy(MaxTime)
           S == R \cup {m}
           f == [n \in R |-> ledger[n].to[g]]
           h == [n \in S |-> ledger'[n].to[g]]
<1>1. /\ m \in Messages /\ consumed[m] = Absent /\ y.now \in 0..clock /\ y.to \in [Grants -> Nat]
      /\ ledger'[m].quantity = Least(y.tokens, Hold) /\ ledger'[m].at = y.now /\ ledger'[m].to = y.to
      /\ y.tokens \in Nat \ {0}
      /\ \A n \in Messages \ {m} : ledger'[n] = ledger[n]
  <2> HIDE DEF m
  <2>1. m = Msg(a)  BY DEF m
  <2>2. ledger'[m] = [quantity |-> Least(y.tokens, Hold), at |-> y.now, to |-> y.to]
    BY <2>1, SettlesRow
  <2> QED BY <2>1, <2>2, SettlesRow
<1> HIDE DEF m, y
<1>2. Rows /\ clock \in 0..MaxTime /\ MaxTime \in Nat  BY HoldsAssumption DEF BalanceInv, Rows
<1>3. ledger[m].quantity = Absent  BY <1>1, Charged
<1>4. IsFiniteSet(R) /\ R \subseteq Messages \ {m}  BY <1>2, <1>3, RowsFinite, Numbers DEF RowsBy
<1>5. (RowsBy(MaxTime))' = S
  <2>1. ledger'[m].quantity > 0  BY <1>1, Numbers DEF Least
  <2>2. ledger'[m].at <= MaxTime  BY <1>1, <1>2
  <2> QED BY <1>1, <2>1, <2>2 DEF RowsBy
<1>6. (AllocatedTo(g, MaxTime))' = ColumnSum(ledger', g, S)  BY <1>5, BalanceIsNext
<1>7. AllocatedTo(g, MaxTime) = ColumnSum(ledger, g, R)  BY BalanceIs
<1>8. ColumnSum(ledger, g, R) \in Nat  BY <1>2, ColumnIsNat
<1> HIDE DEF R
<1>9. IsFiniteSet(S)  BY <1>4, FS_AddElement
<1>10. ColumnSum(ledger', g, S) = Total(h, S) /\ ColumnSum(ledger, g, R) = Total(f, R)
  <2>1. ColumnSum(ledger, g, R) = Total(f, R)  BY <1>4, ColumnIs
  <2>2. ASSUME NEW l, l = ledger' PROVE ColumnSum(l, g, S) = Total([n \in S |-> l[n].to[g]], S)
    <3> HIDE DEF S
    <3> QED BY <1>9, ColumnIs
  <2> QED BY <2>1, <2>2
<1>11. /\ \A n \in S : h[n] \in Int
       /\ \A n \in R : h[n] = f[n]
       /\ h[m] = y.to[g] /\ m \in S /\ S \ {m} = R
  <2>1. \A n \in R : ledger'[n] = ledger[n] /\ ledger[n].to \in [Grants -> Nat]
    BY <1>1, <1>2, <1>4 DEF Rows
  <2> QED BY <1>1, <1>4, <2>1
<1> HIDE DEF S, f, h
<1>12. Total(h, S) = h[m] + Total(h, S \ {m})  BY <1>9, <1>11, SumWithout
<1>13. Total(h, R) = Total(f, R)  BY <1>4, <1>11, SumOfEqual
<1>14. y.to[g] \in Nat  BY <1>1
<1>15. Total(h, S) = y.to[g] + Total(f, R)  BY <1>11, <1>12, <1>13
<1> HIDE DEF y
<1>16. (AllocatedTo(g, MaxTime))' = AllocatedTo(g, MaxTime) + y.to[g]
  BY <1>6, <1>7, <1>8, <1>10, <1>14, <1>15
<1> QED BY <1>7, <1>8, <1>16 DEF y

\* The step that takes an attempt from its decision is its own.
LEMMA OwnCommit ==
    ASSUME HoldsInv, BalanceInv, Next, NEW a \in Attempts, Pc(a)' # Pc(a),
           Pc(a) \in {"balanced", "allocated"}, hold' # hold \/ ledger' # ledger
    PROVE  Reserves(a) \/ Settles(a)
<1>1. \/ Sweeps
      \/ \E b \in Attempts : Reserves(b) \/ Fails(b) \/ Settles(b) \/ SettlesNothing(b)
  BY DEF Next, books, Sends, SendsAgain, LocksGrant, Deadlocks, Balances, Allocates, Refuses,
         Answers, Replays, TooLate, LocksHold, Dies, Tick
<1>2. CASE Sweeps  BY <1>2 DEF Sweeps, Pc
<1>3. ASSUME NEW b \in Attempts, Fails(b) \/ SettlesNothing(b) PROVE FALSE
  <2>1. attempt' = [attempt EXCEPT ![b] = Idle] /\ Pc(b) \in {"calling", "closing"}
    BY <1>3 DEF Fails, SettlesNothing, Leaves
  <2> QED BY <2>1 DEF Pc, HoldsInv, Types
<1>4. ASSUME NEW b \in Attempts, Reserves(b) \/ Settles(b), b # a PROVE FALSE
  <2>1. /\ grantLock' = Unlocked(grantLock, b) /\ holdLock' = Unlocked(holdLock, b)
        /\ \E x : attempt' = Overtaking(b, x)
    BY <1>4 DEF Reserves, Settles
  <2>2. Untouched(a)  BY <1>4, <2>1, CommitTouches
  <2> QED BY <2>2 DEF Untouched
<1> QED BY <1>1, <1>2, <1>3, <1>4

LEMMA ReservationFits ==
    ASSUME HoldsInv, BalanceInv, NEW a \in Attempts, Reserves(a), ~attempt[a].overtaken,
           NEW t, t = attempt[a].now
    PROVE  Reserved' + (UsedBy(t, MaxTime))' <= GrantedAt(t)
<1> DEFINE m == Msg(a)
           ms == attempt[a].expiring
           e == Expired(hold, ms)
           new == [status |-> "reserved", expires |-> clock + TTL]
<1>1. Pc(a) = "balanced" /\ attempt[a].fits /\ UNCHANGED ledger /\ hold' = [e EXCEPT ![m] = new]
  BY DEF Reserves
<1>2. Rows /\ t \in Nat  BY <1>1, HoldsAssumption DEF BalanceInv, Rows, Sees, InBooks
<1>3. Reserved + UsedBy(t, MaxTime) + Hold <= GrantedAt(t)
  BY <1>1, <1>2 DEF BalanceInv, Decides
<1>4. ms \subseteq Messages /\ \A n \in ms : hold[n].status # "none"
  BY <1>1 DEF HoldsInv, Types, IsAttempt, SeenStays, Pc
<1>5. /\ e = [n \in Messages |-> e[n]]
      /\ \A n \in Messages : e[n].status = "reserved" => hold[n].status = "reserved"
  BY <1>4, ExpiredFacts
<1> HIDE DEF e, new
<1>6. \A n \in Messages : hold'[n].status = "reserved" => hold[n].status = "reserved" \/ n = m
  BY <1>1, <1>5
<1>7. Reserved' \in Nat /\ Reserved' <= Reserved + Hold  BY <1>2, <1>6, OneMoreReserved
<1>8. (UsedBy(t, MaxTime))' = UsedBy(t, MaxTime)  BY <1>1, <1>2, SameUsed DEF SameRows
<1>9. UsedBy(t, MaxTime) \in Nat /\ GrantedAt(t) \in Nat /\ Reserved \in Nat
  BY <1>2, BalanceNumbers, ReservedIs
<1> QED BY <1>3, <1>7, <1>8, <1>9, Numbers

LEMMA SettlementFits ==
    ASSUME HoldsInv, BalanceInv, NEW a \in Attempts, Settles(a), ~attempt[a].overtaken, NEW g \in Grants
    PROVE  (AllocatedTo(g, MaxTime))' \in {AllocatedTo(g, MaxTime)} \cup 0..Granted[g]
<1>1. /\ (AllocatedTo(g, MaxTime))' = AllocatedTo(g, MaxTime) + attempt[a].to[g]
      /\ AllocatedTo(g, MaxTime) \in Nat
  BY SettlesAdds
<1>2. /\ attempt[a].to[g] \in Nat /\ Granted[g] \in Nat
      /\ attempt[a].to[g] # 0 => AllocatedTo(g, MaxTime) + attempt[a].to[g] <= Granted[g]
  BY HoldsAssumption DEF Settles, BalanceInv, Decides
<1> QED BY <1>1, <1>2

\* The row locks of the grants keep the balance (`balance`, `settle`): a transaction
\* that nobody overtook admits a hold only into what its grants have left, and
\* allocates to a grant no more than is left of it.
THEOREM LocksKeep == Spec => LocksKeepTheBalance
<1> DEFINE Step == \A a \in Attempts : Pc(a)' # Pc(a) /\ ~attempt[a].overtaken
                      => \A t \in {attempt[a].now} : Fits(a, t)
<1>1. Init => BalanceInv  BY InitBalance
<1>2. HoldsInv /\ BalanceInv /\ [Next]_vars => BalanceInv'  BY BalanceNext
<1>3. HoldsInv /\ BalanceInv /\ [Next]_vars => [Step]_vars
  <2>1. ASSUME HoldsInv, BalanceInv, Next, NEW a \in Attempts, Pc(a)' # Pc(a), ~attempt[a].overtaken,
               NEW t \in {attempt[a].now}
        PROVE  Fits(a, t)
    <3>1. ASSUME Pc(a) = "balanced", hold' # hold
          PROVE  Reserved' + (UsedBy(t, MaxTime))' <= GrantedAt(t)
      <4>1. Reserves(a)  BY <2>1, <3>1, OwnCommit DEF Settles
      <4> QED BY <2>1, <4>1, ReservationFits
    <3>2. ASSUME Pc(a) = "allocated", ledger' # ledger, NEW g \in Grants
          PROVE  (AllocatedTo(g, MaxTime))' \in {AllocatedTo(g, MaxTime)} \cup 0..Granted[g]
      <4>1. Settles(a)  BY <2>1, <3>2, OwnCommit DEF Reserves
      <4> QED BY <2>1, <4>1, SettlementFits
    <3> QED BY <3>1, <3>2 DEF Fits
  <2> QED BY <2>1
<1>4. Spec => []HoldsInv  BY HoldsInvAlways
<1> QED BY <1>1, <1>2, <1>3, <1>4, PTL DEF Spec, LocksKeepTheBalance

\* A message is charged once: its row and its provider's record, written by one attempt,
\* are changed by no other, however many handle the message at once and whatever
\* becomes of its hold (`record_provider_consumption`, `settle`).
ChargedOnce ==
    [][\A m \in Messages : consumed[m] # Absent =>
          consumed'[m] = consumed[m] /\ ledger'[m] = ledger[m]]_vars

THEOREM ChargeIsFinal == Spec => ChargedOnce
<1> DEFINE Step == \A m \in Messages : consumed[m] # Absent =>
                      consumed'[m] = consumed[m] /\ ledger'[m] = ledger[m]
<1>1. Init => BalanceInv  BY InitBalance
<1>2. HoldsInv /\ BalanceInv /\ [Next]_vars => BalanceInv'  BY BalanceNext
<1>3. HoldsInv /\ BalanceInv /\ [Next]_vars => [Step]_vars
  <2>1. ASSUME HoldsInv, BalanceInv, Next, NEW m \in Messages, consumed[m] # Absent
        PROVE  consumed'[m] = consumed[m] /\ ledger'[m] = ledger[m]
    <3>1. CASE UNCHANGED <<consumed, ledger>>  BY <3>1
    <3>2. ASSUME NEW a \in Attempts, Settles(a) \/ SettlesNothing(a)
          PROVE  consumed'[m] = consumed[m] /\ ledger'[m] = ledger[m]
      <4>1. Msg(a) \in Messages /\ consumed[Msg(a)] = Absent
        BY <2>1, <3>2 DEF Settles, SettlesNothing, BalanceInv, Locks, Settling, HoldsInv, Types, IsAttempt, Pc, Msg
      <4>2. m # Msg(a)  BY <2>1, <4>1
      <4>3. consumed \in [Messages -> Nat \cup {Absent}] /\ ledger = [n \in Messages |-> ledger[n]]
        BY <2>1 DEF HoldsInv, Types
      <4> QED BY <3>2, <4>2, <4>3 DEF Settles, SettlesNothing
    <3>3. \/ UNCHANGED <<consumed, ledger>>
          \/ \E a \in Attempts : Settles(a) \/ SettlesNothing(a)
      <4>1. ASSUME NEW a \in Attempts, NEW t \in Tokens, NEW o \in {"completed", "failed"},
                   Answers(a, t, o)
            PROVE  UNCHANGED <<consumed, ledger>>
        BY <4>1 DEF Answers, books
      <4>2. ASSUME NEW a \in Attempts, NEW n \in Messages, Sends(a, n) \/ SendsAgain(a, n)
            PROVE  UNCHANGED <<consumed, ledger>>
        BY <4>2 DEF Sends, SendsAgain, books
      <4> QED
        BY <2>1, <4>1, <4>2
        DEF Next, LocksGrant, Deadlocks, Balances, Allocates, Reserves, Refuses, Fails, Replays,
            TooLate, LocksHold, Dies, Sweeps, Tick, books
    <3> QED BY <3>1, <3>2, <3>3
  <2> QED BY <2>1
<1>4. Spec => []HoldsInv  BY HoldsInvAlways
<1> QED BY <1>1, <1>2, <1>3, <1>4, PTL DEF Spec, ChargedOnce

-----------------------------------------------------------------------------
(* Provider budgets.                                                       *)


\* A request in service holds the lock of the site row, so there is at most one.
LockHeld ==
    \A h \in Handlers : phase[h] # "idle" => site = h /\ request[h] \in BudgetRequest

\* A call is fresh until its first settlement.
FreshUntilSettled ==
    \A c \in Calls : Fresh(c) <=> status[c] \in {"none", "reserved"}

\* What a handler decided on is still so.
AdmissionHolds(h) ==
    request[h].op = "authorize" =>
        status[request[h].call] = "none" /\ ~Blocked(TaskOf[request[h].call])
SettlementHolds(h) ==
    LET r == request[h] IN
    /\ r.op = "settle" => status[r.call] = "reserved"
    /\ r.op = "reconcile" => Pending(r.call) /\ r.usage # Incomplete
DecisionsHold ==
    \A h \in Handlers : phase[h] = "decided" => AdmissionHolds(h) /\ SettlementHolds(h)

\* RecordsAgree, of one attempt.
Agrees(c) ==
    /\ claim[c] = IF status[c] = "unknown" THEN "pending_reconciliation" ELSE status[c]
    /\ cost[c] # Unrecorded <=> status[c] \in Closed
    /\ status[c] = "overrun" <=> cost[c] > Worst[c]

BudgetInv == LockHeld /\ FreshUntilSettled /\ DecisionsHold /\ OneOpenAttempt /\ RecordsAgree

-----------------------------------------------------------------------------
(* Types.                                                                  *)

LEMMA ScopeTypes ==
    /\ Scopes # {} /\ Site \in Scopes
    /\ \A t \in Tasks : TaskScope(t) \in Scopes
    /\ OperatorScopes \subseteq Scopes
  BY DEF Scopes, Site, TaskScope, OperatorScopes

LEMMA LimitTypes ==
    ASSUME TypeOK, NEW s \in Scopes
    PROVE  LimitOf(s) \in Nat \cup {Unset}
  BY BudgetAssumption DEF TypeOK, LimitOf

LEMMA RequestTypes ==
    ASSUME NEW r \in BudgetRequest
    PROVE  /\ r.op \in {"authorize", "settle", "reconcile"}
           /\ r.call \in Calls /\ r.usage \in Usage
  BY DEF BudgetRequest, Usage

\* Every transaction and every change of the operator or the clock keeps the
\* columns of all six tables within their types, and a handler at work has a
\* request and the site row's lock.
THEOREM TypeCorrect == BudgetSpec => [](TypeOK /\ LockHeld)
<1>1. BudgetInit => TypeOK /\ LockHeld
  <2> SUFFICES ASSUME BudgetInit PROVE TypeOK /\ LockHeld
    OBVIOUS
  <2>1. limit \in [Scopes -> Nat \cup {Unset}]
    BY BudgetAssumption, ScopeTypes DEF BudgetInit
  <2>2. TypeOK
    BY <2>1 DEF BudgetInit, TypeOK, NoLimits, Digest, Unsettled, Usage, CallStatus, ClaimStatus
  <2> QED
    BY <2>2 DEF BudgetInit, LockHeld
<1>2. TypeOK /\ LockHeld /\ [BudgetNext]_budgetVars => TypeOK' /\ LockHeld'
  <2> SUFFICES ASSUME TypeOK, LockHeld, [BudgetNext]_budgetVars PROVE TypeOK' /\ LockHeld'
    OBVIOUS
  <2> USE DEF TypeOK, LockHeld
  <2>1. ASSUME NEW h \in Handlers, NEW r \in BudgetRequest, Begin(h, r) PROVE TypeOK' /\ LockHeld'
    BY <2>1, BudgetAssumption DEF Begin, MayBegin, callVars
  <2>2. ASSUME NEW h \in Handlers, Ends(h) PROVE
            /\ site' \in Handlers \cup {Nobody}
            /\ phase' \in [Handlers -> {"idle", "locked", "decided"}]
            /\ request' \in [Handlers -> BudgetRequest \cup {NoRequest}]
            /\ seen' \in [Handlers -> [Scopes -> Nat \cup {Unset}]]
            /\ LockHeld'
    BY <2>2 DEF Ends, NoLimits
  <2>3. ASSUME NEW h \in Handlers, Admit(h) PROVE TypeOK' /\ LockHeld'
    <3>1. seen' \in [Handlers -> [Scopes -> Nat \cup {Unset}]]
      BY <2>3, LimitTypes DEF Admit
    <3> QED
      BY <2>3, <3>1 DEF Admit, Decide, callVars
  <2>4. ASSUME NEW h \in Handlers, Read(h) PROVE TypeOK' /\ LockHeld'
    BY <2>4 DEF Read, Decide, callVars
  <2>5. ASSUME NEW h \in Handlers, Rollback(h) PROVE TypeOK' /\ LockHeld'
    BY <2>2, <2>5 DEF Rollback, callVars
  <2>6. ASSUME NEW h \in Handlers, CommitCall(h) PROVE TypeOK' /\ LockHeld'
    <3> DEFINE c == request[h].call
    <3>1. c \in Calls /\ TaskOf[c] \in Tasks
      BY <2>6, RequestTypes, BudgetAssumption DEF CommitCall
    <3>2. status' \in [Calls -> CallStatus] /\ claim' \in [Calls -> ClaimStatus]
      BY <2>6 DEF CommitCall, CallStatus, ClaimStatus
    <3>3. limit' \in [Scopes -> Nat \cup {Unset}]
      BY <2>6, <3>1, ScopeTypes, LimitTypes DEF CommitCall
    <3> QED
      BY <2>6, <2>2, <3>2, <3>3 DEF CommitCall
  <2>7. ASSUME NEW h \in Handlers, CommitSettlement(h) PROVE TypeOK' /\ LockHeld'
    <3> DEFINE c == request[h].call
               u == request[h].usage
    <3>1. c \in Calls /\ u \in Usage
      BY <2>7, RequestTypes DEF CommitSettlement
    <3>2. status' \in [Calls -> CallStatus]
      BY <2>7 DEF CommitSettlement, Outcome, CallStatus
    <3>3. digest' \in [Calls -> Digest]
      BY <2>7, <3>1 DEF CommitSettlement, Digest
    <3>4. claim' \in [Calls -> ClaimStatus]
      BY <2>7, <3>1 DEF CommitSettlement, ClaimAfter, Reopened, Outcome, ClaimStatus
    <3>5. u # Incomplete => u \in Nat
      BY <3>1, BudgetAssumption DEF Usage
    <3>6. cost' \in [Calls -> Nat \cup {Unrecorded}]
      BY <2>7, <3>1, <3>5 DEF CommitSettlement
    <3>7. counted' \in [Scopes -> SUBSET Calls]
      <4>1. CASE u = Incomplete
        BY <2>7, <4>1 DEF CommitSettlement
      <4>2. CASE u # Incomplete
        <5>1. counted' = [s \in Scopes |->
                  IF s \in ScopesOf(c) /\ limit[s] # Unset THEN counted[s] \cup {c} ELSE counted[s]]
          BY <2>7, <4>2 DEF CommitSettlement
        <5> QED
          BY <3>1, <5>1
      <4> QED
        BY <4>1, <4>2
    <3> QED
      BY <2>7, <2>2, <3>2, <3>3, <3>4, <3>6, <3>7 DEF CommitSettlement
  <2>8. ASSUME NEW s \in Scopes, PeriodEnds(s) PROVE TypeOK' /\ LockHeld'
    BY <2>8 DEF PeriodEnds, Change, callVars
  <2>9. ASSUME NEW s \in Scopes, NEW q \in Limits, SetLimit(s, q) PROVE TypeOK' /\ LockHeld'
    BY <2>9, BudgetAssumption DEF SetLimit, Change, callVars
  <2>10. CASE UNCHANGED budgetVars
    BY <2>10 DEF budgetVars
  <2> QED
    BY <2>1, <2>3, <2>4, <2>5, <2>6, <2>7, <2>8, <2>9, <2>10 DEF BudgetNext
<1> QED
  BY <1>1, <1>2, PTL DEF BudgetSpec

-----------------------------------------------------------------------------
(* The books.                                                              *)

\* A step that leaves the calls alone and decides nothing keeps every decision.
LEMMA Undisturbed ==
    ASSUME TypeOK, BudgetInv, UNCHANGED callVars, LockHeld',
           \A h \in Handlers :
               phase'[h] = "decided" => phase[h] = "decided" /\ request'[h] = request[h]
    PROVE  BudgetInv'
<1>1. FreshUntilSettled' /\ OneOpenAttempt' /\ RecordsAgree'
  BY DEF BudgetInv, FreshUntilSettled, Fresh, OneOpenAttempt, RecordsAgree, callVars
<1>2. DecisionsHold'
  BY DEF BudgetInv, DecisionsHold, AdmissionHolds, SettlementHolds, Blocked, Pending, callVars
<1> QED
  BY <1>1, <1>2 DEF BudgetInv

\* A commit leaves no decision behind: its handler held the lock.
LEMMA CommitEndsDecisions ==
    ASSUME TypeOK, LockHeld, NEW h \in Handlers, phase[h] # "idle", Ends(h)
    PROVE  \A g \in Handlers : phase'[g] = "idle"
  BY BudgetAssumption DEF TypeOK, LockHeld, Ends

\* The inductive step of BudgetInv.
LEMMA BudgetStep ==
    ASSUME TypeOK, BudgetInv, [BudgetNext]_budgetVars, TypeOK', LockHeld'
    PROVE  BudgetInv'
<1>1. ASSUME NEW h \in Handlers, NEW r \in BudgetRequest, Begin(h, r) PROVE BudgetInv'
  BY <1>1, Undisturbed DEF Begin, TypeOK
<1>2. ASSUME NEW h \in Handlers, Rollback(h) PROVE BudgetInv'
  BY <1>2, Undisturbed DEF Rollback, Ends, TypeOK
<1>3. ASSUME NEW h \in Handlers, Admit(h) PROVE BudgetInv'
  <2>1. FreshUntilSettled' /\ OneOpenAttempt' /\ RecordsAgree'
    BY <1>3 DEF Admit, Decide, BudgetInv, FreshUntilSettled, Fresh, OneOpenAttempt, RecordsAgree,
                callVars
  <2>2. DecisionsHold'
    BY <1>3 DEF Admit, Decide, BudgetInv, DecisionsHold, AdmissionHolds, SettlementHolds,
                Blocked, Pending, callVars, TypeOK
  <2> QED
    BY <2>1, <2>2 DEF BudgetInv
<1>4. ASSUME NEW h \in Handlers, Read(h) PROVE BudgetInv'
  <2>1. FreshUntilSettled' /\ OneOpenAttempt' /\ RecordsAgree'
    BY <1>4 DEF Read, Decide, BudgetInv, FreshUntilSettled, Fresh, OneOpenAttempt, RecordsAgree,
                callVars
  <2>2. request[h] \in BudgetRequest
    BY <1>4 DEF Read, BudgetInv, LockHeld
  <2>3. (AdmissionHolds(h) /\ SettlementHolds(h))'
    <3>1. request[h].op = "settle" => status[request[h].call] = "reserved"
      BY <1>4, <2>2, RequestTypes DEF Read, BudgetInv, FreshUntilSettled
    <3> QED
      BY <1>4, <3>1 DEF Read, Decide, AdmissionHolds, SettlementHolds, Pending, callVars
  <2>4. DecisionsHold'
    BY <1>4, <2>3 DEF Read, Decide, BudgetInv, DecisionsHold, AdmissionHolds, SettlementHolds,
                      Blocked, Pending, callVars, TypeOK
  <2> QED
    BY <2>1, <2>4 DEF BudgetInv
<1>5. ASSUME NEW h \in Handlers, CommitCall(h) PROVE BudgetInv'
  <2> DEFINE c == request[h].call
  <2>1. request[h] \in BudgetRequest /\ c \in Calls /\ AdmissionHolds(h)
    BY <1>5, RequestTypes DEF CommitCall, BudgetInv, LockHeld, DecisionsHold
  <2>2. /\ status[c] = "none" /\ ~Blocked(TaskOf[c])
        /\ status' = [status EXCEPT ![c] = "reserved"] /\ claim' = [claim EXCEPT ![c] = "reserved"]
        /\ UNCHANGED <<digest, cost>>
    BY <1>5, <2>1 DEF CommitCall, AdmissionHolds
  <2>3. OneOpenAttempt'
    BY <2>1, <2>2 DEF BudgetInv, OneOpenAttempt, Blocked, Blocking, TypeOK
  <2>4. FreshUntilSettled'
    BY <2>1, <2>2 DEF BudgetInv, FreshUntilSettled, Fresh, TypeOK
  <2>5. RecordsAgree'
    BY <2>1, <2>2 DEF BudgetInv, RecordsAgree, TypeOK, Closed
  <2>6. DecisionsHold'
    BY <1>5, CommitEndsDecisions DEF CommitCall, DecisionsHold, BudgetInv
  <2> QED
    BY <2>3, <2>4, <2>5, <2>6 DEF BudgetInv
<1>6. ASSUME NEW h \in Handlers, CommitSettlement(h) PROVE BudgetInv'
  <2> DEFINE c == request[h].call
             u == request[h].usage
             by == IF request[h].op = "settle" THEN "worker" ELSE "operator"
  <2>1. /\ request[h] \in BudgetRequest /\ c \in Calls /\ u \in Usage
        /\ request[h].op \in {"settle", "reconcile"} /\ SettlementHolds(h)
    BY <1>6, RequestTypes DEF CommitSettlement, BudgetInv, LockHeld, DecisionsHold
  <2>2. /\ Pending(c) /\ (request[h].op = "settle" => status[c] = "reserved")
        /\ (request[h].op = "reconcile" => u # Incomplete)
    BY <2>1 DEF SettlementHolds, Pending
  <2>3. /\ status' = [status EXCEPT ![c] = Outcome(c, u)]
        /\ digest' = [digest EXCEPT ![c] = <<by, u>>]
        /\ claim' = [claim EXCEPT ![c] = ClaimAfter(c, request[h].op, u)]
        /\ IF u = Incomplete THEN UNCHANGED cost ELSE cost' = [cost EXCEPT ![c] = u]
    BY <1>6 DEF CommitSettlement
  <2>4. OneOpenAttempt'
    BY <2>1, <2>2, <2>3 DEF BudgetInv, OneOpenAttempt, Blocking, Pending, TypeOK
  <2>5. FreshUntilSettled'
    BY <2>1, <2>2, <2>3 DEF BudgetInv, FreshUntilSettled, Fresh, Outcome, Unsettled, TypeOK
  <2>6. RecordsAgree'
    <3>1. /\ claim[c] \in {"reserved", "pending_reconciliation"} /\ cost[c] = Unrecorded
          /\ claim[c] = "pending_reconciliation" => request[h].op = "reconcile"
      BY <2>1, <2>2 DEF BudgetInv, RecordsAgree, Pending, Closed
    <3>2. ClaimAfter(c, request[h].op, u) =
              IF u = Incomplete THEN "pending_reconciliation" ELSE Outcome(c, u)
      BY <3>1 DEF ClaimAfter, Reopened
    <3>3. u # Incomplete => u \in Nat
      BY <2>1, BudgetAssumption DEF Usage
    <3>4. Worst[c] \in Nat
      BY <2>1, BudgetAssumption
    <3>5. /\ status'[c] = Outcome(c, u) /\ cost'[c] = u
          /\ claim'[c] = IF u = Incomplete THEN "pending_reconciliation" ELSE Outcome(c, u)
      BY <2>1, <2>3, <3>1, <3>2 DEF Unrecorded, Incomplete, TypeOK
    <3>6. ASSUME NEW d \in Calls, d = c PROVE Agrees(d)'
      BY <3>3, <3>4, <3>5, <3>6 DEF Agrees, Outcome, Closed, Unrecorded, Incomplete
    <3>7. ASSUME NEW d \in Calls, d # c PROVE Agrees(d)'
      BY <2>3, <3>7 DEF BudgetInv, RecordsAgree, Agrees, TypeOK
    <3> QED
      BY <3>6, <3>7 DEF RecordsAgree, Agrees
  <2>7. DecisionsHold'
    BY <1>6, CommitEndsDecisions DEF CommitSettlement, DecisionsHold, BudgetInv
  <2> QED
    BY <2>4, <2>5, <2>6, <2>7 DEF BudgetInv
<1>7. ASSUME NEW s \in Scopes, PeriodEnds(s) PROVE BudgetInv'
  BY <1>7, Undisturbed DEF PeriodEnds
<1>8. ASSUME NEW s \in Scopes, NEW q \in Limits, SetLimit(s, q) PROVE BudgetInv'
  BY <1>8, Undisturbed DEF SetLimit
<1>9. CASE UNCHANGED budgetVars
  BY <1>9, Undisturbed DEF budgetVars, callVars
<1> QED
  BY <1>1, <1>2, <1>3, <1>4, <1>5, <1>6, <1>7, <1>8, <1>9 DEF BudgetNext

\* The books of every attempt agree, and no two requests decide on one task.
THEOREM BooksCorrect == BudgetSpec => []BudgetInv
<1>1. BudgetInit => BudgetInv
  BY BudgetAssumption DEF BudgetInit, BudgetInv, LockHeld, FreshUntilSettled, Fresh, Unsettled,
      DecisionsHold, OneOpenAttempt, Blocking, RecordsAgree, Closed, Unrecorded
<1>2. TypeOK /\ LockHeld /\ TypeOK' /\ LockHeld' /\ BudgetInv /\ [BudgetNext]_budgetVars => BudgetInv'
  BY BudgetStep
<1> QED
  BY <1>1, <1>2, TypeCorrect, PTL DEF BudgetSpec

\* A task never has two attempts without a known outcome.
THEOREM OneOpen == BudgetSpec => []OneOpenAttempt
  BY BooksCorrect, PTL DEF BudgetInv

\* The attempt, its claims and the ledger agree at all times.
THEOREM Agreement == BudgetSpec => []RecordsAgree
  BY BooksCorrect, PTL DEF BudgetInv

\* No step changes what was recorded for a closed attempt.
THEOREM Finality == BudgetSpec => SettlementIsFinal
<1> DEFINE Final == \A c \in Calls : status[c] \in Closed =>
                        status'[c] = status[c] /\ cost'[c] = cost[c] /\ digest'[c] = digest[c]
<1>1. TypeOK /\ BudgetInv /\ [BudgetNext]_budgetVars => Final
  <2> SUFFICES ASSUME TypeOK, BudgetInv, [BudgetNext]_budgetVars,
                      NEW c \in Calls, status[c] \in Closed
               PROVE  status'[c] = status[c] /\ cost'[c] = cost[c] /\ digest'[c] = digest[c]
    OBVIOUS
  <2>1. ASSUME NEW h \in Handlers, CommitCall(h)
        PROVE  status'[c] = status[c] /\ cost'[c] = cost[c] /\ digest'[c] = digest[c]
    <3>1. status[request[h].call] = "none" /\ request[h].call \in Calls
      BY <2>1, RequestTypes DEF CommitCall, BudgetInv, LockHeld, DecisionsHold, AdmissionHolds
    <3> QED
      BY <2>1, <3>1 DEF CommitCall, Closed, TypeOK
  <2>2. ASSUME NEW h \in Handlers, CommitSettlement(h)
        PROVE  status'[c] = status[c] /\ cost'[c] = cost[c] /\ digest'[c] = digest[c]
    <3>1. Pending(request[h].call) /\ request[h].call \in Calls
      BY <2>2, RequestTypes
      DEF CommitSettlement, BudgetInv, LockHeld, DecisionsHold, SettlementHolds, Pending
    <3>2. request[h].call # c
      BY <3>1 DEF Pending, Closed
    <3> QED
      BY <2>2, <3>2 DEF CommitSettlement, TypeOK
  <2>3. CASE UNCHANGED callVars
    BY <2>3 DEF callVars
  <2> QED
    BY <2>1, <2>2, <2>3
    DEF BudgetNext, Begin, Admit, Read, Decide, Rollback, PeriodEnds, SetLimit, budgetVars, callVars
<1>2. [Final]_budgetVars <=> [\A c \in Calls : status[c] \in Closed =>
          /\ status'[c] = status[c] /\ cost'[c] = cost[c] /\ digest'[c] = digest[c]]_budgetVars
  OBVIOUS
<1> QED
  BY <1>1, <1>2, TypeCorrect, BooksCorrect, PTL DEF BudgetSpec, SettlementIsFinal

-----------------------------------------------------------------------------
(* The balances.                                                           *)

\* The attempts whose worst case a scope holds back.
Holding == {c \in Calls : claim[c] \in {"reserved", "pending_reconciliation"}}
HeldBy(s) == {c \in Holding : s \in ScopesOf(c)}

\* What is counted is finite and was recorded, what is held is finite.
Countable ==
    /\ \A s \in Scopes : IsFiniteSet(counted[s]) /\ \A c \in counted[s] : cost[c] # Unrecorded
    /\ IsFiniteSet(Holding)

\* The balances, as sums of the values of a function; the same after a step.
LEMMA BalanceSums ==
    ASSUME NEW s
    PROVE  /\ Consumed(s) = Total(cost, counted[s]) /\ Held(s) = Total(Worst, HeldBy(s))
           /\ Consumed(s)' = Total(cost', counted'[s]) /\ Held(s)' = Total(Worst, HeldBy(s)')
<1>1. HeldBy(s) = {c \in Calls : claim[c] \in {"reserved", "pending_reconciliation"} /\ s \in ScopesOf(c)}
  BY DEF HeldBy, Holding
<1>2. HeldBy(s)' = {c \in Calls : claim'[c] \in {"reserved", "pending_reconciliation"} /\ s \in ScopesOf(c)}
  BY DEF HeldBy, Holding
<1>3. Consumed(s) = Total(cost, counted[s])
  BY DEF Consumed, Sum, MapThenSumSet, MapThenFoldSet, Total, Solves
<1>4. Consumed(s)' = Total(cost', counted'[s])
  BY DEF Consumed, Sum, MapThenSumSet, MapThenFoldSet, Total, Solves
<1>5. Held(s) = Total(Worst, HeldBy(s))
  BY <1>1 DEF Held, Sum, MapThenSumSet, MapThenFoldSet, Total, Solves
<1>6. Held(s)' = Total(Worst, HeldBy(s)')
  BY <1>2 DEF Held, Sum, MapThenSumSet, MapThenFoldSet, Total, Solves
<1> QED BY <1>3, <1>4, <1>5, <1>6

LEMMA BalanceTypes ==
    ASSUME TypeOK, Countable, NEW s \in Scopes
    PROVE  Consumed(s) \in Nat /\ Held(s) \in Nat
<1>1. \A c \in counted[s] : cost[c] \in Nat
  BY DEF TypeOK, Countable, Unrecorded
<1>2. Total(cost, counted[s]) \in Nat
  BY <1>1, SumIsNat DEF Countable
<1>3. IsFiniteSet(HeldBy(s)) /\ \A c \in HeldBy(s) : Worst[c] \in Nat
  BY FS_Subset, BudgetAssumption DEF Countable, HeldBy, Holding
<1>4. Total(Worst, HeldBy(s)) \in Nat
  BY <1>3, SumIsNat
<1> QED BY <1>2, <1>4, BalanceSums

LEMMA BalanceTypesNext ==
    ASSUME TypeOK', Countable', NEW s \in Scopes
    PROVE  Consumed(s)' \in Nat /\ Held(s)' \in Nat
<1>1. IsFiniteSet(counted'[s]) /\ \A c \in counted'[s] : cost'[c] \in Nat
  BY DEF TypeOK, Countable, Unrecorded
<1>2. Total(cost', counted'[s]) \in Nat
  BY <1>1, SumIsNat
<1>3. IsFiniteSet(HeldBy(s)') /\ \A c \in HeldBy(s)' : Worst[c] \in Nat
  BY FS_Subset, BudgetAssumption DEF Countable, HeldBy, Holding
<1>4. Total(Worst, HeldBy(s)') \in Nat
  BY <1>3, SumIsNat
<1> QED BY <1>2, <1>4, BalanceSums

\* A step writes at most the records of one attempt.
LEMMA CountableStep ==
    ASSUME TypeOK, BudgetInv, Countable, [BudgetNext]_budgetVars
    PROVE  Countable'
<1>1. CASE UNCHANGED <<counted, callVars>>
  BY <1>1 DEF Countable, Holding, callVars
<1>2. ASSUME NEW h \in Handlers, CommitCall(h) PROVE Countable'
  <2>1. request[h].call \in Calls
    BY <1>2, RequestTypes DEF CommitCall, BudgetInv, LockHeld
  <2>2. Holding' \subseteq Holding \cup {request[h].call}
    BY <1>2, <2>1 DEF CommitCall, Holding, TypeOK
  <2>3. IsFiniteSet(Holding')
    BY <2>2, FS_Subset, FS_AddElement DEF Countable
  <2> QED BY <1>2, <2>3 DEF Countable, CommitCall
<1>3. ASSUME NEW h \in Handlers, CommitSettlement(h) PROVE Countable'
  <2> DEFINE c == request[h].call
             u == request[h].usage
  <2>1. c \in Calls /\ u \in Usage
    BY <1>3, RequestTypes DEF CommitSettlement, BudgetInv, LockHeld
  <2>2. Holding' \subseteq Holding \cup {c}
    BY <1>3, <2>1 DEF CommitSettlement, Holding, TypeOK
  <2>3. IsFiniteSet(Holding')
    BY <2>2, FS_Subset, FS_AddElement DEF Countable
  <2>4. CASE u = Incomplete
    BY <1>3, <2>3, <2>4 DEF CommitSettlement, Countable
  <2>5. CASE u # Incomplete
    <3>1. /\ cost' = [cost EXCEPT ![c] = u]
          /\ counted' = [s \in Scopes |->
                IF s \in ScopesOf(c) /\ limit[s] # Unset THEN counted[s] \cup {c} ELSE counted[s]]
      BY <1>3, <2>5 DEF CommitSettlement
    <3>2. u # Unrecorded
      BY <2>5 DEF Incomplete, Unrecorded
    <3>3. ASSUME NEW s \in Scopes
          PROVE  IsFiniteSet(counted'[s]) /\ \A d \in counted'[s] : cost'[d] # Unrecorded
      <4>1. counted'[s] \in {counted[s], counted[s] \cup {c}} /\ counted[s] \in SUBSET Calls
        BY <3>1 DEF TypeOK
      <4>2. IsFiniteSet(counted'[s])
        <5>1. IsFiniteSet(counted[s])
          BY DEF Countable
        <5>2. IsFiniteSet(counted[s] \cup {c})
          <6> HIDE DEF c
          <6> QED BY <5>1, FS_AddElement
        <5> QED BY <4>1, <5>1, <5>2
      <4>3. \A d \in counted'[s] : cost'[d] # Unrecorded
        BY <2>1, <3>1, <3>2, <4>1 DEF Countable, TypeOK
      <4> QED BY <4>2, <4>3
    <3> QED BY <2>3, <3>3 DEF Countable
  <2> QED BY <2>4, <2>5
<1>4. ASSUME NEW s \in Scopes, PeriodEnds(s) PROVE Countable'
  <2>1. counted' = [counted EXCEPT ![s] = {}] /\ UNCHANGED callVars
    BY <1>4 DEF PeriodEnds
  <2>2. \A t \in Scopes : counted'[t] = {} \/ counted'[t] = counted[t]
    BY <2>1 DEF TypeOK
  <2>3. IsFiniteSet({})
    BY FS_EmptySet
  <2> QED BY <2>1, <2>2, <2>3 DEF Countable, Holding, callVars
<1>5. ASSUME NEW h \in Handlers,
             (\E r \in BudgetRequest : Begin(h, r)) \/ Admit(h) \/ Read(h) \/ Rollback(h)
      PROVE  Countable'
  BY <1>1, <1>5 DEF Begin, Admit, Read, Decide, Rollback
<1>6. ASSUME NEW s \in Scopes, NEW q \in Limits, SetLimit(s, q) PROVE Countable'
  BY <1>1, <1>6 DEF SetLimit
<1>7. CASE UNCHANGED budgetVars
  BY <1>1, <1>7 DEF budgetVars, callVars
<1> QED BY <1>2, <1>3, <1>4, <1>5, <1>6, <1>7 DEF BudgetNext

\* An admission that was decided stays within what was seen, if the balances of its
\* scopes do not grow.
LEMMA AdmissionsKept ==
    ASSUME AdmissionStillFits, TypeOK, TypeOK', Countable, Countable',
           \A h \in Handlers : phase'[h] = "decided" /\ request'[h].op = "authorize" =>
               /\ phase[h] = "decided" /\ request'[h] = request[h] /\ seen'[h] = seen[h]
               /\ request[h].call \in Calls,
           \A s \in Scopes : Consumed(s)' <= Consumed(s) /\ Held(s)' <= Held(s)
    PROVE  AdmissionStillFits'
<1> SUFFICES ASSUME NEW h \in Handlers, phase'[h] = "decided", request'[h].op = "authorize",
                    NEW s \in ScopesOf(request'[h].call)
             PROVE  Consumed(s)' + Held(s)' + Worst[request'[h].call] <= seen'[h][s]
  BY DEF AdmissionStillFits
<1>1. /\ phase[h] = "decided" /\ request'[h] = request[h] /\ seen'[h] = seen[h]
      /\ request[h].call \in Calls
  OBVIOUS
<1>2. s \in Scopes /\ Worst[request[h].call] \in Nat
  BY <1>1, BudgetAssumption DEF ScopesOf, Scopes, Site, TaskScope
<1>3. Consumed(s) + Held(s) + Worst[request[h].call] <= seen[h][s]
  BY <1>1 DEF AdmissionStillFits
<1>4. /\ Consumed(s) \in Nat /\ Held(s) \in Nat /\ Consumed(s)' \in Nat /\ Held(s)' \in Nat
      /\ seen[h][s] \in Int
  BY <1>2, BalanceTypes, BalanceTypesNext DEF TypeOK, Unset
<1> QED BY <1>1, <1>2, <1>3, <1>4

\* Attempts, claims and what is counted are as they were, and so are the balances.
LEMMA SameBalances ==
    ASSUME UNCHANGED <<counted, callVars>>, NEW s
    PROVE  Consumed(s)' = Consumed(s) /\ Held(s)' = Held(s)
<1>1. HeldBy(s)' = HeldBy(s) /\ cost' = cost /\ counted'[s] = counted[s]
  BY DEF HeldBy, Holding, callVars
<1> QED BY <1>1, BalanceSums

\* While a decision waits for its commit nobody else commits, for they would need the site
\* row; the end of a period takes from a balance, and a limit is no part of it.
LEMMA AdmissionStep ==
    ASSUME TypeOK, TypeOK', BudgetInv, Countable, Countable', AdmissionStillFits,
           [BudgetNext]_budgetVars
    PROVE  AdmissionStillFits'
<1> DEFINE Deciding(h) == phase[h] = "decided" /\ request[h].op = "authorize"
           Remains == \A h \in Handlers : Deciding(h)' =>
               /\ phase[h] = "decided" /\ request'[h] = request[h] /\ seen'[h] = seen[h]
           Lessens == \A s \in Scopes : Consumed(s)' <= Consumed(s) /\ Held(s)' <= Held(s)
<1>1. ASSUME Remains, Lessens PROVE AdmissionStillFits'
  <2>1. \A h \in Handlers : phase[h] = "decided" => request[h].call \in Calls
    BY RequestTypes DEF BudgetInv, LockHeld
  <2> QED BY <1>1, <2>1, AdmissionsKept
<1>2. UNCHANGED <<counted, callVars>> => Lessens
  BY SameBalances, BalanceTypes
<1>3. ASSUME NEW h \in Handlers, NEW r \in BudgetRequest, Begin(h, r) PROVE AdmissionStillFits'
  BY <1>1, <1>2, <1>3 DEF Begin, TypeOK
<1>4. ASSUME NEW h \in Handlers, Rollback(h) PROVE AdmissionStillFits'
  BY <1>1, <1>2, <1>4 DEF Rollback, Ends, TypeOK
<1>5. ASSUME NEW h \in Handlers, Read(h) PROVE AdmissionStillFits'
  <2>1. Remains
    BY <1>5 DEF Read, Decide, TypeOK
  <2> QED BY <1>1, <1>2, <1>5, <2>1 DEF Read, Decide
<1>6. ASSUME NEW h \in Handlers, CommitCall(h) \/ CommitSettlement(h) PROVE AdmissionStillFits'
  <2>1. \A g \in Handlers : phase'[g] = "idle"
    BY <1>6, CommitEndsDecisions DEF CommitCall, CommitSettlement, BudgetInv
  <2> QED BY <2>1 DEF AdmissionStillFits
<1>7. ASSUME NEW h \in Handlers, Admit(h) PROVE AdmissionStillFits'
  <2> DEFINE c == request[h].call
  <2>1. \A g \in Handlers : phase'[g] = "decided" => g = h
    BY <1>7 DEF Admit, Decide, BudgetInv, LockHeld, TypeOK
  <2>2. c \in Calls /\ UNCHANGED <<counted, callVars, request>>
    BY <1>7, RequestTypes DEF Admit, Decide, BudgetInv, LockHeld
  <2>3. ASSUME NEW s \in ScopesOf(c)
        PROVE  (Consumed(s))' + (Held(s))' + Worst[c] <= seen'[h][s]
    <3>1. s \in Scopes
      BY <2>2, BudgetAssumption DEF ScopesOf, Scopes, Site, TaskScope
    <3>2. Affords(c, s) /\ seen'[h][s] = LimitOf(s)
      BY <1>7, <3>1 DEF Admit, TypeOK
    <3> QED BY <2>2, <3>2, SameBalances DEF Affords
  <2> QED BY <2>1, <2>2, <2>3 DEF AdmissionStillFits
<1>8. ASSUME NEW s \in Scopes, PeriodEnds(s) PROVE AdmissionStillFits'
  <2>1. counted' = [counted EXCEPT ![s] = {}] /\ UNCHANGED <<callVars, phase, request, seen>>
    BY <1>8 DEF PeriodEnds
  <2>2. ASSUME NEW t \in Scopes PROVE Consumed(t)' <= Consumed(t) /\ Held(t)' <= Held(t)
    <3>1. HeldBy(t)' = HeldBy(t) /\ cost' = cost
      BY <2>1 DEF HeldBy, Holding, callVars
    <3>2. CASE t = s
      <4>1. counted'[t] = {}
        BY <2>1, <3>2 DEF TypeOK
      <4>2. Total(cost', {}) = 0
        BY SumIs, FS_EmptySet
      <4> QED BY <3>1, <4>1, <4>2, BalanceSums, BalanceTypes
    <3>3. CASE t # s
      <4>1. counted'[t] = counted[t]
        BY <2>1, <3>3 DEF TypeOK
      <4> QED BY <3>1, <4>1, BalanceSums, BalanceTypes
    <3> QED BY <3>2, <3>3
  <2> QED BY <1>1, <2>1, <2>2
<1>9. ASSUME NEW s \in Scopes, NEW q \in Limits, SetLimit(s, q) PROVE AdmissionStillFits'
  BY <1>1, <1>2, <1>9 DEF SetLimit
<1>10. CASE UNCHANGED budgetVars
  BY <1>1, <1>2, <1>10 DEF budgetVars, callVars
<1> QED BY <1>3, <1>4, <1>5, <1>6, <1>7, <1>8, <1>9, <1>10 DEF BudgetNext

\* What an attempt was admitted with still fits the four budgets when it commits, however
\* many requests, ends of periods and new limits come between.
THEOREM AdmissionFits == BudgetSpec => []AdmissionStillFits
<1>1. BudgetInit => Countable /\ AdmissionStillFits
  BY FS_EmptySet DEF BudgetInit, Countable, Holding, AdmissionStillFits
<1>2. TypeOK /\ TypeOK' /\ BudgetInv /\ Countable /\ AdmissionStillFits /\ [BudgetNext]_budgetVars
      => Countable' /\ AdmissionStillFits'
  BY CountableStep, AdmissionStep
<1> QED BY <1>1, <1>2, TypeCorrect, BooksCorrect, PTL DEF BudgetSpec
=============================================================================
