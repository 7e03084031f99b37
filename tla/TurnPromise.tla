----------------------------- MODULE TurnPromise -----------------------------
(***************************************************************************)
(* What the turn queue promises a player about one action, whatever the    *)
(* workers, replicas, Agents and hosts do underneath:                      *)
(*   - its quota hold is taken once and closed once, by a charge of at     *)
(*     most the reserved amount or by giving it back, never both;          *)
(*   - nothing is presented while the hold is open or not yet taken;       *)
(*   - after a cancel request nothing more is presented.                   *)
(* Several turns may move in one step: one recovery transaction closes the *)
(* holds of every turn whose lease ran out.                                *)
(***************************************************************************)
EXTENDS Integers

CONSTANTS Jobs, Reserved, Presentations

VARIABLES hold, charge, shown, cancelled
vars == <<hold, charge, shown, cancelled>>

\* The charge of a turn nothing was charged for yet; a charge may be zero.
Unbilled == -1
Closed == {"settled", "released", "expired"}

Init ==
    /\ hold = [j \in Jobs |-> "none"] /\ charge = [j \in Jobs |-> Unbilled]
    /\ shown = [j \in Jobs |-> {}] /\ cancelled = [j \in Jobs |-> FALSE]

\* The hold stays, is taken, is closed by a charge, or is given back.
HoldStep(j) ==
    \/ hold'[j] = hold[j] /\ charge'[j] = charge[j]
    \/ hold[j] = "none" /\ hold'[j] = "reserved" /\ charge'[j] = charge[j]
    \/ hold[j] = "reserved" /\ hold'[j] = "settled" /\ charge'[j] \in 0..Reserved
    \/ hold[j] = "reserved" /\ hold'[j] \in {"released", "expired"} /\ charge'[j] = charge[j]

\* Presentations are only added, to a turn whose hold is closed and that nobody
\* has cancelled.
ShowStep(j) ==
    \/ shown'[j] = shown[j]
    \/ /\ hold[j] \in Closed /\ ~cancelled[j]
       /\ \E p \in Presentations : shown'[j] = shown[j] \cup {p}

CancelStep(j) == cancelled'[j] = cancelled[j] \/ cancelled'[j] = TRUE

Next == \A j \in Jobs : HoldStep(j) /\ ShowStep(j) /\ CancelStep(j)

Spec == Init /\ [][Next]_vars
=============================================================================
