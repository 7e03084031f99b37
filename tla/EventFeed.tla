------------------------------ MODULE EventFeed ------------------------------
(***************************************************************************)
(* What the events of a room promise one reader, whatever outbox, pages,   *)
(* streams and connections do underneath: the events the reader may see    *)
(* arrive one by one in the order of their numbers, each once and none     *)
(* left out, from where the reader began; a number that was given is never *)
(* given again, so nothing appears behind what was already delivered; and  *)
(* who begins anew begins at the end.                                      *)
(***************************************************************************)
EXTENDS Integers

VARIABLES
    next,    \* the number the next event gets
    visible, \* the numbers of the events the reader may see
    base,    \* where the reader began
    last,    \* the event it was sent last, or `base`
    got      \* what it was sent since it began
vars == <<next, visible, base, last, got>>

Init == next = 1 /\ visible = {} /\ base = 0 /\ last = 0 /\ got = {}

\* Events are added, with new numbers; the reader may see some of them.
Adds ==
    /\ next' \in Nat /\ next' > next
    /\ visible \subseteq visible' /\ visible' \ visible \subseteq next..(next' - 1)
    /\ UNCHANGED <<base, last, got>>

\* The first event after the last one is delivered.
Delivers ==
    /\ last' > last /\ last' \in visible
    /\ \A n \in visible : n > last => n >= last'
    /\ got' = got \cup {last'}
    /\ UNCHANGED <<next, visible, base>>

\* The reader loads what there is, and goes on from its end.
Begins ==
    /\ base' = next - 1 /\ last' = next - 1 /\ got' = {}
    /\ UNCHANGED <<next, visible>>

Next == Adds \/ Delivers \/ Begins

Spec == Init /\ [][Next]_vars
=============================================================================
