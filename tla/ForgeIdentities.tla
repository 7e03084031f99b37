--------------------------- MODULE ForgeIdentities ---------------------------
(***************************************************************************)
(* An Identity whose Soul is a release of the artifact, its assignments to *)
(* campaigns (api/identities.py), their conversations (api/agent.py), and  *)
(* the reports that take an artifact or an Identity down (api/community.py)*)
(* composed with the publication of the releases.                          *)
(* A decision holds the row of its assignment while the domain MCP grants  *)
(* the campaign role; a revocation and a suspension hold nothing while it  *)
(* revokes, and their commits wait for a row that is held.                 *)
(***************************************************************************)
EXTENDS ForgeReleases

CONSTANTS
    Soul,           \* `active_soul_release_id`
    Campaigns,
    MaxAssignments, \* bound: assignments per campaign
    MaxFaults       \* bound: lost answers of the authority, handlers that die

ASSUME IdentityAssumption ==
    /\ Soul \in Releases /\ MaxAssignments \in Nat /\ MaxFaults \in Nat

VARIABLES
    identity,      \* `AgentIdentity.status`
    assignment,    \* the assignments of each campaign: status and `active_key`
    lock,          \* the row lock of `decide_assignment`
    conversation,  \* the conversation of each assignment
    granted,       \* the campaigns whose authority grants the Identity its role
    loose,         \* see `Crossed`
    faults

hosts == <<identity, assignment, lock, conversation, granted, loose, faults>>
forge == <<release, artifact, past>>
vars == <<forge, handler, hosts>>

-----------------------------------------------------------------------------
Ids == Campaigns \X (1..MaxAssignments)
NoAssignment == [status |-> "none", key |-> FALSE]
Open == {"pending", "accepted"}

Init ==
    /\ ForgeInit /\ identity = "none"
    /\ assignment = [i \in Ids |-> NoAssignment]
    /\ lock = [i \in Ids |-> Nobody]
    /\ conversation = [i \in Ids |-> "none"]
    /\ granted = {} /\ loose = FALSE /\ faults = 0

Of(h) == handler[h].a
Unlocked(h) == lock[Of(h)] \in {Nobody, h}
Ends(h) == Leaves(h) /\ lock' = [i \in Ids |-> IF lock[i] = h THEN Nobody ELSE lock[i]]

\* `create_identity` asks for a published Soul.
SoulPublished == release[Soul].status = "published"
CreatesIdentity ==
    /\ identity = "none" /\ SoulPublished /\ identity' = "active"
    /\ UNCHANGED <<forge, handler, assignment, lock, conversation, granted, loose, faults>>

-----------------------------------------------------------------------------
(* Invitations and their decision.                                         *)
Slots(c) == {i \in Ids : i[1] = c}
Invited(c) == \E i \in Slots(c) : assignment[i].status \in Open
Unused(c) == {i \in Slots(c) : assignment[i].status = "none"}
NextUnused(c) == CHOOSE i \in Unused(c) : \A k \in Unused(c) : i[2] <= k[2]
InviteLoads(h, c) ==
    /\ identity = "active" /\ SoulPublished /\ ~Invited(c) /\ Unused(c) # {}
    /\ Starts(h, [Idle EXCEPT !.pc = "loaded", !.op = "invite", !.a = <<c, 0>>])
    /\ UNCHANGED <<forge, hosts>>

\* `active_key` is unique: the insert fails when it is held.
InviteCommits(h) ==
    LET c == Of(h)[1] IN
    /\ At(h, "loaded", "invite") /\ Leaves(h)
    /\ assignment' = IF Unused(c) = {} \/ \E i \in Slots(c) : assignment[i].key THEN assignment
                     ELSE [assignment EXCEPT ![NextUnused(c)] = [status |-> "pending", key |-> TRUE]]
    /\ UNCHANGED <<forge, identity, lock, conversation, granted, loose, faults>>

\* Mutant: a decision only reads the assignment.
Reads(h, i) == UNCHANGED lock

TakesAssignment(h, i) == lock[i] = Nobody /\ lock' = [lock EXCEPT ![i] = h]

\* `decide_assignment` locks the assignment and grants the role.
AcceptStarts(h, i) ==
    /\ TakesAssignment(h, i) /\ assignment[i].status = "pending"
    /\ Starts(h, [Idle EXCEPT !.pc = "calling", !.op = "accept", !.a = i])
    /\ UNCHANGED <<forge, identity, assignment, conversation, granted, loose, faults>>
AcceptCommits(h) ==
    /\ At(h, "answered", "accept") /\ Ends(h)
    /\ assignment' = [assignment EXCEPT ![Of(h)].status = "accepted"]
    /\ UNCHANGED <<forge, identity, conversation, granted, loose, faults>>

RejectsAssignment(i) ==
    /\ lock[i] = Nobody /\ assignment[i].status = "pending"
    /\ assignment' = [assignment EXCEPT ![i] = [status |-> "rejected", key |-> FALSE]]
    /\ UNCHANGED <<forge, handler, identity, lock, conversation, granted, loose, faults>>

\* `create_conversation` checks the assignment and inserts later.
TalkLoads(h, i) ==
    /\ assignment[i].status = "accepted" /\ conversation[i] # "active"
    /\ Starts(h, [Idle EXCEPT !.pc = "loaded", !.op = "talk", !.a = i])
    /\ UNCHANGED <<forge, hosts>>
TalkCommits(h) ==
    /\ At(h, "loaded", "talk") /\ Leaves(h)
    /\ conversation' = [conversation EXCEPT ![Of(h)] = "active"]
    /\ UNCHANGED <<forge, identity, assignment, lock, granted, loose, faults>>

-----------------------------------------------------------------------------
(* Revocation, and the suspension of the Identity.                         *)
Revoking == {"revoke", "suspend", "takedown"}
AsksAuthority(was) == IF was = "accepted" THEN "calling" ELSE "answered"
RevokeLoads(h, i) ==
    /\ assignment[i].status \notin {"none", "revoked"}
    /\ Starts(h, [Idle EXCEPT !.pc = AsksAuthority(assignment[i].status), !.op = "revoke",
                              !.a = i])
    /\ UNCHANGED <<forge, hosts>>

\* `decide_report` of the artifact, or of the Identity: `_suspend_identity` loads
\* the open assignments at once, ...
ReportLoads(h, op) ==
    /\ op = "suspend" => identity # "none"
    /\ Starts(h, [Idle EXCEPT !.pc = "suspending", !.op = op,
                     !.work = IF op = "takedown" THEN artifact.status ELSE @,
                     !.had = (identity # "none"),
                     !.todo = IF identity = "none" THEN {} ELSE
                              {<<i, assignment[i].status>> : i \in {j \in Ids :
                                  assignment[j].status \in Open}}])
    /\ UNCHANGED <<forge, hosts>>

\* ... revokes and commits them one by one, ...
SuspendsNext(h) ==
    /\ handler[h].pc = "suspending"
    /\ \E t \in handler[h].todo :
          handler' = [handler EXCEPT ![h].pc = AsksAuthority(t[2]), ![h].a = t[1],
                                     ![h].todo = @ \ {t}]
    /\ UNCHANGED <<forge, hosts>>
RevokeCommits(h) ==
    /\ handler[h].pc = "answered" /\ handler[h].op \in Revoking /\ Unlocked(h)
    /\ assignment' = [assignment EXCEPT ![Of(h)] = [status |-> "revoked", key |-> FALSE]]
    /\ conversation' = [conversation EXCEPT ![Of(h)] = IF @ = "active" THEN "closed" ELSE @]
    /\ IF handler[h].op = "revoke" THEN Leaves(h) ELSE handler' = [handler EXCEPT ![h].pc = "suspending", ![h].a = Idle.a]
    /\ UNCHANGED <<forge, identity, lock, granted, loose, faults>>

\* ... and closes the Identity and the artifact with the report.
ReportCommits(h) ==
    /\ handler[h].pc = "suspending" /\ handler[h].todo = {} /\ Leaves(h)
    /\ identity' = IF handler[h].had THEN "suspended" ELSE identity
    /\ IF handler[h].op = "takedown"
       THEN /\ artifact' = [artifact EXCEPT !.status = Work(h, "withdrawn")]
            /\ release' = [r \in Releases |-> IF release[r].status = "published"
                               THEN [release[r] EXCEPT !.status = "withdrawn"] ELSE release[r]]
       ELSE UNCHANGED <<artifact, release>>
    /\ UNCHANGED <<past, assignment, lock, conversation, granted, loose, faults>>

-----------------------------------------------------------------------------
(* The calls of the authority.                                             *)

\* An observation of the model: a revocation is called for an assignment that was
\* revoked meanwhile, and may take the grant of its successor.
Crossed(h) == handler[h].op \in Revoking /\ assignment[Of(h)].status # "accepted"
Effect(h) ==
    granted' = IF handler[h].op = "accept" THEN granted \cup {Of(h)[1]} ELSE granted \ {Of(h)[1]}
Calls(h) ==
    /\ handler[h].pc = "calling" /\ Effect(h) /\ Moves(h, "answered")
    /\ loose' = (loose \/ Crossed(h))
    /\ UNCHANGED <<forge, identity, assignment, lock, conversation, faults>>

\* Mutant: a revocation the authority refused is recorded.
RefusedRecords(h) ==
    /\ handler[h].pc = "calling" /\ Moves(h, "answered") /\ UNCHANGED <<forge, hosts>>

\* A RuntimeError: the handler rolls back, with or without an effect of its call.
Refused(h) ==
    /\ handler[h].pc = "calling" /\ Ends(h)
    /\ UNCHANGED <<forge, identity, assignment, conversation, granted, loose, faults>>
LosesAnswer(h) ==
    /\ handler[h].pc = "calling" /\ faults < MaxFaults /\ faults' = faults + 1
    /\ Effect(h) /\ Ends(h) /\ loose' = TRUE
    /\ UNCHANGED <<forge, identity, assignment, conversation>>
Dies(h) ==
    /\ handler[h].pc # "idle" /\ faults < MaxFaults /\ faults' = faults + 1
    /\ Ends(h) /\ loose' = (loose \/ handler[h].pc = "answered")
    /\ UNCHANGED <<forge, identity, assignment, conversation, granted>>

Next ==
    \/ ForgeNext /\ UNCHANGED hosts
    \/ CreatesIdentity
    \/ \E i \in Ids : RejectsAssignment(i)
    \/ \E h \in Handlers :
        \/ \E c \in Campaigns : InviteLoads(h, c)
        \/ InviteCommits(h) \/ AcceptCommits(h) \/ TalkCommits(h) \/ SuspendsNext(h)
        \/ \E i \in Ids : AcceptStarts(h, i) \/ TalkLoads(h, i) \/ RevokeLoads(h, i)
        \/ \E op \in {"suspend", "takedown"} : ReportLoads(h, op)
        \/ RevokeCommits(h) \/ ReportCommits(h)
        \/ Calls(h) \/ Refused(h) \/ LosesAnswer(h) \/ Dies(h)

Spec == Init /\ [][Next]_vars

-----------------------------------------------------------------------------
\* Every row, lock and handler keeps its type.
Statuses == {"none", "draft", "agent_reviewed", "moderation_pending", "published",
             "rejected", "withdrawn"}
Works == {"draft", "published", "withdrawn"}
Requests == [pc : {"idle", "loaded", "calling", "answered", "suspending"},
             op : {"none", "review", "submit", "approve", "reject", "withdraw", "edit",
                   "invite", "accept", "talk"} \cup Revoking,
             r : Releases \cup {Nobody}, seen : Statuses, work : Works,
             a : (Campaigns \cup {Nobody}) \X Nat, had : BOOLEAN, todo : SUBSET (Ids \X Open)]
TypeOK ==
    /\ release \in [Releases -> [status : Statuses, approved : BOOLEAN]]
    /\ artifact \in [status : Works, passes : Checks]
    /\ handler \in [Handlers -> Requests]
    /\ identity \in {"none", "active", "suspended"}
    /\ assignment \in [Ids -> [status : {"none", "pending", "accepted", "rejected", "revoked"},
                               key : BOOLEAN]]
    /\ lock \in [Ids -> Handlers \cup {Nobody}]
    /\ conversation \in [Ids -> {"none", "active", "closed"}]
    /\ granted \subseteq Campaigns /\ loose \in BOOLEAN /\ faults \in 0..MaxFaults


\* No answer that is late reopens an assignment: one that was rejected or revoked
\* while another decision or revocation was under way stays closed.
ClosedStaysClosed == [][\A i \in Ids :
    assignment[i].status \in {"rejected", "revoked"} => assignment'[i].status \notin Open]_vars

\* An accepted assignment is granted by the authority ("Revocation calls MCP first
\* and only then marks the assignment revoked"), unless a call was cut off, is not
\* yet recorded, or crossed another revocation.
Underway == {Of(h)[1] : h \in {k \in Handlers : handler[k].pc = "answered"}}
AcceptedIsGranted == ~loose => \A i \in Ids :
    assignment[i].status = "accepted" /\ i[1] \notin Underway => i[1] \in granted

\* "Revocation calls MCP first and only then marks the assignment revoked."
RevokedHasNoGrant == \A c \in Campaigns :
    c \in granted /\ c \notin Underway => Invited(c)
=============================================================================
