--------------------------- MODULE CampaignAccess ---------------------------
(***************************************************************************)
(* One applicant of one campaign, as this service projects the access that *)
(* the domain MCP grants: invites (api/invites.py), join requests, the role*)
(* of a member, its removal, an actor binding (api/campaigns.py), and the  *)
(* panel projection that is cached per authorization epoch (api/rooms.py,  *)
(* projection_cache.py, realtime.py).                                      *)
(* A handler calls the authority between the statements of an open         *)
(* transaction: a row it locked stays locked across the call, a row it only*)
(* read may be changed by others, and a commit writes the columns that     *)
(* differ from what the handler had loaded.                                *)
(***************************************************************************)
EXTENDS Integers, FiniteSets

CONSTANTS
    Handlers,      \* requests being handled
    MaxUses,       \* `max_uses` of the invite
    MaxJoins,      \* bound: join requests of the applicant
    MaxOps,        \* bound: operations that are started
    MaxFaults,     \* bound: lost answers of the authority, handlers that die
    Nobody         \* no handler

ASSUME AccessAssumption ==
    /\ MaxUses \in Nat /\ MaxJoins \in Nat
    /\ MaxOps \in Nat /\ MaxFaults \in Nat /\ Nobody \notin Handlers

VARIABLES
    member,        \* `CampaignMembershipProjection` of the applicant
    binding,       \* `ActorBindingProjection.status` of its actor
    joins,         \* its `JoinRequest` rows
    invite,        \* the invite: its mode, uses and revocation
    memberLock, inviteLock, joinLock,      \* row locks
    authority,     \* the role the MCP grants it, or "none"
    actor,         \* whether the MCP lets it view the actor's private card
    panel,         \* its cached panel projection
    handler,       \* the handlers in progress
    admitted,      \* uses of the invite that were committed
    loose,         \* see `Crossed`
    kept,          \* see `KeepsRole`
    ops, faults

vars == <<member, binding, joins, invite, memberLock, inviteLock, joinLock,
          authority, actor, panel, handler, admitted, loose, kept, ops, faults>>
rows == <<member, binding, joins, invite, panel, admitted, kept>>
mcp == <<authority, actor>>

-----------------------------------------------------------------------------
JoinIds == 1..MaxJoins
NoMember == [status |-> "none", role |-> "player", epoch |-> 0]
Idle == [pc |-> "idle", op |-> "none", j |-> 0, role |-> "none", view |-> FALSE,
         seen |-> NoMember, card |-> FALSE]
NoPanel == [epoch |-> 0, role |-> "none", binding |-> "none", card |-> FALSE]

Init ==
    /\ member = NoMember /\ binding = "none"
    /\ joins = [j \in JoinIds |-> "none"]
    /\ \E auto \in BOOLEAN : invite = [auto |-> auto, used |-> 0, revoked |-> FALSE]
    /\ memberLock = Nobody /\ inviteLock = Nobody /\ joinLock = [j \in JoinIds |-> Nobody]
    /\ authority = "none" /\ actor = FALSE
    /\ panel = NoPanel
    /\ handler = [h \in Handlers |-> Idle]
    /\ admitted = 0 /\ loose = FALSE /\ kept = FALSE /\ ops = 0 /\ faults = 0

Active == member.status = "active"
At(h, pc, op) == handler[h].pc = pc /\ handler[h].op = op
Free(lock, h) == lock \in {Nobody, h}
Moves(h, pc) == handler' = [handler EXCEPT ![h].pc = pc]

\* A handler starts, or answers in the same step.
Starts(h) == handler[h].pc = "idle" /\ ops < MaxOps /\ ops' = ops + 1
Enters(h, pc, op, j, role, view) ==
    handler' = [handler EXCEPT ![h] =
        [pc |-> pc, op |-> op, j |-> j, role |-> role, view |-> view, seen |-> member, card |-> FALSE]]

\* The transaction ends: its locks are free.
Unlock(h) ==
    /\ memberLock' = IF memberLock = h THEN Nobody ELSE memberLock
    /\ inviteLock' = IF inviteLock = h THEN Nobody ELSE inviteLock
    /\ joinLock' = [j \in JoinIds |-> IF joinLock[j] = h THEN Nobody ELSE joinLock[j]]
Ends(h) == handler' = [handler EXCEPT ![h] = Idle] /\ Unlock(h)

-----------------------------------------------------------------------------
(* Requests and the invite.                                                *)
Pending == {j \in JoinIds : joins[j] = "pending"}
Unused == {j \in JoinIds : joins[j] = "none"}
NextJoin == CHOOSE j \in Unused : \A k \in Unused : j <= k

\* `request_join` reads membership and pending requests, and inserts later.
RequestReads(h) ==
    /\ Starts(h) /\ ~Active /\ Pending = {} /\ Enters(h, "requesting", "request", 0, "none", FALSE)
    /\ UNCHANGED <<rows, mcp, memberLock, inviteLock, joinLock, loose, faults>>
RequestInserts(h) ==
    /\ At(h, "requesting", "request") /\ Unused # {}
    /\ joins' = [joins EXCEPT ![NextJoin] = "pending"] /\ Ends(h)
    /\ UNCHANGED <<member, binding, invite, panel, admitted, kept, mcp, loose, ops, faults>>

Usable == ~invite.revoked /\ invite.used < MaxUses
\* Mutant: the row of the invite is only read.
InviteShared(h) == TRUE

InviteFree(h) == inviteLock = Nobody

\* `accept_invite` holds the row of the invite from here to its commit, and has
\* loaded the membership and a pending request, if there is one, without a lock.
AcceptLocks(h) ==
    /\ Starts(h) /\ invite.auto /\ InviteFree(h) /\ Usable /\ ~Active
    /\ inviteLock' = h
    /\ \E j \in IF Pending = {} THEN {0} ELSE Pending :
           Enters(h, "calling", "accept", j, "player", FALSE)
    /\ UNCHANGED <<rows, mcp, memberLock, joinLock, loose, faults>>

\* An invite to request: the transaction makes no call.
AcceptsAsRequest(h) ==
    /\ Starts(h) /\ ~invite.auto /\ InviteFree(h) /\ Usable /\ ~Active
    /\ IF Pending = {} THEN Unused # {} /\ joins' = [joins EXCEPT ![NextJoin] = "pending"]
       ELSE UNCHANGED joins
    /\ invite' = [invite EXCEPT !.used = @ + 1] /\ admitted' = admitted + 1
    /\ UNCHANGED <<member, binding, panel, kept, mcp, memberLock, inviteLock, joinLock, handler,
                   loose, faults>>

RevokesInvite(h) ==
    /\ Starts(h) /\ inviteLock = Nobody /\ invite' = [invite EXCEPT !.revoked = TRUE]
    /\ UNCHANGED <<member, binding, joins, panel, admitted, kept, mcp, memberLock, inviteLock,
                   joinLock, handler, loose, faults>>

-----------------------------------------------------------------------------
(* The members' reviewers.                                                 *)
\* Mutant: the row of the request is only read.
JoinShared(h, j) == TRUE

JoinFree(h, j) == joinLock[j] = Nobody

\* `decide_join_request` locks the request; a rejection makes no call.
Approves(h, j) ==
    /\ Starts(h) /\ JoinFree(h, j) /\ joins[j] = "pending"
    /\ joinLock' = [joinLock EXCEPT ![j] = h]
    /\ Enters(h, "calling", "approve", j, "player", FALSE)
    /\ UNCHANGED <<rows, mcp, memberLock, inviteLock, loose, faults>>
Rejects(h, j) ==
    /\ Starts(h) /\ JoinFree(h, j) /\ joins[j] = "pending"
    /\ joins' = [joins EXCEPT ![j] = "rejected"]
    /\ UNCHANGED <<member, binding, invite, panel, admitted, kept, mcp, memberLock, inviteLock,
                   joinLock, handler, loose, faults>>

\* `change_member_role` and `revoke_member` hold the row of the member.
LocksMember(h) == Starts(h) /\ memberLock = Nobody /\ Active /\ memberLock' = h
ChangesRole(h, role) ==
    /\ LocksMember(h) /\ role # member.role /\ Enters(h, "calling", "role", 0, role, FALSE)
    /\ UNCHANGED <<rows, mcp, inviteLock, joinLock, loose, faults>>
Revokes(h) ==
    /\ LocksMember(h) /\ Enters(h, "calling", "revoke", 0, "none", FALSE)
    /\ UNCHANGED <<rows, mcp, inviteLock, joinLock, loose, faults>>

\* `bind_actor` checks the membership without a lock.
Binds(h, view) ==
    /\ Starts(h) /\ Active /\ Enters(h, "calling", "bind", 0, "none", view)
    /\ UNCHANGED <<rows, mcp, memberLock, inviteLock, joinLock, loose, faults>>

\* `panel_state` finds no projection of the epoch.
PanelMisses(h) ==
    /\ Starts(h) /\ Active /\ panel.epoch # member.epoch
    /\ Enters(h, "calling", "panel", 0, "none", FALSE)
    /\ UNCHANGED <<rows, mcp, memberLock, inviteLock, joinLock, loose, faults>>

-----------------------------------------------------------------------------
(* The call of the authority.                                              *)
Granting == {"accept", "approve", "role", "revoke"}
Effect(h) ==
    /\ authority' = IF handler[h].op \in Granting THEN handler[h].role ELSE authority
    /\ actor' = CASE handler[h].op = "bind" -> handler[h].view
                  [] handler[h].op = "revoke" -> FALSE
                  [] OTHER -> actor

Calls(h) ==
    /\ handler[h].pc = "calling" /\ Effect(h)
    /\ handler[h].op = "panel" => authority # "none"
    /\ handler' = [handler EXCEPT ![h].pc = "answered", ![h].card = actor]
    /\ UNCHANGED <<rows, memberLock, inviteLock, joinLock, loose, ops, faults>>

\* Mutant: a removal the authority refused is projected all the same.
RefusedAnyway(h) ==
    /\ handler[h].pc = "calling"
    /\ member' = IF handler[h].op = "revoke" THEN [member EXCEPT !.status = "revoked"] ELSE member
    /\ Ends(h) /\ UNCHANGED <<binding, joins, invite, panel, admitted, kept, mcp, loose, ops, faults>>

\* A RuntimeError of the client: the handler rolls back, and the call had no
\* effect, or had it and lost the answer.
Refused(h) ==
    /\ handler[h].pc = "calling" /\ Ends(h)
    /\ UNCHANGED <<rows, mcp, loose, ops, faults>>
LosesAnswer(h) ==
    /\ handler[h].pc = "calling" /\ handler[h].op # "panel"
    /\ faults < MaxFaults /\ faults' = faults + 1
    /\ Effect(h) /\ Ends(h) /\ loose' = TRUE
    /\ UNCHANGED <<rows, ops>>

\* A handler dies; one that has changed the authority leaves that behind.
Dies(h) ==
    /\ handler[h].pc # "idle" /\ faults < MaxFaults /\ faults' = faults + 1
    /\ loose' = (loose \/ handler[h].pc \in {"answered", "loaded"})
    /\ Ends(h) /\ UNCHANGED <<rows, mcp, ops>>

-----------------------------------------------------------------------------
(* The commits.                                                            *)

\* An observation of the model: the authority is no longer what this handler
\* made it, or the membership no longer what it loaded.
Crossed(h) ==
    \/ handler[h].op \in Granting /\ authority # handler[h].role
    \/ member # handler[h].seen

\* An observation of the model: an invite is accepted by a former member whose row
\* keeps its role, while the authority granted "player".
KeepsRole(h) ==
    \/ handler[h].op = "accept" /\ handler[h].seen.role # handler[h].role
    \/ handler[h].op \notin {"accept", "approve", "role"} /\ kept
Commits(h) ==
    /\ Ends(h) /\ loose' = (loose \/ Crossed(h)) /\ kept' = KeepsRole(h)
    /\ UNCHANGED <<mcp, ops, faults>>

\* `_outbox_for_flush` increments the epoch the handler loaded.
Written(h, status, role) ==
    LET seen == handler[h].seen IN
    [status |-> IF seen.status = status THEN member.status ELSE status,
     role |-> IF seen.role = role THEN member.role ELSE role,
     epoch |-> seen.epoch + 1]

\* Approval and binding load the membership after the call.
Loads(h) ==
    /\ At(h, "answered", "approve") \/ At(h, "answered", "bind")
    /\ handler' = [handler EXCEPT ![h].pc = "loaded", ![h].seen = member]
    /\ UNCHANGED <<rows, mcp, memberLock, inviteLock, joinLock, loose, ops, faults>>

\* A membership that was inserted meanwhile fails the insert of another.
Joined(h, role) ==
    /\ Free(memberLock, h)
    /\ (handler[h].seen = NoMember => member = NoMember)
    /\ member' = Written(h, "active", role)
Collides(h) ==
    /\ At(h, "loaded", "approve") \/ At(h, "answered", "accept")
    /\ handler[h].seen = NoMember /\ member # NoMember
    /\ Ends(h) /\ loose' = TRUE /\ UNCHANGED <<rows, mcp, ops, faults>>

\* An accepted invite keeps the role of a former member.
AcceptCommits(h) ==
    LET j == IF handler[h].j = 0 THEN NextJoin ELSE handler[h].j IN
    /\ At(h, "answered", "accept") /\ (handler[h].j = 0 => Unused # {})
    /\ Free(joinLock[j], h) /\ Joined(h, handler[h].seen.role)
    /\ joins' = [joins EXCEPT ![j] = "approved"]
    /\ invite' = [invite EXCEPT !.used = @ + 1] /\ admitted' = admitted + 1
    /\ Commits(h) /\ UNCHANGED <<binding, panel>>
ApproveCommits(h) ==
    /\ At(h, "loaded", "approve") /\ Joined(h, "player")
    /\ joins' = [joins EXCEPT ![handler[h].j] = "approved"]
    /\ Commits(h) /\ UNCHANGED <<binding, invite, panel, admitted>>
RoleCommits(h) ==
    /\ At(h, "answered", "role") /\ member' = Written(h, "active", handler[h].role)
    /\ Commits(h) /\ UNCHANGED <<binding, joins, invite, panel, admitted>>
RevokeCommits(h) ==
    /\ At(h, "answered", "revoke") /\ member' = Written(h, "revoked", member.role)
    /\ binding' = IF binding = "none" THEN "none" ELSE "revoked"
    /\ Commits(h) /\ UNCHANGED <<joins, invite, panel, admitted>>
\* Mutant: a binding leaves the authorization epoch alone.
BindKeepsEpoch(h) ==
    /\ At(h, "loaded", "bind") /\ Free(memberLock, h)
    /\ binding' = (IF handler[h].view THEN "active" ELSE "revoked")
    /\ Commits(h) /\ UNCHANGED <<member, joins, invite, panel, admitted>>

BindCommits(h) ==
    /\ At(h, "loaded", "bind") /\ Free(memberLock, h)
    /\ binding' = (IF handler[h].view THEN "active" ELSE "revoked")
    /\ member' = [member EXCEPT !.epoch = handler[h].seen.epoch + 1]
    /\ Commits(h) /\ UNCHANGED <<joins, invite, panel, admitted>>

\* The panel is stored if the epoch is still the one it was asked under.
PanelChecks(h) ==
    /\ At(h, "answered", "panel")
    /\ IF Active /\ member.epoch = handler[h].seen.epoch THEN Moves(h, "checked")
       ELSE handler' = [handler EXCEPT ![h] = Idle]
    /\ UNCHANGED <<rows, mcp, memberLock, inviteLock, joinLock, loose, ops, faults>>
PanelStores(h) ==
    /\ At(h, "checked", "panel")
    /\ panel' = [epoch |-> handler[h].seen.epoch, role |-> handler[h].seen.role,
                binding |-> binding, card |-> handler[h].card]
    /\ handler' = [handler EXCEPT ![h] = Idle]
    /\ UNCHANGED <<member, binding, joins, invite, admitted, kept, mcp, memberLock, inviteLock,
                   joinLock, loose, ops, faults>>

Next == \E h \in Handlers :
    \/ RequestReads(h) \/ RequestInserts(h)
    \/ AcceptLocks(h) \/ AcceptsAsRequest(h) \/ RevokesInvite(h)
    \/ \E j \in JoinIds : Approves(h, j) \/ Rejects(h, j)
    \/ \E r \in {"player", "dm"} : ChangesRole(h, r)
    \/ Revokes(h) \/ PanelMisses(h)
    \/ \E v \in BOOLEAN : Binds(h, v)
    \/ Calls(h) \/ Refused(h) \/ LosesAnswer(h) \/ Dies(h) \/ Loads(h) \/ Collides(h)
    \/ AcceptCommits(h) \/ ApproveCommits(h) \/ RoleCommits(h) \/ RevokeCommits(h)
    \/ BindCommits(h) \/ PanelChecks(h) \/ PanelStores(h)

Spec == Init /\ [][Next]_vars

-----------------------------------------------------------------------------
\* Every row, lock and handler keeps its type.
Members == [status : {"none", "active", "revoked"}, role : {"player", "dm"}, epoch : Nat]
Requests == [pc : {"idle", "requesting", "calling", "answered", "loaded", "checked"},
             op : {"none", "request", "accept", "approve", "role", "revoke", "bind", "panel"},
             j : 0..MaxJoins, role : {"none", "player", "dm"}, view : BOOLEAN,
             seen : Members, card : BOOLEAN]
Locks == Handlers \cup {Nobody}
TypeOK ==
    /\ member \in Members /\ binding \in {"none", "active", "revoked"}
    /\ joins \in [JoinIds -> {"none", "pending", "approved", "rejected"}]
    /\ invite \in [auto : BOOLEAN, used : Nat, revoked : BOOLEAN]
    /\ memberLock \in Locks /\ inviteLock \in Locks /\ joinLock \in [JoinIds -> Locks]
    /\ authority \in {"none", "player", "dm"} /\ actor \in BOOLEAN
    /\ panel \in [epoch : Nat, role : {"none", "player", "dm"},
                  binding : {"none", "active", "revoked"}, card : BOOLEAN]
    /\ handler \in [Handlers -> Requests]
    /\ admitted \in Nat /\ loose \in BOOLEAN /\ kept \in BOOLEAN
    /\ ops \in 0..MaxOps /\ faults \in 0..MaxFaults

\* An invite admits no more than it may, however many accept it at once and
\* however long the authority takes (`accept_invite`).
InviteBound == admitted <= MaxUses /\ invite.used = admitted

\* A reviewer never decides a request that was decided (`decide_join_request`);
\* an accepted invite may still approve one that was rejected meanwhile.
DecidedOnce == [][\A j \in JoinIds : joins[j] \in {"approved", "rejected"} /\ joins'[j] # joins[j]
                     => \E h \in Handlers : At(h, "answered", "accept")]_vars

\* Whether a handler has changed the authority and not yet committed.
Underway == \E h \in Handlers : /\ handler[h].op \in Granting
                                /\ handler[h].pc \in {"answered", "loaded"}

\* The projection claims neither access the authority refuses nor a removal it
\* has not made, and the role of an active member is the one the authority granted,
\* unless a change was cut off, or two of them crossed.  The role alone is excused
\* from the acceptance of an invite by a former member of another role until the
\* next approval or change of the role (`accept_invite` keeps the role of the row).
FollowsAuthority == ~loose /\ ~Underway =>
    /\ Active <=> authority # "none"
    /\ Active => member.role = authority \/ kept

\* Without that excuse: the authority gave an active member the role of its row.
\* The code does not keep this: `readmitted.cfg` shows how.
RoleIsGranted == ~loose /\ ~Underway /\ Active => member.role = authority

\* A panel that would be served from the cache shows the role and the bindings
\* of the present, and no card the authority has withdrawn, unless two changes of
\* the membership crossed (`panel_state`, `_outbox_for_flush`).
Binding == \E h \in Handlers : handler[h].op = "bind" /\ handler[h].pc \in {"answered", "loaded"}
PanelIsCurrent == ~loose /\ Active /\ panel.epoch = member.epoch =>
    /\ panel.role = member.role /\ panel.binding = binding
    /\ ~Underway /\ ~Binding /\ panel.card => actor

\* "the control-plane layer can never claim that access was removed when the
\* authority still permits it".
RemovedIsRemoved == member.status = "revoked" /\ ~Underway => authority = "none"
=============================================================================
