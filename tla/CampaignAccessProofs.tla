------------------------ MODULE CampaignAccessProofs ------------------------
(***************************************************************************)
(* What CampaignAccess promises for any number of handlers, uses, requests *)
(* and faults: an invite admits no more than it may, and a reviewer decides*)
(* a request once.  A transaction keeps the row it locked while the        *)
(* authority is called, so what it checked still holds when it commits.    *)
(***************************************************************************)
EXTENDS CampaignAccess, WellFoundedInduction, TLAPS

\* A change of role names a role.
RoleNamed == \A h \in Handlers : handler[h].op = "role" => handler[h].role \in {"player", "dm"}

\* Who accepts an invite holds its row, and one use is left.
AcceptsAlone == \A h \in Handlers :
    handler[h].op = "accept" => inviteLock = h /\ invite.used < MaxUses

\* Who approves a request holds its row, and it is pending.
ApprovesPending == \A h \in Handlers :
    handler[h].op = "approve" =>
        /\ handler[h].j \in JoinIds /\ joinLock[handler[h].j] = h
        /\ joins[handler[h].j] = "pending"

AccessInv == TypeOK /\ RoleNamed /\ InviteBound /\ AcceptsAlone /\ ApprovesPending

\* A decided request keeps its decision in a step, an accepted invite aside.
DecisionsStay ==
    \A j \in JoinIds : joins[j] \in {"approved", "rejected"} /\ joins'[j] # joins[j]
        => \E h \in Handlers : At(h, "answered", "accept")

-----------------------------------------------------------------------------
(* Handlers and their locks.                                               *)
LEMMA IdleType == Idle \in Requests /\ Idle.pc = "idle" /\ Idle.op = "none"
  BY AccessAssumption DEF Idle, Requests, NoMember, Members

LEMMA NextJoinType ==
    ASSUME Unused # {} PROVE NextJoin \in JoinIds /\ joins[NextJoin] = "none"
<1> DEFINE R == {p \in Nat \X Nat : p[1] < p[2]}
<1>1. IsWellFoundedOn(R, Nat)  BY NatLessThanWellFounded DEF OpToRel
<1>2. Unused \subseteq Nat  BY DEF Unused, JoinIds
<1>3. PICK x \in Unused : \A y \in Unused : ~(<<y, x>> \in R)  BY <1>1, <1>2, WFMin
<1>4. ASSUME NEW y \in Unused PROVE x <= y
  <2>1. x \in Nat /\ y \in Nat  BY <1>2
  <2>2. ~(y < x)  BY <1>3, <2>1
  <2> QED BY <2>1, <2>2
<1>5. NextJoin \in Unused  BY <1>4 DEF NextJoin
<1> QED BY <1>5 DEF Unused

\* The other handlers and the rows they hold are left alone.
Others(h) == \A k \in Handlers \ {h} :
    /\ handler'[k] = handler[k]
    /\ inviteLock = k => inviteLock' = k
    /\ \A j \in JoinIds : joinLock[j] = k => joinLock'[j] = k

LEMMA EndsFacts ==
    ASSUME TypeOK, NEW h \in Handlers, Ends(h)
    PROVE  /\ handler' \in [Handlers -> Requests] /\ handler'[h] = Idle
           /\ memberLock' \in Locks /\ inviteLock' \in Locks /\ joinLock' \in [JoinIds -> Locks]
           /\ Others(h)
<1>1. handler' = [handler EXCEPT ![h] = Idle]  BY DEF Ends
<1>2. handler' \in [Handlers -> Requests] /\ handler'[h] = Idle
      /\ \A k \in Handlers \ {h} : handler'[k] = handler[k]
  BY <1>1, IdleType DEF TypeOK
<1>3. memberLock' \in Locks /\ inviteLock' \in Locks  BY DEF Ends, Unlock, TypeOK, Locks
<1>4. joinLock' = [j \in JoinIds |-> IF joinLock[j] = h THEN Nobody ELSE joinLock[j]]
  BY DEF Ends, Unlock
<1>5. joinLock' \in [JoinIds -> Locks]  BY <1>4 DEF TypeOK, Locks
<1>6. \A k \in Handlers \ {h} : /\ inviteLock = k => inviteLock' = k
                               /\ \A j \in JoinIds : joinLock[j] = k => joinLock'[j] = k
  BY <1>4 DEF Ends, Unlock
<1> QED BY <1>2, <1>3, <1>5, <1>6 DEF Others

LEMMA EntersFacts ==
    ASSUME TypeOK, NEW h \in Handlers,
           NEW pc \in {"requesting", "calling"},
           NEW op \in {"request", "accept", "approve", "role", "revoke", "bind", "panel"},
           NEW j \in 0..MaxJoins, NEW role \in {"none", "player", "dm"}, NEW view \in BOOLEAN,
           Enters(h, pc, op, j, role, view)
    PROVE  /\ handler' \in [Handlers -> Requests]
           /\ handler'[h].op = op /\ handler'[h].j = j /\ handler'[h].role = role
           /\ \A k \in Handlers \ {h} : handler'[k] = handler[k]
<1> DEFINE new == [pc |-> pc, op |-> op, j |-> j, role |-> role, view |-> view,
                   seen |-> member, card |-> FALSE]
<1>1. handler' = [handler EXCEPT ![h] = new]  BY DEF Enters
<1>2. new \in Requests  BY DEF TypeOK, Requests
<1> QED BY <1>1, <1>2 DEF TypeOK

-----------------------------------------------------------------------------
(* A step of one handler.                                                  *)

\* What a step owes to the invariant beside its types.
Kept(h) ==
    /\ Others(h)
    /\ handler'[h].op = "role" => handler'[h].role \in {"player", "dm"}
    /\ handler'[h].op = "accept" => inviteLock' = h /\ invite'.used < MaxUses
    /\ handler'[h].op = "approve" =>
          /\ handler'[h].j \in JoinIds /\ joinLock'[handler'[h].j] = h
          /\ joins'[handler'[h].j] = "pending"
    /\ admitted' <= MaxUses /\ invite'.used = admitted'
    /\ invite'.used = invite.used \/ inviteLock \in {h, Nobody}
    /\ \A j \in JoinIds : joins[j] = "pending" /\ joinLock[j] \notin {h, Nobody}
                             => joins'[j] = "pending"
    /\ DecisionsStay

LEMMA KeptInv ==
    ASSUME AccessInv, NEW h \in Handlers, Kept(h)
    PROVE  RoleNamed' /\ InviteBound' /\ AcceptsAlone' /\ ApprovesPending' /\ DecisionsStay
<1>1. RoleNamed'  BY DEF AccessInv, RoleNamed, Kept, Others
<1>2. InviteBound'  BY DEF Kept, InviteBound
<1>3. ASSUME NEW k \in Handlers, handler'[k].op = "accept"
      PROVE  inviteLock' = k /\ invite'.used < MaxUses
  <2>1. CASE k = h  BY <1>3, <2>1 DEF Kept
  <2>2. CASE k # h
    <3>1. handler[k].op = "accept"  BY <1>3, <2>2 DEF Kept, Others
    <3>2. inviteLock = k /\ invite.used < MaxUses  BY <3>1 DEF AccessInv, AcceptsAlone
    <3>3. inviteLock \notin {h, Nobody}  BY <2>2, <3>2, AccessAssumption
    <3> QED BY <2>2, <3>2, <3>3 DEF Kept, Others
  <2> QED BY <2>1, <2>2
<1>4. ASSUME NEW k \in Handlers, handler'[k].op = "approve"
      PROVE  /\ handler'[k].j \in JoinIds /\ joinLock'[handler'[k].j] = k
             /\ joins'[handler'[k].j] = "pending"
  <2>1. CASE k = h  BY <1>4, <2>1 DEF Kept
  <2>2. CASE k # h
    <3>1. handler'[k] = handler[k]  BY <2>2 DEF Kept, Others
    <3>2. /\ handler[k].j \in JoinIds /\ joinLock[handler[k].j] = k
          /\ joins[handler[k].j] = "pending"
      BY <1>4, <3>1 DEF AccessInv, ApprovesPending
    <3>3. joinLock[handler[k].j] \notin {h, Nobody}  BY <2>2, <3>2, AccessAssumption
    <3> QED BY <2>2, <3>1, <3>2, <3>3 DEF Kept, Others
  <2> QED BY <2>1, <2>2
<1> QED BY <1>1, <1>2, <1>3, <1>4 DEF AcceptsAlone, ApprovesPending, Kept

-----------------------------------------------------------------------------
(* The steps, handler by handler.                                          *)
RowTypes ==
    /\ member' \in Members /\ binding' \in {"none", "active", "revoked"}
    /\ joins' \in [JoinIds -> {"none", "pending", "approved", "rejected"}]
    /\ invite' \in [auto : BOOLEAN, used : Nat, revoked : BOOLEAN]
    /\ panel' \in [epoch : Nat, role : {"none", "player", "dm"},
                  binding : {"none", "active", "revoked"}, card : BOOLEAN]
    /\ admitted' \in Nat /\ kept' \in BOOLEAN
LockTypes ==
    /\ memberLock' \in Locks /\ inviteLock' \in Locks /\ joinLock' \in [JoinIds -> Locks]
    /\ handler' \in [Handlers -> Requests]
OtherTypes ==
    /\ authority' \in {"none", "player", "dm"} /\ actor' \in BOOLEAN
    /\ loose' \in BOOLEAN /\ ops' \in 0..MaxOps /\ faults' \in 0..MaxFaults

LEMMA RowsStay == ASSUME TypeOK, UNCHANGED rows PROVE RowTypes
  BY DEF TypeOK, RowTypes, rows
LEMMA OthersStay == ASSUME TypeOK, UNCHANGED <<mcp, loose, ops, faults>> PROVE OtherTypes
  BY DEF TypeOK, OtherTypes, mcp
LEMMA Types == ASSUME RowTypes, LockTypes, OtherTypes PROVE TypeOK'
  BY DEF RowTypes, LockTypes, OtherTypes, TypeOK

Moved(h) == TypeOK' /\ Kept(h)

\* A request that starts, and what it is about.
LEMMA StartTypes ==
    ASSUME TypeOK, NEW h \in Handlers, Starts(h), UNCHANGED <<mcp, loose, faults>>
    PROVE  OtherTypes /\ handler[h].pc = "idle"
  BY AccessAssumption DEF TypeOK, OtherTypes, mcp, Starts

\* The rows stay as they are: every promise about them is kept.
LEMMA RowsKept ==
    ASSUME AccessInv, UNCHANGED rows, NEW h \in Handlers
    PROVE  /\ admitted' <= MaxUses /\ invite'.used = admitted' /\ invite'.used = invite.used
           /\ \A j \in JoinIds : joins'[j] = joins[j]
           /\ DecisionsStay
  BY DEF AccessInv, InviteBound, rows, DecisionsStay

LEMMA ReadsKept ==
    ASSUME AccessInv, NEW h \in Handlers, RequestReads(h)
    PROVE  Moved(h)
<1>1. Enters(h, "requesting", "request", 0, "none", FALSE)
      /\ Starts(h) /\ UNCHANGED <<rows, mcp, memberLock, inviteLock, joinLock, loose, faults>>
  BY DEF RequestReads
<1>2. LockTypes /\ Others(h) /\ handler'[h].op = "request"
  <2>1. 0 \in 0..MaxJoins  BY AccessAssumption
  <2> QED BY <1>1, <2>1, EntersFacts DEF LockTypes, Others, AccessInv, TypeOK
<1>3. TypeOK'  BY <1>1, <1>2, RowsStay, StartTypes, Types DEF AccessInv
<1> QED BY <1>1, <1>2, <1>3, RowsKept DEF Moved, Kept

\* The operations that only read before their call.
LEMMA OpensKept ==
    ASSUME AccessInv, NEW h \in Handlers, UNCHANGED <<rows, mcp, inviteLock, joinLock, loose, faults>>,
           memberLock' \in {memberLock, h}, Starts(h),
           NEW op \in {"role", "revoke", "bind", "panel"}, NEW role \in {"none", "player", "dm"},
           op = "role" => role \in {"player", "dm"}, NEW view \in BOOLEAN,
           Enters(h, "calling", op, 0, role, view)
    PROVE  Moved(h)
<1>1. LockTypes /\ Others(h) /\ handler'[h].op = op /\ handler'[h].role = role
  <2>1. 0 \in 0..MaxJoins  BY AccessAssumption
  <2> QED BY <2>1, EntersFacts DEF LockTypes, Others, AccessInv, TypeOK, Locks
<1>2. TypeOK'  BY <1>1, RowsStay, StartTypes, Types DEF AccessInv
<1> QED BY <1>1, <1>2, RowsKept DEF Moved, Kept

LEMMA MembersKept ==
    ASSUME AccessInv, NEW h \in Handlers,
           \/ \E r \in {"player", "dm"} : ChangesRole(h, r)
           \/ Revokes(h) \/ PanelMisses(h)
           \/ \E v \in BOOLEAN : Binds(h, v)
    PROVE  Moved(h)
<1>1. CASE \E r \in {"player", "dm"} : ChangesRole(h, r)
  BY <1>1, OpensKept DEF ChangesRole, LocksMember
<1>2. CASE Revokes(h)  BY <1>2, OpensKept DEF Revokes, LocksMember
<1>3. CASE PanelMisses(h)  BY <1>3, OpensKept DEF PanelMisses
<1>4. CASE \E v \in BOOLEAN : Binds(h, v)  BY <1>4, OpensKept DEF Binds
<1> QED BY <1>1, <1>2, <1>3, <1>4

LEMMA AcceptLocksKept ==
    ASSUME AccessInv, NEW h \in Handlers, AcceptLocks(h)
    PROVE  Moved(h)
<1>1. /\ Starts(h) /\ UNCHANGED <<rows, mcp, memberLock, joinLock, loose, faults>>
      /\ inviteLock = Nobody /\ inviteLock' = h /\ invite.used < MaxUses
  BY DEF AcceptLocks, InviteFree, Usable
<1>2. PICK j \in IF Pending = {} THEN {0} ELSE Pending :
          Enters(h, "calling", "accept", j, "player", FALSE)
  BY DEF AcceptLocks
<1>3. j \in 0..MaxJoins  BY AccessAssumption DEF Pending, JoinIds
<1>4. LockTypes /\ Others(h) /\ handler'[h].op = "accept"
  BY <1>1, <1>2, <1>3, EntersFacts, AccessAssumption, ZenonT(30) DEF LockTypes, Others, AccessInv, TypeOK, Locks
<1>5. TypeOK'  BY <1>1, <1>4, RowsStay, StartTypes, Types DEF AccessInv
<1>6. invite'.used < MaxUses  BY <1>1 DEF rows
<1> QED BY <1>1, <1>4, <1>5, <1>6, RowsKept DEF Moved, Kept

LEMMA ApprovesKept ==
    ASSUME AccessInv, NEW h \in Handlers, NEW j \in JoinIds, Approves(h, j)
    PROVE  Moved(h)
<1>1. /\ Starts(h) /\ UNCHANGED <<rows, mcp, memberLock, inviteLock, loose, faults>>
      /\ joinLock[j] = Nobody /\ joins[j] = "pending"
      /\ joinLock' = [joinLock EXCEPT ![j] = h]
      /\ Enters(h, "calling", "approve", j, "player", FALSE)
  BY DEF Approves, JoinFree
<1>2. j \in 0..MaxJoins  BY DEF JoinIds
<1>3. /\ handler' \in [Handlers -> Requests]
      /\ handler'[h].op = "approve" /\ handler'[h].j = j
      /\ \A k \in Handlers \ {h} : handler'[k] = handler[k]
  BY <1>1, <1>2, EntersFacts DEF AccessInv
<1>4. joinLock' \in [JoinIds -> Locks] /\ joinLock'[j] = h
      /\ \A i \in JoinIds : i # j => joinLock'[i] = joinLock[i]
  BY <1>1 DEF AccessInv, TypeOK, Locks
<1>5. LockTypes  BY <1>1, <1>3, <1>4 DEF LockTypes, AccessInv, TypeOK
<1>6. Others(h)  BY <1>1, <1>3, <1>4, AccessAssumption DEF Others
<1>7. TypeOK'  BY <1>1, <1>5, RowsStay, StartTypes, Types DEF AccessInv
<1>8. joins'[j] = "pending"  BY <1>1 DEF rows
<1> QED BY <1>1, <1>3, <1>4, <1>6, <1>7, <1>8, RowsKept DEF Moved, Kept

\* The operations without a call leave the handlers where they are.
Stays == UNCHANGED <<mcp, memberLock, inviteLock, joinLock, handler, loose, faults>>
LEMMA StaysTypes ==
    ASSUME TypeOK, NEW h \in Handlers, Starts(h), Stays
    PROVE  LockTypes /\ OtherTypes /\ Others(h)
<1>1. OtherTypes  BY StartTypes DEF Stays
<1> QED BY <1>1 DEF TypeOK, LockTypes, Stays, Others

LEMMA RejectsKept ==
    ASSUME AccessInv, NEW h \in Handlers, NEW j \in JoinIds, Rejects(h, j)
    PROVE  Moved(h)
<1>1. /\ Starts(h) /\ Stays /\ UNCHANGED <<member, binding, invite, panel, admitted, kept>>
      /\ joinLock[j] = Nobody /\ joins[j] = "pending"
      /\ joins' = [joins EXCEPT ![j] = "rejected"]
  BY DEF Rejects, JoinFree, Stays
<1>2. /\ joins' \in [JoinIds -> {"none", "pending", "approved", "rejected"}]
      /\ \A i \in JoinIds : i # j => joins'[i] = joins[i]
  BY <1>1 DEF AccessInv, TypeOK
<1>3. TypeOK'
  <2>1. RowTypes  BY <1>1, <1>2 DEF AccessInv, TypeOK, RowTypes
  <2> QED BY <1>1, <2>1, StaysTypes, Types DEF AccessInv
<1>4. handler'[h].op = "approve" =>
          /\ handler'[h].j \in JoinIds /\ joinLock'[handler'[h].j] = h
          /\ joins'[handler'[h].j] = "pending"
  <2> SUFFICES ASSUME handler[h].op = "approve"
               PROVE  /\ handler[h].j \in JoinIds /\ joinLock[handler[h].j] = h
                      /\ joins'[handler[h].j] = "pending"
    BY <1>1 DEF Stays
  <2>1. /\ handler[h].j \in JoinIds /\ joinLock[handler[h].j] = h
        /\ joins[handler[h].j] = "pending"
    BY DEF AccessInv, ApprovesPending
  <2>2. handler[h].j # j  BY <1>1, <2>1, AccessAssumption
  <2> QED BY <1>2, <2>1, <2>2
<1>5. DecisionsStay  BY <1>1, <1>2 DEF DecisionsStay
<1>6. handler'[h].op = "accept" => inviteLock' = h /\ invite'.used < MaxUses
  BY <1>1 DEF Stays, AccessInv, AcceptsAlone
<1>7. /\ handler'[h].op = "role" => handler'[h].role \in {"player", "dm"}
      /\ admitted' <= MaxUses /\ invite'.used = admitted' /\ invite'.used = invite.used
  BY <1>1 DEF Stays, AccessInv, RoleNamed, InviteBound
<1>8. \A i \in JoinIds : joins[i] = "pending" /\ joinLock[i] \notin {h, Nobody}
                            => joins'[i] = "pending"
  BY <1>1, <1>2
<1> QED BY <1>1, <1>3, <1>4, <1>5, <1>6, <1>7, <1>8, StaysTypes DEF Moved, Kept, AccessInv

LEMMA InvitesKept ==
    ASSUME AccessInv, NEW h \in Handlers, AcceptsAsRequest(h) \/ RevokesInvite(h)
    PROVE  Moved(h)
<1>1. Starts(h) /\ Stays /\ UNCHANGED <<member, binding, panel, kept>> /\ inviteLock = Nobody
  BY DEF AcceptsAsRequest, RevokesInvite, Stays, InviteFree
<1>2. /\ invite' \in [auto : BOOLEAN, used : Nat, revoked : BOOLEAN] /\ admitted' \in Nat
      /\ admitted' <= MaxUses /\ invite'.used = admitted'
  <2>1. CASE AcceptsAsRequest(h)
    <3>1. invite.used \in Nat /\ invite.used < MaxUses /\ admitted = invite.used
      BY <2>1 DEF AcceptsAsRequest, Usable, AccessInv, TypeOK, InviteBound
    <3>2. invite' = [invite EXCEPT !.used = @ + 1] /\ admitted' = admitted + 1
      BY <2>1 DEF AcceptsAsRequest
    <3> QED BY <3>1, <3>2, AccessAssumption DEF AccessInv, TypeOK
  <2>2. CASE RevokesInvite(h)
    <3>1. invite' = [invite EXCEPT !.revoked = TRUE] /\ admitted' = admitted
      BY <2>2 DEF RevokesInvite
    <3> QED BY <3>1 DEF AccessInv, TypeOK, InviteBound
  <2> QED BY <2>1, <2>2
<1>3. \/ UNCHANGED joins
      \/ Unused # {} /\ joins' = [joins EXCEPT ![NextJoin] = "pending"]
  BY DEF AcceptsAsRequest, RevokesInvite
<1>4. /\ joins' \in [JoinIds -> {"none", "pending", "approved", "rejected"}]
      /\ \A i \in JoinIds : joins[i] # "none" => joins'[i] = joins[i]
  BY <1>3, NextJoinType DEF AccessInv, TypeOK
<1>5. TypeOK'
  <2>1. RowTypes  BY <1>1, <1>2, <1>4 DEF AccessInv, TypeOK, RowTypes
  <2> QED BY <1>1, <2>1, StaysTypes, Types DEF AccessInv
<1>6. handler'[h].op # "accept"
  BY <1>1, AccessAssumption DEF Stays, AccessInv, AcceptsAlone
<1>7. handler'[h].op = "approve" =>
          /\ handler'[h].j \in JoinIds /\ joinLock'[handler'[h].j] = h
          /\ joins'[handler'[h].j] = "pending"
  BY <1>1, <1>4 DEF Stays, AccessInv, ApprovesPending
<1>8. handler'[h].op = "role" => handler'[h].role \in {"player", "dm"}
  BY <1>1 DEF Stays, AccessInv, RoleNamed
<1>9. DecisionsStay  BY <1>4 DEF DecisionsStay
<1> QED BY <1>1, <1>2, <1>4, <1>5, <1>6, <1>7, <1>8, <1>9, StaysTypes DEF Moved, Kept, AccessInv

-----------------------------------------------------------------------------
(* A handler goes on: its request and its locks stay.                      *)
LEMMA GoesOnKept ==
    ASSUME AccessInv, NEW h \in Handlers, UNCHANGED <<rows, memberLock, inviteLock, joinLock>>,
           OtherTypes, NEW new \in Requests, handler' = [handler EXCEPT ![h] = new],
           new.op \in {"none", handler[h].op}, new.j = handler[h].j \/ new.op = "none",
           new.role = handler[h].role \/ new.op = "none"
    PROVE  Moved(h)
<1>1. /\ handler' \in [Handlers -> Requests] /\ handler'[h] = new
      /\ \A k \in Handlers \ {h} : handler'[k] = handler[k]
  BY DEF AccessInv, TypeOK
<1>2. LockTypes /\ Others(h)  BY <1>1 DEF AccessInv, TypeOK, LockTypes, Others
<1>3. TypeOK'  BY <1>2, RowsStay, Types DEF AccessInv
<1>4. handler'[h].op = "accept" => inviteLock' = h /\ invite'.used < MaxUses
  BY <1>1 DEF AccessInv, AcceptsAlone, rows
<1>5. handler'[h].op = "approve" =>
          /\ handler'[h].j \in JoinIds /\ joinLock'[handler'[h].j] = h
          /\ joins'[handler'[h].j] = "pending"
  BY <1>1 DEF AccessInv, ApprovesPending, rows
<1>6. handler'[h].op = "role" => handler'[h].role \in {"player", "dm"}
  BY <1>1 DEF AccessInv, RoleNamed
<1> QED BY <1>2, <1>3, <1>4, <1>5, <1>6, RowsKept DEF Moved, Kept

LEMMA EffectTypes ==
    ASSUME TypeOK, NEW h \in Handlers, Effect(h)
    PROVE  authority' \in {"none", "player", "dm"} /\ actor' \in BOOLEAN
<1>1. handler[h].role \in {"none", "player", "dm"} /\ handler[h].view \in BOOLEAN
  BY DEF TypeOK, Requests
<1> QED BY <1>1 DEF TypeOK, Effect

LEMMA CallsKept ==
    ASSUME AccessInv, NEW h \in Handlers, Calls(h) \/ Loads(h) \/ PanelChecks(h)
    PROVE  Moved(h)
<1>1. handler[h] \in Requests /\ member \in Members /\ actor \in BOOLEAN
  BY DEF AccessInv, TypeOK
<1>2. UNCHANGED <<rows, memberLock, inviteLock, joinLock>>
  BY DEF Calls, Loads, PanelChecks
<1>3. CASE Calls(h)
  <2>1. OtherTypes  BY <1>3, EffectTypes DEF Calls, OtherTypes, AccessInv, TypeOK
  <2> DEFINE new == [handler[h] EXCEPT !.pc = "answered", !.card = actor]
  <2>2. handler' = [handler EXCEPT ![h] = new]  BY <1>3 DEF Calls, AccessInv, TypeOK
  <2>3. /\ new \in Requests /\ new.op = handler[h].op /\ new.j = handler[h].j
        /\ new.role = handler[h].role
    BY <1>1 DEF Requests
  <2> QED BY <1>2, <2>1, <2>2, <2>3, GoesOnKept
<1>4. CASE Loads(h)
  <2>1. OtherTypes  BY <1>4, OthersStay DEF Loads, AccessInv
  <2> DEFINE new == [handler[h] EXCEPT !.pc = "loaded", !.seen = member]
  <2>2. handler' = [handler EXCEPT ![h] = new]  BY <1>4 DEF Loads, AccessInv, TypeOK
  <2>3. /\ new \in Requests /\ new.op = handler[h].op /\ new.j = handler[h].j
        /\ new.role = handler[h].role
    BY <1>1 DEF Requests
  <2> QED BY <1>2, <2>1, <2>2, <2>3, GoesOnKept
<1>5. CASE PanelChecks(h)
  <2>1. OtherTypes  BY <1>5, OthersStay DEF PanelChecks, AccessInv
  <2> DEFINE new == [handler[h] EXCEPT !.pc = "checked"]
  <2>2. CASE handler' = [handler EXCEPT ![h] = Idle]
    BY <1>2, <2>1, <2>2, IdleType, GoesOnKept
  <2>3. CASE Moves(h, "checked")
    <3>1. handler' = [handler EXCEPT ![h] = new]  BY <2>3 DEF Moves, AccessInv, TypeOK
    <3>2. /\ new \in Requests /\ new.op = handler[h].op /\ new.j = handler[h].j
          /\ new.role = handler[h].role
      BY <1>1 DEF Requests
    <3> QED BY <1>2, <2>1, <3>1, <3>2, GoesOnKept
  <2> QED BY <1>5, <2>2, <2>3 DEF PanelChecks
<1> QED BY <1>3, <1>4, <1>5

-----------------------------------------------------------------------------
(* A transaction ends.                                                     *)
LEMMA EndsKept ==
    ASSUME AccessInv, NEW h \in Handlers, Ends(h), RowTypes, OtherTypes,
           admitted' <= MaxUses, invite'.used = admitted',
           invite'.used = invite.used \/ inviteLock \in {h, Nobody},
           \A j \in JoinIds : joins[j] = "pending" /\ joinLock[j] \notin {h, Nobody}
                                 => joins'[j] = "pending",
           DecisionsStay
    PROVE  Moved(h)
<1>1. LockTypes /\ Others(h) /\ handler'[h] = Idle  BY EndsFacts DEF LockTypes, AccessInv
<1>2. TypeOK'  BY <1>1, Types
<1> QED BY <1>1, <1>2, IdleType DEF Moved, Kept

LEMMA AbandonsKept ==
    ASSUME AccessInv, NEW h \in Handlers,
           Refused(h) \/ LosesAnswer(h) \/ Dies(h) \/ Collides(h)
    PROVE  Moved(h)
<1>1. Ends(h) /\ UNCHANGED rows  BY DEF Refused, LosesAnswer, Dies, Collides
<1>2. OtherTypes
  <2>1. CASE Refused(h)  BY <2>1, OthersStay DEF Refused, AccessInv
  <2>2. CASE LosesAnswer(h)
    BY <2>2, EffectTypes, AccessAssumption DEF LosesAnswer, OtherTypes, AccessInv, TypeOK
  <2>3. CASE Dies(h)
    BY <2>3, AccessAssumption DEF Dies, OtherTypes, AccessInv, TypeOK, mcp
  <2>4. CASE Collides(h)  BY <2>4 DEF Collides, OtherTypes, AccessInv, TypeOK, mcp
  <2> QED BY <2>1, <2>2, <2>3, <2>4
<1>3. \A j \in JoinIds : joins[j] = "pending" => joins'[j] = "pending"  BY <1>1 DEF rows
<1> QED BY <1>1, <1>2, <1>3, RowsStay, RowsKept, EndsKept DEF AccessInv

LEMMA WrittenType ==
    ASSUME TypeOK, NEW h \in Handlers, NEW status \in {"none", "active", "revoked"},
           NEW role \in {"player", "dm"}
    PROVE  Written(h, status, role) \in Members
<1>1. handler[h].seen \in Members /\ member \in Members  BY DEF TypeOK, Requests
<1>2. /\ handler[h].seen.epoch + 1 \in Nat
      /\ member.status \in {"none", "active", "revoked"} /\ member.role \in {"player", "dm"}
  BY <1>1 DEF Members
<1> QED BY <1>2 DEF Written, Members

LEMMA CommitTypes ==
    ASSUME TypeOK, NEW h \in Handlers, Commits(h)
    PROVE  OtherTypes /\ Ends(h) /\ kept' \in BOOLEAN
<1>1. Crossed(h) \in BOOLEAN /\ KeepsRole(h) \in BOOLEAN  BY DEF Crossed, KeepsRole
<1>2. loose' \in BOOLEAN /\ kept' \in BOOLEAN  BY <1>1 DEF Commits, TypeOK
<1> QED BY <1>2 DEF Commits, OtherTypes, TypeOK, mcp

LEMMA AcceptCommitsKept ==
    ASSUME AccessInv, NEW h \in Handlers, AcceptCommits(h)
    PROVE  Moved(h)
<1> DEFINE j == IF handler[h].j = 0 THEN NextJoin ELSE handler[h].j
<1>1. /\ At(h, "answered", "accept") /\ (handler[h].j = 0 => Unused # {})
      /\ Free(joinLock[j], h) /\ Joined(h, handler[h].seen.role)
      /\ joins' = [joins EXCEPT ![j] = "approved"]
      /\ invite' = [invite EXCEPT !.used = @ + 1] /\ admitted' = admitted + 1
      /\ Commits(h) /\ UNCHANGED <<binding, panel>>
  BY DEF AcceptCommits
<1>2. inviteLock = h /\ invite.used < MaxUses
  BY <1>1 DEF At, AccessInv, AcceptsAlone
<1>3. /\ invite' \in [auto : BOOLEAN, used : Nat, revoked : BOOLEAN] /\ admitted' \in Nat
      /\ admitted' <= MaxUses /\ invite'.used = admitted'
  <2>1. invite.used \in Nat /\ admitted = invite.used  BY DEF AccessInv, TypeOK, InviteBound
  <2> QED BY <1>1, <1>2, <2>1, AccessAssumption DEF AccessInv, TypeOK
<1>4. j \in JoinIds
  <2>1. handler[h].j \in 0..MaxJoins  BY DEF AccessInv, TypeOK, Requests
  <2> QED BY <1>1, <2>1, NextJoinType, AccessAssumption DEF JoinIds
<1>5. /\ joins' \in [JoinIds -> {"none", "pending", "approved", "rejected"}]
      /\ \A i \in JoinIds : i # j => joins'[i] = joins[i]
  BY <1>1 DEF AccessInv, TypeOK
<1>6. member' \in Members
  <2>1. handler[h].seen.role \in {"player", "dm"}  BY DEF AccessInv, TypeOK, Requests, Members
  <2> QED BY <1>1, <2>1, WrittenType DEF Joined, AccessInv
<1>7. RowTypes  BY <1>1, <1>3, <1>5, <1>6, CommitTypes DEF RowTypes, AccessInv, TypeOK
<1>8. DecisionsStay  BY <1>1 DEF DecisionsStay
<1>9. \A i \in JoinIds : joins[i] = "pending" /\ joinLock[i] \notin {h, Nobody}
                            => joins'[i] = "pending"
  BY <1>1, <1>5 DEF Free
<1> QED BY <1>1, <1>2, <1>3, <1>7, <1>8, <1>9, CommitTypes, EndsKept DEF AccessInv

LEMMA ApproveCommitsKept ==
    ASSUME AccessInv, NEW h \in Handlers, ApproveCommits(h)
    PROVE  Moved(h)
<1> DEFINE j == handler[h].j
<1>1. /\ At(h, "loaded", "approve") /\ Joined(h, "player")
      /\ joins' = [joins EXCEPT ![j] = "approved"]
      /\ Commits(h) /\ UNCHANGED <<binding, invite, panel, admitted>>
  BY DEF ApproveCommits
<1>2. j \in JoinIds /\ joinLock[j] = h /\ joins[j] = "pending"
  BY <1>1 DEF At, AccessInv, ApprovesPending
<1>3. /\ joins' \in [JoinIds -> {"none", "pending", "approved", "rejected"}]
      /\ \A i \in JoinIds : i # j => joins'[i] = joins[i]
  BY <1>1 DEF AccessInv, TypeOK
<1>4. member' \in Members  BY <1>1, WrittenType DEF Joined, AccessInv
<1>5. RowTypes  BY <1>1, <1>3, <1>4, CommitTypes DEF RowTypes, AccessInv, TypeOK
<1>6. DecisionsStay  BY <1>2, <1>3 DEF DecisionsStay
<1>7. \A i \in JoinIds : joins[i] = "pending" /\ joinLock[i] \notin {h, Nobody}
                            => joins'[i] = "pending"
  BY <1>2, <1>3
<1>8. admitted' <= MaxUses /\ invite'.used = admitted' /\ invite'.used = invite.used
  BY <1>1 DEF AccessInv, InviteBound
<1> QED BY <1>1, <1>5, <1>6, <1>7, <1>8, CommitTypes, EndsKept DEF AccessInv

LEMMA RequestInsertsKept ==
    ASSUME AccessInv, NEW h \in Handlers, RequestInserts(h)
    PROVE  Moved(h)
<1>1. /\ Ends(h) /\ joins' = [joins EXCEPT ![NextJoin] = "pending"]
      /\ NextJoin \in JoinIds /\ joins[NextJoin] = "none"
      /\ UNCHANGED <<member, binding, invite, panel, admitted, kept, mcp, loose, ops, faults>>
  BY NextJoinType DEF RequestInserts
<1>2. /\ joins' \in [JoinIds -> {"none", "pending", "approved", "rejected"}]
      /\ \A i \in JoinIds : joins[i] # "none" => joins'[i] = joins[i]
  BY <1>1 DEF AccessInv, TypeOK
<1>3. RowTypes  BY <1>1, <1>2 DEF RowTypes, AccessInv, TypeOK
<1>4. OtherTypes  BY <1>1, OthersStay DEF AccessInv
<1>5. DecisionsStay  BY <1>2 DEF DecisionsStay
<1>6. admitted' <= MaxUses /\ invite'.used = admitted' /\ invite'.used = invite.used
  BY <1>1 DEF AccessInv, InviteBound
<1> QED BY <1>1, <1>2, <1>3, <1>4, <1>5, <1>6, EndsKept

\* The commits that leave requests and the invite alone.
LEMMA MemberCommitsKept ==
    ASSUME AccessInv, NEW h \in Handlers, RoleCommits(h) \/ RevokeCommits(h) \/ BindCommits(h)
    PROVE  Moved(h)
<1>1. Commits(h) /\ UNCHANGED <<joins, invite, panel, admitted>>
  BY DEF RoleCommits, RevokeCommits, BindCommits
<1>2. member' \in Members
  <2>1. CASE RoleCommits(h)
    <3>1. handler[h].role \in {"player", "dm"}
      BY <2>1 DEF RoleCommits, At, AccessInv, RoleNamed
    <3> QED BY <2>1, <3>1, WrittenType DEF RoleCommits, AccessInv
  <2>2. CASE RevokeCommits(h)
    <3>1. member.role \in {"player", "dm"}  BY DEF AccessInv, TypeOK, Members
    <3> QED BY <2>2, <3>1, WrittenType DEF RevokeCommits, AccessInv
  <2>3. CASE BindCommits(h)
    <3>1. handler[h].seen.epoch + 1 \in Nat  BY DEF AccessInv, TypeOK, Requests, Members
    <3>2. member' = [member EXCEPT !.epoch = handler[h].seen.epoch + 1]
      BY <2>3 DEF BindCommits
    <3> QED BY <3>1, <3>2 DEF AccessInv, TypeOK, Members
  <2> QED BY <2>1, <2>2, <2>3
<1>3. binding' \in {"none", "active", "revoked"}
  BY DEF RoleCommits, RevokeCommits, BindCommits, AccessInv, TypeOK
<1>4. RowTypes  BY <1>1, <1>2, <1>3, CommitTypes DEF RowTypes, AccessInv, TypeOK
<1>5. /\ admitted' <= MaxUses /\ invite'.used = admitted' /\ invite'.used = invite.used
      /\ DecisionsStay
  BY <1>1 DEF AccessInv, InviteBound, DecisionsStay
<1> QED BY <1>1, <1>4, <1>5, CommitTypes, EndsKept DEF AccessInv

LEMMA PanelStoresKept ==
    ASSUME AccessInv, NEW h \in Handlers, PanelStores(h)
    PROVE  Moved(h)
<1>1. /\ handler' = [handler EXCEPT ![h] = Idle]
      /\ panel' = [epoch |-> handler[h].seen.epoch, role |-> handler[h].seen.role,
                   binding |-> binding, card |-> handler[h].card]
      /\ UNCHANGED <<member, binding, joins, invite, admitted, kept, mcp, memberLock, inviteLock,
                     joinLock, loose, ops, faults>>
  BY DEF PanelStores
<1>2. /\ handler' \in [Handlers -> Requests] /\ handler'[h] = Idle
      /\ \A k \in Handlers \ {h} : handler'[k] = handler[k]
  BY <1>1, IdleType DEF AccessInv, TypeOK
<1>3. RowTypes
  <2>1. /\ handler[h].seen.epoch \in Nat /\ handler[h].seen.role \in {"player", "dm"}
        /\ handler[h].card \in BOOLEAN
    BY DEF AccessInv, TypeOK, Requests, Members
  <2> QED BY <1>1, <2>1 DEF RowTypes, AccessInv, TypeOK
<1>4. LockTypes /\ Others(h)  BY <1>1, <1>2 DEF LockTypes, AccessInv, TypeOK, Others
<1>5. TypeOK'  BY <1>1, <1>3, <1>4, OthersStay, Types DEF AccessInv
<1>6. /\ admitted' <= MaxUses /\ invite'.used = admitted' /\ invite'.used = invite.used
      /\ DecisionsStay /\ \A i \in JoinIds : joins'[i] = joins[i]
  BY <1>1 DEF AccessInv, InviteBound, DecisionsStay
<1> QED BY <1>2, <1>4, <1>5, <1>6, IdleType DEF Moved, Kept

-----------------------------------------------------------------------------
(* Every step.                                                             *)
LEMMA InitInv == Init => AccessInv
<1> SUFFICES ASSUME Init PROVE AccessInv  OBVIOUS
<1>1. /\ NoMember \in Members /\ Idle \in Requests /\ Idle.op = "none"
  BY IdleType DEF NoMember, Members
<1>2. /\ handler \in [Handlers -> Requests] /\ \A h \in Handlers : handler[h].op = "none"
  BY <1>1 DEF Init
<1>3. invite \in [auto : BOOLEAN, used : Nat, revoked : BOOLEAN] /\ invite.used = 0
  <2>1. PICK auto \in BOOLEAN : invite = [auto |-> auto, used |-> 0, revoked |-> FALSE]
    BY DEF Init
  <2> QED BY <2>1
<1>4. NoPanel \in [epoch : Nat, role : {"none", "player", "dm"},
                   binding : {"none", "active", "revoked"}, card : BOOLEAN]
  BY DEF NoPanel
<1>5. /\ 0 \in 0..MaxOps /\ 0 \in 0..MaxFaults
      /\ joins \in [JoinIds -> {"none", "pending", "approved", "rejected"}]
      /\ joinLock \in [JoinIds -> Locks]
  BY AccessAssumption DEF Init, Locks
<1>6. TypeOK  BY <1>1, <1>2, <1>3, <1>4, <1>5 DEF Init, TypeOK, Locks
<1> QED BY <1>2, <1>3, <1>6, AccessAssumption
    DEF Init, AccessInv, RoleNamed, InviteBound, AcceptsAlone, ApprovesPending

LEMMA StepKept ==
    ASSUME AccessInv, Next
    PROVE  AccessInv' /\ DecisionsStay
<1>1. PICK h \in Handlers :
    \/ RequestReads(h) \/ RequestInserts(h)
    \/ AcceptLocks(h) \/ AcceptsAsRequest(h) \/ RevokesInvite(h)
    \/ \E j \in JoinIds : Approves(h, j) \/ Rejects(h, j)
    \/ \E r \in {"player", "dm"} : ChangesRole(h, r)
    \/ Revokes(h) \/ PanelMisses(h)
    \/ \E v \in BOOLEAN : Binds(h, v)
    \/ Calls(h) \/ Refused(h) \/ LosesAnswer(h) \/ Dies(h) \/ Loads(h) \/ Collides(h)
    \/ AcceptCommits(h) \/ ApproveCommits(h) \/ RoleCommits(h) \/ RevokeCommits(h)
    \/ BindCommits(h) \/ PanelChecks(h) \/ PanelStores(h)
  BY DEF Next
<1>2. Moved(h)
  BY <1>1, ReadsKept, RequestInsertsKept, AcceptLocksKept, InvitesKept, ApprovesKept, RejectsKept,
     MembersKept, CallsKept, AbandonsKept, AcceptCommitsKept, ApproveCommitsKept,
     MemberCommitsKept, PanelStoresKept
<1> QED BY <1>2, KeptInv DEF Moved, AccessInv

LEMMA Inductive == AccessInv /\ [Next]_vars => AccessInv'
<1> SUFFICES ASSUME AccessInv, [Next]_vars PROVE AccessInv'  OBVIOUS
<1>1. CASE Next  BY <1>1, StepKept
<1>2. CASE UNCHANGED vars
  BY <1>2 DEF vars, AccessInv, TypeOK, RoleNamed, InviteBound, AcceptsAlone, ApprovesPending
<1> QED BY <1>1, <1>2

LEMMA InvAlways == Spec => []AccessInv
  BY InitInv, Inductive, PTL DEF Spec

-----------------------------------------------------------------------------
\* Every row, lock and handler keeps its type.
THEOREM TypeCorrect == Spec => []TypeOK
<1>1. AccessInv => TypeOK  BY DEF AccessInv
<1> QED BY <1>1, InvAlways, PTL

\* Any number of handlers that accept an invite at once admit no more than its
\* `max_uses`, and count each of them (`accept_invite`).
THEOREM InviteIsBounded == Spec => []InviteBound
<1>1. AccessInv => InviteBound  BY DEF AccessInv
<1> QED BY <1>1, InvAlways, PTL

\* A reviewer never decides a request that is decided, however long the authority
\* takes to answer another one (`decide_join_request`).
THEOREM DecisionIsFinal == Spec => DecidedOnce
<1>1. AccessInv /\ [Next]_vars => [DecisionsStay]_vars
  BY StepKept
<1> QED BY <1>1, InvAlways, PTL DEF Spec, DecidedOnce, DecisionsStay

-----------------------------------------------------------------------------
(* The rows, the cached panel and the authority.                           *)
Granted(q) == q.op \in Granting /\ q.pc \in {"answered", "loaded"}
Bound(q) == q.op = "bind" /\ q.pc \in {"answered", "loaded"}

\* What a handler asks the authority for.
Fits(q) ==
    /\ q.op \in {"accept", "approve"} => q.role = "player"
    /\ q.op = "role" => q.role \in {"player", "dm"}
    /\ q.op = "revoke" => q.role = "none"
RolesFit == \A h \in Handlers : Fits(handler[h])

\* A panel that is being asked for: under the epoch of the present it is about the
\* membership of the present.
Asked(h) ==
    handler[h].op = "panel" =>
        /\ handler[h].seen.epoch <= member.epoch
        /\ handler[h].seen.epoch = member.epoch =>
              /\ handler[h].seen = member
              /\ handler[h].pc \in {"answered", "checked"} /\ ~Underway /\ ~Binding /\ handler[h].card => actor
CacheInv ==
    ~loose => /\ panel.epoch <= member.epoch
              /\ PanelIsCurrent
              /\ \A h \in Handlers : Asked(h)

MirrorInv == RolesFit /\ FollowsAuthority /\ CacheInv

\* A step of h either leaves the membership alone, and whatever it changes at the
\* authority is not yet committed, ...
Leaves(h) ==
    /\ member' = member /\ binding' = binding /\ kept' = kept
    /\ loose' \/
       /\ ~loose
       /\ Granted(handler[h]) => Granted(handler'[h])
       /\ Bound(handler[h]) => Bound(handler'[h])
       /\ authority' = authority \/ Granted(handler'[h])
       /\ actor' = actor \/ Granted(handler'[h]) \/ Bound(handler'[h])
       /\ \/ panel' = panel
          \/ /\ handler[h].op = "panel" /\ handler[h].pc = "checked"
             /\ panel' = [epoch |-> handler[h].seen.epoch, role |-> handler[h].seen.role,
                          binding |-> binding, card |-> handler[h].card]
       /\ handler'[h].op = "panel" =>
             \/ handler'[h].pc = "calling" /\ handler'[h].seen = member
             \/ /\ handler[h].op = "panel" /\ handler'[h].seen = handler[h].seen
                /\ \/ handler'[h].card = actor
                   \/ /\ handler'[h].card = handler[h].card
                      /\ handler'[h].pc = handler[h].pc \/ handler[h].pc = "answered"

\* ... or commits what it made of the membership, under the next epoch.
Advances(h) ==
    /\ handler'[h].op = "none"
    /\ loose' \/
       /\ ~loose /\ panel' = panel /\ member'.epoch = member.epoch + 1
       /\ \/ (Active' <=> authority' # "none") /\ (Active' => member'.role = authority' \/ kept')
          \/ /\ authority' = authority /\ kept' = kept /\ ~Granted(handler[h])
             /\ member'.status = member.status /\ member'.role = member.role

Mirrors(h) ==
    /\ \A k \in Handlers \ {h} : handler'[k] = handler[k]
    /\ Fits(handler'[h])
    /\ Leaves(h) \/ Advances(h)

LEMMA Quiet ==
    ASSUME NEW h \in Handlers, Mirrors(h), Leaves(h), ~loose'
    PROVE  /\ ~Underway' => ~Underway /\ authority' = authority
           /\ ~Underway' /\ ~Binding' => ~Binding /\ actor' = actor
<1>1. /\ Granted(handler[h]) => Granted(handler'[h])
      /\ Bound(handler[h]) => Bound(handler'[h])
      /\ authority' = authority \/ Granted(handler'[h])
      /\ actor' = actor \/ Granted(handler'[h]) \/ Bound(handler'[h])
  BY DEF Leaves
<1>2. \A k \in Handlers : /\ Granted(handler[k]) => Granted(handler'[k])
                          /\ Bound(handler[k]) => Bound(handler'[k])
  BY <1>1 DEF Mirrors
<1>3. /\ Underway <=> \E k \in Handlers : Granted(handler[k])
      /\ Underway' <=> \E k \in Handlers : Granted(handler'[k])
      /\ Binding <=> \E k \in Handlers : Bound(handler[k])
      /\ Binding' <=> \E k \in Handlers : Bound(handler'[k])
  BY DEF Underway, Binding, Granted, Bound
<1> QED BY <1>1, <1>2, <1>3

LEMMA LeavesMirror ==
    ASSUME TypeOK, MirrorInv, NEW h \in Handlers, Mirrors(h), Leaves(h)
    PROVE  FollowsAuthority' /\ CacheInv'
<1>1. CASE loose'  BY <1>1 DEF FollowsAuthority, CacheInv
<1>2. CASE ~loose'
  <2>1. ~loose /\ member' = member /\ binding' = binding /\ kept' = kept  BY <1>2 DEF Leaves
  <2>2. FollowsAuthority'
    BY <1>2, <2>1, Quiet DEF MirrorInv, FollowsAuthority, Active
  <2>3. /\ panel.epoch <= member.epoch /\ PanelIsCurrent
        /\ \A k \in Handlers : Asked(k)
    BY <2>1 DEF MirrorInv, CacheInv
  <2>4. /\ member.epoch \in Nat /\ \A k \in Handlers : handler[k].seen.epoch \in Nat
    BY DEF TypeOK, Requests, Members
  <2>5. ASSUME NEW k \in Handlers PROVE Asked(k)'
    <3>1. CASE k # h
      <4>1. handler'[k] = handler[k]  BY <3>1 DEF Mirrors
      <4> QED BY <1>2, <2>1, <2>3, <4>1, Quiet DEF Asked
    <3>2. CASE k = h /\ handler'[h].op = "panel"
      <4>1. CASE handler'[h].pc = "calling" /\ handler'[h].seen = member
        BY <2>1, <2>4, <3>2, <4>1 DEF Asked
      <4>2. CASE /\ handler[h].op = "panel" /\ handler'[h].seen = handler[h].seen
                 /\ \/ handler'[h].card = actor
                    \/ /\ handler'[h].card = handler[h].card
                       /\ handler'[h].pc = handler[h].pc \/ handler[h].pc = "answered"
        BY <1>2, <2>1, <2>3, <3>2, <4>2, Quiet DEF Asked
      <4> QED BY <1>2, <3>2, <4>1, <4>2 DEF Leaves
    <3> QED BY <3>1, <3>2 DEF Asked
  <2>6. panel'.epoch <= member'.epoch /\ PanelIsCurrent'
    <3>1. CASE panel' = panel
      BY <1>2, <2>1, <2>3, <3>1, Quiet DEF PanelIsCurrent, Active
    <3>2. CASE /\ handler[h].op = "panel" /\ handler[h].pc = "checked"
               /\ panel' = [epoch |-> handler[h].seen.epoch, role |-> handler[h].seen.role,
                            binding |-> binding, card |-> handler[h].card]
      <4>1. /\ panel'.epoch = handler[h].seen.epoch /\ panel'.role = handler[h].seen.role
            /\ panel'.binding = binding /\ panel'.card = handler[h].card
        BY <3>2
      <4> QED BY <1>2, <2>1, <2>3, <3>2, <4>1, Quiet DEF PanelIsCurrent, Active, Asked
    <3> QED BY <1>2, <3>1, <3>2 DEF Leaves
  <2> QED BY <2>2, <2>5, <2>6 DEF CacheInv
<1> QED BY <1>1, <1>2

LEMMA AdvancesMirror ==
    ASSUME TypeOK, MirrorInv, NEW h \in Handlers, Mirrors(h), Advances(h)
    PROVE  FollowsAuthority' /\ CacheInv'
<1>1. CASE loose'  BY <1>1 DEF FollowsAuthority, CacheInv
<1>2. CASE ~loose'
  <2>1. /\ ~loose /\ panel' = panel /\ member'.epoch = member.epoch + 1
        /\ handler'[h].op = "none"
    BY <1>2 DEF Advances
  <2>2. /\ panel.epoch <= member.epoch /\ \A k \in Handlers : Asked(k)
    BY <2>1 DEF MirrorInv, CacheInv
  <2>3. /\ member.epoch \in Nat /\ panel.epoch \in Nat
        /\ \A k \in Handlers : handler[k].seen.epoch \in Nat
    BY DEF TypeOK, Requests, Members
  <2>4. PanelIsCurrent' /\ panel'.epoch <= member'.epoch
    BY <2>1, <2>2, <2>3 DEF PanelIsCurrent
  <2>5. ASSUME NEW k \in Handlers PROVE Asked(k)'
    <3>1. CASE k = h  BY <2>1, <3>1 DEF Asked
    <3>2. CASE k # h
      <4>1. handler'[k] = handler[k]  BY <3>2 DEF Mirrors
      <4> QED BY <2>1, <2>2, <2>3, <4>1 DEF Asked
    <3> QED BY <3>1, <3>2
  <2>6. FollowsAuthority'
    <3>1. CASE (Active' <=> authority' # "none") /\ (Active' => member'.role = authority' \/ kept')
      BY <3>1 DEF FollowsAuthority
    <3>2. CASE /\ authority' = authority /\ kept' = kept /\ ~Granted(handler[h])
               /\ member'.status = member.status /\ member'.role = member.role
      <4>1. ~Underway' => ~Underway  BY <3>2 DEF Mirrors, Underway, Granted
      <4> QED BY <2>1, <3>2, <4>1 DEF MirrorInv, FollowsAuthority, Active
    <3> QED BY <1>2, <3>1, <3>2 DEF Advances
  <2> QED BY <2>4, <2>5, <2>6 DEF CacheInv
<1> QED BY <1>1, <1>2

LEMMA MirrorsInv ==
    ASSUME TypeOK, MirrorInv, NEW h \in Handlers, Mirrors(h)
    PROVE  MirrorInv'
<1>1. RolesFit'  BY DEF MirrorInv, RolesFit, Mirrors
<1> QED BY <1>1, LeavesMirror, AdvancesMirror DEF MirrorInv, Mirrors

-----------------------------------------------------------------------------
(* Every step mirrors the authority.                                       *)
Alone(h) == \A k \in Handlers \ {h} : handler'[k] = handler[k]

\* A handler that starts has changed nothing yet.
LEMMA StartsMirror ==
    ASSUME TypeOK, NEW h \in Handlers, Starts(h),
           UNCHANGED <<rows, mcp, loose>>,
           NEW pc \in {"requesting", "calling"},
           NEW op \in {"request", "accept", "approve", "role", "revoke", "bind", "panel"},
           NEW j \in 0..MaxJoins, NEW role \in {"none", "player", "dm"}, NEW view \in BOOLEAN,
           Enters(h, pc, op, j, role, view),
           op \in {"accept", "approve"} => role = "player",
           op = "role" => role \in {"player", "dm"},
           op = "revoke" => role = "none",
           op = "panel" => pc = "calling"
    PROVE  Mirrors(h)
<1>1. /\ handler'[h].op = op /\ handler'[h].role = role /\ Alone(h)
      /\ handler'[h].pc = pc /\ handler'[h].seen = member
  BY DEF Enters, TypeOK, Alone
<1>2. handler[h].pc = "idle"  BY DEF Starts
<1>3. Fits(handler'[h])  BY <1>1 DEF Fits
<1>4. Leaves(h)
  BY <1>1, <1>2 DEF Leaves, Granted, Bound, rows, mcp
<1> QED BY <1>1, <1>3, <1>4 DEF Mirrors, Alone

LEMMA OpensMirror ==
    ASSUME TypeOK, NEW h \in Handlers,
           \/ RequestReads(h) \/ AcceptLocks(h)
           \/ \E j \in JoinIds : Approves(h, j)
           \/ \E r \in {"player", "dm"} : ChangesRole(h, r)
           \/ Revokes(h) \/ PanelMisses(h)
           \/ \E v \in BOOLEAN : Binds(h, v)
    PROVE  Mirrors(h)
<1>0. 0 \in 0..MaxJoins /\ JoinIds \subseteq 0..MaxJoins /\ Pending \subseteq JoinIds
  BY AccessAssumption DEF JoinIds, Pending
<1>1. CASE RequestReads(h)  BY <1>0, <1>1, StartsMirror DEF RequestReads
<1>2. CASE AcceptLocks(h)
  <2>1. PICK j \in IF Pending = {} THEN {0} ELSE Pending :
            Enters(h, "calling", "accept", j, "player", FALSE)
    BY <1>2 DEF AcceptLocks
  <2>2. j \in 0..MaxJoins  BY <1>0, <2>1
  <2> QED BY <1>2, <2>1, <2>2, StartsMirror DEF AcceptLocks
<1>3. CASE \E j \in JoinIds : Approves(h, j)
  <2>1. PICK j \in JoinIds : Approves(h, j)  BY <1>3
  <2> QED BY <1>0, <2>1, StartsMirror DEF Approves
<1>4. CASE \E r \in {"player", "dm"} : ChangesRole(h, r)
  <2>1. PICK r \in {"player", "dm"} : ChangesRole(h, r)  BY <1>4
  <2> QED BY <1>0, <2>1, StartsMirror DEF ChangesRole, LocksMember
<1>5. CASE Revokes(h)  BY <1>0, <1>5, StartsMirror DEF Revokes, LocksMember
<1>6. CASE PanelMisses(h)  BY <1>0, <1>6, StartsMirror DEF PanelMisses
<1>7. CASE \E v \in BOOLEAN : Binds(h, v)
  <2>1. PICK v \in BOOLEAN : Binds(h, v)  BY <1>7
  <2> QED BY <1>0, <2>1, StartsMirror DEF Binds
<1> QED BY <1>1, <1>2, <1>3, <1>4, <1>5, <1>6, <1>7

\* Rows of requests and invites are not of the membership.
LEMMA RowsMirror ==
    ASSUME TypeOK, RolesFit, NEW h \in Handlers,
           AcceptsAsRequest(h) \/ RevokesInvite(h) \/ \E j \in JoinIds : Rejects(h, j)
    PROVE  Mirrors(h)
<1>1. UNCHANGED <<member, binding, panel, kept, mcp, handler, loose>>
  BY DEF AcceptsAsRequest, RevokesInvite, Rejects
<1>2. handler[h].pc = "idle"  BY DEF AcceptsAsRequest, RevokesInvite, Rejects, Starts
<1> QED BY <1>1, <1>2 DEF Mirrors, Leaves, RolesFit, mcp

\* The end of a transaction that changed no row of the membership.
LEMMA EndsMirror ==
    ASSUME TypeOK, NEW h \in Handlers, handler' = [handler EXCEPT ![h] = Idle],
           UNCHANGED <<member, binding, panel, kept>>,
           \/ loose'
           \/ ~loose /\ UNCHANGED mcp /\ ~Granted(handler[h]) /\ ~Bound(handler[h])
    PROVE  Mirrors(h)
<1>1. /\ handler'[h].op = "none" /\ Alone(h)  BY IdleType DEF TypeOK, Alone
<1> QED BY <1>1 DEF Mirrors, Fits, Leaves, Alone, mcp

LEMMA AbandonsMirror ==
    ASSUME TypeOK, NEW h \in Handlers,
           Refused(h) \/ LosesAnswer(h) \/ Dies(h) \/ Collides(h) \/ RequestInserts(h)
    PROVE  Mirrors(h)
<1>1. handler' = [handler EXCEPT ![h] = Idle] /\ UNCHANGED <<member, binding, panel, kept>>
  BY DEF Refused, LosesAnswer, Dies, Collides, RequestInserts, Ends, rows
<1>2. \/ loose'
      \/ ~loose /\ UNCHANGED mcp /\ handler[h].pc \notin {"answered", "loaded"}
  BY DEF Refused, LosesAnswer, Dies, Collides, RequestInserts, At, TypeOK
<1> QED BY <1>1, <1>2, EndsMirror DEF Granted, Bound

LEMMA CallsMirror ==
    ASSUME TypeOK, RolesFit, NEW h \in Handlers, Calls(h)
    PROVE  Mirrors(h)
<1>1. /\ handler'[h].op = handler[h].op /\ handler'[h].role = handler[h].role
      /\ handler'[h].seen = handler[h].seen /\ handler'[h].pc = "answered"
      /\ handler'[h].card = actor /\ Alone(h)
  BY DEF Calls, TypeOK, Requests, Alone
<1>2. /\ handler[h].pc = "calling" /\ UNCHANGED <<rows, loose>>  BY DEF Calls
<1>3. /\ authority' = authority \/ handler[h].op \in Granting
      /\ actor' = actor \/ handler[h].op \in {"bind", "revoke"}
  BY DEF Calls, Effect
<1>4. Fits(handler'[h])  BY <1>1 DEF RolesFit, Fits
<1>5. Leaves(h)
  BY <1>1, <1>2, <1>3 DEF Leaves, Granted, Bound, Granting, rows, TypeOK
<1> QED BY <1>1, <1>4, <1>5 DEF Mirrors, Alone

LEMMA LoadsMirror ==
    ASSUME TypeOK, RolesFit, NEW h \in Handlers, Loads(h) \/ PanelChecks(h) \/ PanelStores(h)
    PROVE  Mirrors(h)
<1>1. CASE Loads(h)
  <2>1. /\ handler'[h].op = handler[h].op /\ handler'[h].role = handler[h].role
        /\ handler'[h].pc = "loaded" /\ handler[h].op \in {"approve", "bind"} /\ Alone(h)
    BY <1>1 DEF Loads, At, TypeOK, Requests, Alone
  <2>2. UNCHANGED <<rows, mcp, loose>>  BY <1>1 DEF Loads
  <2> QED BY <2>1, <2>2 DEF Mirrors, Fits, RolesFit, Leaves, Granted, Bound, Granting, rows, mcp,
             Alone, TypeOK
<1>2. CASE PanelChecks(h)
  <2>1. /\ handler[h].op = "panel" /\ handler[h].pc = "answered" /\ UNCHANGED <<rows, mcp, loose>>
    BY <1>2 DEF PanelChecks, At
  <2>2. CASE handler' = [handler EXCEPT ![h] = Idle]
    <3>1. ~loose \/ loose'  BY <2>1
    <3> QED BY <2>1, <2>2, <3>1, EndsMirror DEF rows, Granted, Bound, Granting
  <2>3. CASE Moves(h, "checked")
    <3>1. /\ handler'[h].op = "panel" /\ handler'[h].seen = handler[h].seen
          /\ handler'[h].card = handler[h].card /\ Alone(h)
      BY <2>1, <2>3 DEF Moves, TypeOK, Requests, Alone
    <3> QED BY <2>1, <3>1 DEF Mirrors, Fits, Leaves, Granted, Bound, Granting, rows, mcp, Alone, TypeOK
  <2> QED BY <1>2, <2>2, <2>3 DEF PanelChecks
<1>3. CASE PanelStores(h)
  <2>1. /\ handler'[h].op = "none" /\ Alone(h)
    BY <1>3, IdleType DEF PanelStores, TypeOK, Alone
  <2>2. /\ handler[h].op = "panel" /\ handler[h].pc = "checked"
        /\ panel' = [epoch |-> handler[h].seen.epoch, role |-> handler[h].seen.role,
                     binding |-> binding, card |-> handler[h].card]
        /\ UNCHANGED <<member, binding, kept, mcp, loose>>
    BY <1>3 DEF PanelStores, At
  <2> QED BY <2>1, <2>2 DEF Mirrors, Fits, Leaves, Granted, Bound, Granting, mcp, Alone, TypeOK
<1> QED BY <1>1, <1>2, <1>3

\* What is committed without a crossing is the membership the authority grants.
LEMMA CommitsMirror ==
    ASSUME TypeOK, RolesFit, NEW h \in Handlers,
           \/ AcceptCommits(h) \/ ApproveCommits(h) \/ RoleCommits(h) \/ RevokeCommits(h)
           \/ BindCommits(h)
    PROVE  Mirrors(h)
<1>1. /\ Commits(h) /\ panel' = panel
  BY DEF AcceptCommits, ApproveCommits, RoleCommits, RevokeCommits, BindCommits
<1>2. /\ handler'[h].op = "none" /\ Alone(h)
  BY <1>1, IdleType DEF Commits, Ends, TypeOK, Alone
<1>3. loose' = (loose \/ Crossed(h)) /\ kept' = KeepsRole(h) /\ UNCHANGED mcp  BY <1>1 DEF Commits
<1>4. /\ member \in Members /\ Fits(handler[h]) /\ loose \in BOOLEAN
  BY DEF TypeOK, RolesFit
<1>5. ASSUME ~loose' PROVE /\ ~loose /\ handler[h].seen = member
                           /\ handler[h].op \in Granting => authority = handler[h].role
  BY <1>3, <1>4, <1>5 DEF Crossed
<1>6. ASSUME ~loose'
      PROVE  /\ member'.epoch = member.epoch + 1
             /\ \/ (Active' <=> authority' # "none") /\ (Active' => member'.role = authority' \/ kept')
                \/ /\ authority' = authority /\ kept' = kept /\ ~Granted(handler[h])
                   /\ member'.status = member.status /\ member'.role = member.role
  <2>1. CASE AcceptCommits(h)
    <3>1. member' = Written(h, "active", member.role) /\ handler[h].op = "accept"
      BY <1>5, <1>6, <2>1 DEF AcceptCommits, Joined, At
    <3>2. /\ member'.status = "active" /\ member'.role = member.role
          /\ member'.epoch = member.epoch + 1
      BY <1>4, <1>5, <1>6, <3>1 DEF Written, Members
    <3>3. handler[h].role = "player" /\ authority' = "player"
      BY <1>3, <1>4, <1>5, <1>6, <3>1 DEF Fits, Granting, mcp
    <3>4. member.role = "player" \/ kept'
      BY <1>3, <1>5, <1>6, <3>1, <3>3 DEF KeepsRole
    <3> QED BY <3>2, <3>3, <3>4 DEF Active
  <2>2. CASE ApproveCommits(h)
    <3>1. member' = Written(h, "active", "player") /\ handler[h].op = "approve"
      BY <2>2 DEF ApproveCommits, Joined, At
    <3>2. /\ member'.status = "active" /\ member'.role = "player"
          /\ member'.epoch = member.epoch + 1
      BY <1>4, <1>5, <1>6, <3>1 DEF Written, Members
    <3> QED BY <1>3, <1>4, <1>5, <1>6, <3>1, <3>2 DEF Fits, Granting, Active, mcp
  <2>3. CASE RoleCommits(h)
    <3>1. member' = Written(h, "active", handler[h].role) /\ handler[h].op = "role"
      BY <2>3 DEF RoleCommits, At
    <3>2. /\ member'.status = "active" /\ member'.role = handler[h].role
          /\ member'.epoch = member.epoch + 1
      BY <1>4, <1>5, <1>6, <3>1 DEF Written, Members
    <3> QED BY <1>3, <1>4, <1>5, <1>6, <3>1, <3>2 DEF Fits, Granting, Active, mcp
  <2>4. CASE RevokeCommits(h)
    <3>1. member' = Written(h, "revoked", member.role) /\ handler[h].op = "revoke"
      BY <2>4 DEF RevokeCommits, At
    <3>2. member'.status = "revoked" /\ member'.epoch = member.epoch + 1
      BY <1>4, <1>5, <1>6, <3>1 DEF Written, Members
    <3> QED BY <1>3, <1>4, <1>5, <1>6, <3>1, <3>2 DEF Fits, Granting, Active, mcp
  <2>5. CASE BindCommits(h)
    <3>1. member' = [member EXCEPT !.epoch = member.epoch + 1] /\ handler[h].op = "bind"
      BY <1>5, <1>6, <2>5 DEF BindCommits, At
    <3>2. kept' = kept
      <4>1. kept \in BOOLEAN /\ (KeepsRole(h) <=> kept)  BY <3>1 DEF KeepsRole, TypeOK
      <4>2. KeepsRole(h) \in BOOLEAN  BY DEF KeepsRole
      <4>3. kept' = KeepsRole(h)  BY <1>3
      <4> QED BY <4>1, <4>2, <4>3
    <3> QED BY <1>3, <1>4, <3>1, <3>2 DEF Granted, Granting, Members, mcp
  <2> QED BY <2>1, <2>2, <2>3, <2>4, <2>5
<1>7. Advances(h)  BY <1>1, <1>2, <1>5, <1>6 DEF Advances
<1> QED BY <1>2, <1>7 DEF Mirrors, Fits, Alone

LEMMA MirrorNext == ASSUME AccessInv, MirrorInv, [Next]_vars PROVE MirrorInv'
<1>1. CASE UNCHANGED vars
  BY <1>1 DEF vars, MirrorInv, RolesFit, FollowsAuthority, CacheInv, PanelIsCurrent, Asked,
              Active, Underway, Binding
<1>2. CASE Next
  <2>1. PICK h \in Handlers :
      \/ RequestReads(h) \/ RequestInserts(h)
      \/ AcceptLocks(h) \/ AcceptsAsRequest(h) \/ RevokesInvite(h)
      \/ \E j \in JoinIds : Approves(h, j) \/ Rejects(h, j)
      \/ \E r \in {"player", "dm"} : ChangesRole(h, r)
      \/ Revokes(h) \/ PanelMisses(h)
      \/ \E v \in BOOLEAN : Binds(h, v)
      \/ Calls(h) \/ Refused(h) \/ LosesAnswer(h) \/ Dies(h) \/ Loads(h) \/ Collides(h)
      \/ AcceptCommits(h) \/ ApproveCommits(h) \/ RoleCommits(h) \/ RevokeCommits(h)
      \/ BindCommits(h) \/ PanelChecks(h) \/ PanelStores(h)
    BY <1>2 DEF Next
  <2>2. TypeOK /\ RolesFit  BY DEF AccessInv, MirrorInv
  <2>3. Mirrors(h)
    BY <2>1, <2>2, OpensMirror, RowsMirror, AbandonsMirror, CallsMirror, LoadsMirror, CommitsMirror
  <2> QED BY <2>2, <2>3, MirrorsInv
<1> QED BY <1>1, <1>2

LEMMA MirrorInit == Init => MirrorInv
<1> SUFFICES ASSUME Init PROVE MirrorInv  OBVIOUS
<1>1. \A h \in Handlers : handler[h] = Idle  BY DEF Init
<1>2. member.status = "none" /\ member.epoch = 0 /\ panel.epoch = 0 /\ authority = "none"
  BY DEF Init, NoMember, NoPanel
<1> QED BY <1>1, <1>2, IdleType
    DEF MirrorInv, RolesFit, Fits, FollowsAuthority, Active, CacheInv, PanelIsCurrent, Asked

LEMMA MirrorAlways == Spec => []MirrorInv
<1>1. AccessInv /\ MirrorInv /\ [Next]_vars => MirrorInv'  BY MirrorNext
<1> QED BY <1>1, MirrorInit, InvAlways, PTL DEF Spec

\* The service's record of a membership and the grant of the authority agree
\* whenever nobody is changing them, unless a change was cut off or crossed another
\* (`accept_invite`, `decide_join_request`, `change_member_role`, `revoke_member`):
\* on whether there is a member, and on its role unless an accepted invite kept the
\* role of a former member.
THEOREM RecordFollows == Spec => []FollowsAuthority
<1>1. MirrorInv => FollowsAuthority  BY DEF MirrorInv
<1> QED BY <1>1, MirrorAlways, PTL

\* A panel that the cache would serve shows the role, the binding and the card of
\* the present (`panel_state`): each commit that changes one of them ends the epoch
\* under which older panels were asked for and stored.
THEOREM CacheIsCurrent == Spec => []PanelIsCurrent
<1>1. MirrorInv => PanelIsCurrent  BY DEF MirrorInv, CacheInv, PanelIsCurrent
<1> QED BY <1>1, MirrorAlways, PTL
=============================================================================
