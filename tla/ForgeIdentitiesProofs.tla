----------------------- MODULE ForgeIdentitiesProofs -----------------------
(***************************************************************************)
(* What the Forge promises for any number of releases, handlers, campaigns,*)
(* assignments and faults: only what was reviewed, submitted and moderated *)
(* is public, an assignment that was closed stays closed, and an accepted  *)
(* one is granted by the authority.                                        *)
(***************************************************************************)
EXTENDS ForgeIdentities, WellFoundedInduction, TLAPS

\* What a handler that calls the authority does, and about which assignment.
Roles == \A h \in Handlers :
    /\ handler[h].pc = "suspending" => handler[h].op \in {"suspend", "takedown"}
    /\ handler[h].pc \in {"calling", "answered"} =>
          handler[h].op \in {"accept"} \cup Revoking /\ Of(h) \in Ids
    /\ handler[h].op = "accept" => handler[h].pc \in {"calling", "answered"}

\* A release that waits was submitted and one that is approved was reviewed; a
\* moderator about to approve one has seen both.
PublishInv ==
    /\ \A r \in Releases :
          /\ release[r].approved => r \in reviewed
          /\ release[r].status = "moderation_pending" => r \in submitted
    /\ OnlyReviewedIsPublished
    /\ \A h \in Handlers : handler[h].op = "approve" =>
          handler[h].r \in reviewed \cap submitted

\* Who accepts an assignment holds its row, and it is pending.
Decides == \A h \in Handlers :
    handler[h].op = "accept" => lock[Of(h)] = h /\ assignment[Of(h)].status = "pending"

\* An open assignment has the only key of its campaign.
Keyed ==
    /\ \A i \in Ids : assignment[i].status \in Open => assignment[i].key
    /\ \A i, j \in Ids : assignment[i].key /\ assignment[j].key /\ i[1] = j[1] => i = j

\* What is accepted, or about to be, is granted, or revoked before long.
Accepting(i) == \E h \in Handlers : At(h, "answered", "accept") /\ Of(h) = i
Leaving(i) == \E h \in Handlers :
    handler[h].pc = "answered" /\ handler[h].op \in Revoking /\ Of(h) = i
GrantInv == ~loose => \A i \in Ids :
    assignment[i].status = "accepted" \/ Accepting(i) => i[1] \in granted \/ Leaving(i)

HostInv == Roles /\ Decides /\ Keyed /\ GrantInv

-----------------------------------------------------------------------------
(* Handlers and assignments.                                               *)
LEMMA IdleType ==
    /\ Idle \in Requests /\ Idle.pc = "idle" /\ Idle.op = "none" /\ Idle.r = Nobody
    /\ Idle.todo = {} /\ Idle.a = <<Nobody, 0>> /\ <<Nobody, 0>> \in (Campaigns \cup {Nobody}) \X Nat
  BY DEF Idle, Requests, Statuses, Works

LEMMA IdsType ==
    /\ Ids \subseteq (Campaigns \cup {Nobody}) \X Nat
    /\ \A i \in Ids : i[1] \in Campaigns /\ i[2] \in Nat /\ i = <<i[1], i[2]>>
  BY IdentityAssumption DEF Ids

LEMMA NextUnusedType ==
    ASSUME NEW c, Unused(c) # {}
    PROVE  /\ NextUnused(c) \in Ids /\ NextUnused(c)[1] = c
           /\ assignment[NextUnused(c)].status = "none"
<1> DEFINE R == {p \in Nat \X Nat : p[1] < p[2]}
           S == {i[2] : i \in Unused(c)}
<1>1. IsWellFoundedOn(R, Nat)  BY NatLessThanWellFounded DEF OpToRel
<1>2. S \subseteq Nat /\ S # {}  BY IdsType DEF Unused, Slots
<1>3. PICK x \in S : \A y \in S : ~(<<y, x>> \in R)  BY <1>1, <1>2, WFMin
<1>4. PICK i \in Unused(c) : i[2] = x  BY <1>3
<1>5. ASSUME NEW k \in Unused(c) PROVE i[2] <= k[2]
  <2>1. k[2] \in S /\ x \in Nat /\ k[2] \in Nat  BY <1>2
  <2>2. ~(k[2] < x)  BY <1>3, <2>1
  <2> QED BY <1>4, <2>1, <2>2
<1>6. NextUnused(c) \in Unused(c)  BY <1>5 DEF NextUnused
<1> QED BY <1>6 DEF Unused, Slots

Alone(h) == \A k \in Handlers \ {h} : handler'[k] = handler[k]

LEMMA StartsFacts ==
    ASSUME TypeOK, NEW h \in Handlers, NEW q \in Requests, Starts(h, q)
    PROVE  /\ handler' \in [Handlers -> Requests] /\ handler'[h] = q /\ Alone(h)
           /\ handler[h].pc = "idle"
  BY DEF TypeOK, Starts, Alone

LEMMA LeavesFacts ==
    ASSUME TypeOK, NEW h \in Handlers, Leaves(h)
    PROVE  /\ handler' \in [Handlers -> Requests] /\ handler'[h] = Idle /\ Alone(h)
  BY IdleType DEF TypeOK, Leaves, Alone

LEMMA EndsFacts ==
    ASSUME TypeOK, NEW h \in Handlers, Ends(h)
    PROVE  /\ handler' \in [Handlers -> Requests] /\ handler'[h] = Idle /\ Alone(h)
           /\ lock' \in [Ids -> Handlers \cup {Nobody}]
           /\ \A i \in Ids : lock[i] # h => lock'[i] = lock[i]
<1>1. lock' = [i \in Ids |-> IF lock[i] = h THEN Nobody ELSE lock[i]]  BY DEF Ends
<1>2. Leaves(h)  BY DEF Ends
<1> QED BY <1>1, <1>2, LeavesFacts DEF TypeOK

-----------------------------------------------------------------------------
(* Publication.                                                            *)

\* What a step owes to the publications.
Publishes(h) ==
    /\ Alone(h)
    /\ reviewed \subseteq reviewed' /\ submitted \subseteq submitted' /\ moderated \subseteq moderated'
    /\ \A r \in Releases :
          /\ release'[r].approved => release[r].approved \/ r \in reviewed'
          /\ release'[r].status = "moderation_pending" =>
                release[r].status = "moderation_pending" \/ r \in submitted'
          /\ release'[r].status = "published" =>
                \/ release[r].status = "published"
                \/ r \in reviewed \cap submitted /\ r \in moderated'
    /\ handler'[h].op = "approve" =>
          \/ handler[h].op = "approve" /\ handler'[h].r = handler[h].r
          \/ handler'[h].r \in reviewed \cap submitted

LEMMA PublishesInv ==
    ASSUME PublishInv, NEW h \in Handlers, Publishes(h)
    PROVE  PublishInv'
<1>1. \A r \in Releases : /\ release'[r].approved => r \in reviewed'
                          /\ release'[r].status = "moderation_pending" => r \in submitted'
  BY DEF PublishInv, Publishes
<1>2. OnlyReviewedIsPublished'
  BY DEF PublishInv, Publishes, OnlyReviewedIsPublished
<1>3. \A k \in Handlers : handler'[k].op = "approve" => handler'[k].r \in reviewed' \cap submitted'
  BY DEF PublishInv, Publishes, Alone
<1> QED BY <1>1, <1>2, <1>3 DEF PublishInv

\* What a step of the publications leaves to the assignments.
Mild(h) ==
    /\ Alone(h) /\ UNCHANGED <<assignment, lock, granted, loose>>
    /\ handler[h].pc \notin {"calling", "answered"}
    /\ handler'[h].op # "accept"
    /\ handler'[h].pc = "suspending" => handler'[h].op \in {"suspend", "takedown"}
    /\ handler'[h].pc \in {"calling", "answered"} => handler'[h].op \in Revoking /\ handler'[h].a \in Ids

LEMMA LoadsFacts ==
    ASSUME TypeOK, NEW h \in Handlers, NEW r \in Releases,
           NEW op \in {"review", "submit", "approve", "reject", "withdraw"}, Loads(h, op, r)
    PROVE  /\ handler' \in [Handlers -> Requests] /\ Alone(h) /\ handler[h].pc = "idle"
           /\ handler'[h].op = op /\ handler'[h].r = r /\ handler'[h].pc = "loaded"
<1> DEFINE q == [Idle EXCEPT !.pc = "loaded", !.op = op, !.r = r, !.seen = release[r].status,
                             !.work = IF op \in Publishing THEN artifact.status ELSE @]
<1>1. q \in Requests /\ q.op = op /\ q.r = r /\ q.pc = "loaded"
  <2>1. release[r].status \in Statuses /\ artifact.status \in Works  BY DEF TypeOK
  <2> QED BY <2>1, IdleType, ZenonT(30) DEF Idle, Requests, Works
<1>2. Starts(h, q)  BY DEF Loads
<1> QED BY <1>1, <1>2, StartsFacts

LEMMA ReviewSteps ==
    ASSUME TypeOK, PublishInv, NEW h \in Handlers, UNCHANGED hosts,
           \/ \E r \in Releases :
                \/ ReviewStarts(h, r) \/ SubmitLoads(h, r)
                \/ \E op \in {"approve", "reject", "withdraw"} : ModerateLoads(h, r, op)
           \/ EditLoads(h)
    PROVE  TypeOK' /\ Publishes(h) /\ Mild(h)
<1>1. UNCHANGED <<release, artifact, past>>
  BY DEF ReviewStarts, SubmitLoads, ModerateLoads, EditLoads
<1>2. /\ handler' \in [Handlers -> Requests] /\ Alone(h) /\ handler[h].pc = "idle"
      /\ handler'[h].op # "accept" /\ handler'[h].pc = "loaded"
      /\ handler'[h].op = "approve" => handler'[h].r \in reviewed \cap submitted
  <2>1. CASE EditLoads(h)
    <3> DEFINE q == [Idle EXCEPT !.pc = "loaded", !.op = "edit"]
    <3>1. q \in Requests /\ q.op = "edit" /\ q.pc = "loaded"  BY IdleType DEF Idle, Requests
    <3>2. Starts(h, q)  BY <2>1 DEF EditLoads
    <3> QED BY <3>1, <3>2, StartsFacts
  <2>2. CASE ~EditLoads(h)
    <3>1. PICK r \in Releases : \/ ReviewStarts(h, r) \/ SubmitLoads(h, r)
                                \/ \E op \in {"approve", "reject", "withdraw"} : ModerateLoads(h, r, op)
      BY <2>2
    <3>2. CASE ReviewStarts(h, r)  BY <3>2, LoadsFacts DEF ReviewStarts
    <3>3. CASE SubmitLoads(h, r)  BY <3>3, LoadsFacts DEF SubmitLoads
    <3>4. CASE \E op \in {"approve", "reject", "withdraw"} : ModerateLoads(h, r, op)
      <4>1. PICK op \in {"approve", "reject", "withdraw"} : ModerateLoads(h, r, op)  BY <3>4
      <4>2. op = "approve" => r \in reviewed \cap submitted
        BY <4>1 DEF ModerateLoads, PublishInv
      <4>3. Loads(h, op, r)  BY <4>1 DEF ModerateLoads
      <4> QED BY <4>2, <4>3, LoadsFacts
    <3> QED BY <3>1, <3>2, <3>3, <3>4
  <2> QED BY <2>1, <2>2
<1>3. TypeOK'  BY <1>1, <1>2 DEF TypeOK, hosts
<1> QED BY <1>1, <1>2, <1>3 DEF Publishes, Mild, hosts, past

ReleaseType == [Releases -> [status : Statuses, approved : BOOLEAN]]

LEMMA SetsFacts ==
    ASSUME TypeOK, NEW h \in Handlers, NEW value \in Statuses, SetsStatus(h, value)
    PROVE  /\ release' \in ReleaseType
           /\ \A r \in Releases :
                 /\ release'[r].approved = release[r].approved
                 /\ \/ release'[r].status = release[r].status
                    \/ r = handler[h].r /\ release'[r].status = value
<1>1. CASE handler[h].r \in Releases
  <2>1. Status(h, value) \in {value, release[handler[h].r].status}  BY DEF Status, Written
  <2>2. release' = [release EXCEPT ![handler[h].r].status = Status(h, value)]  BY DEF SetsStatus
  <2> QED BY <1>1, <2>1, <2>2 DEF TypeOK, ReleaseType
<1>2. CASE handler[h].r \notin Releases
  <2>1. release' = release  BY <1>2 DEF SetsStatus, TypeOK
  <2> QED BY <2>1 DEF TypeOK, ReleaseType
<1> QED BY <1>1, <1>2

LEMMA WorkFacts ==
    ASSUME TypeOK, NEW h \in Handlers, NEW value \in Works,
           artifact' = [artifact EXCEPT !.status = Work(h, value)]
    PROVE  artifact' \in [status : Works, passes : Checks]
<1>1. Work(h, value) \in Works  BY DEF Work, Written, TypeOK
<1> QED BY <1>1 DEF TypeOK

LEMMA CommitSteps ==
    ASSUME TypeOK, PublishInv, NEW h \in Handlers, UNCHANGED hosts,
           \/ ReviewFails(h) \/ \E approved \in BOOLEAN : ReviewCommits(h, approved)
           \/ SubmitCommits(h) \/ ApproveCommits(h) \/ RejectCommits(h) \/ WithdrawCommits(h)
           \/ EditCommits(h)
    PROVE  TypeOK' /\ Publishes(h) /\ Mild(h)
<1>1. Leaves(h) /\ handler[h].pc = "loaded"
  BY DEF ReviewFails, ReviewCommits, SubmitCommits, ApproveCommits, RejectCommits,
         WithdrawCommits, EditCommits, At
<1>2. handler' \in [Handlers -> Requests] /\ handler'[h] = Idle /\ Alone(h)
  BY <1>1, LeavesFacts
<1>3. Mild(h)  BY <1>1, <1>2, IdleType DEF Mild, hosts
<1>4. SUFFICES /\ release' \in ReleaseType /\ artifact' \in [status : Works, passes : Checks]
               /\ Publishes(h)
  BY <1>2, <1>3 DEF TypeOK, ReleaseType, hosts
<1>5. release \in ReleaseType /\ artifact \in [status : Works, passes : Checks]
  BY DEF TypeOK, ReleaseType
<1>6. CASE ReviewFails(h)
  BY <1>2, <1>5, <1>6, IdleType DEF ReviewFails, Publishes, past
<1>7. CASE \E approved \in BOOLEAN : ReviewCommits(h, approved)
  <2>1. PICK approved \in BOOLEAN : ReviewCommits(h, approved)  BY <1>7
  <2>2. UNCHANGED <<artifact, submitted, moderated>>
        /\ reviewed' = (IF approved THEN reviewed \cup {handler[h].r} ELSE reviewed)
    BY <2>1 DEF ReviewCommits
  <2>3. CASE handler[h].r \in Releases
    <3>1. Status(h, Verdict(approved)) \in
              {"agent_reviewed", "draft", release[handler[h].r].status}
      BY DEF Status, Written, Verdict
    <3>2. release' = [release EXCEPT ![handler[h].r] =
                         [status |-> Status(h, Verdict(approved)), approved |-> approved]]
      BY <2>1 DEF ReviewCommits
    <3>3. /\ release' \in ReleaseType
          /\ \A r \in Releases :
                \/ release'[r] = release[r]
                \/ /\ r = handler[h].r /\ release'[r].approved = approved
                   /\ release'[r].status \in {"agent_reviewed", "draft", release[r].status}
      BY <1>5, <2>3, <3>1, <3>2 DEF ReleaseType, Statuses
    <3> QED BY <1>2, <1>5, <2>2, <3>3, IdleType DEF Publishes
  <2>4. CASE handler[h].r \notin Releases
    <3>1. release' = release  BY <1>5, <2>1, <2>4 DEF ReviewCommits, ReleaseType
    <3> QED BY <1>2, <1>5, <2>2, <3>1, IdleType DEF Publishes
  <2> QED BY <2>3, <2>4
<1>8. CASE SubmitCommits(h)
  <2>1. SetsStatus(h, "moderation_pending") /\ submitted' = submitted \cup {handler[h].r}
        /\ UNCHANGED <<artifact, reviewed, moderated>>
    BY <1>8 DEF SubmitCommits
  <2>2. /\ release' \in ReleaseType
        /\ \A r \in Releases :
              /\ release'[r].approved = release[r].approved
              /\ \/ release'[r].status = release[r].status
                 \/ r = handler[h].r /\ release'[r].status = "moderation_pending"
    BY <2>1, SetsFacts DEF Statuses
  <2> QED BY <1>2, <1>5, <2>1, <2>2, IdleType DEF Publishes
<1>9. CASE ApproveCommits(h)
  <2>1. /\ SetsStatus(h, "published") /\ moderated' = moderated \cup {handler[h].r}
        /\ UNCHANGED <<reviewed, submitted>>
        /\ artifact' = [artifact EXCEPT !.status = Work(h, "published")]
    BY <1>9 DEF ApproveCommits
  <2>2. handler[h].r \in reviewed \cap submitted
    BY <1>9 DEF ApproveCommits, At, PublishInv
  <2>3. /\ release' \in ReleaseType
        /\ \A r \in Releases :
              /\ release'[r].approved = release[r].approved
              /\ \/ release'[r].status = release[r].status
                 \/ r = handler[h].r /\ release'[r].status = "published"
    BY <2>1, SetsFacts DEF Statuses
  <2>4. artifact' \in [status : Works, passes : Checks]  BY <2>1, WorkFacts DEF Works
  <2> QED BY <1>2, <2>1, <2>2, <2>3, <2>4, IdleType DEF Publishes
<1>10. CASE RejectCommits(h)
  <2>1. SetsStatus(h, "rejected") /\ UNCHANGED <<artifact, past>>  BY <1>10 DEF RejectCommits
  <2>2. /\ release' \in ReleaseType
        /\ \A r \in Releases :
              /\ release'[r].approved = release[r].approved
              /\ release'[r].status \in {release[r].status, "rejected"}
    BY <2>1, SetsFacts DEF Statuses
  <2> QED BY <1>2, <1>5, <2>1, <2>2, IdleType DEF Publishes, past
<1>11. CASE WithdrawCommits(h)
  <2>1. SetsStatus(h, "withdrawn") /\ UNCHANGED past
        /\ artifact' = [artifact EXCEPT !.status = Work(h, "withdrawn")]
    BY <1>11 DEF WithdrawCommits
  <2>2. /\ release' \in ReleaseType
        /\ \A r \in Releases :
              /\ release'[r].approved = release[r].approved
              /\ release'[r].status \in {release[r].status, "withdrawn"}
    BY <2>1, SetsFacts DEF Statuses
  <2>3. artifact' \in [status : Works, passes : Checks]  BY <2>1, WorkFacts DEF Works
  <2> QED BY <1>2, <2>1, <2>2, <2>3, IdleType DEF Publishes, past
<1>12. CASE EditCommits(h)
  <2>1. PICK check \in Checks : artifact' = [artifact EXCEPT !.passes = check]
    BY <1>12 DEF EditCommits
  <2>2. artifact' \in [status : Works, passes : Checks]  BY <1>5, <2>1
  <2> QED BY <1>2, <1>5, <1>12, <2>2, IdleType DEF EditCommits, Publishes, past
<1> QED BY <1>6, <1>7, <1>8, <1>9, <1>10, <1>11, <1>12

-----------------------------------------------------------------------------
(* Steps that read assignments.                                            *)
ClosedStay == \A i \in Ids :
    assignment[i].status \in {"rejected", "revoked"} => assignment'[i].status \notin Open

LEMMA MildInv ==
    ASSUME TypeOK, HostInv, NEW h \in Handlers, Mild(h)
    PROVE  HostInv' /\ ClosedStay
<1>1. Roles'  BY DEF HostInv, Roles, Mild, Alone, Of
<1>2. Decides'  BY DEF HostInv, Decides, Mild, Alone, Of
<1>3. Keyed'  BY DEF HostInv, Keyed, Mild
<1>4. \A i \in Ids : (Accepting(i)' => Accepting(i)) /\ (Leaving(i) => Leaving(i)')
  BY DEF Accepting, Leaving, Mild, Alone, At, Of
<1>5. GrantInv'  BY <1>4 DEF HostInv, GrantInv, Mild
<1>6. ClosedStay  BY DEF ClosedStay, Mild, Open
<1> QED BY <1>1, <1>2, <1>3, <1>5, <1>6 DEF HostInv

LEMMA OpensSteps ==
    ASSUME TypeOK, NEW h \in Handlers,
           \/ \E c \in Campaigns : InviteLoads(h, c)
           \/ \E i \in Ids : TalkLoads(h, i) \/ RevokeLoads(h, i)
           \/ \E op \in {"suspend", "takedown"} : ReportLoads(h, op)
    PROVE  TypeOK' /\ Publishes(h) /\ Mild(h)
<1>1. UNCHANGED <<forge, hosts>>
  BY DEF InviteLoads, TalkLoads, RevokeLoads, ReportLoads
<1>2. \E q \in Requests :
          /\ Starts(h, q) /\ q.op \notin {"accept", "approve"}
          /\ q.pc = "suspending" => q.op \in {"suspend", "takedown"}
          /\ q.pc \in {"calling", "answered"} => q.op \in Revoking /\ q.a \in Ids
  <2>1. CASE \E c \in Campaigns : InviteLoads(h, c)
    <3>1. PICK c \in Campaigns : InviteLoads(h, c)  BY <2>1
    <3> DEFINE q == [Idle EXCEPT !.pc = "loaded", !.op = "invite", !.a = <<c, 0>>]
    <3>2. q \in Requests /\ q.op = "invite" /\ q.pc = "loaded"  BY IdleType DEF Idle, Requests
    <3> QED BY <3>1, <3>2 DEF InviteLoads
  <2>2. CASE \E i \in Ids : TalkLoads(h, i)
    <3>1. PICK i \in Ids : TalkLoads(h, i)  BY <2>2
    <3> DEFINE q == [Idle EXCEPT !.pc = "loaded", !.op = "talk", !.a = i]
    <3>2. q \in Requests /\ q.op = "talk" /\ q.pc = "loaded"  BY IdleType, IdsType DEF Idle, Requests
    <3> QED BY <3>1, <3>2 DEF TalkLoads
  <2>3. CASE \E i \in Ids : RevokeLoads(h, i)
    <3>1. PICK i \in Ids : RevokeLoads(h, i)  BY <2>3
    <3> DEFINE q == [Idle EXCEPT !.pc = AsksAuthority(assignment[i].status), !.op = "revoke", !.a = i]
    <3>2. /\ q \in Requests /\ q.op = "revoke" /\ q.pc \in {"calling", "answered"} /\ q.a = i
      BY IdleType, IdsType DEF Idle, Requests, AsksAuthority, Revoking
    <3> QED BY <3>1, <3>2 DEF RevokeLoads, Revoking
  <2>4. CASE \E op \in {"suspend", "takedown"} : ReportLoads(h, op)
    <3>1. PICK op \in {"suspend", "takedown"} : ReportLoads(h, op)  BY <2>4
    <3> DEFINE todo == IF identity = "none" THEN {} ELSE
                          {<<i, assignment[i].status>> : i \in {j \in Ids :
                              assignment[j].status \in Open}}
               q == [Idle EXCEPT !.pc = "suspending", !.op = op,
                         !.work = IF op = "takedown" THEN artifact.status ELSE @,
                         !.had = (identity # "none"), !.todo = todo]
    <3>2. todo \in SUBSET (Ids \X Open)  OBVIOUS
    <3>3. artifact.status \in Works /\ Idle.work \in Works /\ (identity # "none") \in BOOLEAN
      BY DEF TypeOK, Idle, Works
    <3>4. q \in Requests /\ q.op = op /\ q.pc = "suspending"
      <4> HIDE DEF todo
      <4> QED BY <3>2, <3>3, IdleType DEF Idle, Requests, Revoking
    <3> QED BY <3>1, <3>4 DEF ReportLoads
  <2> QED BY <2>1, <2>2, <2>3, <2>4
<1>3. /\ handler' \in [Handlers -> Requests] /\ Alone(h) /\ handler[h].pc = "idle"
      /\ handler'[h].op \notin {"accept", "approve"}
      /\ handler'[h].pc = "suspending" => handler'[h].op \in {"suspend", "takedown"}
      /\ handler'[h].pc \in {"calling", "answered"} => handler'[h].op \in Revoking /\ handler'[h].a \in Ids
  BY <1>2, StartsFacts
<1>4. TypeOK'  BY <1>1, <1>3 DEF TypeOK, forge, hosts
<1> QED BY <1>1, <1>3, <1>4 DEF Publishes, Mild, forge, hosts, past

LEMMA SuspendSteps ==
    ASSUME TypeOK, HostInv, NEW h \in Handlers,
           TalkCommits(h) \/ SuspendsNext(h) \/ ReportCommits(h)
    PROVE  TypeOK' /\ Publishes(h) /\ Mild(h)
<1>1. CASE TalkCommits(h)
  <2>1. /\ handler' \in [Handlers -> Requests] /\ handler'[h] = Idle /\ Alone(h)
        /\ handler[h].pc = "loaded"
    BY <1>1, LeavesFacts DEF TalkCommits, At
  <2>2. conversation' \in [Ids -> {"none", "active", "closed"}]
    BY <1>1 DEF TalkCommits, TypeOK
  <2>3. UNCHANGED <<forge, identity, assignment, lock, granted, loose, faults>>
    BY <1>1 DEF TalkCommits
  <2>4. TypeOK'  BY <2>1, <2>2, <2>3 DEF TypeOK, forge
  <2> QED BY <2>1, <2>3, <2>4, IdleType DEF Publishes, Mild, forge, past
<1>2. CASE SuspendsNext(h)
  <2>1. handler[h].op \in {"suspend", "takedown"} /\ handler[h].pc = "suspending"
    BY <1>2 DEF SuspendsNext, HostInv, Roles
  <2>2. PICK t \in handler[h].todo :
            handler' = [handler EXCEPT ![h].pc = AsksAuthority(t[2]), ![h].a = t[1],
                                       ![h].todo = @ \ {t}]
    BY <1>2 DEF SuspendsNext
  <2>3. t[1] \in Ids /\ handler[h] \in Requests /\ handler[h].todo \ {t} \in SUBSET (Ids \X Open)
    BY <2>2 DEF TypeOK, Requests
  <2>4. AsksAuthority(t[2]) \in {"calling", "answered"}  BY DEF AsksAuthority
  <2>5. /\ handler' \in [Handlers -> Requests] /\ Alone(h)
        /\ handler'[h].op = handler[h].op /\ handler'[h].pc = AsksAuthority(t[2])
        /\ handler'[h].a = t[1]
    BY <2>2, <2>3, <2>4, IdsType DEF TypeOK, Requests, Alone
  <2>6. UNCHANGED <<forge, hosts>>  BY <1>2 DEF SuspendsNext
  <2>7. TypeOK'  BY <2>5, <2>6 DEF TypeOK, forge, hosts
  <2> QED BY <2>1, <2>3, <2>4, <2>5, <2>6, <2>7 DEF Publishes, Mild, forge, hosts, past, Revoking
<1>3. CASE ReportCommits(h)
  <2>1. /\ handler' \in [Handlers -> Requests] /\ handler'[h] = Idle /\ Alone(h)
        /\ handler[h].pc = "suspending"
    BY <1>3, LeavesFacts DEF ReportCommits
  <2>2. UNCHANGED <<past, assignment, lock, conversation, granted, loose, faults>>
    BY <1>3 DEF ReportCommits
  <2>3. identity' \in {"none", "active", "suspended"}  BY <1>3 DEF ReportCommits, TypeOK
  <2>4. /\ release' \in ReleaseType /\ artifact' \in [status : Works, passes : Checks]
        /\ \A r \in Releases :
              /\ release'[r].approved = release[r].approved
              /\ release'[r].status \in {release[r].status, "withdrawn"}
    <3>1. CASE handler[h].op = "takedown"
      <4>1. artifact' = [artifact EXCEPT !.status = Work(h, "withdrawn")]
            /\ release' = [r \in Releases |-> IF release[r].status = "published"
                               THEN [release[r] EXCEPT !.status = "withdrawn"] ELSE release[r]]
        BY <1>3, <3>1 DEF ReportCommits
      <4>2. artifact' \in [status : Works, passes : Checks]  BY <4>1, WorkFacts DEF Works
      <4> QED BY <4>1, <4>2 DEF TypeOK, ReleaseType, Statuses
    <3>2. CASE handler[h].op # "takedown"
      BY <1>3, <3>2 DEF ReportCommits, TypeOK, ReleaseType
    <3> QED BY <3>1, <3>2
  <2>5. TypeOK'  BY <2>1, <2>2, <2>3, <2>4 DEF TypeOK, ReleaseType, past
  <2> QED BY <2>1, <2>2, <2>4, <2>5, IdleType DEF Publishes, Mild, past
<1> QED BY <1>1, <1>2, <1>3

-----------------------------------------------------------------------------
(* Steps that decide assignments.                                          *)
Statused == [status : {"none", "pending", "accepted", "rejected", "revoked"}, key : BOOLEAN]
Locked == [Ids -> Handlers \cup {Nobody}]

LEMMA QuietPublishes ==
    ASSUME NEW h \in Handlers, Alone(h), UNCHANGED <<release, past>>, handler'[h].op # "approve"
    PROVE  Publishes(h)
  BY DEF Publishes, past

LEMMA InviteSteps ==
    ASSUME TypeOK, HostInv, NEW h \in Handlers, InviteCommits(h)
    PROVE  TypeOK' /\ Publishes(h) /\ HostInv' /\ ClosedStay
<1> DEFINE c == Of(h)[1]
<1>1. /\ handler' \in [Handlers -> Requests] /\ handler'[h] = Idle /\ Alone(h)
      /\ At(h, "loaded", "invite")
  BY LeavesFacts DEF InviteCommits
<1>2. UNCHANGED <<forge, identity, lock, conversation, granted, loose, faults>>
  BY DEF InviteCommits
<1>3. \/ assignment' = assignment
      \/ \E i \in Ids :
            /\ assignment[i].status = "none"
            /\ \A j \in Ids : j[1] = i[1] => ~assignment[j].key
            /\ assignment' = [assignment EXCEPT ![i] = [status |-> "pending", key |-> TRUE]]
  <2>1. CASE Unused(c) = {} \/ \E i \in Slots(c) : assignment[i].key
    BY <2>1 DEF InviteCommits
  <2>2. CASE Unused(c) # {} /\ ~\E i \in Slots(c) : assignment[i].key
    <3>1. assignment' = [assignment EXCEPT ![NextUnused(c)] = [status |-> "pending", key |-> TRUE]]
      BY <2>2 DEF InviteCommits
    <3> QED BY <2>2, <3>1, NextUnusedType DEF Slots
  <2> QED BY <2>1, <2>2
<1>4. QED
  <2>1. CASE assignment' = assignment
    <3>1. TypeOK'  BY <1>1, <1>2, <2>1 DEF TypeOK, forge
    <3>2. Mild(h)  BY <1>1, <1>2, <2>1, IdleType DEF Mild, At
    <3> QED BY <1>1, <1>2, <3>1, <3>2, MildInv, QuietPublishes, IdleType DEF forge
  <2>2. CASE \E i \in Ids :
            /\ assignment[i].status = "none"
            /\ \A j \in Ids : j[1] = i[1] => ~assignment[j].key
            /\ assignment' = [assignment EXCEPT ![i] = [status |-> "pending", key |-> TRUE]]
    <3>1. PICK i \in Ids :
            /\ assignment[i].status = "none"
            /\ \A j \in Ids : j[1] = i[1] => ~assignment[j].key
            /\ assignment' = [assignment EXCEPT ![i] = [status |-> "pending", key |-> TRUE]]
      BY <2>2
    <3>2. /\ assignment' \in [Ids -> Statused]
          /\ assignment'[i] = [status |-> "pending", key |-> TRUE]
          /\ \A j \in Ids \ {i} : assignment'[j] = assignment[j]
      BY <3>1 DEF TypeOK, Statused
    <3>3. TypeOK'  BY <1>1, <1>2, <3>2 DEF TypeOK, Statused, forge
    <3>4. Roles'  BY <1>1, IdleType DEF HostInv, Roles, Alone, Of
    <3>5. Decides'  BY <1>1, <1>2, <3>1, <3>2, IdleType DEF HostInv, Decides, Roles, Alone, Of
    <3>6. Keyed'  BY <3>1, <3>2 DEF HostInv, Keyed
    <3>7. \A j \in Ids : (Accepting(j)' => Accepting(j)) /\ (Leaving(j) => Leaving(j)')
      BY <1>1, IdleType DEF Accepting, Leaving, Alone, At, Of
    <3>8. GrantInv'  BY <1>2, <3>2, <3>7 DEF HostInv, GrantInv
    <3>9. ClosedStay  BY <3>1, <3>2 DEF ClosedStay, Open
    <3> QED BY <1>1, <1>2, <3>3, <3>4, <3>5, <3>6, <3>8, <3>9, QuietPublishes, IdleType
            DEF HostInv, forge
  <2> QED BY <1>3, <2>1, <2>2

LEMMA AcceptStartsSteps ==
    ASSUME TypeOK, HostInv, NEW h \in Handlers, NEW i \in Ids, AcceptStarts(h, i)
    PROVE  TypeOK' /\ Publishes(h) /\ HostInv' /\ ClosedStay
<1> DEFINE q == [Idle EXCEPT !.pc = "calling", !.op = "accept", !.a = i]
<1>1. q \in Requests /\ q.op = "accept" /\ q.pc = "calling" /\ q.a = i
  BY IdleType, IdsType DEF Idle, Requests
<1>2. /\ handler' \in [Handlers -> Requests] /\ handler'[h] = q /\ Alone(h)
      /\ handler[h].pc = "idle"
  BY <1>1, StartsFacts DEF AcceptStarts
<1>3. /\ lock' \in Locked /\ lock[i] = Nobody /\ lock'[i] = h
      /\ \A j \in Ids \ {i} : lock'[j] = lock[j]
  BY DEF AcceptStarts, TakesAssignment, TypeOK, Locked
<1>4. /\ assignment[i].status = "pending"
      /\ UNCHANGED <<forge, identity, assignment, conversation, granted, loose, faults>>
  BY DEF AcceptStarts
<1>5. TypeOK'  BY <1>2, <1>3, <1>4 DEF TypeOK, Locked, forge
<1>6. Roles'  BY <1>1, <1>2 DEF HostInv, Roles, Alone, Of
<1>7. Decides'
  <2> SUFFICES ASSUME NEW k \in Handlers, handler'[k].op = "accept"
               PROVE  lock'[handler'[k].a] = k /\ assignment'[handler'[k].a].status = "pending"
    BY DEF Decides, Of
  <2>1. CASE k = h  BY <1>1, <1>2, <1>3, <1>4, <2>1
  <2>2. CASE k # h
    <3>1. handler'[k] = handler[k]  BY <1>2, <2>2 DEF Alone
    <3>2. /\ Of(k) \in Ids /\ lock[Of(k)] = k /\ Of(k) # i
          /\ assignment[Of(k)].status = "pending"
      BY <1>3, <3>1, ForgeAssumption DEF HostInv, Decides, Roles
    <3> QED BY <1>3, <1>4, <3>1, <3>2 DEF Of
  <2> QED BY <2>1, <2>2
<1>8. Keyed'  BY <1>4 DEF HostInv, Keyed
<1>9. \A j \in Ids : (Accepting(j)' => Accepting(j)) /\ (Leaving(j) => Leaving(j)')
  BY <1>1, <1>2 DEF Accepting, Leaving, Alone, At, Of
<1>10. GrantInv'  BY <1>4, <1>9 DEF HostInv, GrantInv
<1>11. ClosedStay  BY <1>4 DEF ClosedStay, Open
<1> QED BY <1>1, <1>2, <1>4, <1>5, <1>6, <1>7, <1>8, <1>10, <1>11, QuietPublishes DEF HostInv, forge

\* Who accepts or is about to holds the row; another one does not.
LEMMA OneDecides ==
    ASSUME HostInv, NEW h \in Handlers, NEW k \in Handlers, handler[k].op = "accept", k # h
    PROVE  Of(k) \in Ids /\ lock[Of(k)] = k /\ lock[Of(k)] \notin {h, Nobody}
  BY ForgeAssumption DEF HostInv, Decides, Roles

LEMMA AcceptCommitsSteps ==
    ASSUME TypeOK, HostInv, NEW h \in Handlers, AcceptCommits(h)
    PROVE  TypeOK' /\ Publishes(h) /\ HostInv' /\ ClosedStay
<1> DEFINE i == Of(h)
<1>1. /\ handler' \in [Handlers -> Requests] /\ handler'[h] = Idle /\ Alone(h)
      /\ lock' \in [Ids -> Handlers \cup {Nobody}]
      /\ \A j \in Ids : lock[j] # h => lock'[j] = lock[j]
      /\ At(h, "answered", "accept")
  BY EndsFacts DEF AcceptCommits
<1>2. i \in Ids /\ lock[i] = h /\ assignment[i].status = "pending"
  BY <1>1 DEF At, HostInv, Roles, Decides
<1>3. UNCHANGED <<forge, identity, conversation, granted, loose, faults>>  BY DEF AcceptCommits
<1>4. /\ assignment' \in [Ids -> Statused] /\ assignment'[i].status = "accepted"
      /\ \A j \in Ids : assignment'[j].key = assignment[j].key
      /\ \A j \in Ids \ {i} : assignment'[j] = assignment[j]
  BY <1>2 DEF AcceptCommits, TypeOK, Statused
<1> HIDE DEF i
<1>5. TypeOK'  BY <1>1, <1>3, <1>4 DEF TypeOK, Statused, forge
<1>6. Roles'  BY <1>1, IdleType DEF HostInv, Roles, Alone, Of
<1>7. Decides'
  <2> SUFFICES ASSUME NEW k \in Handlers, handler'[k].op = "accept"
               PROVE  lock'[handler'[k].a] = k /\ assignment'[handler'[k].a].status = "pending"
    BY DEF Decides, Of
  <2>1. k # h /\ handler'[k] = handler[k]  BY <1>1, IdleType DEF Alone
  <2>2. Of(k) \in Ids /\ lock[Of(k)] = k /\ lock[Of(k)] \notin {h, Nobody}
    BY <2>1, OneDecides
  <2>3. assignment[Of(k)].status = "pending" /\ Of(k) # i
    BY <1>2, <2>1, <2>2 DEF HostInv, Decides
  <2> QED BY <1>1, <1>4, <2>1, <2>2, <2>3 DEF Of
<1>8. Keyed'
  <2>1. assignment[i].key  BY <1>2 DEF HostInv, Keyed, Open
  <2> QED BY <1>4, <2>1 DEF HostInv, Keyed
<1>9. \A j \in Ids : (Accepting(j)' => Accepting(j)) /\ (Leaving(j) => Leaving(j)')
  BY <1>1, IdleType DEF Accepting, Leaving, Alone, At, Of, Revoking
<1>10. Accepting(i)  BY <1>1 DEF Accepting, i
<1>11. GrantInv'  BY <1>3, <1>4, <1>9, <1>10 DEF HostInv, GrantInv
<1>12. ClosedStay  BY <1>2, <1>4 DEF ClosedStay, Open
<1> QED BY <1>1, <1>3, <1>5, <1>6, <1>7, <1>8, <1>11, <1>12, QuietPublishes, IdleType DEF HostInv, forge

LEMMA RejectSteps ==
    ASSUME TypeOK, HostInv, NEW i \in Ids, RejectsAssignment(i)
    PROVE  TypeOK' /\ HostInv' /\ ClosedStay
<1>1. UNCHANGED <<forge, handler, identity, lock, conversation, granted, loose, faults>>
      /\ lock[i] = Nobody
  BY DEF RejectsAssignment
<1>2. /\ assignment' \in [Ids -> Statused]
      /\ assignment'[i] = [status |-> "rejected", key |-> FALSE]
      /\ \A j \in Ids \ {i} : assignment'[j] = assignment[j]
  BY DEF RejectsAssignment, TypeOK, Statused
<1>3. TypeOK'  BY <1>1, <1>2 DEF TypeOK, Statused, forge
<1>4. Roles'  BY <1>1 DEF HostInv, Roles, Of
<1>5. Decides'
  <2>1. \A k \in Handlers : handler[k].op = "accept" => Of(k) \in Ids /\ Of(k) # i
    BY <1>1, ForgeAssumption DEF HostInv, Decides, Roles
  <2> QED BY <1>1, <1>2, <2>1 DEF HostInv, Decides, Of
<1>6. Keyed'  BY <1>2 DEF HostInv, Keyed, Open
<1>7. \A j \in Ids : (Accepting(j)' => Accepting(j)) /\ (Leaving(j) => Leaving(j)')
  BY <1>1 DEF Accepting, Leaving, At, Of
<1>8. GrantInv'
  <2>1. ~Accepting(i)  BY <1>1, ForgeAssumption DEF Accepting, At, HostInv, Decides
  <2> QED BY <1>1, <1>2, <1>7, <2>1 DEF HostInv, GrantInv
<1>9. ClosedStay  BY <1>2 DEF ClosedStay, Open
<1> QED BY <1>3, <1>4, <1>5, <1>6, <1>8, <1>9 DEF HostInv

LEMMA RevokeSteps ==
    ASSUME TypeOK, HostInv, NEW h \in Handlers, RevokeCommits(h)
    PROVE  TypeOK' /\ Publishes(h) /\ HostInv' /\ ClosedStay
<1>1. /\ handler[h].pc = "answered" /\ handler[h].op \in Revoking /\ lock[Of(h)] \in {Nobody, h}
      /\ UNCHANGED <<forge, identity, lock, granted, loose, faults>>
  BY DEF RevokeCommits, Unlocked
<1>2. PICK i \in Ids : i = Of(h)  BY <1>1 DEF HostInv, Roles
<1>3. /\ handler' \in [Handlers -> Requests] /\ Alone(h)
      /\ handler'[h].op \in {"none", "suspend", "takedown"}
      /\ handler'[h].pc \in {"idle", "suspending"}
      /\ handler'[h].pc = "suspending" => handler'[h].op \in {"suspend", "takedown"}
  <2>1. CASE handler[h].op = "revoke"  BY <2>1, LeavesFacts, IdleType DEF RevokeCommits
  <2>2. CASE handler[h].op # "revoke"
    <3> DEFINE q == [handler[h] EXCEPT !.pc = "suspending", !.a = Idle.a]
    <3>1. handler' = [handler EXCEPT ![h] = q]  BY <2>2 DEF RevokeCommits
    <3>2. handler[h] \in Requests /\ handler[h].op \in {"suspend", "takedown"}
      BY <1>1, <2>2 DEF TypeOK, Revoking
    <3>3. q \in Requests /\ q.op = handler[h].op /\ q.pc = "suspending"
      BY <3>2, IdleType DEF Requests
    <3> HIDE DEF q
    <3> QED BY <3>1, <3>2, <3>3 DEF TypeOK, Alone
  <2> QED BY <2>1, <2>2
<1>4. /\ assignment' \in [Ids -> Statused]
      /\ assignment'[i] = [status |-> "revoked", key |-> FALSE]
      /\ \A j \in Ids \ {i} : assignment'[j] = assignment[j]
      /\ conversation' \in [Ids -> {"none", "active", "closed"}]
  BY <1>2 DEF RevokeCommits, TypeOK, Statused
<1>5. TypeOK'  BY <1>1, <1>3, <1>4 DEF TypeOK, Statused, forge
<1>6. Roles'  BY <1>3 DEF HostInv, Roles, Alone, Of
<1>7. \A k \in Handlers : handler'[k].op = "accept" =>
          k # h /\ handler'[k] = handler[k] /\ Of(k) \in Ids /\ Of(k) # i
  <2> SUFFICES ASSUME NEW k \in Handlers, handler'[k].op = "accept"
               PROVE  k # h /\ handler'[k] = handler[k] /\ Of(k) \in Ids /\ Of(k) # i
    OBVIOUS
  <2>1. k # h /\ handler'[k] = handler[k]  BY <1>3 DEF Alone
  <2> QED BY <1>1, <1>2, <2>1, OneDecides
<1>8. Decides'
  <2> SUFFICES ASSUME NEW k \in Handlers, handler'[k].op = "accept"
               PROVE  lock'[handler'[k].a] = k /\ assignment'[handler'[k].a].status = "pending"
    BY DEF Decides, Of
  <2> QED BY <1>1, <1>4, <1>7 DEF HostInv, Decides, Of
<1>9. Keyed'  BY <1>2, <1>4 DEF HostInv, Keyed, Open
<1>10. \A j \in Ids \ {i} : (Accepting(j)' => Accepting(j)) /\ (Leaving(j) => Leaving(j)')
  BY <1>2, <1>3 DEF Accepting, Leaving, Alone, At, Of
<1>11. ~Accepting(i)'
  <2>1. \A k \in Handlers : handler'[k].op = "accept" => handler'[k].a # i  BY <1>7 DEF Of
  <2> QED BY <2>1 DEF Accepting, At, Of
<1>12. GrantInv'  BY <1>1, <1>4, <1>10, <1>11 DEF HostInv, GrantInv
<1>13. ClosedStay  BY <1>4 DEF ClosedStay, Open
<1> QED BY <1>1, <1>3, <1>5, <1>6, <1>8, <1>9, <1>12, <1>13, QuietPublishes DEF HostInv, forge

-----------------------------------------------------------------------------
(* The calls of the authority.                                             *)
LEMMA CallsSteps ==
    ASSUME TypeOK, HostInv, NEW h \in Handlers, Calls(h)
    PROVE  TypeOK' /\ Publishes(h) /\ HostInv' /\ ClosedStay
<1>1. /\ handler[h].pc = "calling" /\ Effect(h) /\ loose' = (loose \/ Crossed(h))
      /\ UNCHANGED <<forge, identity, assignment, lock, conversation, faults>>
  BY DEF Calls
<1>2. PICK i \in Ids : i = Of(h)  BY <1>1 DEF HostInv, Roles
<1>3. handler[h].op \in {"accept"} \cup Revoking /\ i[1] \in Campaigns
  BY <1>1, <1>2, IdsType DEF HostInv, Roles
<1>4. /\ handler' \in [Handlers -> Requests] /\ Alone(h) /\ handler'[h].pc = "answered"
      /\ handler'[h].op = handler[h].op /\ handler'[h].a = i
  <2> DEFINE q == [handler[h] EXCEPT !.pc = "answered"]
  <2>1. handler' = [handler EXCEPT ![h] = q]  BY DEF Calls, Moves
  <2>2. handler[h] \in Requests /\ handler[h].a = i  BY <1>2 DEF TypeOK, Of
  <2>3. q \in Requests /\ q.op = handler[h].op /\ q.pc = "answered" /\ q.a = i
    BY <2>2 DEF Requests
  <2> HIDE DEF q
  <2> QED BY <2>1, <2>3 DEF TypeOK, Alone
<1>5. granted' = IF handler[h].op = "accept" THEN granted \cup {i[1]} ELSE granted \ {i[1]}
  BY <1>1, <1>2 DEF Effect
<1>6. TypeOK'
  <2>1. granted' \subseteq Campaigns  BY <1>3, <1>5 DEF TypeOK
  <2>2. loose' \in BOOLEAN  BY <1>1
  <2> QED BY <1>1, <1>4, <2>1, <2>2 DEF TypeOK, forge
<1>7. Roles'  BY <1>2, <1>3, <1>4 DEF HostInv, Roles, Alone, Of
<1>8. Decides'
  <2> SUFFICES ASSUME NEW k \in Handlers, handler'[k].op = "accept"
               PROVE  lock'[handler'[k].a] = k /\ assignment'[handler'[k].a].status = "pending"
    BY DEF Decides, Of
  <2>1. handler[k].op = "accept" /\ handler'[k].a = handler[k].a
    BY <1>2, <1>4 DEF Alone, Of
  <2> QED BY <1>1, <2>1 DEF HostInv, Decides, Of
<1>9. Keyed'  BY <1>1 DEF HostInv, Keyed
<1>10. \A j \in Ids : /\ Leaving(j) => Leaving(j)'
                      /\ Accepting(j)' => Accepting(j) \/ (handler[h].op = "accept" /\ j = i)
  BY <1>1, <1>4 DEF Accepting, Leaving, Alone, At, Of
<1>11. GrantInv'
  <2>1. CASE loose'  BY <2>1 DEF GrantInv
  <2>2. CASE ~loose'
    <3>1. ~loose /\ ~Crossed(h)  BY <1>1, <2>2
    <3>2. ASSUME NEW j \in Ids, assignment[j].status = "accepted" \/ Accepting(j)'
          PROVE  j[1] \in granted' \/ Leaving(j)'
      <4>1. CASE handler[h].op = "accept"
        BY <1>5, <1>10, <3>1, <3>2, <4>1 DEF HostInv, GrantInv
      <4>2. CASE handler[h].op # "accept"
        <5>1. assignment[i].status = "accepted" /\ handler[h].op \in Revoking
          BY <1>2, <1>3, <3>1, <4>2 DEF Crossed
        <5>2. Leaving(i)'  BY <1>4, <5>1 DEF Leaving, Of
        <5>3. assignment[j].status = "accepted" \/ Accepting(j)  BY <1>10, <3>2, <4>2
        <5>4. assignment[j].status \in Open
          BY <5>3 DEF Accepting, At, HostInv, Decides, Open
        <5>5. j[1] = i[1] => j = i  BY <1>2, <5>1, <5>4 DEF HostInv, Keyed, Open
        <5>6. j[1] \in granted \/ Leaving(j)  BY <3>1, <5>3 DEF HostInv, GrantInv
        <5> QED BY <1>5, <1>10, <4>2, <5>2, <5>5, <5>6
      <4> QED BY <4>1, <4>2
    <3> QED BY <1>1, <3>2 DEF GrantInv
  <2> QED BY <2>1, <2>2
<1>12. ClosedStay  BY <1>1 DEF ClosedStay, Open
<1>13. handler'[h].op # "approve"  BY <1>3, <1>4 DEF Revoking
<1> QED BY <1>1, <1>4, <1>6, <1>7, <1>8, <1>9, <1>11, <1>12, <1>13, QuietPublishes DEF HostInv, forge

LEMMA AbandonSteps ==
    ASSUME TypeOK, HostInv, NEW h \in Handlers, Refused(h) \/ LosesAnswer(h) \/ Dies(h)
    PROVE  TypeOK' /\ Publishes(h) /\ HostInv' /\ ClosedStay
<1>1. /\ handler' \in [Handlers -> Requests] /\ handler'[h] = Idle /\ Alone(h)
      /\ lock' \in [Ids -> Handlers \cup {Nobody}]
      /\ \A j \in Ids : lock[j] # h => lock'[j] = lock[j]
  BY EndsFacts DEF Refused, LosesAnswer, Dies
<1>2. UNCHANGED <<forge, identity, assignment, conversation>>
  BY DEF Refused, LosesAnswer, Dies
<1>3. \/ UNCHANGED <<granted, loose, faults>> /\ handler[h].pc = "calling"
      \/ /\ loose' = TRUE /\ Effect(h) /\ handler[h].pc = "calling"
         /\ faults < MaxFaults /\ faults' = faults + 1
      \/ /\ loose' = (loose \/ handler[h].pc = "answered") /\ granted' = granted
         /\ faults < MaxFaults /\ faults' = faults + 1
  BY DEF Refused, LosesAnswer, Dies
<1>4. loose' \in BOOLEAN  BY <1>3 DEF TypeOK
<1>5. faults' \in 0..MaxFaults  BY <1>3, IdentityAssumption DEF TypeOK
<1>6. granted' \subseteq Campaigns
  <2>1. CASE granted' = granted  BY <2>1 DEF TypeOK
  <2>2. CASE granted' # granted
    <3>1. handler[h].pc = "calling" /\ Effect(h)  BY <1>3, <2>2
    <3>2. Of(h)[1] \in Campaigns  BY <3>1, IdsType DEF HostInv, Roles
    <3> QED BY <3>1, <3>2 DEF Effect, TypeOK
  <2> QED BY <2>1, <2>2
<1>7. TypeOK'  BY <1>1, <1>2, <1>4, <1>5, <1>6 DEF TypeOK, forge
<1>8. Roles'  BY <1>1, IdleType DEF HostInv, Roles, Alone, Of
<1>9. Decides'
  <2> SUFFICES ASSUME NEW k \in Handlers, handler'[k].op = "accept"
               PROVE  lock'[handler'[k].a] = k /\ assignment'[handler'[k].a].status = "pending"
    BY DEF Decides, Of
  <2>1. k # h /\ handler'[k] = handler[k]  BY <1>1, IdleType DEF Alone
  <2>2. Of(k) \in Ids /\ lock[Of(k)] = k /\ lock[Of(k)] \notin {h, Nobody}
    BY <2>1, OneDecides
  <2> QED BY <1>1, <1>2, <2>1, <2>2 DEF HostInv, Decides, Of
<1>10. Keyed'  BY <1>2 DEF HostInv, Keyed
<1>11. GrantInv'
  <2>1. CASE loose'  BY <2>1 DEF GrantInv
  <2>2. CASE ~loose'
    <3>1. ~loose /\ granted' = granted /\ handler[h].pc # "answered"
      <4>1. CASE UNCHANGED <<granted, loose, faults>> /\ handler[h].pc = "calling"
        BY <2>2, <4>1
      <4>2. CASE loose' = (loose \/ handler[h].pc = "answered") /\ granted' = granted
        <5>1. ~(loose \/ handler[h].pc = "answered")  BY <2>2, <4>2
        <5> QED BY <4>2, <5>1
      <4> QED BY <1>3, <2>2, <4>1, <4>2
    <3>2. \A j \in Ids : (Accepting(j)' => Accepting(j)) /\ (Leaving(j) => Leaving(j)')
      BY <1>1, <3>1, IdleType DEF Accepting, Leaving, Alone, At, Of
    <3> QED BY <1>2, <3>1, <3>2 DEF HostInv, GrantInv
  <2> QED BY <2>1, <2>2
<1>12. ClosedStay  BY <1>2 DEF ClosedStay, Open
<1> QED BY <1>1, <1>2, <1>7, <1>8, <1>9, <1>10, <1>11, <1>12, QuietPublishes, IdleType DEF HostInv, forge

-----------------------------------------------------------------------------
(* The specification.                                                      *)
IInv == TypeOK /\ PublishInv /\ HostInv

LEMMA InvInit == Init => IInv
<1> SUFFICES ASSUME Init PROVE IInv  OBVIOUS
<1>1. /\ handler = [h \in Handlers |-> Idle] /\ release = [r \in Releases |-> NoRelease]
      /\ artifact = [status |-> "draft", passes |-> "submission"]
      /\ assignment = [i \in Ids |-> NoAssignment] /\ lock = [i \in Ids |-> Nobody]
      /\ conversation = [i \in Ids |-> "none"] /\ identity = "none"
      /\ granted = {} /\ loose = FALSE /\ faults = 0
  BY DEF Init, ForgeInit
<1>2. \A h \in Handlers : handler[h] = Idle  BY <1>1
<1>3. \A i \in Ids : assignment[i].status = "none" /\ assignment[i].key = FALSE
  BY <1>1 DEF NoAssignment
<1>4. TypeOK
  <2>1. NoRelease \in [status : Statuses, approved : BOOLEAN]  BY DEF NoRelease, Statuses
  <2>2. NoAssignment \in [status : {"none", "pending", "accepted", "rejected", "revoked"},
                          key : BOOLEAN]
    BY DEF NoAssignment
  <2>3. artifact \in [status : Works, passes : Checks]  BY <1>1 DEF Works, Checks
  <2>4. faults \in 0..MaxFaults  BY <1>1, IdentityAssumption
  <2> QED BY <1>1, <2>1, <2>2, <2>3, <2>4, IdleType DEF TypeOK
<1>5. PublishInv
  BY <1>1, <1>2, IdleType DEF PublishInv, OnlyReviewedIsPublished, NoRelease
<1>6. Roles /\ Decides  BY <1>2, IdleType DEF Roles, Decides
<1>7. Keyed  BY <1>3 DEF Keyed, Open
<1>8. GrantInv
  <2>1. \A i \in Ids : ~Accepting(i)  BY <1>2, IdleType DEF Accepting, At
  <2> QED BY <1>3, <2>1 DEF GrantInv
<1> QED BY <1>4, <1>5, <1>6, <1>7, <1>8 DEF IInv, HostInv

\* A step that leaves handlers, assignments and grants alone.
LEMMA StillInv ==
    ASSUME HostInv, UNCHANGED <<handler, assignment, lock, granted, loose>>
    PROVE  HostInv' /\ ClosedStay
<1>1. Roles' /\ Decides' /\ Keyed'  BY DEF HostInv, Roles, Decides, Keyed, Of
<1>2. \A i \in Ids : (Accepting(i)' <=> Accepting(i)) /\ (Leaving(i)' <=> Leaving(i))
  BY DEF Accepting, Leaving, At, Of
<1>3. GrantInv'  BY <1>2 DEF HostInv, GrantInv
<1>4. ClosedStay  BY DEF ClosedStay, Open
<1> QED BY <1>1, <1>3, <1>4 DEF HostInv

LEMMA InvNext == IInv /\ [Next]_vars => IInv' /\ ClosedStay
<1> SUFFICES ASSUME IInv, [Next]_vars PROVE IInv' /\ ClosedStay  OBVIOUS
<1> USE DEF IInv
<1>1. ASSUME NEW h \in Handlers, TypeOK' /\ Publishes(h) /\ HostInv' /\ ClosedStay
      PROVE  IInv' /\ ClosedStay
  BY <1>1, PublishesInv
<1>2. ASSUME NEW h \in Handlers, TypeOK' /\ Publishes(h) /\ Mild(h)
      PROVE  IInv' /\ ClosedStay
  BY <1>1, <1>2, MildInv
<1>3. CASE ForgeNext /\ UNCHANGED hosts
  <2>1. CASE \E r \in Releases : CreatesRelease(r)
    <3>1. PICK r \in Releases :
              release' = [release EXCEPT ![r] = Draft] /\ UNCHANGED <<artifact, past, handler>>
      BY <2>1 DEF CreatesRelease
    <3>2. /\ release' \in [Releases -> [status : Statuses, approved : BOOLEAN]]
          /\ \A s \in Releases : release'[s] \in {release[s], Draft}
      BY <3>1 DEF TypeOK, Draft, Statuses
    <3>3. TypeOK'  BY <1>3, <3>1, <3>2 DEF TypeOK, hosts
    <3>4. PublishInv'
      BY <3>1, <3>2 DEF PublishInv, OnlyReviewedIsPublished, Draft, past
    <3> QED BY <1>3, <3>1, <3>3, <3>4, StillInv DEF hosts
  <2>2. CASE ~\E r \in Releases : CreatesRelease(r)
    <3>1. PICK h \in Handlers :
              \/ \E r \in Releases :
                    \/ ReviewStarts(h, r) \/ SubmitLoads(h, r)
                    \/ \E op \in {"approve", "reject", "withdraw"} : ModerateLoads(h, r, op)
              \/ ReviewFails(h) \/ \E approved \in BOOLEAN : ReviewCommits(h, approved)
              \/ SubmitCommits(h) \/ ApproveCommits(h) \/ RejectCommits(h)
              \/ WithdrawCommits(h) \/ EditLoads(h) \/ EditCommits(h)
      BY <1>3, <2>2 DEF ForgeNext
    <3>2. TypeOK' /\ Publishes(h) /\ Mild(h)  BY <1>3, <3>1, ReviewSteps, CommitSteps
    <3> QED BY <1>2, <3>2
  <2> QED BY <2>1, <2>2
<1>4. CASE CreatesIdentity
  <2>1. identity' = "active"
        /\ UNCHANGED <<forge, handler, assignment, lock, conversation, granted, loose, faults>>
    BY <1>4 DEF CreatesIdentity
  <2>2. TypeOK'  BY <2>1 DEF TypeOK, forge
  <2>3. PublishInv'  BY <2>1 DEF PublishInv, OnlyReviewedIsPublished, forge, past
  <2> QED BY <2>1, <2>2, <2>3, StillInv
<1>5. CASE \E i \in Ids : RejectsAssignment(i)
  <2>1. PICK i \in Ids : RejectsAssignment(i)  BY <1>5
  <2>2. UNCHANGED <<forge, handler>>  BY <2>1 DEF RejectsAssignment
  <2>3. PublishInv'  BY <2>2 DEF PublishInv, OnlyReviewedIsPublished, forge, past
  <2> QED BY <2>1, <2>3, RejectSteps
<1>6. CASE \E h \in Handlers :
              \/ \E c \in Campaigns : InviteLoads(h, c)
              \/ InviteCommits(h) \/ AcceptCommits(h) \/ TalkCommits(h) \/ SuspendsNext(h)
              \/ \E i \in Ids : AcceptStarts(h, i) \/ TalkLoads(h, i) \/ RevokeLoads(h, i)
              \/ \E op \in {"suspend", "takedown"} : ReportLoads(h, op)
              \/ RevokeCommits(h) \/ ReportCommits(h)
              \/ Calls(h) \/ Refused(h) \/ LosesAnswer(h) \/ Dies(h)
  <2>1. PICK h \in Handlers :
              \/ \E c \in Campaigns : InviteLoads(h, c)
              \/ InviteCommits(h) \/ AcceptCommits(h) \/ TalkCommits(h) \/ SuspendsNext(h)
              \/ \E i \in Ids : AcceptStarts(h, i) \/ TalkLoads(h, i) \/ RevokeLoads(h, i)
              \/ \E op \in {"suspend", "takedown"} : ReportLoads(h, op)
              \/ RevokeCommits(h) \/ ReportCommits(h)
              \/ Calls(h) \/ Refused(h) \/ LosesAnswer(h) \/ Dies(h)
    BY <1>6
  <2>2. CASE \/ \E c \in Campaigns : InviteLoads(h, c)
             \/ \E i \in Ids : TalkLoads(h, i) \/ RevokeLoads(h, i)
             \/ \E op \in {"suspend", "takedown"} : ReportLoads(h, op)
    <3>1. TypeOK' /\ Publishes(h) /\ Mild(h)  BY <2>2, OpensSteps
    <3> QED BY <1>2, <3>1
  <2>3. CASE TalkCommits(h) \/ SuspendsNext(h) \/ ReportCommits(h)
    <3>1. TypeOK' /\ Publishes(h) /\ Mild(h)  BY <2>3, SuspendSteps
    <3> QED BY <1>2, <3>1
  <2>4. CASE \E i \in Ids : AcceptStarts(h, i)
    <3>1. TypeOK' /\ Publishes(h) /\ HostInv' /\ ClosedStay  BY <2>4, AcceptStartsSteps
    <3> QED BY <1>1, <3>1
  <2>5. CASE InviteCommits(h) \/ AcceptCommits(h) \/ RevokeCommits(h)
    <3>1. TypeOK' /\ Publishes(h) /\ HostInv' /\ ClosedStay
      BY <2>5, InviteSteps, AcceptCommitsSteps, RevokeSteps
    <3> QED BY <1>1, <3>1
  <2>6. CASE Calls(h) \/ Refused(h) \/ LosesAnswer(h) \/ Dies(h)
    <3>1. TypeOK' /\ Publishes(h) /\ HostInv' /\ ClosedStay  BY <2>6, CallsSteps, AbandonSteps
    <3> QED BY <1>1, <3>1
  <2> QED BY <2>1, <2>2, <2>3, <2>4, <2>5, <2>6
<1>7. CASE UNCHANGED vars
  <2>1. UNCHANGED <<forge, handler, hosts>>  BY <1>7 DEF vars
  <2>2. TypeOK'  BY <2>1 DEF TypeOK, forge, hosts
  <2>3. PublishInv'  BY <2>1 DEF PublishInv, OnlyReviewedIsPublished, forge, past
  <2> QED BY <2>1, <2>2, <2>3, StillInv DEF hosts
<1> QED BY <1>3, <1>4, <1>5, <1>6, <1>7 DEF Next

LEMMA InvAlways == Spec => []IInv
<1>1. Init => IInv  BY InvInit
<1>2. IInv /\ [Next]_vars => IInv'  BY InvNext
<1> QED BY <1>1, <1>2, PTL DEF Spec

\* Releases, assignments, locks, grants and requests keep their types.
THEOREM TypeCorrect == Spec => []TypeOK
<1>1. IInv => TypeOK  BY DEF IInv
<1> QED BY <1>1, InvAlways, PTL

\* However many reviews, submissions, decisions and takedowns of however many
\* releases overlap, and whatever their commits overwrite, a release is public only
\* after an Agent's approval, its submission and a moderator's approval.
THEOREM OnlyReviewedPublished == Spec => []OnlyReviewedIsPublished
<1>1. IInv => OnlyReviewedIsPublished  BY DEF IInv, PublishInv
<1> QED BY <1>1, InvAlways, PTL

\* An accepted assignment whose campaign no answer is under way for has its role
\* from the authority, whatever decisions and revocations overlap, unless a call was
\* cut off or crossed another revocation.
THEOREM AcceptedStaysGranted == Spec => []AcceptedIsGranted
<1>1. IInv => AcceptedIsGranted
  <2> SUFFICES ASSUME IInv, ~loose, NEW i \in Ids, assignment[i].status = "accepted",
                      i[1] \notin Underway
               PROVE  i[1] \in granted
    BY DEF AcceptedIsGranted
  <2>1. ~Leaving(i)  BY DEF Leaving, Underway
  <2> QED BY <2>1 DEF IInv, HostInv, GrantInv
<1> QED BY <1>1, InvAlways, PTL

\* An assignment that was rejected or revoked is never open again, however late the
\* answer of a decision or a revocation of it arrives.
THEOREM ClosedForGood == Spec => ClosedStaysClosed
<1>1. IInv /\ [Next]_vars => [ClosedStay]_vars  BY InvNext
<1>2. [ClosedStay]_vars => [\A i \in Ids :
          assignment[i].status \in {"rejected", "revoked"} => assignment'[i].status \notin Open]_vars
  BY DEF ClosedStay
<1> QED BY <1>1, <1>2, InvAlways, PTL DEF Spec, ClosedStaysClosed
=============================================================================
