---------------------------- MODULE ForgeReleases ----------------------------
(***************************************************************************)
(* The releases of one community artifact (api/community.py): their Agent  *)
(* review, submission, moderation and withdrawal, and the publication      *)
(* fields of the artifact that publication depends on.                     *)
(* No handler locks a row. It decides on what it loaded, a review after the*)
(* answer of the Agent, and its commit writes the columns that differ from *)
(* what it had loaded.                                                     *)
(***************************************************************************)
EXTENDS Integers, FiniteSets

CONSTANTS Releases, Handlers, Nobody

ASSUME ForgeAssumption == Nobody \notin Handlers \cup Releases

VARIABLES
    release,     \* `ArtifactRelease`: its status, and the verdict of `agent_review`
    artifact,    \* `Artifact`: its status, and the last check its fields pass: moderation
                 \* asks for rights, visibility, license and source, submission for
                 \* provenance too
    reviewed,    \* releases an Agent has approved
    submitted,   \* releases that were submitted
    moderated,   \* releases a moderator has approved
    handler      \* the requests in progress

past == <<reviewed, submitted, moderated>>

-----------------------------------------------------------------------------
Checks == {"nothing", "moderation", "submission"}
Draft == [status |-> "draft", approved |-> FALSE]
NoRelease == [status |-> "none", approved |-> FALSE]
Idle == [pc |-> "idle", op |-> "none", r |-> Nobody, seen |-> "none", work |-> "draft",
         a |-> <<Nobody, 0>>, had |-> FALSE, todo |-> {}]

ForgeInit ==
    /\ release = [r \in Releases |-> NoRelease]
    /\ artifact = [status |-> "draft", passes |-> "submission"]
    /\ reviewed = {} /\ submitted = {} /\ moderated = {}
    /\ handler = [h \in Handlers |-> Idle]

At(h, pc, op) == handler[h].pc = pc /\ handler[h].op = op
Starts(h, request) ==
    handler[h].pc = "idle" /\ handler' = [handler EXCEPT ![h] = request]
Moves(h, pc) == handler' = [handler EXCEPT ![h].pc = pc]
Leaves(h) == handler' = [handler EXCEPT ![h] = Idle]
Publishing == {"approve", "withdraw"}
Loads(h, op, r) ==
    Starts(h, [Idle EXCEPT !.pc = "loaded", !.op = op, !.r = r,
                           !.seen = release[r].status,
                           !.work = IF op \in Publishing THEN artifact.status ELSE @])

\* A column is written if the handler set another value than it had loaded.
Written(now, seen, value) == IF value = seen THEN now ELSE value
Status(h, value) ==
    Written(release[handler[h].r].status, handler[h].seen, value)
Work(h, value) == Written(artifact.status, handler[h].work, value)
SetsStatus(h, value) == release' = [release EXCEPT ![handler[h].r].status = Status(h, value)]

\* `create_release`; the version is unique.
CreatesRelease(r) ==
    /\ release[r].status = "none" /\ release' = [release EXCEPT ![r] = Draft]
    /\ UNCHANGED <<artifact, past, handler>>

-----------------------------------------------------------------------------
(* The review by the hosted Agent.                                         *)
Reviewable == {"draft", "agent_reviewed"}
ReviewStarts(h, r) ==
    /\ release[r].status \in Reviewable /\ Loads(h, "review", r)
    /\ UNCHANGED <<release, artifact, past>>

\* The Agent fails, or its answer is no review: nothing of the release changes.
ReviewFails(h) ==
    /\ At(h, "loaded", "review") /\ Leaves(h)
    /\ UNCHANGED <<release, artifact, past>>
Verdict(approved) == IF approved THEN "agent_reviewed" ELSE "draft"
ReviewCommits(h, approved) ==
    /\ At(h, "loaded", "review") /\ Leaves(h)
    /\ release' = [release EXCEPT ![handler[h].r] =
                      [status |-> Status(h, Verdict(approved)), approved |-> approved]]
    /\ reviewed' = IF approved THEN reviewed \cup {handler[h].r} ELSE reviewed
    /\ UNCHANGED <<artifact, submitted, moderated>>

-----------------------------------------------------------------------------
(* Submission and moderation.                                              *)
SubmitLoads(h, r) ==
    /\ release[r].status = "agent_reviewed" /\ release[r].approved
    /\ artifact.passes = "submission"
    /\ Loads(h, "submit", r) /\ UNCHANGED <<release, artifact, past>>
SubmitCommits(h) ==
    /\ At(h, "loaded", "submit") /\ SetsStatus(h, "moderation_pending") /\ Leaves(h)
    /\ submitted' = submitted \cup {handler[h].r}
    /\ UNCHANGED <<artifact, reviewed, moderated>>

\* Mutant: a release may be approved before it is submitted.
ModerateUnsubmitted(h, r, op) ==
    /\ \/ op = "approve" /\ release[r].approved /\ artifact.passes # "nothing"
       \/ op = "reject" /\ release[r].status = "moderation_pending"
       \/ op = "withdraw" /\ release[r].status = "published"
    /\ Loads(h, op, r) /\ UNCHANGED <<release, artifact, past>>

ModerateLoads(h, r, op) ==
    /\ \/ /\ op = "approve" /\ release[r].status = "moderation_pending"
          /\ release[r].approved /\ artifact.passes # "nothing"
       \/ op = "reject" /\ release[r].status = "moderation_pending"
       \/ op = "withdraw" /\ release[r].status = "published"
    /\ Loads(h, op, r) /\ UNCHANGED <<release, artifact, past>>
ApproveCommits(h) ==
    /\ At(h, "loaded", "approve") /\ SetsStatus(h, "published") /\ Leaves(h)
    /\ artifact' = [artifact EXCEPT !.status = Work(h, "published")]
    /\ moderated' = moderated \cup {handler[h].r} /\ UNCHANGED <<reviewed, submitted>>
RejectCommits(h) ==
    /\ At(h, "loaded", "reject") /\ SetsStatus(h, "rejected") /\ Leaves(h)
    /\ UNCHANGED <<artifact, past>>
WithdrawCommits(h) ==
    /\ At(h, "loaded", "withdraw") /\ SetsStatus(h, "withdrawn") /\ Leaves(h)
    /\ artifact' = [artifact EXCEPT !.status = Work(h, "withdrawn")]
    /\ UNCHANGED past

\* `update_artifact` of a publication field, frozen while one is needed.
Frozen == \E r \in Releases : release[r].status \in {"moderation_pending", "published"}
EditLoads(h) ==
    /\ ~Frozen /\ Starts(h, [Idle EXCEPT !.pc = "loaded", !.op = "edit"])
    /\ UNCHANGED <<release, artifact, past>>
EditCommits(h) ==
    /\ At(h, "loaded", "edit") /\ Leaves(h)
    /\ \E check \in Checks : artifact' = [artifact EXCEPT !.passes = check]
    /\ UNCHANGED <<release, past>>

ForgeNext ==
    \/ \E r \in Releases : CreatesRelease(r)
    \/ \E h \in Handlers :
        \/ \E r \in Releases :
            \/ ReviewStarts(h, r) \/ SubmitLoads(h, r)
            \/ \E op \in {"approve", "reject", "withdraw"} : ModerateLoads(h, r, op)
        \/ ReviewFails(h) \/ \E approved \in BOOLEAN : ReviewCommits(h, approved)
        \/ SubmitCommits(h) \/ ApproveCommits(h) \/ RejectCommits(h) \/ WithdrawCommits(h)
        \/ EditLoads(h) \/ EditCommits(h)

-----------------------------------------------------------------------------
\* Whatever reviews, submissions and decisions overlap, a release is public only
\* after an Agent's approval, its submission and a moderator's approval
\* (`submit_release`, `moderate_release`; docs/community.md).
OnlyReviewedIsPublished == \A r \in Releases :
    release[r].status = "published" => r \in reviewed \cap submitted \cap moderated

\* "An immutable publication unit after it reaches ``published``": only a
\* withdrawal takes its status away.
PublishedStays == \A r \in moderated :
    release[r].status \notin {"none", "draft", "agent_reviewed"}
=============================================================================
