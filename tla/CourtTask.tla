----------------------------- MODULE CourtTask -----------------------------
(***************************************************************************)
(* One formal task of the court runtime, from creation to its verified     *)
(* completion: the state machine of offices, the plan and its two reviews  *)
(* (standard, case-bound tasks only), the outcome assessment, the Shiguan  *)
(* checkpoint, the charter revisions and the semantic gate.                *)
(*                                                                         *)
(* Every command is one step: it reads and commits the task under the      *)
(* runtime lock with the paired write (LedgerPair).  Its arguments were    *)
(* read earlier, by somebody else or long ago, so a command may come with  *)
(* any charter revision, plan or archive that ever existed.                *)
(*                                                                         *)
(* Data: a plan is its revision; an assessment or an archive is the        *)
(* charter revision and the round of work it speaks of.  `round' counts    *)
(* the dispatches of work to the ministries (history, not in the code).    *)
(***************************************************************************)
EXTENDS Naturals

CONSTANTS MaxRevision,       \* bound: charter revisions
          MaxPlans,          \* bound: plans submitted
          MaxRounds          \* bound: dispatches of the work

ASSUME BoundsAssumption == /\ MaxRevision \in Nat \ {0}
                           /\ MaxPlans \in Nat
                           /\ MaxRounds \in Nat

VARIABLES
    caseBound,               \* a standard task: plan and reviews are required
    state, pausedFrom,       \* state of the task, state it was paused in
    revision,                \* charter_revision (and semantic_epoch)
    plan, plans,             \* revision of zhongshu_plan (0: none), of the last one
    reviews,                 \* case_reviews
    assessment,              \* assessment_binding
    checkpoint,              \* shiguan_checkpoint
    completion,              \* completion.status
    semantic, receipt,       \* semantic_state, receipt of the current checkpoint
    round                    \* rounds of work dispatched so far

charterVars == <<caseBound, revision>>
planVars == <<plan, plans, reviews>>
outcome == <<assessment, checkpoint, completion>>
gate == <<semantic, receipt>>
vars == <<charterVars, state, pausedFrom, planVars, outcome, gate, round>>

Drafting == {"Pending", "Taizi", "ThreeDepartments"}
Reviewable == {"ThreeDepartmentsPetition", "TaiziReply", "ShangshuDispatch",
               "SixMinistries", "Workshops", "MenxiaReview", "ShiguanRecorded", "Done"}
State == Drafting \cup Reviewable \cup {"Paused", "Cancelled", "Rejected"}

TRANSITIONS ==
    [Pending |-> {"Taizi", "Paused", "Cancelled"},
     Taizi |-> {"ThreeDepartments", "Done", "Paused", "Cancelled"},
     ThreeDepartments |-> {"ThreeDepartmentsPetition", "Taizi", "Paused", "Cancelled"},
     ThreeDepartmentsPetition |->
         {"TaiziReply", "ThreeDepartments", "Rejected", "Paused", "Cancelled"},
     TaiziReply |-> {"ShangshuDispatch", "ThreeDepartments", "Done", "Paused", "Cancelled"},
     ShangshuDispatch |-> {"SixMinistries", "MenxiaReview", "Paused", "Cancelled"},
     SixMinistries |-> {"Workshops", "MenxiaReview", "Paused", "Cancelled"},
     Workshops |-> {"MenxiaReview", "Paused", "Cancelled"},
     MenxiaReview |-> {"ShiguanRecorded", "ThreeDepartments", "ShangshuDispatch",
                       "Paused", "Rejected", "Cancelled"},
     ShiguanRecorded |-> {"Done", "MenxiaReview"},
     Done |-> {},
     Paused |-> (State \ {"ShiguanRecorded", "Done", "Paused", "Rejected"}),
     Cancelled |-> {},
     Rejected |-> {"ThreeDepartments", "Cancelled"}]

Role == {"menxia", "shangshu"}
Consents == [menxia |-> "approved", shangshu |-> "dispatchable"]
Refuses == [menxia |-> "rejected", shangshu |-> "blocked"]
Decision(role) == {Consents[role], Refuses[role]}

\* `read' is the plan the reviewer had before him (history).
Unreviewed == [role \in Role |-> [decision |-> "none", plan |-> 0, read |-> 0]]
Unassessed == [status |-> "none", revision |-> 0, round |-> 0]
NoArchive == [revision |-> 0, round |-> 0]
Unrecorded == [status |-> "none", archive |-> NoArchive, assessment |-> Unassessed]

Init == /\ caseBound \in BOOLEAN
        /\ state = "Pending"
        /\ pausedFrom = "none"
        /\ revision = 1
        /\ plan = 0
        /\ plans = 0
        /\ reviews = Unreviewed
        /\ assessment = Unassessed
        /\ checkpoint = Unrecorded
        /\ completion = "none"
        /\ semantic = "UNVERIFIED"
        /\ receipt = [gate |-> "none", epoch |-> 0, plan |-> 0]
        /\ round = 0

-----------------------------------------------------------------------------
(* Plan and reviews of a standard task                                     *)

SubmitPlan(expected) == /\ caseBound
                        /\ state \in {"Taizi", "ThreeDepartments"}
                        /\ expected = plan
                        /\ plans < MaxPlans
                        /\ plan' = plans + 1
                        /\ plans' = plans + 1
                        /\ reviews' = Unreviewed
                        /\ UNCHANGED <<charterVars, state, pausedFrom, outcome, gate, round>>

\* Mutant: the review is booked on the plan of the moment, whatever was read.
RecordReviewUnbound(role, decision, planRef) ==
    /\ caseBound
    /\ state = "ThreeDepartments"
    /\ plan # 0
    /\ reviews' = [reviews EXCEPT ![role] =
           [decision |-> decision, plan |-> plan, read |-> planRef]]
    /\ UNCHANGED <<charterVars, state, pausedFrom, plan, plans, outcome, gate, round>>

RecordReview(role, decision, planRef) ==
    /\ caseBound
    /\ state = "ThreeDepartments"
    /\ plan # 0
    /\ planRef = plan
    /\ reviews' = [reviews EXCEPT ![role] =
           [decision |-> decision, plan |-> plan, read |-> planRef]]
    /\ UNCHANGED <<charterVars, state, pausedFrom, plan, plans, outcome, gate, round>>

PlanReviewed == /\ plan # 0
                /\ \A role \in Role : /\ reviews[role].decision = Consents[role]
                                      /\ reviews[role].plan = plan

CaseReviewed == caseBound => PlanReviewed

-----------------------------------------------------------------------------
(* The state machine                                                       *)

\* The stored assessment still validates and lets the task complete.
Completable == /\ assessment.status = "VERIFIED"
               /\ assessment.revision = revision

Recorded == checkpoint.status = "VERIFIED"

ResumeAllowed(to) == to \in TRANSITIONS[pausedFrom] \cup {pausedFrom}

Dispatches(to) == /\ to = "ShangshuDispatch"
                  /\ state = "Paused" => pausedFrom # "ShangshuDispatch"

\* transition, pause, resume and cancel: apply_transition.
Transition(to) ==
    /\ to \in TRANSITIONS[state]
    /\ to # "Done"
    /\ to \in Reviewable => CaseReviewed
    /\ (state = "Paused" /\ to # "Cancelled") => ResumeAllowed(to)
    /\ to = "ShiguanRecorded" => Completable /\ Recorded
    /\ Dispatches(to) => round < MaxRounds
    /\ state' = to
    /\ pausedFrom' = IF to = "Paused" THEN state
                     ELSE IF state = "Paused" /\ to # "Cancelled" THEN "none"
                     ELSE pausedFrom
    /\ round' = IF Dispatches(to) THEN round + 1 ELSE round
    /\ UNCHANGED <<charterVars, planVars, outcome, gate>>

-----------------------------------------------------------------------------
(* From the result to completion                                           *)

\* A different assessment than the one already bound is refused.
BindAssessment(expected, completes) ==
    /\ expected = revision
    /\ state = "MenxiaReview"
    /\ assessment.status = "none"
    /\ assessment' = [status |-> IF completes THEN "VERIFIED" ELSE "NONCOMPLETABLE",
                      revision |-> expected, round |-> round]
    /\ completion' = IF completes THEN "ASSESSMENT_BOUND" ELSE "NONCOMPLETABLE_ASSESSMENT"
    /\ UNCHANGED <<charterVars, state, pausedFrom, planVars, checkpoint, gate, round>>

RecordShiguan(expected, archive) ==
    /\ expected = revision
    /\ caseBound => archive.revision = revision
    /\ CaseReviewed
    /\ state = "MenxiaReview"
    /\ Completable
    /\ state' = "ShiguanRecorded"
    /\ checkpoint' = [status |-> "VERIFIED", archive |-> archive, assessment |-> assessment]
    /\ completion' = "READY"
    /\ UNCHANGED <<charterVars, pausedFrom, planVars, assessment, gate, round>>

\* The list of consumed receipts is left out: it only grows here, and a task
\* that is Done is never completed again.
Complete(expected) == /\ expected = revision
                      /\ state = "ShiguanRecorded"
                      /\ Completable
                      /\ Recorded
                      /\ completion = "READY"
                      /\ state' = "Done"
                      /\ completion' = "COMPLETED"
                      /\ UNCHANGED <<charterVars, pausedFrom, planVars, assessment,
                                     checkpoint, gate, round>>

\* Mutant: the withdrawn assessment is stamped with the revision to come.
WithdrawAhead(why) == /\ assessment' = [Unassessed EXCEPT !.revision = revision + 1]
                      /\ checkpoint' = Unrecorded
                      /\ completion' = why
                      /\ state' = "ThreeDepartments"
                      /\ semantic' = "REVERIFY"

\* Mutant: the Shiguan checkpoint of the old charter is not reset.
WithdrawButRecord(why) == /\ assessment' = Unassessed
                          /\ completion' = why
                          /\ state' = "ThreeDepartments"
                          /\ semantic' = "REVERIFY"
                          /\ UNCHANGED checkpoint

\* Mutant: the gate stays as open as it was.
WithdrawButGate(why) == /\ assessment' = Unassessed
                        /\ checkpoint' = Unrecorded
                        /\ completion' = why
                        /\ state' = "ThreeDepartments"
                        /\ UNCHANGED semantic

Withdraw(why) == /\ assessment' = Unassessed
                 /\ checkpoint' = Unrecorded
                 /\ completion' = why
                 /\ state' = "ThreeDepartments"
                 /\ semantic' = "REVERIFY"

\* Mutant: also a closed task can be rechartered.
AnyTaskRechartered == TRUE

Recharterable == state \notin {"Done", "Cancelled", "Rejected"}

\* The plan goes with the charter it was made for; pausedFrom is left over.
ReviseCharter(expected) == /\ Recharterable
                           /\ expected = revision
                           /\ revision < MaxRevision
                           /\ revision' = revision + 1
                           /\ Withdraw("INVALIDATED_BY_CHARTER_REVISION")
                           /\ receipt' = [gate |-> "semantic_correct", epoch |-> revision + 1, plan |-> 0]
                           /\ IF caseBound THEN plan' = 0 /\ reviews' = Unreviewed
                                           ELSE UNCHANGED <<plan, reviews>>
                           /\ UNCHANGED <<caseBound, pausedFrom, plans, round>>

-----------------------------------------------------------------------------
(* The semantic gate                                                       *)

SemanticCheckpoint == /\ receipt' = [gate |-> "semantic_checkpoint", epoch |-> revision, plan |-> plan]
                      /\ semantic' = "VERIFIED"
                      /\ UNCHANGED <<charterVars, state, pausedFrom, planVars, outcome, round>>

\* `drifted': Git, recovery point or another pointer moved since the receipt.
SemanticVerify(drifted) ==
    /\ semantic \in {"VERIFIED", "DISPATCHABLE"}
    /\ receipt.epoch = revision
    /\ semantic' = IF drifted \/ receipt.plan # plan THEN "QUARANTINED" ELSE "DISPATCHABLE"
    /\ UNCHANGED <<charterVars, state, pausedFrom, planVars, outcome, receipt, round>>

SemanticResume(expected) == /\ state = "Paused"
                            /\ expected = revision
                            /\ receipt.epoch = revision
                            /\ semantic = "DISPATCHABLE"
                            /\ Withdraw("INVALIDATED_BY_SEMANTIC_RESUME")
                            /\ UNCHANGED <<charterVars, pausedFrom, planVars, receipt, round>>

SemanticQuarantine(expected) ==
    /\ expected = revision
    /\ semantic = "DISPATCHABLE"
    /\ receipt.epoch = revision
    /\ semantic' = "QUARANTINED"
    /\ UNCHANGED <<charterVars, state, pausedFrom, planVars, outcome, receipt, round>>

SemanticReconcile(expected) ==
    /\ expected = revision
    /\ semantic = "QUARANTINED"
    /\ receipt.epoch = revision
    /\ semantic' = "REVERIFY"
    /\ UNCHANGED <<charterVars, state, pausedFrom, planVars, outcome, receipt, round>>

-----------------------------------------------------------------------------
Revision == 1..MaxRevision
Archive == [revision : Revision, round : 0..MaxRounds]
Made(archive) == archive.revision <= revision /\ archive.round <= round

Plan(expected) == \/ SubmitPlan(expected)
                  \/ \E role \in Role : \E decision \in Decision(role) :
                        RecordReview(role, decision, expected)

Close(expected) == \/ \E completes \in BOOLEAN : BindAssessment(expected, completes)
                   \/ \E archive \in Archive : Made(archive) /\ RecordShiguan(expected, archive)
                   \/ Complete(expected)
                   \/ ReviseCharter(expected)

Semantic(expected) == \/ SemanticCheckpoint
                      \/ \E drifted \in BOOLEAN : SemanticVerify(drifted)
                      \/ SemanticResume(expected)
                      \/ SemanticQuarantine(expected)
                      \/ SemanticReconcile(expected)

Next == \/ \E expected \in 0..MaxPlans : Plan(expected)
        \/ \E to \in State : Transition(to)
        \/ \E expected \in Revision : Close(expected) \/ Semantic(expected)

Spec == Init /\ [][Next]_vars

-----------------------------------------------------------------------------
(* Properties                                                              *)

Assessment == [status : {"none", "VERIFIED", "NONCOMPLETABLE"},
               revision : 0..MaxRevision, round : 0..MaxRounds]

TypeOK ==
    /\ caseBound \in BOOLEAN
    /\ state \in State
    /\ pausedFrom \in State \cup {"none"}
    /\ revision \in Revision
    /\ plan \in 0..MaxPlans
    /\ plans \in 0..MaxPlans
    /\ reviews \in [Role -> [decision : {"none"} \cup UNION {Decision(r) : r \in Role},
                             plan : 0..MaxPlans, read : 0..MaxPlans]]
    /\ assessment \in Assessment
    /\ checkpoint \in [status : {"none", "VERIFIED"},
                       archive : Archive \cup {NoArchive}, assessment : Assessment]
    /\ completion \in {"none", "ASSESSMENT_BOUND", "NONCOMPLETABLE_ASSESSMENT", "READY",
                       "COMPLETED", "INVALIDATED_BY_CHARTER_REVISION",
                       "INVALIDATED_BY_SEMANTIC_RESUME"}
    /\ semantic \in {"UNVERIFIED", "VERIFIED", "DISPATCHABLE", "QUARANTINED", "REVERIFY"}
    /\ receipt \in [gate : {"none", "semantic_checkpoint", "semantic_correct"},
                   epoch : 0..MaxRevision, plan : 0..MaxPlans]
    /\ round \in 0..MaxRounds

\* Work beyond the Three Departments, even while it is paused, follows a plan
\* that both reviewers read and agreed to, whoever resubmitted, re-reviewed,
\* paused, resumed or revised in between.
AtWork == state \in Reviewable \/ (state = "Paused" /\ pausedFrom \in Reviewable)
WorkFollowsReviewedPlan ==
    (caseBound /\ AtWork) => /\ PlanReviewed
                             /\ \A role \in Role : reviews[role].read = plan

\* The proof of completion is one chain for one charter: what is completed was
\* recorded, what is recorded is the assessment now bound, and that is for the
\* charter in force, however late a command's arguments were read.  Of which
\* round of work the acceptance is, the chain does not say: see below.
AcceptanceChain ==
    /\ assessment.status # "none" => assessment.revision = revision
    /\ Recorded => /\ assessment.status = "VERIFIED"
                   /\ checkpoint.assessment = assessment
                   /\ completion \in {"READY", "COMPLETED"}
    /\ state \in {"ShiguanRecorded", "Done"} => Recorded
    /\ state = "Done" <=> completion = "COMPLETED"
    /\ (caseBound /\ Recorded) => checkpoint.archive.revision = revision

\* "After a charter revision, rework or a resume the old acceptance and the old
\* proof of completion are void": what is recorded or closed was accepted in the
\* last round of work.  A transition back to Shangshu keeps assessment and
\* checkpoint, and they are good enough to record and complete the task.
AcceptanceIsOfThisRound ==
    state \in {"ShiguanRecorded", "Done"} => checkpoint.assessment.round = round

\* The gate to dispatch is open only on a checkpoint somebody took under the
\* charter in force: the receipt a revision leaves behind never opens it, and a
\* revision while the gate is open closes it.
GateIsForThisCharter ==
    semantic \in {"VERIFIED", "DISPATCHABLE"} => /\ receipt.gate = "semantic_checkpoint"
                                                /\ receipt.epoch = revision

\* The task closes a case in the promised order, under one charter, for good.
Stage == IF state = "Done" THEN "closed"
         ELSE IF state = "Cancelled" THEN "abandoned"
         ELSE IF Recorded THEN "archived"
         ELSE IF assessment.status = "VERIFIED" THEN "accepted" ELSE "open"
Closure == INSTANCE CaseClosure WITH charter <- revision, stage <- Stage
ClosesCase == Closure!Spec

=============================================================================
