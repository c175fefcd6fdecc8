-------------------------- MODULE CourtTaskProofs --------------------------
(***************************************************************************)
(* Proofs that a task of the court works on a reviewed plan only, keeps    *)
(* one chain of proof under one charter, opens the semantic gate for that  *)
(* charter only, and closes its case in the promised order, for any bounds *)
(* on charters, plans and rounds of work.                                  *)
(***************************************************************************)
EXTENDS CourtTask, TLAPS

\* A review counts for the plan its reviewer read.
ReviewsWereRead == \A role \in Role : reviews[role].read = reviews[role].plan

IInv == /\ TypeOK
        /\ ReviewsWereRead
        /\ WorkFollowsReviewedPlan
        /\ AcceptanceChain
        /\ GateIsForThisCharter

-----------------------------------------------------------------------------
(* The table of transitions                                                *)

LEMMA TableTypes == \A s \in State : TRANSITIONS[s] \subseteq State
BY DEF TRANSITIONS, State, Drafting, Reviewable

LEMMA FinalStates == /\ TRANSITIONS["Done"] = {}
                     /\ TRANSITIONS["Cancelled"] = {}
                     /\ "Paused" \notin TRANSITIONS["Paused"]
BY DEF TRANSITIONS, State, Drafting, Reviewable

\* What the proofs use of a transition.
LEMMA TransitionFacts ==
    ASSUME NEW to \in State, TypeOK, Transition(to)
    PROVE  /\ state \notin {"Done", "Cancelled"}
           /\ to # "Done"
           /\ to \in Reviewable => CaseReviewed
           /\ to = "ShiguanRecorded" => Recorded
           /\ state' = to
           /\ to = "Paused" => /\ pausedFrom' = state
                               /\ state # "Paused"
           /\ pausedFrom' \in {pausedFrom, state, "none"}
           /\ Dispatches(to) => round < MaxRounds
           /\ round' = IF Dispatches(to) THEN round + 1 ELSE round
           /\ UNCHANGED <<charterVars, planVars, outcome, gate>>
BY FinalStates DEF Transition, TypeOK

-----------------------------------------------------------------------------
(* Types                                                                   *)

LEMMA InitTypeOK == Init => TypeOK
BY BoundsAssumption
   DEF Init, TypeOK, State, Drafting, Revision, Unreviewed, Unassessed, Unrecorded,
       NoArchive, Assessment, Archive

\* What is reset when acceptance and archive are withdrawn.
LEMMA WithdrawTypes ==
    /\ Unassessed \in Assessment
    /\ Unrecorded \in [status : {"none", "VERIFIED"},
                       archive : Archive \cup {NoArchive}, assessment : Assessment]
    /\ Unreviewed \in [Role -> [decision : {"none"} \cup UNION {Decision(r) : r \in Role},
                                plan : 0..MaxPlans, read : 0..MaxPlans]]
    /\ "ThreeDepartments" \in State
BY BoundsAssumption
   DEF Unassessed, Unrecorded, Unreviewed, Assessment, NoArchive, State, Drafting

LEMMA PlanTypeOK ==
    ASSUME NEW expected \in 0..MaxPlans, TypeOK, Plan(expected)
    PROVE  TypeOK'
<1>1. CASE SubmitPlan(expected)
  <2>1. plans + 1 \in 0..MaxPlans
    BY <1>1, BoundsAssumption DEF SubmitPlan, TypeOK
  <2> QED
    BY <1>1, <2>1, WithdrawTypes DEF SubmitPlan, TypeOK, charterVars, outcome, gate
<1>2. ASSUME NEW role \in Role, NEW decision \in Decision(role),
             RecordReview(role, decision, expected)
      PROVE  TypeOK'
  <2>1. decision \in {"none"} \cup UNION {Decision(r) : r \in Role}
    OBVIOUS
  <2>2. reviews' \in [Role -> [decision : {"none"} \cup UNION {Decision(r) : r \in Role},
                               plan : 0..MaxPlans, read : 0..MaxPlans]]
    BY <1>2, <2>1 DEF RecordReview, TypeOK
  <2> QED
    BY <1>2, <2>2 DEF RecordReview, TypeOK, charterVars, outcome, gate
<1> QED
  BY <1>1, <1>2 DEF Plan

LEMMA TransitionTypeOK ==
    ASSUME NEW to \in State, TypeOK, Transition(to)
    PROVE  TypeOK'
<1>1. state' \in State /\ pausedFrom' \in State \cup {"none"}
  BY TransitionFacts DEF TypeOK
<1>2. round' \in 0..MaxRounds
  BY TransitionFacts, BoundsAssumption DEF TypeOK
<1> QED
  BY <1>1, <1>2, TransitionFacts DEF TypeOK, charterVars, planVars, outcome, gate

LEMMA CloseTypeOK ==
    ASSUME NEW expected \in Revision, TypeOK, Close(expected)
    PROVE  TypeOK'
<1>1. ASSUME NEW completes \in BOOLEAN, BindAssessment(expected, completes)
      PROVE  TypeOK'
  <2>1. assessment' \in Assessment
    BY <1>1, BoundsAssumption DEF BindAssessment, TypeOK, Assessment, Revision
  <2> QED
    BY <1>1, <2>1 DEF BindAssessment, TypeOK, charterVars, planVars, gate
<1>2. ASSUME NEW archive \in Archive, RecordShiguan(expected, archive)
      PROVE  TypeOK'
  <2>1. checkpoint' \in [status : {"none", "VERIFIED"},
                         archive : Archive \cup {NoArchive}, assessment : Assessment]
    BY <1>2 DEF RecordShiguan, TypeOK
  <2>2. state' \in State
    BY <1>2 DEF RecordShiguan, State, Reviewable
  <2> QED
    BY <1>2, <2>1, <2>2 DEF RecordShiguan, TypeOK, charterVars, planVars, gate
<1>3. CASE Complete(expected)
  BY <1>3 DEF Complete, TypeOK, State, Reviewable, charterVars, planVars, gate
<1>4. CASE ReviseCharter(expected)
  <2>1. revision' \in Revision /\ receipt' \in [gate : {"none", "semantic_checkpoint",
                     "semantic_correct"}, epoch : 0..MaxRevision, plan : 0..MaxPlans]
    BY <1>4, BoundsAssumption DEF ReviseCharter, TypeOK, Revision
  <2>2. plan' \in 0..MaxPlans
    BY <1>4, BoundsAssumption DEF ReviseCharter, TypeOK
  <2> QED
    BY <1>4, <2>1, <2>2, WithdrawTypes DEF ReviseCharter, Withdraw, TypeOK
<1> QED
  BY <1>1, <1>2, <1>3, <1>4 DEF Close

LEMMA SemanticTypeOK ==
    ASSUME NEW expected \in Revision, TypeOK, Semantic(expected)
    PROVE  TypeOK'
<1>1. CASE SemanticCheckpoint
  <2>1. receipt' \in [gate : {"none", "semantic_checkpoint", "semantic_correct"},
                      epoch : 0..MaxRevision, plan : 0..MaxPlans]
    BY <1>1, BoundsAssumption DEF SemanticCheckpoint, TypeOK, Revision
  <2> QED
    BY <1>1, <2>1 DEF SemanticCheckpoint, TypeOK, charterVars, planVars, outcome
<1>2. ASSUME NEW drifted \in BOOLEAN, SemanticVerify(drifted)
      PROVE  TypeOK'
  BY <1>2 DEF SemanticVerify, TypeOK, charterVars, planVars, outcome
<1>3. CASE SemanticResume(expected)
  BY <1>3, WithdrawTypes DEF SemanticResume, Withdraw, TypeOK, charterVars, planVars
<1>4. CASE SemanticQuarantine(expected)
  BY <1>4 DEF SemanticQuarantine, TypeOK, charterVars, planVars, outcome
<1>5. CASE SemanticReconcile(expected)
  BY <1>5 DEF SemanticReconcile, TypeOK, charterVars, planVars, outcome
<1> QED
  BY <1>1, <1>2, <1>3, <1>4, <1>5 DEF Semantic

LEMMA StutterTypeOK == TypeOK /\ UNCHANGED vars => TypeOK'
BY DEF TypeOK, vars, charterVars, planVars, outcome, gate

LEMMA NextTypeOK == TypeOK /\ [Next]_vars => TypeOK'
BY PlanTypeOK, TransitionTypeOK, CloseTypeOK, SemanticTypeOK, StutterTypeOK DEF Next

-----------------------------------------------------------------------------
(* Work follows a reviewed plan                                            *)

Reviewed == ReviewsWereRead /\ WorkFollowsReviewedPlan

LEMMA InitReviewed == Init => Reviewed
BY DEF Init, Reviewed, ReviewsWereRead, WorkFollowsReviewedPlan, AtWork, Reviewable,
       Unreviewed

\* A step that leaves plan and reviews alone may not bring the task to work.
LEMMA KeepsReviewed ==
    ASSUME Reviewed, UNCHANGED planVars, caseBound' = caseBound, AtWork' => AtWork
    PROVE  Reviewed'
BY DEF Reviewed, ReviewsWereRead, WorkFollowsReviewedPlan, planVars, PlanReviewed

LEMMA PlanReviewedStep ==
    ASSUME NEW expected \in 0..MaxPlans, TypeOK, Reviewed, Plan(expected)
    PROVE  Reviewed'
<1>1. CASE SubmitPlan(expected)
  BY <1>1 DEF SubmitPlan, Reviewed, ReviewsWereRead, WorkFollowsReviewedPlan, AtWork,
              Reviewable, Unreviewed
<1>2. ASSUME NEW role \in Role, NEW decision \in Decision(role),
             RecordReview(role, decision, expected)
      PROVE  Reviewed'
  <2>1. ~AtWork'
    BY <1>2 DEF RecordReview, AtWork, Reviewable
  <2>2. ReviewsWereRead'
    BY <1>2 DEF RecordReview, TypeOK, Reviewed, ReviewsWereRead
  <2> QED
    BY <2>1, <2>2 DEF Reviewed, WorkFollowsReviewedPlan
<1> QED
  BY <1>1, <1>2 DEF Plan

LEMMA TransitionReviewed ==
    ASSUME NEW to \in State, TypeOK, Reviewed, Transition(to)
    PROVE  Reviewed'
<1>1. UNCHANGED planVars /\ caseBound' = caseBound
  BY TransitionFacts DEF charterVars
<1>2. CASE to \in Reviewable
  BY <1>1, <1>2, TransitionFacts
     DEF Reviewed, ReviewsWereRead, WorkFollowsReviewedPlan, CaseReviewed, PlanReviewed,
         planVars
<1>3. CASE to = "Paused"
  <2>1. AtWork' => AtWork
    BY <1>3, TransitionFacts DEF AtWork, Reviewable
  <2> QED
    BY <1>1, <2>1, KeepsReviewed
<1>4. CASE to \notin Reviewable \cup {"Paused"}
  <2>1. ~AtWork'
    BY <1>4, TransitionFacts DEF AtWork
  <2> QED
    BY <1>1, <2>1, KeepsReviewed
<1> QED
  BY <1>2, <1>3, <1>4

LEMMA CloseReviewed ==
    ASSUME NEW expected \in Revision, TypeOK, Reviewed, Close(expected)
    PROVE  Reviewed'
<1>1. ASSUME NEW completes \in BOOLEAN, BindAssessment(expected, completes)
      PROVE  Reviewed'
  BY <1>1, KeepsReviewed DEF BindAssessment, AtWork, charterVars
<1>2. ASSUME NEW archive \in Archive, RecordShiguan(expected, archive)
      PROVE  Reviewed'
  <2>1. AtWork
    BY <1>2 DEF RecordShiguan, AtWork, Reviewable
  <2> QED
    BY <1>2, <2>1, KeepsReviewed DEF RecordShiguan, charterVars
<1>3. CASE Complete(expected)
  <2>1. AtWork
    BY <1>3 DEF Complete, AtWork, Reviewable
  <2> QED
    BY <1>3, <2>1, KeepsReviewed DEF Complete, charterVars
<1>4. CASE ReviseCharter(expected)
  <2>1. ~AtWork'
    BY <1>4 DEF ReviseCharter, Withdraw, AtWork, Reviewable
  <2>2. ReviewsWereRead'
    BY <1>4 DEF ReviseCharter, Reviewed, ReviewsWereRead, Unreviewed
  <2> QED
    BY <2>1, <2>2 DEF Reviewed, WorkFollowsReviewedPlan
<1> QED
  BY <1>1, <1>2, <1>3, <1>4 DEF Close

LEMMA SemanticReviewed ==
    ASSUME NEW expected \in Revision, TypeOK, Reviewed, Semantic(expected)
    PROVE  Reviewed'
<1>1. CASE SemanticResume(expected)
  <2>1. ~AtWork'
    BY <1>1 DEF SemanticResume, Withdraw, AtWork, Reviewable
  <2> QED
    BY <1>1, <2>1, KeepsReviewed DEF SemanticResume, charterVars
<1>2. CASE UNCHANGED <<charterVars, state, pausedFrom, planVars>>
  BY <1>2, KeepsReviewed DEF AtWork, charterVars
<1> QED
  BY <1>1, <1>2 DEF Semantic, SemanticCheckpoint, SemanticVerify, SemanticQuarantine,
                    SemanticReconcile

LEMMA NextReviewed == TypeOK /\ Reviewed /\ [Next]_vars => Reviewed'
<1>1. Reviewed /\ UNCHANGED vars => Reviewed'
  BY KeepsReviewed DEF vars, charterVars, AtWork
<1> QED
  BY <1>1, PlanReviewedStep, TransitionReviewed, CloseReviewed, SemanticReviewed DEF Next

-----------------------------------------------------------------------------
(* One chain of proof                                                      *)

LEMMA InitChain == Init => AcceptanceChain
BY DEF Init, AcceptanceChain, Unassessed, Unrecorded, Recorded

\* A step that leaves charter, assessment, checkpoint and completion alone.
LEMMA KeepsChain ==
    ASSUME AcceptanceChain, UNCHANGED <<charterVars, outcome>>,
           state' = "Done" <=> state = "Done",
           state' = "ShiguanRecorded" => Recorded
    PROVE  AcceptanceChain'
BY DEF AcceptanceChain, charterVars, outcome, Recorded

LEMMA CloseChain ==
    ASSUME NEW expected \in Revision, TypeOK, AcceptanceChain, Close(expected)
    PROVE  AcceptanceChain'
<1>1. ASSUME NEW completes \in BOOLEAN, BindAssessment(expected, completes)
      PROVE  AcceptanceChain'
  BY <1>1 DEF BindAssessment, AcceptanceChain, charterVars, Recorded
<1>2. ASSUME NEW archive \in Archive, RecordShiguan(expected, archive)
      PROVE  AcceptanceChain'
  BY <1>2 DEF RecordShiguan, AcceptanceChain, charterVars, Recorded, Completable
<1>3. CASE Complete(expected)
  BY <1>3 DEF Complete, AcceptanceChain, charterVars, Recorded
<1>4. CASE ReviseCharter(expected)
  BY <1>4 DEF ReviseCharter, Withdraw, AcceptanceChain, Unassessed, Unrecorded, Recorded
<1> QED
  BY <1>1, <1>2, <1>3, <1>4 DEF Close

LEMMA SemanticChain ==
    ASSUME NEW expected \in Revision, TypeOK, AcceptanceChain, Semantic(expected)
    PROVE  AcceptanceChain'
<1>1. CASE SemanticResume(expected)
  BY <1>1 DEF SemanticResume, Withdraw, AcceptanceChain, Unassessed, Unrecorded, Recorded,
              charterVars
<1>2. CASE UNCHANGED <<charterVars, state, outcome>>
  BY <1>2, KeepsChain DEF AcceptanceChain
<1> QED
  BY <1>1, <1>2 DEF Semantic, SemanticCheckpoint, SemanticVerify, SemanticQuarantine,
                    SemanticReconcile

LEMMA NextChain == TypeOK /\ AcceptanceChain /\ [Next]_vars => AcceptanceChain'
<1> SUFFICES ASSUME TypeOK, AcceptanceChain, [Next]_vars
             PROVE  AcceptanceChain'
  OBVIOUS
<1>1. ASSUME NEW expected \in 0..MaxPlans, Plan(expected)
      PROVE  AcceptanceChain'
  BY <1>1, KeepsChain DEF Plan, SubmitPlan, RecordReview, AcceptanceChain
<1>2. ASSUME NEW to \in State, Transition(to)
      PROVE  AcceptanceChain'
  BY <1>2, KeepsChain, TransitionFacts
<1>3. CASE UNCHANGED vars
  BY <1>3, KeepsChain DEF vars, AcceptanceChain
<1> QED
  BY <1>1, <1>2, <1>3, CloseChain, SemanticChain DEF Next

-----------------------------------------------------------------------------
(* The semantic gate                                                       *)

LEMMA NextGate == TypeOK /\ GateIsForThisCharter /\ [Next]_vars => GateIsForThisCharter'
<1> SUFFICES ASSUME TypeOK, GateIsForThisCharter, [Next]_vars
             PROVE  GateIsForThisCharter'
  OBVIOUS
<1>1. CASE UNCHANGED <<revision, gate>>
  BY <1>1 DEF GateIsForThisCharter, gate
<1>2. ASSUME NEW expected \in 0..MaxPlans, Plan(expected)
      PROVE  UNCHANGED <<revision, gate>>
  BY <1>2 DEF Plan, SubmitPlan, RecordReview, charterVars
<1>3. ASSUME NEW to \in State, Transition(to)
      PROVE  UNCHANGED <<revision, gate>>
  BY <1>3, TransitionFacts DEF charterVars
<1>4. ASSUME NEW expected \in Revision, Close(expected)
      PROVE  GateIsForThisCharter'
  <2>1. CASE ReviseCharter(expected)
    BY <2>1 DEF ReviseCharter, Withdraw, GateIsForThisCharter
  <2>2. CASE UNCHANGED <<revision, gate>>
    BY <2>2, <1>1
  <2> QED
    BY <1>4, <2>1, <2>2 DEF Close, BindAssessment, RecordShiguan, Complete, charterVars
<1>5. ASSUME NEW expected \in Revision, Semantic(expected)
      PROVE  GateIsForThisCharter'
  BY <1>5 DEF Semantic, SemanticCheckpoint, SemanticVerify, SemanticResume, Withdraw,
              SemanticQuarantine, SemanticReconcile, GateIsForThisCharter, charterVars
<1> QED
  BY <1>1, <1>2, <1>3, <1>4, <1>5 DEF Next, vars, charterVars

-----------------------------------------------------------------------------
(* The inductive invariant and what follows from it                        *)

LEMMA InitIInv == Init => IInv
BY InitTypeOK, InitReviewed, InitChain DEF IInv, Reviewed, Init, GateIsForThisCharter

LEMMA NextIInv == IInv /\ [Next]_vars => IInv'
BY NextTypeOK, NextReviewed, NextChain, NextGate DEF IInv, Reviewed

\* IInv is an invariant of the task.
THEOREM Invariance == Spec => []IInv
BY InitIInv, NextIInv, PTL DEF Spec

\* Every field of a task keeps its type, whatever the bounds (all commands).
THEOREM TypeCorrect == Spec => []TypeOK
<1>1. IInv => TypeOK
  BY DEF IInv
<1> QED
  BY <1>1, Invariance, PTL

\* A standard task is at work, or paused from work, only on a plan that both
\* reviewers read and agreed to (require_reviewed_plan, record_review).
THEOREM ReviewedWork == Spec => []WorkFollowsReviewedPlan
<1>1. IInv => WorkFollowsReviewedPlan
  BY DEF IInv
<1> QED
  BY <1>1, Invariance, PTL

\* Assessment, archive record and completion are one chain for the charter in
\* force (bind_assessment, record_shiguan, complete, revise_charter).
THEOREM OneChain == Spec => []AcceptanceChain
<1>1. IInv => AcceptanceChain
  BY DEF IInv
<1> QED
  BY <1>1, Invariance, PTL

\* The semantic gate is open on a checkpoint of the charter in force only
\* (the semantic commands, revise_charter).
THEOREM GateForCharter == Spec => []GateIsForThisCharter
<1>1. IInv => GateIsForThisCharter
  BY DEF IInv
<1> QED
  BY <1>1, Invariance, PTL

-----------------------------------------------------------------------------
(* Refinement of CaseClosure                                               *)

LEMMA InitCloses == Init => Closure!Init
BY DEF Init, Closure!Init, Stage, Recorded, Unassessed, Unrecorded

\* The stage is a function of what the chain is about.
LEMMA SameStage ==
    ASSUME UNCHANGED <<revision, outcome>>, state \notin {"Done", "Cancelled"},
           state' \notin {"Done", "Cancelled"}
    PROVE  UNCHANGED Closure!vars
BY DEF Stage, Recorded, outcome, Closure!vars

LEMMA OpenStage ==
    state \notin {"Done", "Cancelled"} => Stage \notin Closure!Final
BY DEF Stage, Closure!Final

LEMMA TransitionCloses ==
    ASSUME NEW to \in State, IInv, Transition(to)
    PROVE  [Closure!Next]_(Closure!vars)
<1>1. TypeOK
  BY DEF IInv
<1>2. CASE to = "Cancelled"
  <2>1. Stage' = "abandoned" /\ revision' = revision
    BY <1>1, <1>2, TransitionFacts DEF Stage, charterVars
  <2> QED
    BY <1>1, <2>1, TransitionFacts, OpenStage DEF Closure!Next, Closure!Abandon
<1>3. CASE to # "Cancelled"
  BY <1>1, <1>3, TransitionFacts, SameStage DEF charterVars
<1> QED
  BY <1>2, <1>3

LEMMA CloseCloses ==
    ASSUME NEW expected \in Revision, IInv, Close(expected)
    PROVE  [Closure!Next]_(Closure!vars)
<1> USE DEF IInv
<1>1. ASSUME NEW completes \in BOOLEAN, BindAssessment(expected, completes)
      PROVE  [Closure!Next]_(Closure!vars)
  <2>1. Stage = "open"
    BY <1>1 DEF BindAssessment, Stage, AcceptanceChain, Recorded
  <2>2. Stage' \in {"open", "accepted"} /\ revision' = revision
    BY <1>1 DEF BindAssessment, Stage, AcceptanceChain, Recorded, charterVars
  <2> QED
    BY <2>1, <2>2 DEF Closure!Next, Closure!Accept, Closure!vars
<1>2. ASSUME NEW archive \in Archive, RecordShiguan(expected, archive)
      PROVE  [Closure!Next]_(Closure!vars)
  <2>1. Stage \in {"accepted", "archived"}
    BY <1>2 DEF RecordShiguan, Stage, Completable
  <2>2. Stage' = "archived" /\ revision' = revision
    BY <1>2 DEF RecordShiguan, Stage, Recorded, charterVars
  <2> QED
    BY <2>1, <2>2 DEF Closure!Next, Closure!Archive, Closure!vars
<1>3. CASE Complete(expected)
  <2>1. Stage = "archived"
    BY <1>3 DEF Complete, Stage
  <2>2. Stage' = "closed" /\ revision' = revision
    BY <1>3 DEF Complete, Stage, charterVars
  <2> QED
    BY <2>1, <2>2 DEF Closure!Next, Closure!Close
<1>4. CASE ReviseCharter(expected)
  <2>1. Stage \notin Closure!Final
    BY <1>4, OpenStage DEF ReviseCharter, Recharterable
  <2>2. Stage' = "open" /\ revision' = revision + 1
    BY <1>4 DEF ReviseCharter, Withdraw, Stage, Recorded, Unassessed, Unrecorded
  <2> QED
    BY <2>1, <2>2 DEF Closure!Next, Closure!Revise
<1> QED
  BY <1>1, <1>2, <1>3, <1>4 DEF Close

LEMMA SemanticCloses ==
    ASSUME NEW expected \in Revision, IInv, Semantic(expected)
    PROVE  [Closure!Next]_(Closure!vars)
<1>1. CASE SemanticResume(expected)
  <2>1. Stage \notin Closure!Final
    BY <1>1, OpenStage DEF SemanticResume
  <2>2. Stage' = "open" /\ revision' = revision
    BY <1>1 DEF SemanticResume, Withdraw, Stage, Recorded, Unassessed, Unrecorded, charterVars
  <2> QED
    BY <2>1, <2>2 DEF Closure!Next, Closure!Reopen
<1>2. CASE UNCHANGED <<charterVars, state, outcome>>
  BY <1>2 DEF Stage, Recorded, outcome, charterVars, Closure!vars
<1> QED
  BY <1>1, <1>2 DEF Semantic, SemanticCheckpoint, SemanticVerify, SemanticQuarantine,
                    SemanticReconcile

LEMMA NextCloses == IInv /\ [Next]_vars => [Closure!Next]_(Closure!vars)
<1> SUFFICES ASSUME IInv, [Next]_vars
             PROVE  [Closure!Next]_(Closure!vars)
  OBVIOUS
<1>1. ASSUME NEW expected \in 0..MaxPlans, Plan(expected)
      PROVE  UNCHANGED Closure!vars
  BY <1>1 DEF Plan, SubmitPlan, RecordReview, Stage, Recorded, outcome, charterVars,
              Closure!vars
<1>2. CASE UNCHANGED vars
  BY <1>2 DEF vars, Stage, Recorded, outcome, charterVars, Closure!vars
<1> QED
  BY <1>1, <1>2, TransitionCloses, CloseCloses, SemanticCloses DEF Next

\* A task implements CaseClosure: accepted, archived and closed in this order
\* under one charter, and closed or cancelled for good.
THEOREM Refinement == Spec => ClosesCase
<1>1. IInv /\ [Next]_vars => [Closure!Next]_(Closure!vars)
  BY NextCloses
<1> QED
  BY InitCloses, <1>1, Invariance, PTL DEF Spec, ClosesCase, Closure!Spec
=============================================================================
