SPECIFICATION Spec
CONSTANTS
    MaxRevision = 2
    MaxPlans = 3
    MaxRounds = 2
INVARIANTS TypeOK WorkFollowsReviewedPlan AcceptanceChain GateIsForThisCharter
PROPERTY ClosesCase
