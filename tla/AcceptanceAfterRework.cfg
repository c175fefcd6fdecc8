SPECIFICATION Spec
CONSTANTS
    MaxRevision = 1
    MaxPlans = 1
    MaxRounds = 2
INVARIANT AcceptanceIsOfThisRound
