CONSTANTS
    Matrices <- SmallMatrices
    Targets <- AllTargets
    Deployments <- Pinnings
SPECIFICATION Spec
INVARIANT TypeOK
INVARIANT LoadMeetsPinnedServer
INVARIANT FreshEvidence
INVARIANT ResultsPerExecution
INVARIANT JsonlInPlanOrder
INVARIANT PlanCoversMatrix
