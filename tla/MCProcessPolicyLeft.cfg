CONSTANTS
    Rules <- MCRules
    MaxChecks = 1
    MaxGeneration = 0
    PriorityJob = TRUE
SPECIFICATION Spec
INVARIANTS
    RemovedRuleStopsEnforcement
