CONSTANTS
    Rules <- MCRules
    MaxChecks = 1
    MaxGeneration = 1
    PriorityJob = TRUE
SPECIFICATION Spec
INVARIANTS
    
    PolicyMatchesSignature
    RetainedJobIsCleared
PROPERTIES
    OnlyPolicyIsWritten
