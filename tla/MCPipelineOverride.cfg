SPECIFICATION Spec
CONSTANTS
    MaxReplanCycles = 2
    RecursionLimit = 25
    Severe <- MCSevere
    Review <- MCReview
    Minor <- MCMinor
    lowConfidence = lowConfidence
    roleRisk = roleRisk
    n1 = n1
    n2 = n2
    n3 = n3
INVARIANTS
    RuleFlaggedNeedsOwner
