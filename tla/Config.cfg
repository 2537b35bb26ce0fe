\* Every combination of sources for each option, with valid and invalid values.
SPECIFICATION Spec
CONSTANTS
    Second = 2
    MaxDuration = 31
    DefaultInterval = 6
    DefaultPath = "default"
    DefaultRate = 1
    Texts <- AllTexts
    Inputs <- Starts
INVARIANTS
    FollowsPrecedence
