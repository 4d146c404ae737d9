CONSTANTS
    MaxSessions = 3
    MaxControls = 2
SPECIFICATION Spec
INVARIANTS
    NothingRefused
    OneSessionPerBuild
    AsAsked
    TwinsAgree
PROPERTY BuildReturns
CHECK_DEADLOCK FALSE
