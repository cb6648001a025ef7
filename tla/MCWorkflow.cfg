CONSTANTS
    Documents <- MCDocuments
    States <- MCStates
    ValidStates <- MCValidStates
    FinalStates <- MCFinalStates
    Updates <- MCUpdates
    END = END
SPECIFICATION RunSpec
INVARIANTS StateAlwaysValid AnswerIsValid
CHECK_DEADLOCK FALSE
