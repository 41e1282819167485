CONSTANTS
    Requests <- MCRequests
    CTypes <- MCCTypes
    IndexWidth = 8
SPECIFICATION Spec
\* One request per behaviour: a served request is a final state.
CHECK_DEADLOCK FALSE
INVARIANT
    MalformedKeypathRejected
