CONSTANTS
    c1 = c1
    b1 = b1
    g1 = g1
    f1 = f1
    f2 = f2
    Clients <- MCClients
    BogusOf <- MCBogusOf
    GivenVersions <- MCGivenVersions
    FreshVersions <- MCFreshVersions
    SigHeaders <- MCSigHeaders
    BodyKinds <- MCBodyKinds
    PatchLines <- MCPatchLines
    MaxLines = 2
    MaxRequests = 1
SPECIFICATION Spec
\* Clients stop after MaxRequests requests.
CHECK_DEADLOCK FALSE
INVARIANTS
    ValidPutAccepted
