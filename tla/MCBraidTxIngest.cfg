CONSTANTS
    c1 = c1
    b1 = b1
    g1 = g1
    f1 = f1
    f2 = f2
    Clients <- MCClients
    BogusOf <- MCBogusOf
    GivenVersions <- MCGivenVersions
    FreshVersions <- MCFreshVersions
    SigHeaders <- MCSigHeaders
    BodyKinds <- MCBodyKinds
    PatchLines <- MCPatchLines
    MaxLines = 2
    MaxRequests = 1
SPECIFICATION Spec
\* One request: the handlers share no state, so a second one adds only interleavings.
CHECK_DEADLOCK FALSE
INVARIANTS
    TypeOK
    PutContract
