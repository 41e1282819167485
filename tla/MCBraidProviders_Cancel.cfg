CONSTANTS
    u1 = u1
    u2 = u2
    u3 = u3
    URLs <- MCURLs
    OwnURLs <- MCOwnURLs
    LocalhostURLs <- MCLocalhostURLs
    MaxProviders = 2
SPECIFICATION Spec
\* A finished lookup leaves nothing to do.
CHECK_DEADLOCK FALSE
PROPERTIES
    CancelReleasesProducer
