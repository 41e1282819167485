\* Lifecycle and subscription handlers: two subscriptions, one Start, one Close.
CONSTANTS
    h1 = h1  h2 = h2
    Handlers <- MCHandlers
SPECIFICATION Spec
\* Once the owner stops calling and every peer has left, nothing happens.
CHECK_DEADLOCK FALSE
INVARIANT
    TypeOK
PROPERTY
    CloseReleasesSubscriptions
