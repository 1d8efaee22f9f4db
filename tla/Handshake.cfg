CONSTANTS
    Versions <- MCVersions
    Offers <- MCOffers
    Passwords = {right, wrong, empty}
    RightPassword = right
    NoPassword = empty
SPECIFICATION FairSpec
INVARIANTS
    TypeOK
    InStep
    Agreement
    FailsForAReason
PROPERTY
    HandshakeEnds
\* Both sides stop when the connection is open, or has failed.
CHECK_DEADLOCK FALSE
