SPECIFICATION Spec
CONSTANTS
    Hosts = {h1, h2}
    NoHost = NoHost
    Passwords = {good, bad}
    RightPassword = good
    NoPassword = NoPassword
    MaxConnects = 2
    MaxInputs = 2
INVARIANTS
    TypeOK
    WorkerClientAlive
    NoClientLeak
    ViewInSync
    ServesLastRequest
    PromptForEveryWait
    EventsInOrder
    OneWayToFreeze
PROPERTIES
    StopNotRevoked
    ImplementsSession
CHECK_DEADLOCK FALSE
