SPECIFICATION Spec
CONSTANTS
    Hosts = {h1}
    NoHost = NoHost
    Passwords = {good}
    RightPassword = good
    NoPassword = NoPassword
    MaxConnects = 1
    MaxInputs = 0
INVARIANT StopTouchesLiveClient
CHECK_DEADLOCK FALSE
