SPECIFICATION AnsweringSpec
CONSTANTS
    Hosts = {h1}
    NoHost = NoHost
    Passwords = {good}
    RightPassword = good
    NoPassword = NoPassword
    MaxConnects = 2
    MaxInputs = 1
PROPERTIES
    StopEndsSession
    RequestResolves
    EventsFlushed
CHECK_DEADLOCK FALSE
