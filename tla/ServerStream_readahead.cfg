SPECIFICATION FairSpec
CONSTANTS
    RFB_BUF_SIZE = 3
    Bodies = {0, 1}
    MaxStream = 4
PROPERTY ReceivedIsHandled
CHECK_DEADLOCK FALSE
