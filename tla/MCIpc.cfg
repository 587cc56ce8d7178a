SPECIFICATION FairSpec
CONSTANTS
    N <- MCN
    Message <- MCMessage
    m1 = m1
    m2 = m2
    NoMsg = NoMsg
    IrqBound = 1
INVARIANTS
    OneRunning
    NoMissedRendezvous
    NoSleepOverIrq
    WokenForReason
PROPERTIES
    RoundRobin
    MetReturns
    ImplementsRendezvous
