SPECIFICATION KSpec
CONSTANTS
    N <- MCN
    ok = ok
    kill = kill
    fault = fault
    Message <- MCMessage
    NoMsg = NoMsg
    IrqBound = 1
    CapMax = 2
    PortSpace = 2
    Kills <- MCKills
    FaultMsg = fault
    IrqLines <- MCIrqLines
    Uses <- MCUses
    Grants <- MCGrants
    IoGrants <- MCIoGrants
INVARIANT
    FaultReplyRaceFree
CHECK_DEADLOCK FALSE
