SPECIFICATION SystemSpec
CONSTANTS
    N = 11
    Message <- MCMessage
    NoMsg = NoMsg
    IrqBound = 1
    CapMax = 16
    PortSpace = 65536
    Kills <- MCKills
    FaultMsg <- MCFaultMsg
    IrqLines <- MCIrqLines
    Uses <- MCUses
    Grants <- MCGrants
    IoGrants <- MCIoGrants
    Commands = {"run"}
    Asked = {"hello"}
    Keyed <- MCSerial
    TypeAhead = 2
    Preemptions = 2
INVARIANTS
    PrintsOwnLine
