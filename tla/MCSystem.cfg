SPECIFICATION FairSystemSpec
CONSTANTS
    N = 10
    Message <- MCMessage
    NoMsg = NoMsg
    IrqBound = 1
    CapMax = 16
    PortSpace = 65536
    Kills <- MCKills
    FaultMsg <- MCFaultMsg
    IrqLines <- MCIrqLines
    Uses <- MCUses
    Grants <- MCGrants
    IoGrants <- MCIoGrants
    Commands = {"show", "ls", "cat", "run", "vga", "exit"}
    Asked = {"hello", "rogue"}
    Keyed <- MCSerial
    TypeAhead = 1
    Preemptions = 1
INVARIANTS
    
    WaitsAreOwed
    NoCircularWait
    RogueContained
PROPERTIES
    AnswersMatch
    ShellComesBack
    ChildrenEnd
