------------------------------ MODULE MCSystem -------------------------------
(* The shipped programs with their shipped thread table, but for unused    *)
(* slots: nine threads of the system and the children of PM.               *)
EXTENDS System

MCFaultMsg == Request("FAULT")
MCKills == {Reply("FAULT", "kill")}
MCMessage ==
    {Request(l) : l \in {"READY", "WRITE", "READLINE", "BREAD", "SPAWN", "FAULT",
                         "OPEN", "FREAD", "CLOSE", "LIST", "VPUTS"}}
    \cup {Reply(l, v) : l \in {"READY", "WRITE", "BREAD", "SPAWN", "FAULT", "OPEN", "FREAD",
                             "CLOSE", "LIST"}, v \in {"ok", "fail", "go", "kill"}}
    \cup {Reply("READLINE", c) : c \in Commands}
MCIrqLines == {1, 4}
MCUses == [t \in Threads |-> {"ipc", "spawn", "exit", "pager", "irq", "grant", "fault"}]
MCGrants == Threads \X Threads
MCIoGrants == {<<CON_TID, 1016, 8>>, <<BLK_TID, 496, 8>>, <<VGA_TID, 96, 8>>}

MCSerial == {1}
MCNobody == {}
=============================================================================
