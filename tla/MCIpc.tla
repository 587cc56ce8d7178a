-------------------------------- MODULE MCIpc --------------------------------
(* IPC among MCN thread slots: enough for two senders that compete for one *)
(* receiver, a receiver that waits for the wrong one, and slots that die   *)
(* and are reused.  IrqBound 1 lets a notification meet every stage of a   *)
(* receive.                                                                *)
EXTENDS Ipc

CONSTANTS m1, m2

MCN == 3
MCMessage == {m1, m2}
=============================================================================
