------------------------------ MODULE MCKernel -------------------------------
(* Three threads in the roles of the shipped system: the root spawns and   *)
(* grants, one thread is the pager, one is a client that calls, faults and *)
(* exits; a driver registers an interrupt.  Their programs are arbitrary   *)
(* within these roles.                                                     *)
EXTENDS Kernel

CONSTANTS ok, kill, fault

MCN == 3
MCMessage == {ok, kill, fault}
MCKills == {kill}
MCIrqLines == {4}
MCGrants == {<<2, 1>>}
MCIoGrants == {<<2, 0, 1>>}
MCUses == [t \in Threads |->
              CASE t = 0 -> {"spawn", "grant"}
                [] t = 1 -> {"ipc", "pager", "irq", "exit"}
                [] OTHER -> {"ipc", "fault", "exit"}]

\* The client also registers for the interrupt line.
MCUsesIrq == [t \in Threads |-> IF t = 2 THEN {"irq", "fault"} ELSE MCUses[t]]
=============================================================================
