--------------------------------- MODULE Cap ---------------------------------
(***************************************************************************)
(* The capability table of kernel/cap.c.                                   *)
(*                                                                         *)
(* A grant takes the first free slot and no slot is ever freed on its own, *)
(* so a table is the sequence of the capabilities granted since the last   *)
(* cap_clear().  (cap_install(), which writes a chosen slot, and           *)
(* ipc_send_cap(), which sends through one, have no caller.)               *)
(***************************************************************************)
EXTENDS Integers, Sequences

CONSTANTS
    CapMax,              \* slots of a table (16 in the code)
    PortSpace            \* 2^16: io_base + io_len is truncated to uint16_t

ASSUME CapAssumption == CapMax \in Nat \ {0} /\ PortSpace \in Nat \ {0}

Ports == 0 .. PortSpace - 1

Endpoint(target)  == [type |-> "ENDPOINT", target |-> target]
IoPort(base, len) == [type |-> "IOPORT", base |-> base, len |-> len]

EmptyTable == << >>              \* cap_clear()

HasRoom(tab) == Len(tab) < CapMax

HasEndpoint(tab, target) == \E i \in DOMAIN tab : tab[i] = Endpoint(target)

\* The range check of cap_has_port(), with the upper end in 16 bits.
Covers(c, port) ==
    /\ c.type = "IOPORT"
    /\ port >= c.base
    /\ port < (c.base + c.len) % PortSpace

HasPort(tab, port) == \E i \in DOMAIN tab : Covers(tab[i], port)

\* Mutant: a full table gives up its last slot.
GrantIo_Overwrites(tab, base, len) ==
    IF HasRoom(tab) THEN Append(tab, IoPort(base, len))
    ELSE [tab EXCEPT ![CapMax] = IoPort(base, len)]

GrantIo(tab, base, len) ==
    IF HasRoom(tab) THEN Append(tab, IoPort(base, len)) ELSE tab

\* Mutant: a second grant of an endpoint takes a second slot.
GrantEndpoint_Again(tab, target) ==
    IF HasRoom(tab) THEN Append(tab, Endpoint(target)) ELSE tab

\* Idempotent; a full table refuses, and the caller of SYS_SPAWN ignores it.
GrantEndpoint(tab, target) ==
    IF ~HasEndpoint(tab, target) /\ HasRoom(tab)
    THEN Append(tab, Endpoint(target)) ELSE tab
=============================================================================
