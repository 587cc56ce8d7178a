----------------------------- MODULE KernelProofs -----------------------------
(* Proofs about the trap layer, for every number of threads, every table   *)
(* size and every set of programs.                                         *)
EXTENDS Kernel, FiniteSetTheorems, FunctionTheorems, TLAPS

USE DEF Threads, Any, Nobody, Irq

Capability == [type : {"ENDPOINT"}, target : Threads]
                \cup [type : {"IOPORT"}, base : Ports, len : Ports]

-----------------------------------------------------------------------------
(* Capability tables: a table that grants can build, and what a grant does *)
(* to it.                                                                  *)
NoCopies(tab) ==
    \A i, j \in DOMAIN tab : tab[i] = tab[j] /\ tab[i].type = "ENDPOINT" => i = j

TableOK(tab) ==
    /\ tab \in Seq(Capability)
    /\ Len(tab) <= CapMax
    /\ NoCopies(tab)

LEMMA EmptyTableOK == TableOK(EmptyTable)
BY CapAssumption DEF TableOK, EmptyTable, NoCopies

LEMMA AppendKeepsEndpoints ==
    ASSUME NEW tab \in Seq(Capability), NEW c \in Capability, NEW d \in Threads,
           HasEndpoint(tab, d)
    PROVE  HasEndpoint(Append(tab, c), d)
<1>1. PICK i \in 1 .. Len(tab) : tab[i] = Endpoint(d)
  BY DEF HasEndpoint
<1>2. i \in 1 .. Len(Append(tab, c)) /\ Append(tab, c)[i] = tab[i]
  OBVIOUS
<1> QED
  BY <1>1, <1>2 DEF HasEndpoint

LEMMA AppendKeepsTable ==
    ASSUME NEW tab, TableOK(tab), HasRoom(tab), NEW c \in Capability,
           c.type = "ENDPOINT" => \A i \in DOMAIN tab : tab[i] # c
    PROVE  TableOK(Append(tab, c))
<1> DEFINE new == Append(tab, c)
<1>1. new \in Seq(Capability) /\ Len(new) = Len(tab) + 1
  BY DEF TableOK
<1>2. \A i \in 1 .. Len(tab) : new[i] = tab[i]
  BY DEF TableOK
<1>3. new[Len(tab) + 1] = c
  BY DEF TableOK
<1>4. Len(tab) \in Nat /\ Len(new) <= CapMax
  BY <1>1, CapAssumption DEF HasRoom, TableOK
<1>5. DOMAIN tab = 1 .. Len(tab) /\ DOMAIN new = 1 .. Len(tab) + 1
  BY <1>1, <1>4 DEF TableOK
<1>6. NoCopies(new)
  <2> SUFFICES ASSUME NEW i \in 1 .. Len(tab) + 1, NEW j \in 1 .. Len(tab) + 1,
                      new[i] = new[j], new[i].type = "ENDPOINT"
               PROVE  i = j
    BY <1>5 DEF NoCopies
  <2>1. CASE i \in 1 .. Len(tab) /\ j \in 1 .. Len(tab)
    BY <2>1, <1>2, <1>5 DEF TableOK, NoCopies
  <2>2. CASE i = Len(tab) + 1 /\ j \in 1 .. Len(tab)
    BY <2>2, <1>2, <1>3, <1>5
  <2>3. CASE j = Len(tab) + 1 /\ i \in 1 .. Len(tab)
    BY <2>3, <1>2, <1>3, <1>5
  <2>4. i \in 1 .. Len(tab) \/ i = Len(tab) + 1
    BY <1>4
  <2>5. j \in 1 .. Len(tab) \/ j = Len(tab) + 1
    BY <1>4
  <2> QED
    BY <2>1, <2>2, <2>3, <2>4, <2>5
<1> QED
  BY <1>1, <1>4, <1>6 DEF TableOK

LEMMA GrantEndpointKeeps ==
    ASSUME NEW tab, TableOK(tab), NEW e \in Threads
    PROVE  /\ TableOK(GrantEndpoint(tab, e))
           /\ \A d \in Threads : HasEndpoint(tab, d) => HasEndpoint(GrantEndpoint(tab, e), d)
<1>1. Endpoint(e) \in Capability
  BY DEF Endpoint, Capability
<1>2. CASE HasEndpoint(tab, e) \/ ~HasRoom(tab)
  BY <1>2 DEF GrantEndpoint
<1>3. CASE ~HasEndpoint(tab, e) /\ HasRoom(tab)
  <2>1. \A i \in DOMAIN tab : tab[i] # Endpoint(e)
    BY <1>3 DEF HasEndpoint
  <2>2. TableOK(Append(tab, Endpoint(e)))
    BY <1>1, <1>3, <2>1, AppendKeepsTable
  <2>3. \A d \in Threads : HasEndpoint(tab, d) => HasEndpoint(Append(tab, Endpoint(e)), d)
    BY <1>1, AppendKeepsEndpoints DEF TableOK
  <2> QED
    BY <1>3, <2>2, <2>3 DEF GrantEndpoint
<1> QED
  BY <1>2, <1>3

LEMMA GrantIoKeeps ==
    ASSUME NEW tab, TableOK(tab), NEW base \in Ports, NEW len \in Ports
    PROVE  /\ TableOK(GrantIo(tab, base, len))
           /\ \A d \in Threads : HasEndpoint(tab, d) => HasEndpoint(GrantIo(tab, base, len), d)
<1>1. IoPort(base, len) \in Capability /\ IoPort(base, len).type # "ENDPOINT"
  BY DEF IoPort, Capability
<1>2. CASE ~HasRoom(tab)
  BY <1>2 DEF GrantIo
<1>3. CASE HasRoom(tab)
  BY <1>1, <1>3, AppendKeepsTable, AppendKeepsEndpoints DEF GrantIo, TableOK
<1> QED
  BY <1>2, <1>3

-----------------------------------------------------------------------------
(* Port ranges: what a table answers after a grant, for every table size   *)
(* and every port space.                                                   *)
\* A port belongs to the range a grant names.
InRange(port, base, len) == port \in base .. base + len - 1

\* A capability added to a table answers for itself; all others as before.
LEMMA AppendAdds ==
    ASSUME NEW tab \in Seq(Capability), NEW c \in Capability, NEW port \in Ports
    PROVE  HasPort(Append(tab, c), port) <=> HasPort(tab, port) \/ Covers(c, port)
<1> DEFINE new == Append(tab, c)
<1>1. Len(new) = Len(tab) + 1 /\ new[Len(tab) + 1] = c
  OBVIOUS
<1>2. \A i \in 1 .. Len(tab) : new[i] = tab[i]
  OBVIOUS
<1>3. DOMAIN new = 1 .. Len(tab) + 1 /\ DOMAIN tab = 1 .. Len(tab) /\ Len(tab) \in Nat
  OBVIOUS
<1>4. DOMAIN new = DOMAIN tab \cup {Len(tab) + 1}
  BY <1>3
<1> QED
  BY <1>1, <1>2, <1>3, <1>4 DEF HasPort

(* SYS_GRANT_IO hands out exactly the range it names ("io_base .. io_base  *)
(* + io_len"), provided the range ends below the top of the port space.    *)
THEOREM GrantIoExact ==
    ASSUME NEW tab \in Seq(Capability), HasRoom(tab),
           NEW base \in Ports, NEW len \in Ports, base + len < PortSpace,
           NEW port \in Ports
    PROVE  HasPort(GrantIo(tab, base, len), port)
               <=> HasPort(tab, port) \/ InRange(port, base, len)
<1>1. IoPort(base, len) \in Capability
  BY DEF Capability, IoPort
<1>2. (base + len) % PortSpace = base + len
  BY CapAssumption, SMT DEF Ports
<1>3. Covers(IoPort(base, len), port) <=> InRange(port, base, len)
  BY <1>2, CapAssumption DEF Covers, IoPort, InRange, Ports
<1>4. GrantIo(tab, base, len) = Append(tab, IoPort(base, len))
  BY DEF GrantIo
<1> QED
  BY <1>1, <1>3, <1>4, AppendAdds

(* The upper end of a range is kept in 16 bits: a range that reaches the   *)
(* last port grants nothing at all, and never more than it names.          *)
THEOREM GrantIoAtTheTop ==
    ASSUME NEW tab \in Seq(Capability), HasRoom(tab),
           NEW base \in Ports, NEW len \in Ports, base + len >= PortSpace,
           NEW port \in Ports
    PROVE  HasPort(GrantIo(tab, base, len), port) <=> HasPort(tab, port)
<1>1. IoPort(base, len) \in Capability
  BY DEF Capability, IoPort
<1>2. (base + len) % PortSpace = base + len - PortSpace
  BY CapAssumption, SMT DEF Ports
<1>3. ~Covers(IoPort(base, len), port)
  BY <1>2, CapAssumption DEF Covers, IoPort, Ports
<1>4. GrantIo(tab, base, len) = Append(tab, IoPort(base, len))
  BY DEF GrantIo
<1> QED
  BY <1>1, <1>3, <1>4, AppendAdds

-----------------------------------------------------------------------------
(* The inductive invariant.  A thread that waits in a send has its call    *)
(* open towards the thread it waits for.                                   *)
OpenCalls == \A c \in Threads : resume[c] = "send" => call_to[c] = ipc_peer[c]

KInv ==
    /\ KernelTypeOK
    /\ ipc_peer \in [Threads -> Threads \cup {Any}]
    /\ ctable \in [Threads -> Seq(Capability)]
    /\ \A t \in Threads : TableOK(ctable[t])
    /\ OpenCalls

\* What KInv says of the capability tables, and of the rest.
TablesOK == ctable \in [Threads -> Seq(Capability)] /\ \A t \in Threads : TableOK(ctable[t])

CallsOK ==
    /\ resume \in [Threads -> {"none", "send", "recv", "fault", "fault_send", "fault_recv",
                             "kill", "panic"}]
    /\ call_to \in [Threads -> Threads \cup {Nobody}]
    /\ g_pager_tid \in Threads \cup {Nobody}
    /\ g_irq_tid \in [IrqLines -> Threads \cup {Nobody}]
    /\ ipc_peer \in [Threads -> Threads \cup {Any}]
    /\ OpenCalls

LEMMA KInvParts == KInv <=> TablesOK /\ CallsOK
BY DEF KInv, TablesOK, CallsOK, KernelTypeOK, TableOK

LEMMA KInitInv == KInit => KInv
<1> SUFFICES ASSUME KInit PROVE KInv
  OBVIOUS
<1>1. TablesOK
  BY EmptyTableOK DEF KInit, TablesOK, TableOK
<1>2. CallsOK
  BY NAssumption DEF KInit, Init, CallsOK, OpenCalls
<1> QED
  BY <1>1, <1>2, KInvParts

-----------------------------------------------------------------------------
(* Only three system calls touch the tables.                               *)
LEMMA OnlyGrantsTouchTables ==
    ASSUME [KNext]_kvars
    PROVE  \/ UNCHANGED ctable
           \/ \E t \in Threads : SysSpawn(t)
           \/ \E t \in Threads, g \in Grants : SysGrantCap(t, g[1], g[2])
           \/ \E t \in Threads, g \in IoGrants : SysGrantIo(t, g[1], g[2], g[3])
<1>1. CASE UNCHANGED kvars
  BY <1>1 DEF kvars, trapVars
<1>2. CASE TimerInterrupt \/ \E irq \in IrqLines : HwInterrupt(irq)
  BY <1>2 DEF TimerInterrupt, HwInterrupt, trapVars
<1>3. ASSUME NEW t \in Threads, PageFault(t) \/ KernelPath(t)
      PROVE  UNCHANGED ctable
  BY <1>3 DEF PageFault, FaultPanics, FaultSends, KernelPath, SysSendReturns,
              SysRecvReturns, FaultSent, FaultReceives, FaultAnswered, FaultKills, trapVars
<1>4. ASSUME NEW t \in Threads, Syscall(t)
      PROVE  \/ UNCHANGED ctable
             \/ \E g \in Grants : SysGrantCap(t, g[1], g[2])
             \/ \E g \in IoGrants : SysGrantIo(t, g[1], g[2], g[3])
  BY <1>4 DEF Syscall, SysSendDenied, SysSend, SysRecv, SysExit, SysSetPager,
              SysLocal, SysIrqRegister, trapVars
<1> QED
  BY <1>1, <1>2, <1>3, <1>4 DEF KNext

(* No step breaks a table or takes an endpoint out of the table of a       *)
(* living thread.                                                          *)
LEMMA TablesKept ==
    ASSUME TablesOK, [KNext]_kvars
    PROVE  /\ TablesOK'
           /\ \A t, d \in Threads :
                HasEndpoint(ctable[t], d) /\ tstate[t] \notin Free => HasEndpoint(ctable'[t], d)
<1> DEFINE Goal ==
        /\ TablesOK'
        /\ \A t, d \in Threads :
             HasEndpoint(ctable[t], d) /\ tstate[t] \notin Free => HasEndpoint(ctable'[t], d)
<1> USE DEF TablesOK
<1>1. CASE UNCHANGED ctable
  BY <1>1
<1>2. ASSUME NEW c \in Threads, SysSpawn(c) PROVE Goal
  <2>1. tstate[c] \in Free /\ ctable' = Endowed(c)
    BY <1>2 DEF SysSpawn, Spawn, Create, LowestFree
  <2>2. \A u \in Threads :
          ctable'[u] = EmptyTable \/ ctable'[u] = GrantEndpoint(ctable[u], c) \/ ctable'[u] = ctable[u]
    BY <2>1 DEF Endowed
  <2>3. \A u \in Threads \ {c} :
          ctable'[u] = GrantEndpoint(ctable[u], c) \/ ctable'[u] = ctable[u]
    BY <2>1 DEF Endowed
  <2>4. \A u \in Threads : TableOK(ctable'[u])
    BY <2>2, EmptyTableOK, GrantEndpointKeeps
  <2>5. ctable' \in [Threads -> Seq(Capability)]
    <3>1. \A u \in Threads : ctable'[u] \in Seq(Capability)
      BY <2>4 DEF TableOK
    <3> QED
      BY <2>1, <3>1 DEF Endowed
  <2>6. \A u \in Threads \ {c}, d \in Threads :
          HasEndpoint(ctable[u], d) => HasEndpoint(ctable'[u], d)
    BY <2>3, GrantEndpointKeeps
  <2> QED
    BY <2>1, <2>4, <2>5, <2>6
<1>3. ASSUME NEW t \in Threads, NEW g \in Grants, SysGrantCap(t, g[1], g[2]) PROVE Goal
  <2>1. g[1] \in Threads /\ g[2] \in Threads
    BY KernelAssumption
  <2>2. ctable' = [ctable EXCEPT ![g[1]] = GrantEndpoint(ctable[g[1]], g[2])]
    BY <1>3 DEF SysGrantCap
  <2>3. /\ GrantEndpoint(ctable[g[1]], g[2]) \in Seq(Capability)
        /\ TableOK(GrantEndpoint(ctable[g[1]], g[2]))
        /\ \A d \in Threads : HasEndpoint(ctable[g[1]], d)
                                => HasEndpoint(GrantEndpoint(ctable[g[1]], g[2]), d)
    BY <2>1, GrantEndpointKeeps DEF TableOK
  <2> QED
    BY <2>1, <2>2, <2>3
<1>4. ASSUME NEW t \in Threads, NEW g \in IoGrants, SysGrantIo(t, g[1], g[2], g[3]) PROVE Goal
  <2>1. g[1] \in Threads /\ g[2] \in Ports /\ g[3] \in Ports
    BY KernelAssumption
  <2>2. ctable' = [ctable EXCEPT ![g[1]] = GrantIo(ctable[g[1]], g[2], g[3])]
    BY <1>4 DEF SysGrantIo
  <2>3. /\ GrantIo(ctable[g[1]], g[2], g[3]) \in Seq(Capability)
        /\ TableOK(GrantIo(ctable[g[1]], g[2], g[3]))
        /\ \A d \in Threads : HasEndpoint(ctable[g[1]], d)
                                => HasEndpoint(GrantIo(ctable[g[1]], g[2], g[3]), d)
    BY <2>1, GrantIoKeeps DEF TableOK
  <2> QED
    BY <2>1, <2>2, <2>3
<1> QED
  BY <1>1, <1>2, <1>3, <1>4, OnlyGrantsTouchTables

-----------------------------------------------------------------------------
(* Only a send opens a call, before it blocks; only its own receive, and   *)
(* the reuse of its slot, close it.                                        *)
LEMMA CallsKept == ASSUME CallsOK, [KNext]_kvars PROVE CallsOK'
<1> USE DEF CallsOK, OpenCalls, CallOver, Return, Gives, BlocksIn, NoCall
<1>1. CASE UNCHANGED kvars
  BY <1>1 DEF kvars, vars, ipcVars, trapVars
<1>2. CASE TimerInterrupt
  BY <1>2 DEF TimerInterrupt, TimerTick, ipcVars, trapVars
<1>3. ASSUME NEW irq \in IrqLines, HwInterrupt(irq) PROVE CallsOK'
  BY <1>3 DEF HwInterrupt, Notify, Interrupt, trapVars
<1>4. ASSUME NEW t \in Threads, SysSpawn(t) PROVE CallsOK'
  BY <1>4 DEF SysSpawn, Spawn, Reset
<1>5. ASSUME NEW t \in Threads, Syscall(t) PROVE CallsOK'
  <2>1. ASSUME NEW d \in Threads \cup {Any}, SysSendDenied(t, d) PROVE CallsOK'
    BY <2>1 DEF SysSendDenied, ipcVars, trapVars
  <2>2. ASSUME NEW d \in Threads \cup {Any}, NEW m \in Message, SysSend(t, d, m) PROVE CallsOK'
    <3>1. call_to' = [call_to EXCEPT ![t] = d] /\ UNCHANGED <<g_pager_tid, g_irq_tid>>
      BY <2>2 DEF SysSend, OpensCall
    <3>2. CASE SendFails(t, d)
      BY <3>1, <3>2 DEF SendFails, ipcVars
    <3>3. CASE SendDelivers(t, d, m)
      BY <3>1, <3>3 DEF SendDelivers, Deliver
    <3>4. CASE SendBlocks(t, d, m)
      BY <3>1, <3>4 DEF SendBlocks, Stage
    <3> QED
      BY <2>2, <3>2, <3>3, <3>4 DEF SysSend
  <2>3. ASSUME NEW src \in Threads \cup {Any}, SysRecv(t, src) PROVE CallsOK'
    <3>1. UNCHANGED <<g_pager_tid, g_irq_tid>> /\ resume[t] = "none"
      BY <2>3 DEF SysRecv, Does, InUser
    <3>2. CASE RecvTakesIrq(t) /\ CallDone(t, Irq)
      BY <3>1, <3>2 DEF RecvTakesIrq, TakeIrq, CallDone
    <3>3. ASSUME NEW s \in Threads, RecvTakesSender(t, s, src), CallDone(t, s) PROVE CallsOK'
      BY <3>1, <3>3 DEF RecvTakesSender, TakeSender, CallDone
    <3>4. CASE RecvBlocks(t, src) /\ UNCHANGED call_to
      BY <3>1, <3>4 DEF RecvBlocks, Await
    <3> QED
      BY <2>3, <3>2, <3>3, <3>4 DEF SysRecv
  <2>4. CASE SysExit(t)
    BY <2>4 DEF SysExit, Exit, ipcVars, trapVars
  <2>5. CASE SysSetPager(t)
    BY <2>5 DEF SysSetPager, ipcVars
  <2>6. ASSUME NEW irq \in IrqLines, SysIrqRegister(t, irq) PROVE CallsOK'
    BY <2>6 DEF SysIrqRegister, ipcVars
  <2>7. ASSUME NEW to, NEW ep, SysGrantCap(t, to, ep) PROVE CallsOK'
    BY <2>7 DEF SysGrantCap, ipcVars
  <2>8. ASSUME NEW to, NEW base, NEW len, SysGrantIo(t, to, base, len) PROVE CallsOK'
    BY <2>8 DEF SysGrantIo, ipcVars
  <2>9. CASE SysLocal(t)
    BY <2>9 DEF SysLocal, ipcVars, trapVars
  <2> QED
    BY <1>5, <2>1, <2>2, <2>3, <2>4, <2>5, <2>6, <2>7, <2>8, <2>9 DEF Syscall
<1>6. ASSUME NEW t \in Threads, PageFault(t) PROVE CallsOK'
  <2>1. CASE FaultPanics(t)
    BY <2>1 DEF FaultPanics, ipcVars, trapVars
  <2>2. CASE FaultSends(t)
    <3>1. CASE Gives(t, -1, NoMsg, "fault") /\ UNCHANGED <<schedVars, ipcVars>>
      BY <2>2, <3>1 DEF FaultSends, ipcVars, trapVars
    <3>2. CASE Deliver(t, g_pager_tid, FaultMsg) /\ Gives(t, 0, NoMsg, "fault")
      BY <2>2, <3>2 DEF FaultSends, Deliver, trapVars
    <3>3. CASE Stage(t, g_pager_tid, FaultMsg) /\ BlocksIn(t, "fault_send")
      BY <2>2, <3>3 DEF FaultSends, Stage, trapVars
    <3> QED
      BY <2>2, <3>1, <3>2, <3>3 DEF FaultSends
  <2> QED
    BY <1>6, <2>1, <2>2 DEF PageFault
<1>7. ASSUME NEW t \in Threads, KernelPath(t) PROVE CallsOK'
  <2>1. CASE SysSendReturns(t)
    BY <2>1 DEF SysSendReturns, SendReturns, SendDone, trapVars
  <2>2. CASE SysRecvReturns(t)
    <3>1. /\ UNCHANGED <<g_pager_tid, g_irq_tid>>
          /\ ipc_peer' = [ipc_peer EXCEPT ![t] = Any]
          /\ resume' = [resume EXCEPT ![t] = "none"]
      BY <2>2 DEF SysRecvReturns, RecvReturnsIrq, RecvReturns, AwokenByIrq, Delivered
    <3>2. \E from : CallDone(t, from)
      BY <2>2 DEF SysRecvReturns
    <3>3. call_to' = [call_to EXCEPT ![t] = Nobody] \/ call_to' = call_to
      BY <3>2 DEF CallDone
    <3> QED
      BY <3>1, <3>3
  <2>3. CASE FaultSent(t)
    BY <2>3 DEF FaultSent, SendDone, trapVars
  <2>4. CASE FaultReceives(t)
    <3>1. UNCHANGED <<call_to, g_pager_tid, g_irq_tid>> /\ resume[t] = "fault"
      BY <2>4 DEF FaultReceives, Resumed, trapVars
    <3>2. CASE TakeIrq(t) /\ \E k \in {"none", "kill"} : Gives(t, Irq, NoMsg, k)
      BY <3>1, <3>2 DEF TakeIrq
    <3>3. ASSUME NEW s \in Threads, TakeSender(t, s, g_pager_tid),
                 Gives(t, s, ipc_buf[s], Verdict(ipc_buf[s]))
          PROVE  CallsOK'
      BY <3>1, <3>3 DEF TakeSender, Verdict
    <3>4. CASE Await(t, g_pager_tid) /\ BlocksIn(t, "fault_recv")
      BY <3>1, <3>4 DEF Await
    <3> QED
      BY <2>4, <3>2, <3>3, <3>4 DEF FaultReceives
  <2>5. CASE FaultAnswered(t)
    <3>1. CASE AwokenByIrq(t)
      BY <2>5, <3>1 DEF FaultAnswered, AwokenByIrq, Verdict, trapVars
    <3>2. CASE Delivered(t)
      BY <2>5, <3>2 DEF FaultAnswered, Delivered, Verdict, trapVars
    <3> QED
      BY <2>5, <3>1, <3>2 DEF FaultAnswered
  <2>6. CASE FaultKills(t)
    BY <2>6 DEF FaultKills, ipcVars, trapVars
  <2> QED
    BY <1>7, <2>1, <2>2, <2>3, <2>4, <2>5, <2>6 DEF KernelPath
<1> QED
  BY <1>1, <1>2, <1>3, <1>4, <1>5, <1>6, <1>7 DEF KNext

LEMMA KInvAlways == KSpec => []KInv
<1>1. KInv /\ [KNext]_kvars => KInv'
  <2> SUFFICES ASSUME KInv, [KNext]_kvars PROVE KInv'
    OBVIOUS
  <2>1. TablesOK' /\ CallsOK'
    BY TablesKept, CallsKept, KInvParts
  <2> QED
    BY <2>1 DEF KInv, TablesOK, CallsOK, KernelTypeOK, TableOK
<1> QED
  BY <1>1, KInitInv, PTL DEF KSpec

-----------------------------------------------------------------------------
(* The CPU, as the trap layer leaves it: its owner is running, and a       *)
(* kernel path that may not be interrupted belongs to the owner.           *)
AtCpu == {"fault", "kill", "panic"}

CpuOK ==
    /\ SchedTypeOK
    /\ CpuLive
    /\ \A t \in Threads : resume[t] \in AtCpu => current = t

LEMMA ScheduleLive ==
    ASSUME NEW ts \in [Threads -> States], Schedule(ts)
    PROVE  SchedTypeOK' /\ CpuLive'
BY DEF Schedule, PicksNext, Switch, Runnable, SchedTypeOK, CpuLive, States, Idle

LEMMA WokenLive ==
    ASSUME SchedTypeOK, CpuLive, NEW d \in Threads, tstate' = Woken(tstate, d), current' = current
    PROVE  SchedTypeOK' /\ CpuLive'
BY DEF SchedTypeOK, CpuLive, Woken, States, Idle

LEMMA CpuKept == ASSUME CpuOK, CallsOK, [KNext]_kvars PROVE CpuOK'
<1> USE DEF CpuOK, CallsOK, Return, Gives, BlocksIn, NoCall, AtCpu
<1>0. ASSUME UNCHANGED <<tstate, current>>,
             NEW t \in Threads, current = t, NEW k, resume' = [resume EXCEPT ![t] = k]
      PROVE  CpuOK'
  BY <1>0 DEF SchedTypeOK, CpuLive
<1>1. ASSUME UNCHANGED <<tstate, current, resume>> PROVE CpuOK'
  BY <1>1 DEF SchedTypeOK, CpuLive
<1>2. ASSUME NEW t \in Threads, current = t, NEW k, k \notin AtCpu,
             resume' = [resume EXCEPT ![t] = k],
             NEW s \in States, Schedule([tstate EXCEPT ![t] = s])
      PROVE  CpuOK'
  <2>1. [tstate EXCEPT ![t] = s] \in [Threads -> States]
    BY DEF SchedTypeOK
  <2>2. SchedTypeOK' /\ CpuLive'
    BY <2>1, <1>2, ScheduleLive
  <2> QED
    BY <1>2, <2>2
<1>3. ASSUME NEW t \in Threads, current = t, NEW k, resume' = [resume EXCEPT ![t] = k],
             NEW d \in Threads, tstate' = Woken(tstate, d), UNCHANGED current
      PROVE  CpuOK'
  BY <1>3, WokenLive
<1>4. CASE UNCHANGED kvars
  BY <1>1, <1>4 DEF kvars, vars, schedVars
<1>5. CASE TimerInterrupt
  <2>1. SchedTypeOK' /\ CpuLive'
    BY <1>5, ScheduleLive DEF TimerInterrupt, TimerTick, Tick, SchedTypeOK
  <2> QED
    BY <1>5, <2>1 DEF TimerInterrupt, TimerTick, Interruptible, Idle
<1>6. ASSUME NEW irq \in IrqLines, HwInterrupt(irq) PROVE CpuOK'
  <2>1. g_irq_tid[irq] \in Threads /\ UNCHANGED <<current, resume>>
    BY <1>6 DEF HwInterrupt, Notify, Exists, Interrupt
  <2>2. tstate' = Woken(tstate, g_irq_tid[irq]) \/ tstate' = tstate
    BY <1>6 DEF HwInterrupt, Notify, Interrupt, WokenByIrq
  <2> QED
    BY <1>1, <2>1, <2>2, WokenLive
<1>7. ASSUME NEW t \in Threads, SysSpawn(t) PROVE CpuOK'
  BY <1>7 DEF SysSpawn, Spawn, Create, LowestFree, Reset, SchedTypeOK, CpuLive, States, Free, Idle
<1>8. ASSUME NEW t \in Threads, Syscall(t) PROVE CpuOK'
  <2>1. ASSUME NEW d \in Threads \cup {Any}, SysSendDenied(t, d) PROVE CpuOK'
    BY <1>0, <2>1 DEF SysSendDenied, Does, InUser, schedVars
  <2>2. ASSUME NEW d \in Threads \cup {Any}, NEW m \in Message, SysSend(t, d, m) PROVE CpuOK'
    <3>1. CASE SendFails(t, d)
      BY <1>0, <3>1 DEF SendFails, InUser, schedVars
    <3>2. CASE SendDelivers(t, d, m)
      BY <1>3, <3>2 DEF SendDelivers, Deliver, Exists, InUser
    <3>3. CASE SendBlocks(t, d, m)
      BY <1>2, <3>3 DEF SendBlocks, Stage, InUser, States
    <3> QED
      BY <2>2, <3>1, <3>2, <3>3 DEF SysSend
  <2>3. ASSUME NEW src \in Threads \cup {Any}, SysRecv(t, src) PROVE CpuOK'
    <3>1. CASE RecvTakesIrq(t)
      BY <1>0, <3>1 DEF RecvTakesIrq, TakeIrq, InUser, schedVars
    <3>2. ASSUME NEW s \in Threads, RecvTakesSender(t, s, src) PROVE CpuOK'
      BY <1>3, <3>2 DEF RecvTakesSender, TakeSender, InUser
    <3>3. CASE RecvBlocks(t, src)
      BY <1>2, <3>3 DEF RecvBlocks, Await, InUser, States
    <3> QED
      BY <2>3, <3>1, <3>2, <3>3 DEF SysRecv
  <2>4. CASE SysExit(t)
    <3>1. /\ current = t /\ resume[t] = "none" /\ UNCHANGED resume
          /\ Schedule([tstate EXCEPT ![t] = "DEAD"])
      BY <2>4 DEF SysExit, Exit, Yield, InUser
    <3>2. resume' = [resume EXCEPT ![t] = "none"]
      BY <3>1
    <3> QED
      BY <1>2, <3>1, <3>2 DEF States
  <2>5. CASE SysSetPager(t)
    BY <1>1, <2>5 DEF SysSetPager, schedVars
  <2>6. ASSUME NEW irq \in IrqLines, SysIrqRegister(t, irq) PROVE CpuOK'
    BY <1>1, <2>6 DEF SysIrqRegister, schedVars
  <2>7. ASSUME NEW to, NEW ep, SysGrantCap(t, to, ep) PROVE CpuOK'
    BY <1>1, <2>7 DEF SysGrantCap, schedVars
  <2>8. ASSUME NEW to, NEW base, NEW len, SysGrantIo(t, to, base, len) PROVE CpuOK'
    BY <1>1, <2>8 DEF SysGrantIo, schedVars
  <2>9. CASE SysLocal(t)
    BY <1>1, <2>9 DEF SysLocal, NoCall, schedVars
  <2> QED
    BY <1>8, <2>1, <2>2, <2>3, <2>4, <2>5, <2>6, <2>7, <2>8, <2>9 DEF Syscall
<1>9. ASSUME NEW t \in Threads, PageFault(t) PROVE CpuOK'
  <2>1. current = t
    BY <1>9 DEF PageFault, FaultPanics, FaultSends, Does, InUser
  <2>2. CASE FaultPanics(t)
    BY <1>0, <2>1, <2>2 DEF FaultPanics, schedVars
  <2>3. CASE FaultSends(t)
    <3>1. CASE Gives(t, -1, NoMsg, "fault") /\ UNCHANGED <<schedVars, ipcVars>>
      BY <1>0, <2>1, <3>1 DEF schedVars
    <3>2. CASE Deliver(t, g_pager_tid, FaultMsg) /\ Gives(t, 0, NoMsg, "fault")
      BY <1>3, <2>1, <3>2 DEF Deliver, Exists
    <3>3. CASE Stage(t, g_pager_tid, FaultMsg) /\ BlocksIn(t, "fault_send")
      BY <1>2, <2>1, <3>3 DEF Stage, States
    <3> QED
      BY <2>3, <3>1, <3>2, <3>3 DEF FaultSends
  <2> QED
    BY <1>9, <2>2, <2>3 DEF PageFault
<1>10. ASSUME NEW t \in Threads, KernelPath(t) PROVE CpuOK'
  <2>1. current = t
    BY <1>10 DEF KernelPath, SysSendReturns, SysRecvReturns, SendReturns, RecvReturnsIrq,
                 RecvReturns, FaultSent, FaultReceives, FaultAnswered, FaultKills, Resumed
  <2>2. CASE SysSendReturns(t)
    BY <1>0, <2>1, <2>2 DEF SysSendReturns, SendReturns, SendDone, schedVars
  <2>3. CASE SysRecvReturns(t)
    BY <1>0, <2>1, <2>3 DEF SysRecvReturns, RecvReturnsIrq, RecvReturns, AwokenByIrq,
                            Delivered, schedVars
  <2>4. CASE FaultSent(t)
    BY <1>0, <2>1, <2>4 DEF FaultSent, SendDone, schedVars
  <2>5. CASE FaultReceives(t)
    <3>1. CASE TakeIrq(t) /\ \E k \in {"none", "kill"} : Gives(t, Irq, NoMsg, k)
      BY <1>0, <2>1, <3>1 DEF TakeIrq, schedVars
    <3>2. ASSUME NEW s \in Threads, TakeSender(t, s, g_pager_tid),
                 Gives(t, s, ipc_buf[s], Verdict(ipc_buf[s]))
          PROVE  CpuOK'
      BY <1>3, <2>1, <3>2 DEF TakeSender
    <3>3. CASE Await(t, g_pager_tid) /\ BlocksIn(t, "fault_recv")
      BY <1>2, <2>1, <3>3 DEF Await, States
    <3> QED
      BY <2>5, <3>1, <3>2, <3>3 DEF FaultReceives
  <2>6. CASE FaultAnswered(t)
    BY <1>0, <2>1, <2>6 DEF FaultAnswered, AwokenByIrq, Delivered, schedVars
  <2>7. CASE FaultKills(t)
    BY <1>2, <2>1, <2>7 DEF FaultKills, TornDown, Yield, States
  <2> QED
    BY <1>10, <2>2, <2>3, <2>4, <2>5, <2>6, <2>7 DEF KernelPath
<1> QED
  BY <1>4, <1>5, <1>6, <1>7, <1>8, <1>9, <1>10 DEF KNext

-----------------------------------------------------------------------------
(* The kernel and Ipc.  The pieces of an IPC operation that do not look at *)
(* `resume' are the same for both; those that do see it through ipc_resume.*)
USE DEF IpcK!Threads, IpcK!Any, IpcK!Irq, IpcK!Idle, Idle

LEMMA SameSchedule == ASSUME NEW ts PROVE Schedule(ts) <=> IpcK!Schedule(ts)
BY DEF Schedule, PicksNext, Runnable, Switch, Dist, From,
       IpcK!Schedule, IpcK!PicksNext, IpcK!Runnable, IpcK!Switch, IpcK!Dist, IpcK!From

LEMMA ViewMoves ==
    ASSUME CallsOK, NEW t \in Threads, NEW k, resume' = [resume EXCEPT ![t] = k]
    PROVE  ipc_resume' = [ipc_resume EXCEPT ![t] = IpcView(k)]
BY DEF CallsOK, ipc_resume

LEMMA ViewGives ==
    ASSUME CallsOK, NEW t \in Threads, NEW r, NEW m, NEW k, Gives(t, r, m, k),
           IpcView(k) = "none"
    PROVE  IpcK!Return(t, r, m)
<1>1. ipc_resume' = [ipc_resume EXCEPT ![t] = IpcView(k)]
  BY ViewMoves DEF Gives
<1> QED
  BY <1>1 DEF Gives, IpcK!Return, IpcK!Gives, ipc_resume

LEMMA ViewBlocks ==
    ASSUME CallsOK, NEW t \in Threads, NEW k, BlocksIn(t, k)
    PROVE  IpcK!BlocksIn(t, IpcView(k))
<1>1. ipc_resume' = [ipc_resume EXCEPT ![t] = IpcView(k)]
  BY ViewMoves DEF BlocksIn
<1> QED
  BY <1>1 DEF BlocksIn, NoResult, IpcK!BlocksIn, IpcK!NoResult, ipc_resume

LEMMA SamePieces ==
    ASSUME NEW t, NEW d, NEW s, NEW src, NEW m
    PROVE  /\ Exists(d) <=> IpcK!Exists(d)
           /\ Deliver(t, d, m) => IpcK!Deliver(t, d, m)
           /\ Stage(t, d, m) => IpcK!Stage(t, d, m)
           /\ SendDone(t) => IpcK!SendDone(t)
           /\ TakeIrq(t) => IpcK!TakeIrq(t)
           /\ TakeSender(t, s, src) => IpcK!TakeSender(t, s, src)
           /\ Await(t, src) => IpcK!Await(t, src)
           /\ AwokenByIrq(t) => IpcK!AwokenByIrq(t)
           /\ Delivered(t) => IpcK!Delivered(t)
           /\ Interrupt(d) => IpcK!Interrupt(d)
<1> USE DEF Exists, Free, Receives, ReceiverReady, WaitingSender, FindsSender, NoSender, Woken,
            IrqDue, CallOver, schedVars,
            IpcK!Exists, IpcK!Free, IpcK!Receives, IpcK!ReceiverReady, IpcK!WaitingSender,
            IpcK!FindsSender, IpcK!NoSender, IpcK!Woken, IpcK!IrqDue, IpcK!CallOver, IpcK!schedVars
<1>1. Exists(d) <=> IpcK!Exists(d)
  OBVIOUS
<1>2. Deliver(t, d, m) => IpcK!Deliver(t, d, m)
  BY DEF Deliver, IpcK!Deliver
<1>3. Stage(t, d, m) => IpcK!Stage(t, d, m)
  BY SameSchedule DEF Stage, IpcK!Stage
<1>4. SendDone(t) => IpcK!SendDone(t)
  BY DEF SendDone, IpcK!SendDone
<1>5. TakeIrq(t) => IpcK!TakeIrq(t)
  BY DEF TakeIrq, IpcK!TakeIrq
<1>6. TakeSender(t, s, src) => IpcK!TakeSender(t, s, src)
  BY DEF TakeSender, IpcK!TakeSender
<1>7. Await(t, src) => IpcK!Await(t, src)
  BY SameSchedule DEF Await, IpcK!Await
<1>8. AwokenByIrq(t) => IpcK!AwokenByIrq(t)
  BY DEF AwokenByIrq, IpcK!AwokenByIrq
<1>9. Delivered(t) => IpcK!Delivered(t)
  BY DEF Delivered, IpcK!Delivered
<1>10. Interrupt(d) => IpcK!Interrupt(d)
  BY DEF Interrupt, WokenByIrq, IpcK!Interrupt, IpcK!WokenByIrq
<1> QED
  BY <1>1, <1>2, <1>3, <1>4, <1>5, <1>6, <1>7, <1>8, <1>9, <1>10

LEMMA SameGuards ==
    ASSUME CpuOK, CallsOK, NEW t \in Threads
    PROVE  /\ InUser(t) => IpcK!InUser(t)
           /\ Interruptible => IpcK!Interruptible
           /\ \A k \in AtCpu : Resumed(t, k) => IpcK!InUser(t)
           /\ \A k : Resumed(t, k) => IpcK!Resumed(t, IpcView(k))
<1> USE DEF CpuOK, CallsOK, SchedTypeOK, CpuLive, ipc_resume, AtCpu
<1>1. InUser(t) => IpcK!InUser(t)
  BY DEF InUser, IpcK!InUser, IpcView
<1>2. Interruptible => IpcK!Interruptible
  BY DEF Interruptible, IpcK!Interruptible, IpcView
<1>3. ASSUME NEW k \in AtCpu, Resumed(t, k) PROVE IpcK!InUser(t)
  BY <1>3 DEF Resumed, IpcK!InUser, IpcView
<1>4. ASSUME NEW k, Resumed(t, k) PROVE IpcK!Resumed(t, IpcView(k))
  BY <1>4 DEF Resumed, IpcK!Resumed
<1> QED
  BY <1>1, <1>2, <1>3, <1>4

LEMMA SameNoCall == NoCall => IpcK!NoCall
BY DEF NoCall, NoResult, IpcK!NoCall, IpcK!NoResult, ipc_resume

LEMMA SameRet == ASSUME CallsOK, NEW t \in Threads, ret' = NoResult,
                        NEW k \in AtCpu \cup {"none"}, resume' = [resume EXCEPT ![t] = k],
                        resume[t] \in AtCpu \cup {"none"}
                 PROVE  IpcK!NoCall
<1>1. ipc_resume' = [ipc_resume EXCEPT ![t] = "none"] /\ ipc_resume[t] = "none"
  BY ViewMoves DEF IpcView, AtCpu, ipc_resume
<1>2. ipc_resume' = ipc_resume
  BY <1>1 DEF ipc_resume
<1> QED
  BY <1>2 DEF NoResult, IpcK!NoCall, IpcK!NoResult

LEMMA SyscallRefines ==
    ASSUME CpuOK, CallsOK, NEW t \in Threads, Syscall(t) PROVE IpcK!Next
<1> USE SamePieces, SameGuards, SameNoCall
<1>1. ASSUME NEW d \in Threads \cup {Any}, SysSendDenied(t, d) PROVE IpcK!Next
  <2>1. IpcK!Return(t, -1, NoMsg)
    BY <1>1, ViewGives DEF SysSendDenied, Return, IpcView
  <2>2. IpcK!SendFails(t, Any)
    BY <1>1, <2>1 DEF SysSendDenied, Does, IpcK!SendFails, IpcK!Exists, schedVars, ipcVars,
                      IpcK!schedVars, IpcK!ipcVars
  <2> QED
    BY <2>2 DEF IpcK!Next
<1>2. ASSUME NEW d \in Threads \cup {Any}, NEW m \in Message, SysSend(t, d, m) PROVE IpcK!Next
  <2>1. CASE SendFails(t, d)
    <3>1. IpcK!Return(t, -1, NoMsg)
      BY <2>1, ViewGives DEF SendFails, Return, IpcView
    <3>2. IpcK!SendFails(t, d)
      BY <2>1, <3>1 DEF SendFails, IpcK!SendFails, schedVars, ipcVars,
                        IpcK!schedVars, IpcK!ipcVars
    <3> QED
      BY <3>2 DEF IpcK!Next
  <2>2. CASE SendDelivers(t, d, m)
    <3>1. IpcK!Return(t, 0, NoMsg)
      BY <2>2, ViewGives DEF SendDelivers, Return, IpcView
    <3>2. IpcK!SendDelivers(t, d, m) /\ d \in Threads
      BY <2>2, <3>1 DEF SendDelivers, IpcK!SendDelivers, Deliver, Exists
    <3> QED
      BY <3>2 DEF IpcK!Next
  <2>3. CASE SendBlocks(t, d, m)
    <3>1. IpcK!BlocksIn(t, "send")
      BY <2>3, ViewBlocks DEF SendBlocks, IpcView
    <3>2. IpcK!SendBlocks(t, d, m) /\ d \in Threads
      BY <2>3, <3>1 DEF SendBlocks, IpcK!SendBlocks, Stage, Exists
    <3> QED
      BY <3>2 DEF IpcK!Next
  <2> QED
    BY <1>2, <2>1, <2>2, <2>3 DEF SysSend
<1>3. ASSUME NEW src \in Threads \cup {Any}, SysRecv(t, src) PROVE IpcK!Next
  <2>1. CASE RecvTakesIrq(t)
    <3>1. IpcK!Return(t, Irq, NoMsg)
      BY <2>1, ViewGives DEF RecvTakesIrq, Return, IpcView
    <3>2. IpcK!RecvTakesIrq(t)
      BY <2>1, <3>1 DEF RecvTakesIrq, IpcK!RecvTakesIrq
    <3> QED
      BY <3>2 DEF IpcK!Next
  <2>2. ASSUME NEW s \in Threads, RecvTakesSender(t, s, src) PROVE IpcK!Next
    <3>1. IpcK!Return(t, s, ipc_buf[s])
      BY <2>2, ViewGives DEF RecvTakesSender, Return, IpcView
    <3>2. IpcK!RecvTakesSender(t, s, src)
      BY <2>2, <3>1 DEF RecvTakesSender, IpcK!RecvTakesSender
    <3> QED
      BY <3>2 DEF IpcK!Next
  <2>3. CASE RecvBlocks(t, src)
    <3>1. IpcK!BlocksIn(t, "recv")
      BY <2>3, ViewBlocks DEF RecvBlocks, IpcView
    <3>2. IpcK!RecvBlocks(t, src)
      BY <2>3, <3>1 DEF RecvBlocks, IpcK!RecvBlocks
    <3> QED
      BY <3>2 DEF IpcK!Next
  <2> QED
    BY <1>3, <2>1, <2>2, <2>3 DEF SysRecv
<1>4. CASE SysExit(t)
  <2>1. IpcK!Exit(t)
    BY <1>4, SameSchedule DEF SysExit, Exit, Yield, ipcVars, IpcK!Exit, IpcK!Yield, IpcK!ipcVars
  <2> QED
    BY <2>1 DEF IpcK!Next
<1>5. ASSUME InUser(t), NoCall, UNCHANGED <<schedVars, ipcVars>> PROVE IpcK!Next
  <2>1. IpcK!OtherCode
    BY <1>5 DEF InUser, Interruptible, IpcK!OtherCode, schedVars, ipcVars,
                IpcK!schedVars, IpcK!ipcVars
  <2> QED
    BY <2>1 DEF IpcK!Next
<1>6. CASE SysSetPager(t)
  BY <1>5, <1>6 DEF SysSetPager, Does
<1>7. ASSUME NEW irq \in IrqLines, SysIrqRegister(t, irq) PROVE IpcK!Next
  BY <1>5, <1>7 DEF SysIrqRegister, Does
<1>8. ASSUME NEW to, NEW ep, SysGrantCap(t, to, ep) PROVE IpcK!Next
  BY <1>5, <1>8 DEF SysGrantCap, Does
<1>9. ASSUME NEW to, NEW base, NEW len, SysGrantIo(t, to, base, len) PROVE IpcK!Next
  BY <1>5, <1>9 DEF SysGrantIo, Does
<1>10. CASE SysLocal(t)
  BY <1>5, <1>10 DEF SysLocal
<1> QED
  BY <1>1, <1>2, <1>3, <1>4, <1>6, <1>7, <1>8, <1>9, <1>10 DEF Syscall

(* A page fault is, for Ipc, a send and a receive of the faulting thread,  *)
(* and a kill its exit.                                                    *)
LEMMA PageFaultRefines ==
    ASSUME CpuOK, CallsOK, NEW t \in Threads, PageFault(t) PROVE IpcK!Next
<1> USE SamePieces, SameGuards
<1>1. InUser(t) /\ IpcK!InUser(t)
  BY DEF PageFault, FaultPanics, FaultSends, Does
<1>2. CASE FaultPanics(t)
  <2>1. IpcK!NoCall
    BY <1>1, <1>2, SameRet DEF FaultPanics, InUser, AtCpu
  <2>2. IpcK!OtherCode
    BY <1>1, <1>2, <2>1 DEF FaultPanics, InUser, Interruptible, IpcK!OtherCode,
                            schedVars, ipcVars, IpcK!schedVars, IpcK!ipcVars
  <2> QED
    BY <2>2 DEF IpcK!Next
<1>3. CASE FaultSends(t)
  <2>1. ASSUME ~Exists(g_pager_tid), Gives(t, -1, NoMsg, "fault"),
               UNCHANGED <<schedVars, ipcVars>>
        PROVE  IpcK!Next
    <3>1. IpcK!Return(t, -1, NoMsg)
      BY <2>1, ViewGives DEF IpcView
    <3>2. IpcK!SendFails(t, g_pager_tid) /\ g_pager_tid \in Threads \cup {Any}
      BY <1>1, <2>1, <3>1 DEF CallsOK, IpcK!SendFails, schedVars, ipcVars,
                              IpcK!schedVars, IpcK!ipcVars
    <3> QED
      BY <3>2 DEF IpcK!Next
  <2>2. ASSUME Deliver(t, g_pager_tid, FaultMsg), Gives(t, 0, NoMsg, "fault") PROVE IpcK!Next
    <3>1. IpcK!Return(t, 0, NoMsg)
      BY <2>2, ViewGives DEF IpcView
    <3>2. IpcK!SendDelivers(t, g_pager_tid, FaultMsg) /\ g_pager_tid \in Threads
      BY <1>1, <2>2, <3>1 DEF IpcK!SendDelivers, Deliver, Exists
    <3> QED
      BY <3>2, KernelAssumption DEF IpcK!Next
  <2>3. ASSUME Stage(t, g_pager_tid, FaultMsg), BlocksIn(t, "fault_send") PROVE IpcK!Next
    <3>1. IpcK!BlocksIn(t, "send")
      BY <2>3, ViewBlocks DEF IpcView
    <3>2. IpcK!SendBlocks(t, g_pager_tid, FaultMsg) /\ g_pager_tid \in Threads
      BY <1>1, <2>3, <3>1 DEF IpcK!SendBlocks, Stage, Exists
    <3> QED
      BY <3>2, KernelAssumption DEF IpcK!Next
  <2> QED
    BY <1>3, <2>1, <2>2, <2>3 DEF FaultSends
<1> QED
  BY <1>2, <1>3 DEF PageFault

LEMMA KernelPathRefines ==
    ASSUME CpuOK, CallsOK, NEW t \in Threads, KernelPath(t) PROVE IpcK!Next
<1> USE SamePieces, SameGuards
<1>1. ASSUME NEW k, Resumed(t, k), IpcView(k) = "send", SendDone(t),
             NEW j, Gives(t, 0, NoMsg, j), IpcView(j) = "none"
      PROVE  IpcK!Next
  <2>1. IpcK!SendReturns(t)
    BY <1>1, ViewGives DEF IpcK!SendReturns
  <2> QED
    BY <2>1 DEF IpcK!Next, IpcK!KernelReturns
<1>2. ASSUME NEW k, Resumed(t, k), IpcView(k) = "recv", AwokenByIrq(t),
             NEW j, Gives(t, Irq, NoMsg, j), IpcView(j) = "none"
      PROVE  IpcK!Next
  <2>1. IpcK!RecvReturnsIrq(t)
    BY <1>2, ViewGives DEF IpcK!RecvReturnsIrq
  <2> QED
    BY <2>1 DEF IpcK!Next, IpcK!KernelReturns
<1>3. ASSUME NEW k, Resumed(t, k), IpcView(k) = "recv", Delivered(t),
             NEW j, Gives(t, ipc_from[t], ipc_buf[t], j), IpcView(j) = "none"
      PROVE  IpcK!Next
  <2>1. IpcK!RecvReturns(t)
    BY <1>3, ViewGives DEF IpcK!RecvReturns
  <2> QED
    BY <2>1 DEF IpcK!Next, IpcK!KernelReturns
<1>4. IpcView("none") = "none" /\ IpcView("kill") = "none" /\ IpcView("fault") = "none"
      /\ IpcView("send") = "send" /\ IpcView("recv") = "recv"
      /\ IpcView("fault_send") = "send" /\ IpcView("fault_recv") = "recv"
  BY DEF IpcView
<1>5. \A m : IpcView(Verdict(m)) = "none"
  BY <1>4 DEF Verdict
<1>6. CASE SysSendReturns(t)
  BY <1>1, <1>4, <1>6 DEF SysSendReturns, SendReturns, Return
<1>7. CASE SysRecvReturns(t)
  BY <1>2, <1>3, <1>4, <1>7 DEF SysRecvReturns, RecvReturnsIrq, RecvReturns, Return
<1>8. CASE FaultSent(t)
  BY <1>1, <1>4, <1>8 DEF FaultSent
<1>9. CASE FaultReceives(t)
  <2>1. IpcK!InUser(t)
    BY <1>9 DEF FaultReceives, AtCpu
  <2>2. ASSUME NEW k \in {"none", "kill"}, TakeIrq(t), Gives(t, Irq, NoMsg, k) PROVE IpcK!Next
    <3>1. IpcK!RecvTakesIrq(t)
      BY <1>4, <2>1, <2>2, ViewGives DEF IpcK!RecvTakesIrq
    <3> QED
      BY <3>1 DEF IpcK!Next
  <2>3. ASSUME NEW s \in Threads, TakeSender(t, s, g_pager_tid),
               Gives(t, s, ipc_buf[s], Verdict(ipc_buf[s]))
        PROVE  IpcK!Next
    <3>1. IpcK!RecvTakesSender(t, s, g_pager_tid)
      BY <1>5, <2>1, <2>3, ViewGives DEF IpcK!RecvTakesSender
    <3> QED
      BY <3>1 DEF IpcK!Next, CallsOK
  <2>4. ASSUME Await(t, g_pager_tid), BlocksIn(t, "fault_recv") PROVE IpcK!Next
    <3>1. IpcK!BlocksIn(t, "recv")
      BY <1>4, <2>4, ViewBlocks
    <3>2. IpcK!RecvBlocks(t, g_pager_tid)
      BY <2>1, <2>4, <3>1 DEF IpcK!RecvBlocks
    <3> QED
      BY <3>2 DEF IpcK!Next, CallsOK
  <2> QED
    BY <1>9, <2>2, <2>3, <2>4 DEF FaultReceives
<1>10. CASE FaultAnswered(t)
  <2>1. ASSUME NEW k \in {"none", "kill"}, AwokenByIrq(t), Gives(t, Irq, NoMsg, k)
        PROVE  IpcK!Next
    BY <1>2, <1>4, <1>10, <2>1 DEF FaultAnswered
  <2>2. ASSUME Delivered(t), Gives(t, ipc_from[t], ipc_buf[t], Verdict(ipc_buf[t]))
        PROVE  IpcK!Next
    BY <1>3, <1>4, <1>5, <1>10, <2>2 DEF FaultAnswered
  <2> QED
    BY <1>10, <2>1, <2>2 DEF FaultAnswered
<1>11. CASE FaultKills(t)
  <2>1. IpcK!InUser(t)
    BY <1>11 DEF FaultKills, AtCpu
  <2>2. IpcK!NoCall
    BY <1>11, SameRet DEF FaultKills, Resumed, AtCpu
  <2>3. IpcK!Exit(t)
    BY <1>11, <2>1, <2>2, SameSchedule
       DEF FaultKills, TornDown, Yield, ipcVars, IpcK!Exit, IpcK!Yield, IpcK!ipcVars
  <2> QED
    BY <2>3 DEF IpcK!Next
<1> QED
  BY <1>6, <1>7, <1>8, <1>9, <1>10, <1>11 DEF KernelPath

LEMMA StepRefines == KInv /\ CpuOK /\ [KNext]_kvars => [IpcK!Next]_(IpcK!vars)
<1> SUFFICES ASSUME CpuOK, CallsOK, [KNext]_kvars PROVE [IpcK!Next]_(IpcK!vars)
  BY KInvParts
<1> USE SamePieces, SameNoCall
<1>1. CASE UNCHANGED kvars
  BY <1>1 DEF kvars, vars, schedVars, ipcVars, IpcK!vars, IpcK!schedVars, IpcK!ipcVars,
              ipc_resume
<1>2. CASE TimerInterrupt
  <2>1. IpcK!Interruptible
    BY <1>2, NAssumption DEF TimerInterrupt, TimerTick, Interruptible, IpcK!Interruptible, IpcView,
                ipc_resume, CpuOK, SchedTypeOK
  <2>2. IpcK!TimerTick
    BY <1>2, <2>1, SameSchedule DEF TimerInterrupt, TimerTick, Tick, ipcVars,
                               IpcK!TimerTick, IpcK!Tick, IpcK!ipcVars
  <2> QED
    BY <2>2 DEF IpcK!Next
<1>3. ASSUME NEW irq \in IrqLines, HwInterrupt(irq) PROVE IpcK!Next
  <2>1. IpcK!Interruptible
    BY <1>3 DEF HwInterrupt, Notify, Interruptible, IpcK!Interruptible, IpcView,
                ipc_resume, CpuOK, SchedTypeOK
  <2>2. IpcK!Notify(g_irq_tid[irq]) /\ g_irq_tid[irq] \in Threads
    BY <1>3, <2>1 DEF HwInterrupt, Notify, Exists, IpcK!Notify
  <2> QED
    BY <2>2 DEF IpcK!Next
<1>4. ASSUME NEW t \in Threads, SysSpawn(t) PROVE IpcK!Next
  <2>1. IpcK!Interruptible
    BY <1>4 DEF SysSpawn, Spawn, Interruptible, IpcK!Interruptible, IpcView,
                ipc_resume, CpuOK, SchedTypeOK
  <2>2. IpcK!Create(t)
    BY <1>4 DEF SysSpawn, Spawn, Create, CpuLive, LowestFree, Free,
                IpcK!Create, IpcK!CpuLive, IpcK!LowestFree, IpcK!Free
  <2>3. ipc_resume' = [ipc_resume EXCEPT ![t] = "none"]
    BY <1>4, ViewMoves DEF SysSpawn, Spawn, Reset, IpcView
  <2>4. IpcK!Reset(t)
    BY <1>4, <2>3 DEF SysSpawn, Spawn, Reset, CallOver, NoResult, IpcK!Reset, IpcK!CallOver,
                      IpcK!NoResult, ipc_resume
  <2>5. IpcK!Spawn(t)
    BY <1>4, <2>1, <2>2, <2>4 DEF SysSpawn, Spawn, IpcK!Spawn
  <2> QED
    BY <2>5 DEF IpcK!Next
<1> QED
  BY <1>1, <1>2, <1>3, <1>4, SyscallRefines, PageFaultRefines, KernelPathRefines DEF KNext

LEMMA InitRefines == KInit => IpcK!Init /\ CpuOK
BY DEF KInit, Init, SchedInit, NoResult, CpuOK, SchedTypeOK, CpuLive, AtCpu, States,
       IpcK!Init, IpcK!SchedInit, IpcK!NoResult, ipc_resume, IpcView

LEMMA CpuOKAlways == KSpec => []CpuOK
<1>1. KInv /\ CpuOK /\ [KNext]_kvars => CpuOK'
  BY CpuKept, KInvParts
<1> QED
  BY <1>1, KInvAlways, InitRefines, PTL DEF KSpec

(* System calls, faults, kills and interrupts use IPC within its contract. *)
THEOREM KernelImplementsIpc == KSpec => ImplementsIpc
BY CpuOKAlways, KInvAlways, InitRefines, StepRefines, PTL DEF KSpec, ImplementsIpc, IpcK!Spec

-----------------------------------------------------------------------------
(* What the trap layer adds to the thread table keeps its types, and no    *)
(* grant of do_syscall() overruns a capability table.                      *)
THEOREM KernelTypeCorrect == KSpec => []KernelTypeOK
<1>1. KInv => KernelTypeOK
  BY DEF KInv
<1> QED
  BY <1>1, KInvAlways, PTL

(* The answer to a system call is authorised from before the request can   *)
(* be taken (SYS_SEND sets ipc_call_to first).                             *)
THEOREM KernelReplyRaceFree == KSpec => []ReplyRaceFree
<1>1. KInv => ReplyRaceFree
  <2> SUFFICES ASSUME KInv, NEW c \in Threads, resume[c] = "send"
               PROVE  SendAllowed(ipc_peer[c], c)
    BY DEF ReplyRaceFree
  <2> QED
    BY DEF KInv, OpenCalls, SendAllowed
<1> QED
  BY <1>1, KInvAlways, PTL

(* cap_grant_endpoint() is idempotent over every sequence of grants.       *)
THEOREM KernelGrantsIdempotent == KSpec => []GrantsIdempotent
<1>1. KInv => GrantsIdempotent
  BY DEF KInv, TableOK, NoCopies, GrantsIdempotent
<1> QED
  BY <1>1, KInvAlways, PTL

(* No system call takes an endpoint away from a living thread.             *)
THEOREM KernelAuthorityKept == KSpec => AuthorityKept
<1> DEFINE Kept == \A t, d \in Threads :
          HasEndpoint(ctable[t], d) /\ tstate[t] \notin Free => HasEndpoint(ctable[t], d)'
<1>1. KInv /\ [KNext]_kvars => [Kept]_kvars
  <2> SUFFICES ASSUME KInv, [KNext]_kvars PROVE Kept
    OBVIOUS
  <2> QED
    BY TablesKept, KInvParts DEF HasEndpoint
<1> QED
  BY <1>1, KInvAlways, PTL DEF KSpec, AuthorityKept
-----------------------------------------------------------------------------
(***************************************************************************)
(* What the kernel guarantees once programs keep to roles: who is the      *)
(* pager, who drives a device, who spawns.                                 *)
(***************************************************************************)
USE DEF Idle

(* A free slot is filled by a spawn and by nothing else: whatever blocks,  *)
(* wakes, is preempted or is interrupted, the dead stay dead.              *)
LEMMA OnlySpawnFills ==
    ASSUME CpuOK, CallsOK, [KNext]_kvars,
           NEW c \in Threads, tstate[c] \in Free, tstate'[c] \notin Free
    PROVE  SysSpawn(c)
<1> USE DEF CpuOK, SchedTypeOK
<1>1. ASSUME NEW ts, ts[c] \in Free, Schedule(ts) PROVE FALSE
  BY <1>1 DEF Schedule, PicksNext, Switch, Runnable, Free
<1>2. ASSUME NEW d \in Threads, tstate' = Woken(tstate, d) PROVE FALSE
  BY <1>2 DEF Woken, Free
<1>3. ASSUME NEW t \in Threads, current = t, NEW s, s \notin Free,
             Schedule([tstate EXCEPT ![t] = s])
      PROVE  FALSE
  <2>1. tstate[t] = "RUNNING"
    BY <1>3 DEF CpuLive
  <2>2. [tstate EXCEPT ![t] = s][c] = tstate[c]
    BY <2>1 DEF Free
  <2> QED
    BY <1>1, <1>3, <2>2
<1>4. ASSUME NEW t \in Threads, current = t, Yield("DEAD") PROVE FALSE
  <2>1. [tstate EXCEPT ![t] = "DEAD"][c] \in Free
    BY DEF Free
  <2> QED
    BY <1>1, <1>4, <2>1 DEF Yield
<1>5. tstate' # tstate
  OBVIOUS
<1>6. ~ UNCHANGED kvars
  BY <1>5 DEF kvars, vars, schedVars
<1>7. ~ TimerInterrupt
  BY <1>1 DEF TimerInterrupt, TimerTick, Tick
<1>8. \A irq \in IrqLines : ~ HwInterrupt(irq)
  BY <1>2, <1>5 DEF HwInterrupt, Notify, Exists, Interrupt, WokenByIrq
<1>9. ASSUME NEW t \in Threads, Syscall(t) PROVE FALSE
  <2>1. \A d : ~ SysSendDenied(t, d)
    BY <1>5 DEF SysSendDenied, schedVars
  <2>2. ASSUME NEW d \in Threads \cup {Any}, NEW m \in Message, SysSend(t, d, m) PROVE FALSE
    BY <2>2, <1>2, <1>3, <1>5 DEF SysSend, SendFails, SendDelivers, SendBlocks, Deliver, Stage,
       Exists, InUser, schedVars, Free
  <2>3. ASSUME NEW src \in Threads \cup {Any}, SysRecv(t, src) PROVE FALSE
    BY <2>3, <1>2, <1>3, <1>5 DEF SysRecv, RecvTakesIrq, RecvTakesSender, RecvBlocks,
       TakeIrq, TakeSender, Await, InUser, schedVars, Free
  <2>4. ~ SysExit(t)
    BY <1>4 DEF SysExit, Exit, InUser
  <2>5. ~ SysSetPager(t) /\ ~ SysLocal(t) /\ \A irq \in IrqLines : ~ SysIrqRegister(t, irq)
    BY <1>5 DEF SysSetPager, SysLocal, SysIrqRegister, schedVars
  <2>6. /\ \A to, ep : ~ SysGrantCap(t, to, ep)
        /\ \A to, base, len : ~ SysGrantIo(t, to, base, len)
    BY <1>5 DEF SysGrantCap, SysGrantIo, schedVars
  <2> QED
    BY <1>9, <2>1, <2>2, <2>3, <2>4, <2>5, <2>6 DEF Syscall
<1>10. ASSUME NEW t \in Threads, PageFault(t) PROVE FALSE
  BY <1>10, <1>2, <1>3, <1>5 DEF PageFault, FaultPanics, FaultSends, Deliver, Stage, Exists,
     Does, InUser, schedVars, Free
<1>11. ASSUME NEW t \in Threads, KernelPath(t) PROVE FALSE
  <2>1. ~ SysSendReturns(t) /\ ~ SysRecvReturns(t) /\ ~ FaultSent(t) /\ ~ FaultAnswered(t)
    BY <1>5 DEF SysSendReturns, SendReturns, SysRecvReturns, RecvReturnsIrq, RecvReturns,
       FaultSent, FaultAnswered, SendDone, AwokenByIrq, Delivered, schedVars
  <2>2. ~ FaultReceives(t)
    BY <1>2, <1>3, <1>5 DEF FaultReceives, Resumed, TakeIrq, TakeSender, Await, schedVars, Free
  <2>3. ~ FaultKills(t)
    BY <1>4 DEF FaultKills, Resumed, TornDown
  <2> QED
    BY <1>11, <2>1, <2>2, <2>3 DEF KernelPath
<1>12. PICK t \in Threads : SysSpawn(t)
  BY <1>6, <1>7, <1>8, <1>9, <1>10, <1>11 DEF KNext
<1>13. tstate' = [tstate EXCEPT ![t] = "RUNNABLE"]
  BY <1>12 DEF SysSpawn, Spawn, Create
<1> QED
  BY <1>12, <1>13
-----------------------------------------------------------------------------
(* A thread that spawns holds endpoints of other threads and nothing else. *)
SpawnersTables ==
    \A t \in Threads : "spawn" \in Uses[t] =>
        \A i \in DOMAIN ctable[t] : \E d \in Threads \ {t} : ctable[t][i] = Endpoint(d)

\* A grant adds at most the capability it names.
LEMMA GrantEndpointAdds ==
    ASSUME NEW tab \in Seq(Capability), NEW e \in Threads
    PROVE  \A i \in DOMAIN GrantEndpoint(tab, e) :
              \/ i \in DOMAIN tab /\ GrantEndpoint(tab, e)[i] = tab[i]
              \/ GrantEndpoint(tab, e)[i] = Endpoint(e)
<1> DEFINE new == Append(tab, Endpoint(e))
<1>1. Endpoint(e) \in Capability
  BY DEF Endpoint, Capability
<1>2. /\ DOMAIN new = 1 .. Len(tab) + 1 /\ DOMAIN tab = 1 .. Len(tab) /\ Len(tab) \in Nat
      /\ new[Len(tab) + 1] = Endpoint(e)
      /\ \A i \in 1 .. Len(tab) : new[i] = tab[i]
  BY <1>1
<1>3. \A i \in DOMAIN new : (i \in DOMAIN tab /\ new[i] = tab[i]) \/ new[i] = Endpoint(e)
  BY <1>2
<1> QED
  BY <1>3 DEF GrantEndpoint

LEMMA CardinalityUpTo == ASSUME NEW n \in Nat PROVE Cardinality(1 .. n) = n
<1>1. 1 \in Int /\ n \in Int
  OBVIOUS
<1>2. Cardinality(1 .. n) = IF 1 > n THEN 0 ELSE n - 1 + 1
  BY <1>1, FS_Interval, Zenon
<1> QED
  BY <1>2

\* Such a table, without an endpoint of some other thread, has a free slot.
LEMMA RoomForAnother ==
    ASSUME CapMax >= N - 1,
           NEW t \in Threads, NEW c \in Threads \ {t}, NEW tab, TableOK(tab),
           \A i \in DOMAIN tab : \E d \in Threads \ {t} : tab[i] = Endpoint(d),
           ~ HasEndpoint(tab, c)
    PROVE  HasRoom(tab)
<1> DEFINE Others == Threads \ {t, c}
           target == [i \in 1 .. Len(tab) |-> tab[i].target]
<1>1. Len(tab) \in Nat /\ DOMAIN tab = 1 .. Len(tab)
  BY DEF TableOK
<1>2. \A i \in 1 .. Len(tab) : tab[i] = Endpoint(tab[i].target) /\ tab[i].target \in Others
  <2> SUFFICES ASSUME NEW i \in 1 .. Len(tab)
               PROVE  tab[i] = Endpoint(tab[i].target) /\ tab[i].target \in Others
    OBVIOUS
  <2>1. PICK d \in Threads \ {t} : tab[i] = Endpoint(d)
    BY <1>1
  <2>2. d # c
    BY <1>1, <2>1 DEF HasEndpoint
  <2> QED
    BY <2>1, <2>2 DEF Endpoint
<1>3. target \in Injection(1 .. Len(tab), Others)
  <2>1. target \in [1 .. Len(tab) -> Others]
    BY <1>2
  <2>2. \A i, j \in 1 .. Len(tab) : target[i] = target[j] => i = j
    <3> SUFFICES ASSUME NEW i \in 1 .. Len(tab), NEW j \in 1 .. Len(tab),
                        tab[i].target = tab[j].target
                 PROVE  i = j
      OBVIOUS
    <3>1. tab[i] = tab[j] /\ tab[i].type = "ENDPOINT"
      BY <1>2 DEF Endpoint
    <3> QED
      BY <1>1, <3>1 DEF TableOK, NoCopies
  <2> QED
    BY <2>1, <2>2, Fun_IsInj
<1>4. IsFiniteSet(Others) /\ Cardinality(Others) = N - 2
  <2>1. IsFiniteSet(Threads) /\ Cardinality(Threads) = N
    BY FS_Interval, NAssumption
  <2>2. IsFiniteSet(Threads \ {t}) /\ Cardinality(Threads \ {t}) = N - 1
    BY <2>1, FS_RemoveElement
  <2>3. Others = (Threads \ {t}) \ {c} /\ c \in Threads \ {t}
    OBVIOUS
  <2> HIDE DEF Others
  <2>4. /\ IsFiniteSet((Threads \ {t}) \ {c})
        /\ Cardinality((Threads \ {t}) \ {c}) = Cardinality(Threads \ {t}) - 1
    BY <2>2, <2>3, FS_RemoveElement, Zenon
  <2> QED
    BY <2>2, <2>3, <2>4, NAssumption
<1>5. Cardinality(1 .. Len(tab)) <= N - 2
  BY <1>3, <1>4, FS_Injection
<1>6. Cardinality(1 .. Len(tab)) = Len(tab)
  BY <1>1, CardinalityUpTo
<1> QED
  BY <1>1, <1>5, <1>6, NAssumption, CapAssumption DEF HasRoom

LEMMA GrantEndpointGrants ==
    ASSUME NEW tab \in Seq(Capability), NEW e \in Threads, HasRoom(tab) \/ HasEndpoint(tab, e)
    PROVE  HasEndpoint(GrantEndpoint(tab, e), e)
<1>1. CASE HasEndpoint(tab, e)
  BY <1>1 DEF GrantEndpoint
<1>2. CASE ~ HasEndpoint(tab, e)
  <2>1. Endpoint(e) \in Capability
    BY DEF Endpoint, Capability
  <2>2. /\ Append(tab, Endpoint(e))[Len(tab) + 1] = Endpoint(e)
        /\ Len(tab) + 1 \in DOMAIN Append(tab, Endpoint(e))
    BY <2>1
  <2> QED
    BY <1>2, <2>2 DEF GrantEndpoint, HasEndpoint
<1> QED
  BY <1>1, <1>2

LEMMA SpawnersTablesKept ==
    ASSUME \A g \in Grants : g[1] # g[2],
           \A g \in IoGrants : "spawn" \notin Uses[g[1]],
           TablesOK, CpuOK, SpawnersTables, [KNext]_kvars
    PROVE  SpawnersTables'
<1> USE DEF SpawnersTables, TablesOK
<1>1. CASE UNCHANGED ctable
  BY <1>1
<1>2. ASSUME NEW c \in Threads, SysSpawn(c) PROVE SpawnersTables'
  <2>1. ctable' = Endowed(c)
    BY <1>2 DEF SysSpawn
  <2>2. current \in Threads => current # c
    BY <1>2 DEF SysSpawn, Spawn, Create, LowestFree, CpuLive, Free
  <2> SUFFICES ASSUME NEW t \in Threads, "spawn" \in Uses[t], NEW i \in DOMAIN ctable'[t]
               PROVE  \E d \in Threads \ {t} : ctable'[t][i] = Endpoint(d)
    OBVIOUS
  <2>3. CASE t = c
    BY <2>1, <2>3 DEF Endowed, EmptyTable
  <2>4. CASE t = current /\ t # c
    <3>1. ctable'[t] = GrantEndpoint(ctable[t], c)
      BY <2>1, <2>4 DEF Endowed
    <3>2. \/ i \in DOMAIN ctable[t] /\ ctable'[t][i] = ctable[t][i]
          \/ ctable'[t][i] = Endpoint(c)
      BY <3>1, GrantEndpointAdds
    <3> QED
      BY <2>4, <3>2
  <2>5. CASE t # current /\ t # c
    BY <2>1, <2>5 DEF Endowed
  <2> QED
    BY <2>3, <2>4, <2>5
<1>3. ASSUME NEW u \in Threads, NEW g \in Grants, SysGrantCap(u, g[1], g[2])
      PROVE  SpawnersTables'
  <2>1. g[1] \in Threads /\ g[2] \in Threads \ {g[1]}
    BY KernelAssumption
  <2>2. ctable' = [ctable EXCEPT ![g[1]] = GrantEndpoint(ctable[g[1]], g[2])]
    BY <1>3 DEF SysGrantCap
  <2>3. \A i \in DOMAIN GrantEndpoint(ctable[g[1]], g[2]) :
            \/ i \in DOMAIN ctable[g[1]]
               /\ GrantEndpoint(ctable[g[1]], g[2])[i] = ctable[g[1]][i]
            \/ GrantEndpoint(ctable[g[1]], g[2])[i] = Endpoint(g[2])
    BY <2>1, GrantEndpointAdds
  <2>4. \A t \in Threads \ {g[1]} : ctable'[t] = ctable[t]
    BY <2>2
  <2>5. ctable'[g[1]] = GrantEndpoint(ctable[g[1]], g[2])
    BY <2>1, <2>2
  <2>6. "spawn" \in Uses[g[1]] =>
            \A i \in DOMAIN ctable'[g[1]] : \E d \in Threads \ {g[1]} : ctable'[g[1]][i] = Endpoint(d)
    BY <2>1, <2>3, <2>5
  <2> QED
    BY <2>4, <2>6
<1>4. ASSUME NEW u \in Threads, NEW g \in IoGrants, SysGrantIo(u, g[1], g[2], g[3])
      PROVE  SpawnersTables'
  <2>1. g[1] \in Threads /\ "spawn" \notin Uses[g[1]]
    BY KernelAssumption
  <2>2. ctable' = [ctable EXCEPT ![g[1]] = GrantIo(ctable[g[1]], g[2], g[3])]
    BY <1>4 DEF SysGrantIo
  <2> QED
    BY <2>1, <2>2
<1> QED
  BY <1>1, <1>2, <1>3, <1>4, OnlyGrantsTouchTables

(* "Parent may message its child" (SYS_SPAWN): the refusal that the system *)
(* call ignores never comes, however often slots are reused.  A table has  *)
(* a slot for every other thread (16 and 16 in the code), no thread is     *)
(* granted an endpoint of its own, and none that spawns is given ports     *)
(* (init hands ports to the drivers only).                                 *)
THEOREM KernelSpawnEndows ==
    ASSUME CapMax >= N - 1,
           \A g \in Grants : g[1] # g[2],
           \A g \in IoGrants : "spawn" \notin Uses[g[1]]
    PROVE  KSpec => SpawnEndows
<1> DEFINE Endows ==
        \A c \in Threads :
          tstate[c] \in Free /\ tstate'[c] \notin Free /\ current # Idle =>
              HasEndpoint(ctable[current]', c)
<1>1. KInit => SpawnersTables
  BY DEF KInit, SpawnersTables, EmptyTable
<1>2. KInv /\ CpuOK /\ SpawnersTables /\ [KNext]_kvars => SpawnersTables'
  BY SpawnersTablesKept, KInvParts
<1>3. KInv /\ CpuOK /\ SpawnersTables /\ [KNext]_kvars => [Endows]_kvars
  <2> SUFFICES ASSUME TablesOK, CallsOK, CpuOK, SpawnersTables, [KNext]_kvars,
                      NEW c \in Threads,
                      tstate[c] \in Free, tstate'[c] \notin Free, current # Idle
               PROVE  HasEndpoint(ctable[current]', c)
    BY KInvParts
  <2>1. SysSpawn(c)
    BY OnlySpawnFills
  <2>2. current \in Threads /\ tstate[current] = "RUNNING"
    BY DEF CpuOK, SchedTypeOK, CpuLive
  <2>3. c \in Threads \ {current} /\ "spawn" \in Uses[current]
    BY <2>1, <2>2 DEF SysSpawn, Free
  <2>4. ctable'[current] = GrantEndpoint(ctable[current], c)
    BY <2>1, <2>2, <2>3 DEF SysSpawn, Endowed
  <2>5. HasRoom(ctable[current]) \/ HasEndpoint(ctable[current], c)
    BY <2>2, <2>3, RoomForAnother DEF SpawnersTables, TablesOK
  <2>6. HasEndpoint(ctable'[current], c)
    BY <2>2, <2>4, <2>5, GrantEndpointGrants DEF TablesOK
  <2>7. current' = current
    BY <2>1 DEF SysSpawn, Spawn, Create
  <2> QED
    BY <2>6, <2>7
<1> QED
  BY <1>1, <1>2, <1>3, KInvAlways, CpuOKAlways, PTL DEF KSpec, SpawnEndows
-----------------------------------------------------------------------------
(* Who may kill a faulting thread.  One program is the pager, and none     *)
(* that faults drives a device.                                            *)
OnePager ==
    \A t, u \in Threads : "pager" \in Uses[t] /\ "pager" \in Uses[u] => t = u

FaultersDriveNothing ==
    \A t \in Threads : ~("irq" \in Uses[t] /\ "fault" \in Uses[t])

Faulting(t) == resume[t] \in {"fault", "fault_send", "fault_recv"}

\* The pager is in P, the drivers are in D, and no driver faults.
Roles(P, D) ==
    /\ g_pager_tid # Nobody => g_pager_tid \in P
    /\ \A i \in IrqLines : g_irq_tid[i] # Nobody => g_irq_tid[i] \in D
    /\ \A t \in Threads : Faulting(t) => t \notin D

\* Only drivers are notified.
Undisturbed(D) ==
    /\ irq_pending \in [Threads -> Nat]
    /\ \A t \in Threads : t \notin D => irq_pending[t] = 0

\* A fault asks the pager, waits for nobody else, and no interrupt wakes it.
FaultWaits ==
    /\ ipc_state \in [Threads -> {"NONE", "SENDING", "RECEIVING"}]
    /\ ipc_from \in [Threads -> Threads \cup {Any}]
    /\ \A t \in Threads : Faulting(t) => g_pager_tid # Nobody
    /\ \A t \in Threads :
          resume[t] = "fault_recv" =>
              /\ ipc_peer[t] = g_pager_tid
              /\ IF ipc_state[t] = "RECEIVING" THEN tstate[t] = "BLOCKED"
                 ELSE ipc_from[t] = g_pager_tid

LEMMA UndisturbedStep ==
    ASSUME NEW P, NEW D, CallsOK, Roles(P, D), Undisturbed(D), [KNext]_kvars
    PROVE  Undisturbed(D)'
<1> USE DEF Undisturbed, CallsOK
<1>1. ASSUME UNCHANGED irq_pending PROVE Undisturbed(D)'
  BY <1>1
<1>2. ASSUME NEW t \in Threads, IrqDue(t),
             irq_pending' = [irq_pending EXCEPT ![t] = @ - 1]
      PROVE  Undisturbed(D)'
  BY <1>2 DEF IrqDue
<1>3. ASSUME NEW t \in Threads, AwokenByIrq(t)
      PROVE  Undisturbed(D)'
  BY <1>3 DEF AwokenByIrq
<1>4. CASE UNCHANGED kvars \/ TimerInterrupt
  BY <1>1, <1>4 DEF kvars, vars, ipcVars, trapVars, TimerInterrupt, TimerTick
<1>5. ASSUME NEW irq \in IrqLines, HwInterrupt(irq) PROVE Undisturbed(D)'
  BY <1>5 DEF HwInterrupt, Notify, Exists, Interrupt, Roles
<1>6. ASSUME NEW t \in Threads, SysSpawn(t) PROVE Undisturbed(D)'
  BY <1>6 DEF SysSpawn, Spawn, Reset
<1>7. ASSUME NEW t \in Threads, Syscall(t) PROVE Undisturbed(D)'
  <2>1. ASSUME NEW d, SysSendDenied(t, d) PROVE Undisturbed(D)'
    BY <1>1, <2>1 DEF SysSendDenied, ipcVars, trapVars
  <2>2. ASSUME NEW d, NEW m, SysSend(t, d, m) PROVE Undisturbed(D)'
    BY <1>1, <2>2 DEF SysSend, SendFails, SendDelivers, Deliver, SendBlocks, Stage, ipcVars
  <2>3. ASSUME NEW src, SysRecv(t, src) PROVE Undisturbed(D)'
    <3>1. CASE RecvTakesIrq(t)
      BY <1>2, <2>3, <3>1 DEF SysRecv, RecvTakesIrq, TakeIrq
    <3>2. CASE RecvBlocks(t, src) \/ \E s \in Threads : RecvTakesSender(t, s, src)
      BY <1>1, <2>3, <3>2 DEF SysRecv, RecvTakesSender, TakeSender, RecvBlocks, Await
    <3> QED
      BY <2>3, <3>1, <3>2 DEF SysRecv
  <2>4. CASE SysExit(t) \/ SysLocal(t)
    BY <1>1, <2>4 DEF SysExit, Exit, SysLocal, ipcVars, trapVars
  <2>5. CASE SysSetPager(t)
    BY <1>1, <2>5 DEF SysSetPager, ipcVars
  <2>6. ASSUME NEW irq \in IrqLines, SysIrqRegister(t, irq) PROVE Undisturbed(D)'
    BY <1>1, <2>6 DEF SysIrqRegister, ipcVars
  <2>7. ASSUME NEW to, NEW ep, SysGrantCap(t, to, ep) PROVE Undisturbed(D)'
    BY <1>1, <2>7 DEF SysGrantCap, ipcVars
  <2>8. ASSUME NEW to, NEW base, NEW len, SysGrantIo(t, to, base, len) PROVE Undisturbed(D)'
    BY <1>1, <2>8 DEF SysGrantIo, ipcVars
  <2> QED
    BY <1>7, <2>1, <2>2, <2>3, <2>4, <2>5, <2>6, <2>7, <2>8 DEF Syscall
<1>8. ASSUME NEW t \in Threads, PageFault(t) PROVE Undisturbed(D)'
  BY <1>1, <1>8 DEF PageFault, FaultPanics, FaultSends, Deliver, Stage, ipcVars, trapVars
<1>9. ASSUME NEW t \in Threads, KernelPath(t) PROVE Undisturbed(D)'
  <2>1. CASE SysSendReturns(t) \/ FaultSent(t) \/ FaultKills(t)
    BY <1>1, <2>1 DEF SysSendReturns, SendReturns, FaultSent, SendDone, FaultKills, ipcVars, trapVars
  <2>2. CASE SysRecvReturns(t)
    BY <1>1, <1>3, <2>2 DEF SysRecvReturns, RecvReturnsIrq, RecvReturns, Delivered
  <2>3. CASE FaultReceives(t)
    BY <1>1, <1>2, <2>3 DEF FaultReceives, TakeIrq, TakeSender, Await, trapVars
  <2>4. CASE FaultAnswered(t)
    BY <1>1, <1>3, <2>4 DEF FaultAnswered, Delivered, trapVars
  <2> QED
    BY <1>9, <2>1, <2>2, <2>3, <2>4 DEF KernelPath
<1> QED
  BY <1>4, <1>5, <1>6, <1>7, <1>8, <1>9 DEF KNext

\* While a fault is in the kernel, the pager is who it was.
LEMMA PagerStays ==
    ASSUME NEW p, NEW D, CallsOK, Roles({p}, D), Roles({p}, D)', [KNext]_kvars, g_pager_tid # Nobody
    PROVE  g_pager_tid' = g_pager_tid
<1>1. ASSUME NEW t \in Threads, Syscall(t) PROVE g_pager_tid' \in {g_pager_tid, t}
  BY <1>1 DEF Syscall, SysSendDenied, SysSend, SysRecv, SysExit, SysLocal, SysIrqRegister, SysSetPager,
              SysGrantCap, SysGrantIo, trapVars
<1>2. ASSUME NEW t \in Threads, SysSpawn(t) \/ PageFault(t) \/ KernelPath(t)
      PROVE  g_pager_tid' = g_pager_tid
  BY <1>2 DEF SysSpawn, PageFault, FaultPanics, FaultSends, KernelPath, SysSendReturns,
              SysRecvReturns, FaultSent, FaultReceives, FaultAnswered, FaultKills, trapVars
<1>3. g_pager_tid' = g_pager_tid \/ g_pager_tid' \in Threads
  BY <1>1, <1>2 DEF KNext, kvars, TimerInterrupt, HwInterrupt, trapVars
<1>4. Nobody \notin Threads
  BY NAssumption DEF Nobody, Threads
<1> QED
  BY <1>3, <1>4 DEF Roles

\* A context switch leaves the blocked where they are.
LEMMA ScheduleKeepsBlocked ==
    ASSUME NEW ts, Schedule(ts), NEW u \in Threads, ts[u] = "BLOCKED"
    PROVE  tstate'[u] = "BLOCKED"
BY DEF Schedule, PicksNext, Switch, Runnable

LEMMA FaultWaitsStep ==
    ASSUME NEW p, NEW D, CpuOK, CallsOK, Roles({p}, D), Roles({p}, D)', FaultWaits, [KNext]_kvars
    PROVE  FaultWaits'
<1> USE DEF FaultWaits, Faulting, CallsOK, CpuOK, SchedTypeOK
<1> DEFINE InFault(k) == k \in {"fault", "fault_send", "fault_recv"}
<1>1. ASSUME UNCHANGED <<resume, ipc_state, ipc_peer, ipc_from>>,
             \A u \in Threads : tstate[u] = "BLOCKED" => tstate'[u] = "BLOCKED"
      PROVE  FaultWaits'
  BY <1>1, PagerStays
<1>2. ASSUME NEW t \in Threads, NEW k, resume' = [resume EXCEPT ![t] = k],
             ~InFault(k) \/ (k \in {"fault", "fault_send"} /\ g_pager_tid # Nobody),
             \A u \in Threads \ {t} :
                /\ UNCHANGED <<ipc_state[u], ipc_peer[u], ipc_from[u]>>
                /\ tstate[u] = "BLOCKED" => tstate'[u] = "BLOCKED",
             ipc_state' \in [Threads -> {"NONE", "SENDING", "RECEIVING"}],
             ipc_from' \in [Threads -> Threads \cup {Any}]
      PROVE  FaultWaits'
  <2>1. \A u \in Threads \ {t} : resume'[u] = resume[u]
    BY <1>2
  <2>2. resume'[t] = k /\ k # "fault_recv"
    BY <1>2
  <2>3. ASSUME NEW u \in Threads, Faulting(u)' PROVE g_pager_tid # Nobody /\ g_pager_tid' = g_pager_tid
    <3>1. g_pager_tid # Nobody
      BY <1>2, <2>1, <2>2, <2>3
    <3> QED
      BY <3>1, PagerStays
  <2>4. ASSUME NEW u \in Threads, resume'[u] = "fault_recv"
        PROVE  /\ ipc_peer'[u] = g_pager_tid'
               /\ IF ipc_state'[u] = "RECEIVING" THEN tstate'[u] = "BLOCKED"
                  ELSE ipc_from'[u] = g_pager_tid'
    <3>1. u # t /\ resume[u] = "fault_recv"
      BY <2>1, <2>2, <2>4
    <3>2. g_pager_tid' = g_pager_tid
      BY <2>3, <2>4
    <3> QED
      BY <1>2, <3>1, <3>2
  <2>5. \A u \in Threads : Faulting(u)' => g_pager_tid' # Nobody
    BY <2>3
  <2> QED
    BY <1>2, <2>4, <2>5
\* A message comes only from the pager.
<1>3. ASSUME NEW t \in Threads, NEW d \in Threads, NEW m, Deliver(t, d, m), current = t,
             NEW k, resume' = [resume EXCEPT ![t] = k],
             k = "none" \/ (k = "fault" /\ g_pager_tid # Nobody)
      PROVE  FaultWaits'
  <2>1. tstate[t] = "RUNNING" /\ tstate[d] = "BLOCKED"
    BY <1>3 DEF CpuLive, Deliver, ReceiverReady, Receives
  <2>2. \A u \in Threads \ {d} : tstate'[u] = tstate[u]
    BY <1>3 DEF Deliver, Woken
  <2>3. resume[d] = "fault_recv" => t = g_pager_tid
    BY <1>3 DEF Deliver, ReceiverReady
  <2>4. resume'[d] = resume[d]
    BY <1>3, <2>1
  <2>5. /\ resume'[t] = k /\ \A u \in Threads \ {t} : resume'[u] = resume[u]
        /\ ipc_state'[d] = "NONE" /\ ipc_from'[d] = t /\ UNCHANGED ipc_peer
        /\ \A u \in Threads \ {d} : ipc_state'[u] = ipc_state[u] /\ ipc_from'[u] = ipc_from[u]
        /\ ipc_state' \in [Threads -> {"NONE", "SENDING", "RECEIVING"}]
        /\ ipc_from' \in [Threads -> Threads \cup {Any}]
    BY <1>3 DEF Deliver
  <2>6. ASSUME NEW u \in Threads, Faulting(u)' PROVE g_pager_tid # Nobody /\ g_pager_tid' = g_pager_tid
    <3>1. g_pager_tid # Nobody
      BY <1>3, <2>5, <2>6
    <3> QED
      BY <3>1, PagerStays
  <2>7. ASSUME NEW u \in Threads, resume'[u] = "fault_recv"
        PROVE  /\ ipc_peer'[u] = g_pager_tid'
               /\ IF ipc_state'[u] = "RECEIVING" THEN tstate'[u] = "BLOCKED"
                  ELSE ipc_from'[u] = g_pager_tid'
    <3>1. u # t /\ resume[u] = "fault_recv"
      BY <1>3, <2>5, <2>7
    <3>2. g_pager_tid' = g_pager_tid
      BY <2>6, <2>7
    <3>3. CASE u = d
      BY <2>3, <2>5, <3>1, <3>2, <3>3
    <3>4. CASE u # d
      BY <2>2, <2>5, <3>1, <3>2, <3>4
    <3> QED
      BY <3>3, <3>4
  <2>8. \A u \in Threads : Faulting(u)' => g_pager_tid' # Nobody
    BY <2>6
  <2> QED
    BY <2>5, <2>7, <2>8
<1>4. ASSUME NEW t \in Threads, NEW s \in Threads, NEW src, TakeSender(t, s, src), current = t,
             NEW k, resume' = [resume EXCEPT ![t] = k], ~InFault(k)
      PROVE  FaultWaits'
  <2>1. tstate[s] = "BLOCKED" /\ ipc_state[s] = "SENDING"
    BY <1>4 DEF TakeSender, FindsSender, WaitingSender
  <2>2. resume[s] # "fault_recv" \/ ipc_from[s] = g_pager_tid
    BY <2>1
  <2>3. \A u \in Threads \ {s} : tstate'[u] = tstate[u]
    BY <1>4 DEF TakeSender, Woken
  <2> QED
    BY <1>4, <2>1, <2>2, <2>3, PagerStays DEF TakeSender
\* A thread blocks.
<1>5. ASSUME NEW t \in Threads, NEW s, Schedule([tstate EXCEPT ![t] = s])
      PROVE  \A u \in Threads \ {t} : tstate[u] = "BLOCKED" => tstate'[u] = "BLOCKED"
  <2> SUFFICES ASSUME NEW u \in Threads \ {t}, tstate[u] = "BLOCKED" PROVE tstate'[u] = "BLOCKED"
    OBVIOUS
  <2>1. [tstate EXCEPT ![t] = s][u] = "BLOCKED"
    OBVIOUS
  <2> QED
    BY <1>5, <2>1, ScheduleKeepsBlocked
<1>6. CASE UNCHANGED kvars
  BY <1>1, <1>6 DEF kvars, vars, schedVars, ipcVars
<1>7. CASE TimerInterrupt
  BY <1>1, <1>7, ScheduleKeepsBlocked
     DEF TimerInterrupt, TimerTick, Tick, NoCall, ipcVars
<1>8. ASSUME NEW irq \in IrqLines, HwInterrupt(irq) PROVE FaultWaits'
  <2>1. PICK d \in Threads : Notify(d) /\ d \in D /\ d = g_irq_tid[irq]
    BY <1>8 DEF HwInterrupt, Notify, Exists, Roles
  <2>2. ~InFault(resume[d])
    BY <2>1 DEF Roles, Faulting
  <2>3. UNCHANGED <<resume, ipc_state, ipc_peer, ipc_from>>
    BY <2>1 DEF Notify, Interrupt, NoCall
  <2>4. \A u \in Threads \ {d} : tstate'[u] = tstate[u]
    BY <2>1 DEF Notify, Interrupt, WokenByIrq, Woken
  <2> QED
    BY <2>2, <2>3, <2>4, PagerStays
<1>9. ASSUME NEW t \in Threads, SysSpawn(t) PROVE FaultWaits'
  <2>1. resume' = [resume EXCEPT ![t] = "none"]
    BY <1>9 DEF SysSpawn, Spawn, Reset
  <2>2. /\ ipc_state' = [ipc_state EXCEPT ![t] = "NONE"]
        /\ ipc_from' = [ipc_from EXCEPT ![t] = Any]
        /\ ipc_peer' = [ipc_peer EXCEPT ![t] = Any]
        /\ tstate' = [tstate EXCEPT ![t] = "RUNNABLE"]
    BY <1>9 DEF SysSpawn, Spawn, Create, Reset, CallOver
  <2> QED
    BY <1>2, <2>1, <2>2
<1>10. ASSUME NEW t \in Threads, Syscall(t) PROVE FaultWaits'
  <2>1. ASSUME NEW d, SysSendDenied(t, d) PROVE FaultWaits'
    BY <1>2, <2>1 DEF SysSendDenied, Return, Gives, ipcVars, schedVars
  <2>2. ASSUME NEW d \in Threads \cup {Any}, NEW m, SysSend(t, d, m) PROVE FaultWaits'
    <3>1. CASE SendFails(t, d)
      BY <1>2, <3>1 DEF SendFails, Return, Gives, ipcVars, schedVars
    <3>2. CASE SendDelivers(t, d, m)
      BY <1>3, <3>2 DEF SendDelivers, Deliver, Exists, InUser, Return, Gives
    <3>3. CASE SendBlocks(t, d, m)
      BY <1>2, <1>5, <3>3 DEF SendBlocks, Stage, BlocksIn
    <3> QED
      BY <2>2, <3>1, <3>2, <3>3 DEF SysSend
  <2>3. ASSUME NEW src, SysRecv(t, src) PROVE FaultWaits'
    <3>1. CASE RecvTakesIrq(t)
      BY <1>2, <3>1 DEF RecvTakesIrq, TakeIrq, Return, Gives, schedVars
    <3>2. ASSUME NEW s \in Threads, RecvTakesSender(t, s, src) PROVE FaultWaits'
      BY <1>4, <3>2 DEF RecvTakesSender, InUser, Return, Gives
    <3>3. CASE RecvBlocks(t, src)
      BY <1>2, <1>5, <3>3 DEF RecvBlocks, Await, BlocksIn
    <3> QED
      BY <2>3, <3>1, <3>2, <3>3 DEF SysRecv
  <2>4. CASE SysExit(t)
    <3>1. resume' = [resume EXCEPT ![t] = "none"]
      BY <2>4 DEF SysExit, Exit, InUser, NoCall
    <3> QED
      BY <1>2, <1>5, <2>4, <3>1 DEF SysExit, Exit, Yield, InUser, ipcVars
  <2>5. CASE SysSetPager(t) \/ SysLocal(t) \/ (\E irq \in IrqLines : SysIrqRegister(t, irq))
    BY <1>1, <2>5 DEF SysSetPager, SysLocal, SysIrqRegister, NoCall, ipcVars, schedVars
  <2>6. ASSUME NEW to, NEW ep, SysGrantCap(t, to, ep) PROVE FaultWaits'
    BY <1>1, <2>6 DEF SysGrantCap, NoCall, ipcVars, schedVars
  <2>7. ASSUME NEW to, NEW base, NEW len, SysGrantIo(t, to, base, len) PROVE FaultWaits'
    BY <1>1, <2>7 DEF SysGrantIo, NoCall, ipcVars, schedVars
  <2> QED
    BY <1>10, <2>1, <2>2, <2>3, <2>4, <2>5, <2>6, <2>7 DEF Syscall
<1>11. ASSUME NEW t \in Threads, PageFault(t) PROVE FaultWaits'
  <2>1. current = t
    BY <1>11 DEF PageFault, FaultPanics, FaultSends, Does, InUser
  <2>2. CASE FaultPanics(t)
    BY <1>2, <2>2 DEF FaultPanics, ipcVars, schedVars
  <2>3. CASE FaultSends(t)
    <3>1. g_pager_tid # Nobody
      BY <2>3 DEF FaultSends
    <3>2. CASE Gives(t, -1, NoMsg, "fault") /\ UNCHANGED <<schedVars, ipcVars>>
      BY <1>2, <2>1, <3>1, <3>2 DEF Gives, ipcVars, schedVars
    <3>3. CASE Deliver(t, g_pager_tid, FaultMsg) /\ Gives(t, 0, NoMsg, "fault")
      BY <1>3, <2>1, <3>1, <3>3 DEF Deliver, Exists, Gives
    <3>4. CASE Stage(t, g_pager_tid, FaultMsg) /\ BlocksIn(t, "fault_send")
      BY <1>2, <1>5, <2>1, <3>1, <3>4 DEF Stage, BlocksIn
    <3> QED
      BY <2>3, <3>2, <3>3, <3>4 DEF FaultSends
  <2> QED
    BY <1>11, <2>2, <2>3 DEF PageFault
<1>12. ASSUME NEW t \in Threads, KernelPath(t) PROVE FaultWaits'
  <2>1. CASE SysSendReturns(t)
    BY <1>2, <2>1 DEF SysSendReturns, SendReturns, SendDone, CallOver, Return, Gives, schedVars
  <2>2. CASE SysRecvReturns(t)
    <3>1. CallOver(t) /\ UNCHANGED schedVars
      BY <2>2 DEF SysRecvReturns, RecvReturnsIrq, RecvReturns, AwokenByIrq, Delivered
    <3>2. resume' = [resume EXCEPT ![t] = "none"]
      BY <2>2 DEF SysRecvReturns, RecvReturnsIrq, RecvReturns, Return, Gives
    <3> QED
      BY <1>2, <3>1, <3>2 DEF CallOver, schedVars
  <2>3. CASE FaultSent(t)
    BY <1>2, <2>3 DEF FaultSent, Resumed, SendDone, CallOver, Gives, schedVars
  <2>4. CASE FaultReceives(t)
    <3>1. current = t /\ resume[t] = "fault"
      BY <2>4 DEF FaultReceives, Resumed
    <3>2. ASSUME NEW k \in {"none", "kill"}, TakeIrq(t), Gives(t, Irq, NoMsg, k) PROVE FaultWaits'
      BY <1>2, <3>2 DEF TakeIrq, Gives, schedVars
    <3>3. ASSUME NEW s \in Threads, TakeSender(t, s, g_pager_tid),
                 Gives(t, s, ipc_buf[s], Verdict(ipc_buf[s]))
          PROVE  FaultWaits'
      BY <1>4, <3>1, <3>3 DEF Gives, Verdict
    <3>4. CASE Await(t, g_pager_tid) /\ BlocksIn(t, "fault_recv")
      <4>1. tstate'[t] = "BLOCKED"
        <5>1. [tstate EXCEPT ![t] = "BLOCKED"][t] = "BLOCKED"
          OBVIOUS
        <5> QED
          BY <3>4, <5>1, ScheduleKeepsBlocked DEF Await
      <4>2. \A u \in Threads : tstate[u] = "BLOCKED" => tstate'[u] = "BLOCKED"
        BY <3>4, <4>1, <1>5 DEF Await
      <4>3. /\ ipc_state' = [ipc_state EXCEPT ![t] = "RECEIVING"]
            /\ ipc_peer' = [ipc_peer EXCEPT ![t] = g_pager_tid]
            /\ resume' = [resume EXCEPT ![t] = "fault_recv"]
            /\ UNCHANGED ipc_from
        BY <3>4 DEF Await, BlocksIn
      <4>4. g_pager_tid' = g_pager_tid /\ g_pager_tid # Nobody
        BY <3>1, PagerStays
      <4>5. resume'[t] = "fault_recv" /\ \A u \in Threads \ {t} : resume'[u] = resume[u]
        BY <4>3
      <4> QED
        BY <3>1, <4>1, <4>2, <4>3, <4>4, <4>5
    <3> QED
      BY <2>4, <3>2, <3>3, <3>4 DEF FaultReceives
  <2>5. CASE FaultAnswered(t)
    <3>1. PICK k \in {"none", "kill"} : resume' = [resume EXCEPT ![t] = k]
      BY <2>5 DEF FaultAnswered, Gives, Verdict
    <3>2. CallOver(t) /\ UNCHANGED schedVars
      BY <2>5 DEF FaultAnswered, AwokenByIrq, Delivered
    <3> QED
      BY <1>2, <3>1, <3>2 DEF CallOver, schedVars
  <2>6. CASE FaultKills(t)
    <3>1. /\ Schedule([tstate EXCEPT ![t] = "DEAD"])
          /\ resume' = [resume EXCEPT ![t] = "none"]
          /\ UNCHANGED ipcVars
      <4>1. Resumed(t, "kill") /\ Yield("DEAD")
        BY <2>6 DEF FaultKills, TornDown
      <4>2. current = t /\ Schedule([tstate EXCEPT ![current] = "DEAD"])
        BY <4>1 DEF Resumed, Yield
      <4>3. Schedule([tstate EXCEPT ![t] = "DEAD"])
        BY ONLY <4>2
      <4>4. resume' = [resume EXCEPT ![t] = "none"] /\ UNCHANGED ipcVars
        BY ONLY <2>6 DEF FaultKills
      <4> QED
        BY <4>3, <4>4
    <3>2. \A u \in Threads \ {t} : tstate[u] = "BLOCKED" => tstate'[u] = "BLOCKED"
      BY <1>5, <3>1
    <3> QED
      BY <1>2, <3>1, <3>2 DEF ipcVars
  <2> QED
    BY <1>12, <2>1, <2>2, <2>3, <2>4, <2>5, <2>6 DEF KernelPath
<1> QED
  BY <1>6, <1>7, <1>8, <1>9, <1>10, <1>11, <1>12 DEF KNext

\* A thread that is to be killed owns the CPU and does nothing else before.
LEMMA KillFollowsVerdict ==
    ASSUME CpuOK, [KNext]_kvars, NEW u \in Threads, resume[u] = "kill"
    PROVE  UNCHANGED kvars \/ FaultKills(u)
<1>1. current = u
  BY DEF CpuOK, AtCpu
<1>2. ~TimerInterrupt /\ \A irq \in IrqLines : ~HwInterrupt(irq)
  BY <1>1 DEF TimerInterrupt, TimerTick, HwInterrupt, Notify, Interruptible
<1>3. \A t \in Threads : ~SysSpawn(t) /\ ~InUser(t)
  BY <1>1 DEF SysSpawn, Spawn, Interruptible, InUser
<1>4. \A t \in Threads : ~Syscall(t) /\ ~PageFault(t)
  BY <1>3 DEF Syscall, SysSendDenied, SysSend, SendFails, SendDelivers, SendBlocks, SysRecv,
              RecvTakesIrq, RecvTakesSender, RecvBlocks, SysExit, Exit, SysSetPager, SysLocal,
              SysIrqRegister, SysGrantCap, SysGrantIo, PageFault, FaultPanics, FaultSends, Does
<1>5. \A t \in Threads : KernelPath(t) => t = u /\ FaultKills(t)
  BY <1>1 DEF KernelPath, SysSendReturns, SendReturns, SysRecvReturns, RecvReturnsIrq, RecvReturns,
              FaultSent, FaultReceives, FaultAnswered, FaultKills, Resumed
<1> QED
  BY <1>2, <1>3, <1>4, <1>5 DEF KNext

\* Only the two ends of the receive decide to kill.
LEMMA OnlyAnswersKill ==
    ASSUME CallsOK, [KNext]_kvars,
           NEW u \in Threads, resume[u] # "kill", resume'[u] = "kill"
    PROVE  FaultReceives(u) \/ FaultAnswered(u)
<1> USE DEF CallsOK
<1>1. ~ UNCHANGED resume
  OBVIOUS
<1>2. ASSUME NEW t \in Threads, NEW k, resume' = [resume EXCEPT ![t] = k] PROVE t = u /\ k = "kill"
  BY <1>2
<1>3. ~ UNCHANGED kvars /\ ~TimerInterrupt /\ \A irq \in IrqLines : ~HwInterrupt(irq)
  BY <1>1 DEF kvars, vars, TimerInterrupt, TimerTick, HwInterrupt, Notify, NoCall
<1>4. \A t \in Threads : ~SysSpawn(t)
  BY <1>2 DEF SysSpawn, Spawn, Reset
<1>5. ASSUME NEW t \in Threads, Syscall(t) PROVE FALSE
  <2>1. /\ \A d : ~SysSendDenied(t, d)
        /\ \A d, m : ~SysSend(t, d, m)
        /\ \A src : ~SysRecv(t, src)
    BY <1>2 DEF SysSendDenied, SysSend, SendFails, SendDelivers, SendBlocks, SysRecv, RecvTakesIrq,
                RecvTakesSender, RecvBlocks, Return, Gives, BlocksIn
  <2> QED
    BY <1>1, <1>5, <2>1 DEF Syscall, SysExit, Exit, SysSetPager, SysLocal, SysIrqRegister,
                            SysGrantCap, SysGrantIo, NoCall
<1>6. \A t \in Threads : ~PageFault(t)
  BY <1>2 DEF PageFault, FaultPanics, FaultSends, Gives, BlocksIn
<1>7. ASSUME NEW t \in Threads, KernelPath(t) PROVE t = u /\ (FaultReceives(t) \/ FaultAnswered(t))
  <2>1. ~SysSendReturns(t) /\ ~SysRecvReturns(t) /\ ~FaultSent(t) /\ ~FaultKills(t)
    BY <1>2 DEF SysSendReturns, SendReturns, SysRecvReturns, RecvReturnsIrq, RecvReturns, FaultSent,
                FaultKills, Return, Gives
  <2>2. FaultReceives(t) \/ FaultAnswered(t)
    BY <1>7, <2>1 DEF KernelPath
  <2>3. \E k : resume' = [resume EXCEPT ![t] = k]
    BY <2>2 DEF FaultReceives, FaultAnswered, Gives, BlocksIn
  <2> QED
    BY <1>2, <2>2, <2>3
<1> QED
  BY <1>3, <1>4, <1>5, <1>6, <1>7 DEF KNext

LEMMA VerdictStep ==
    ASSUME NEW D, CpuOK, CallsOK, FaultWaits, Undisturbed(D), KilledByVerdict, [KNext]_kvars,
           \A t \in Threads : Faulting(t) => t \notin D
    PROVE  KilledByVerdict'
<1> SUFFICES ASSUME NEW u \in Threads, resume'[u] = "kill"
             PROVE  ret'.tid = u /\ ret'.msg \in Kills /\ ret'.rax = g_pager_tid'
  BY DEF KilledByVerdict
<1>1. CASE resume[u] = "kill"
  <2>1. ~FaultKills(u)
    BY DEF FaultKills, CallsOK
  <2>2. UNCHANGED kvars
    BY <1>1, <2>1, KillFollowsVerdict
  <2> QED
    BY <1>1, <2>2 DEF KilledByVerdict, kvars, vars, trapVars
<1>2. CASE resume[u] # "kill"
  <2>1. FaultReceives(u) \/ FaultAnswered(u)
    BY <1>2, OnlyAnswersKill
  <2>2. /\ current = u /\ resume[u] \in {"fault", "fault_recv"}
        /\ g_pager_tid # Nobody /\ irq_pending[u] = 0
    BY <2>1 DEF FaultReceives, FaultAnswered, Resumed, FaultWaits, Faulting, Undisturbed
  <2>3. UNCHANGED g_pager_tid
    BY <2>1 DEF FaultReceives, FaultAnswered, trapVars
  <2>4. CASE FaultReceives(u)
    <3>1. ~TakeIrq(u)
      BY <2>2 DEF TakeIrq, IrqDue
    <3>2. ~BlocksIn(u, "fault_recv")
      BY DEF BlocksIn, CallsOK
    <3>3. PICK s \in Threads : /\ TakeSender(u, s, g_pager_tid)
                               /\ Gives(u, s, ipc_buf[s], Verdict(ipc_buf[s]))
      BY <2>4, <3>1, <3>2 DEF FaultReceives
    <3>4. s = g_pager_tid
      BY <2>2, <3>3 DEF TakeSender, FindsSender, WaitingSender
    <3>5. ipc_buf[s] \in Kills
      BY <3>3 DEF Gives, Verdict, CallsOK
    <3> QED
      BY <2>3, <3>3, <3>4, <3>5 DEF Gives
  <2>5. CASE FaultAnswered(u)
    <3>1. tstate[u] = "RUNNING" /\ resume[u] = "fault_recv"
      BY <2>2, <2>5 DEF CpuOK, CpuLive, FaultAnswered, Resumed
    <3>2. ipc_state[u] # "RECEIVING" /\ ipc_from[u] = g_pager_tid
      BY <3>1 DEF FaultWaits
    <3>3. Gives(u, ipc_from[u], ipc_buf[u], Verdict(ipc_buf[u]))
      BY <2>5, <3>2 DEF FaultAnswered, AwokenByIrq
    <3>4. ipc_buf[u] \in Kills
      BY <3>3 DEF Gives, Verdict, CallsOK
    <3> QED
      BY <2>3, <3>2, <3>3, <3>4 DEF Gives
  <2> QED
    BY <2>1, <2>4, <2>5
<1> QED
  BY <1>1, <1>2

\* A fault begins with an access.
LEMMA FaultsBegin ==
    ASSUME CallsOK, [KNext]_kvars, NEW u \in Threads, Faulting(u)', ~Faulting(u)
    PROVE  "fault" \in Uses[u]
<1> USE DEF CallsOK, Faulting
<1>1. ~ UNCHANGED resume
  OBVIOUS
<1>2. ASSUME NEW t \in Threads, NEW k, resume' = [resume EXCEPT ![t] = k]
      PROVE  t = u /\ k \in {"fault", "fault_send", "fault_recv"}
  BY <1>2
<1>3. ~ UNCHANGED kvars /\ ~TimerInterrupt /\ \A irq \in IrqLines : ~HwInterrupt(irq)
  BY <1>1 DEF kvars, vars, TimerInterrupt, TimerTick, HwInterrupt, Notify, NoCall
<1>4. \A t \in Threads : ~SysSpawn(t)
  BY <1>2 DEF SysSpawn, Spawn, Reset
<1>5. ASSUME NEW t \in Threads, Syscall(t) PROVE FALSE
  <2>1. /\ \A d : ~SysSendDenied(t, d)
        /\ \A d, m : ~SysSend(t, d, m)
        /\ \A src : ~SysRecv(t, src)
    BY <1>2 DEF SysSendDenied, SysSend, SendFails, SendDelivers, SendBlocks, SysRecv, RecvTakesIrq,
                RecvTakesSender, RecvBlocks, Return, Gives, BlocksIn
  <2> QED
    BY <1>1, <1>5, <2>1 DEF Syscall, SysExit, Exit, SysSetPager, SysLocal, SysIrqRegister,
                            SysGrantCap, SysGrantIo, NoCall
<1>6. ASSUME NEW t \in Threads, PageFault(t) PROVE "fault" \in Uses[u]
  <2>1. t = u
    BY <1>2, <1>6 DEF PageFault, FaultPanics, FaultSends, Gives, BlocksIn
  <2> QED
    BY <1>6, <2>1 DEF PageFault, FaultPanics, FaultSends, Does
<1>7. ASSUME NEW t \in Threads, KernelPath(t) PROVE FALSE
  <2>1. ~SysSendReturns(t) /\ ~SysRecvReturns(t) /\ ~FaultKills(t) /\ ~FaultAnswered(t)
    BY <1>2 DEF SysSendReturns, SendReturns, SysRecvReturns, RecvReturnsIrq, RecvReturns, FaultKills,
                FaultAnswered, Return, Gives, Verdict
  <2>2. FaultSent(t) \/ FaultReceives(t)
    BY <1>7, <2>1 DEF KernelPath
  <2>3. resume[t] \in {"fault", "fault_send"}
    BY <2>2 DEF FaultSent, FaultReceives, Resumed
  <2>4. t = u
    BY <2>2, <1>2 DEF FaultSent, FaultReceives, Gives, BlocksIn
  <2> QED
    BY <2>3, <2>4
<1> QED
  BY <1>3, <1>4, <1>5, <1>6, <1>7 DEF KNext

\* Who registers, what it may be used for.
Drivers == {t \in Threads : "irq" \in Uses[t]}

LEMMA RolesStep ==
    ASSUME NEW p, \A t \in Threads : "pager" \in Uses[t] => t = p, FaultersDriveNothing, CallsOK,
           Roles({p}, Drivers), [KNext]_kvars
    PROVE  Roles({p}, Drivers)'
<1> USE DEF CallsOK
<1>1. \A t \in Threads : Faulting(t)' => t \notin Drivers
  BY FaultsBegin DEF FaultersDriveNothing, Drivers, Roles
<1>2. ASSUME NEW t \in Threads, SysSetPager(t)
      PROVE  g_pager_tid' = p /\ UNCHANGED g_irq_tid
  BY <1>2 DEF SysSetPager, Does
<1>3. ASSUME NEW t \in Threads, NEW irq \in IrqLines, SysIrqRegister(t, irq)
      PROVE  /\ UNCHANGED g_pager_tid
             /\ \A i \in IrqLines : g_irq_tid'[i] = g_irq_tid[i] \/ g_irq_tid'[i] \in Drivers
  BY <1>3 DEF SysIrqRegister, Does, Drivers
<1>4. \/ UNCHANGED <<g_pager_tid, g_irq_tid>>
      \/ \E t \in Threads : SysSetPager(t)
      \/ \E t \in Threads : \E irq \in IrqLines : SysIrqRegister(t, irq)
  <2>1. ASSUME NEW t \in Threads, Syscall(t)
        PROVE  \/ UNCHANGED <<g_pager_tid, g_irq_tid>>
               \/ SysSetPager(t)
               \/ \E irq \in IrqLines : SysIrqRegister(t, irq)
    BY <2>1 DEF Syscall, SysSendDenied, SysSend, SysRecv, SysExit, SysLocal, SysGrantCap, SysGrantIo,
                trapVars
  <2>2. ASSUME NEW t \in Threads, SysSpawn(t) \/ PageFault(t) \/ KernelPath(t)
        PROVE  UNCHANGED <<g_pager_tid, g_irq_tid>>
    BY <2>2 DEF SysSpawn, PageFault, FaultPanics, FaultSends, KernelPath, SysSendReturns,
                SysRecvReturns, FaultSent, FaultReceives, FaultAnswered, FaultKills, trapVars
  <2> QED
    BY <2>1, <2>2 DEF KNext, kvars, TimerInterrupt, HwInterrupt, trapVars
<1> QED
  BY <1>1, <1>2, <1>3, <1>4 DEF Roles

(* A faulting thread is killed only by the verdict of the pager            *)
(* (page_fault_handler()): with one program that registers as the pager,   *)
(* and none that both faults and drives a device.  Without the second an   *)
(* interrupt can end the receive and the verdict is never read.            *)
THEOREM KernelKilledByVerdict ==
    ASSUME OnePager, FaultersDriveNothing
    PROVE  KSpec => []KilledByVerdict
<1>0. PICK p : \A t \in Threads : "pager" \in Uses[t] => t = p
  BY DEF OnePager
<1> DEFINE D == Drivers
           VerdictInv == Roles({p}, D) /\ Undisturbed(D) /\ FaultWaits /\ KilledByVerdict
<1>1. KInit => VerdictInv
  BY DEF KInit, Init, Roles, Undisturbed, FaultWaits, Faulting, KilledByVerdict
<1>2. KInv /\ CpuOK /\ VerdictInv /\ [KNext]_kvars => VerdictInv'
  <2> SUFFICES ASSUME KInv, CpuOK, VerdictInv, [KNext]_kvars PROVE VerdictInv'
    OBVIOUS
  <2>1. CallsOK
    BY KInvParts
  <2>2. Roles({p}, D)'
    BY <1>0, <2>1, RolesStep
  <2>3. Undisturbed(D)' /\ FaultWaits'
    BY <2>1, <2>2, UndisturbedStep, FaultWaitsStep
  <2>4. KilledByVerdict'
    BY <2>1, VerdictStep DEF Roles
  <2> QED
    BY <2>2, <2>3, <2>4
<1>3. VerdictInv => KilledByVerdict
  OBVIOUS
<1> QED
  BY <1>1, <1>2, <1>3, KInvAlways, CpuOKAlways, PTL DEF KSpec
=============================================================================
