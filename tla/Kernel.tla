-------------------------------- MODULE Kernel --------------------------------
(***************************************************************************)
(* The trap layer of the x86-64 kernel (arch/x86_64/trap/trap.c) over IPC  *)
(* and capabilities: system calls with their authority checks, page faults *)
(* forwarded to a user-space pager, and hardware interrupts routed to the  *)
(* driver that registered for them.                                        *)
(*                                                                         *)
(* Every trap enters through an interrupt gate, so a kernel path runs      *)
(* alone until it returns to user code or calls schedule().  A path that   *)
(* is several steps here (a page fault sends, then receives, then perhaps  *)
(* kills) keeps `resume' off "none" in between, which keeps every          *)
(* interrupt and every other thread out.                                   *)
(***************************************************************************)
EXTENDS Ipc, Cap

CONSTANTS
    Kills,               \* messages whose data0 is not 0
    FaultMsg,            \* the MSG_FAULT the kernel composes
    IrqLines,            \* interrupt lines a driver may register for
    Uses,                \* per thread, the kernel services its program uses
    Grants,              \* <<thread, endpoint>> pairs programs delegate
    IoGrants             \* <<thread, base, len>> port ranges the root hands out

ASSUME KernelAssumption ==
    /\ Kills \subseteq Message
    /\ FaultMsg \in Message
    /\ Uses \in [Threads -> SUBSET {"ipc", "spawn", "exit", "pager", "irq", "grant", "fault"}]
    /\ Grants \subseteq Threads \X Threads
    /\ IoGrants \subseteq Threads \X Ports \X Ports

Root == 0
Nobody == -1

VARIABLES
    call_to,             \* ipc_call_to: target of the outstanding call
    ctable,              \* capability tables
    g_pager_tid,         \* the registered pager
    g_irq_tid            \* the driver registered for each line

trapVars == <<call_to, ctable, g_pager_tid, g_irq_tid>>
kvars    == <<vars, trapVars>>

Does(t, service) == InUser(t) /\ service \in Uses[t]
-----------------------------------------------------------------------------
(* ipc_send_allowed(): root and the root's endpoint, a capability, the     *)
(* answer to an open call, or to a thread that waits for us by name.       *)
SendAllowed(t, d) ==
    \/ Root \in {t, d}
    \/ HasEndpoint(ctable[t], d)
    \/ /\ d \in Threads
       /\ \/ call_to[d] = t
          \/ Receives(d) /\ ipc_peer[d] = t

\* SYS_RECV returned a message from `from': an answer closes the call.
CallDone(t, from) ==
    call_to' = [call_to EXCEPT ![t] = IF from = @ THEN Nobody ELSE @]

SysSendDenied(t, d) ==
    /\ Does(t, "ipc")
    /\ ~SendAllowed(t, d)
    /\ Return(t, -1, NoMsg)
    /\ UNCHANGED <<schedVars, ipcVars, trapVars>>

\* Mutant: the call is not recorded before the send.
OpensCall_Late(t, d) == UNCHANGED call_to

OpensCall(t, d) == call_to' = [call_to EXCEPT ![t] = d]

\* The right to answer is given before the message can be taken.
SysSend(t, d, m) ==
    /\ Does(t, "ipc")
    /\ SendAllowed(t, d)
    /\ OpensCall(t, d)
    /\ \/ SendFails(t, d)
       \/ SendDelivers(t, d, m)
       \/ SendBlocks(t, d, m)
    /\ UNCHANGED <<ctable, g_pager_tid, g_irq_tid>>

SysSendReturns(t) == SendReturns(t) /\ UNCHANGED trapVars

SysRecv(t, src) ==
    /\ Does(t, "ipc")
    /\ \/ RecvTakesIrq(t) /\ CallDone(t, Irq)
       \/ \E s \in Threads : RecvTakesSender(t, s, src) /\ CallDone(t, s)
       \/ RecvBlocks(t, src) /\ UNCHANGED call_to
    /\ UNCHANGED <<ctable, g_pager_tid, g_irq_tid>>

SysRecvReturns(t) ==
    /\ \/ RecvReturnsIrq(t) /\ CallDone(t, Irq)
       \/ RecvReturns(t) /\ CallDone(t, ipc_from[t])
    /\ UNCHANGED <<ctable, g_pager_tid, g_irq_tid>>

\* What thread_create() clears, and the endpoint the parent gets.
Endowed(c) ==
    [u \in Threads |->
        IF u = c THEN EmptyTable
        ELSE IF u = current THEN GrantEndpoint(ctable[u], c) ELSE ctable[u]]

SysSpawn(c) ==
    /\ current # Idle => "spawn" \in Uses[current]
    /\ Spawn(c)
    /\ call_to' = [call_to EXCEPT ![c] = Nobody]
    /\ ctable' = Endowed(c)
    /\ UNCHANGED <<g_pager_tid, g_irq_tid>>

SysExit(t) ==
    /\ Does(t, "exit")
    /\ Exit(t)
    /\ UNCHANGED trapVars

SysSetPager(t) ==
    /\ Does(t, "pager")
    /\ g_pager_tid' = t
    /\ NoCall
    /\ UNCHANGED <<schedVars, ipcVars, call_to, ctable, g_irq_tid>>

\* Registering also unmasks the line.
SysIrqRegister(t, irq) ==
    /\ Does(t, "irq")
    /\ g_irq_tid' = [g_irq_tid EXCEPT ![irq] = t]
    /\ NoCall
    /\ UNCHANGED <<schedVars, ipcVars, call_to, ctable, g_pager_tid>>

\* SYS_GRANT_CAP: root, or a holder of the endpoint, delegates it.
SysGrantCap(t, to, ep) ==
    /\ Does(t, "grant")
    /\ t = Root \/ HasEndpoint(ctable[t], ep)
    /\ ctable' = [ctable EXCEPT ![to] = GrantEndpoint(@, ep)]
    /\ NoCall
    /\ UNCHANGED <<schedVars, ipcVars, call_to, g_pager_tid, g_irq_tid>>

\* SYS_GRANT_IO: root only.
SysGrantIo(t, to, base, len) ==
    /\ Does(t, "grant")
    /\ t = Root
    /\ ctable' = [ctable EXCEPT ![to] = GrantIo(@, base, len)]
    /\ NoCall
    /\ UNCHANGED <<schedVars, ipcVars, call_to, g_pager_tid, g_irq_tid>>

\* Port I/O, mapping, the read-only calls, and every call that is refused or
\* fails other than a send: nothing here changes.
SysLocal(t) ==
    /\ InUser(t)
    /\ NoCall
    /\ UNCHANGED <<schedVars, ipcVars, trapVars>>
-----------------------------------------------------------------------------
(* A page fault of a user thread is a call to the pager made by the kernel *)
(* on the thread's behalf, without ipc_call_to.  "fault" is the point      *)
(* between the send and the receive.                                       *)

\* Nobody to ask, or the pager itself faults: panic, interrupts off for good.
FaultPanics(t) ==
    /\ Does(t, "fault")
    /\ g_pager_tid \in {Nobody, t}
    /\ ret' = NoResult
    /\ resume' = [resume EXCEPT ![t] = "panic"]
    /\ UNCHANGED <<schedVars, ipcVars, trapVars>>

FaultSends(t) ==
    /\ Does(t, "fault")
    /\ g_pager_tid \notin {Nobody, t}
    /\ \/ /\ ~Exists(g_pager_tid)
          /\ Gives(t, -1, NoMsg, "fault")
          /\ UNCHANGED <<schedVars, ipcVars>>
       \/ /\ Deliver(t, g_pager_tid, FaultMsg)
          /\ Gives(t, 0, NoMsg, "fault")
       \/ /\ Stage(t, g_pager_tid, FaultMsg)
          /\ BlocksIn(t, "fault_send")
    /\ UNCHANGED trapVars

FaultSent(t) ==
    /\ Resumed(t, "fault_send")
    /\ SendDone(t)
    /\ Gives(t, 0, NoMsg, "fault")
    /\ UNCHANGED trapVars

\* Mutant: the test of the verdict is inverted.
Verdict_Inverted(m) == IF m \in Kills THEN "none" ELSE "kill"

\* data0 of the reply decides.
Verdict(m) == IF m \in Kills THEN "kill" ELSE "none"

(* The receive half.  An interrupt notification ends it too; then only the *)
(* label of `reply' was written and data0 is whatever the stack held.      *)
FaultReceives(t) ==
    /\ Resumed(t, "fault")
    /\ \/ /\ TakeIrq(t)
          /\ \E k \in {"none", "kill"} : Gives(t, Irq, NoMsg, k)
       \/ \E s \in Threads :
          /\ TakeSender(t, s, g_pager_tid)
          /\ Gives(t, s, ipc_buf[s], Verdict(ipc_buf[s]))
       \/ /\ Await(t, g_pager_tid)
          /\ BlocksIn(t, "fault_recv")
    /\ UNCHANGED trapVars

FaultAnswered(t) ==
    /\ Resumed(t, "fault_recv")
    /\ \/ /\ AwokenByIrq(t)
          /\ \E k \in {"none", "kill"} : Gives(t, Irq, NoMsg, k)
       \/ /\ Delivered(t)
          /\ Gives(t, ipc_from[t], ipc_buf[t], Verdict(ipc_buf[t]))
    /\ UNCHANGED trapVars

\* Mutant: the killed thread keeps the CPU until the next tick.
TornDown_InPlace == ThreadExit

TornDown == Yield("DEAD")

FaultKills(t) ==
    /\ Resumed(t, "kill")
    /\ TornDown
    /\ ret' = NoResult
    /\ resume' = [resume EXCEPT ![t] = "none"]
    /\ UNCHANGED <<ipcVars, trapVars>>
-----------------------------------------------------------------------------
\* A line is masked until someone registers for it.
HwInterrupt(irq) ==
    /\ g_irq_tid[irq] # Nobody
    /\ Notify(g_irq_tid[irq])
    /\ UNCHANGED trapVars

TimerInterrupt == TimerTick /\ UNCHANGED trapVars

KInit ==
    /\ Init
    /\ call_to = [t \in Threads |-> Nobody]
    /\ ctable = [t \in Threads |-> EmptyTable]
    /\ g_pager_tid = Nobody
    /\ g_irq_tid = [i \in IrqLines |-> Nobody]

\* A kernel path that goes on once its thread has the CPU.
KernelPath(t) ==
    \/ SysSendReturns(t) \/ SysRecvReturns(t)
    \/ FaultSent(t) \/ FaultReceives(t) \/ FaultAnswered(t) \/ FaultKills(t)

(* Programs send no message that looks like the kernel's own FaultMsg (the *)
(* kernel would let them: it does not look at labels), and grant to        *)
(* threads of the table only (ids beyond it are refused and change         *)
(* nothing).                                                               *)
Syscall(t) ==
    \/ \E d \in Threads \cup {Any} :
        \/ SysSendDenied(t, d)
        \/ \E m \in Message \ {FaultMsg} : SysSend(t, d, m)
    \/ \E src \in Threads \cup {Any} : SysRecv(t, src)
    \/ SysExit(t)
    \/ SysSetPager(t)
    \/ SysLocal(t)
    \/ \E irq \in IrqLines : SysIrqRegister(t, irq)
    \/ \E g \in Grants : SysGrantCap(t, g[1], g[2])
    \/ \E g \in IoGrants : SysGrantIo(t, g[1], g[2], g[3])

PageFault(t) == FaultPanics(t) \/ FaultSends(t)

KNext ==
    \/ TimerInterrupt
    \/ \E irq \in IrqLines : HwInterrupt(irq)
    \/ \E t \in Threads : SysSpawn(t) \/ Syscall(t) \/ PageFault(t) \/ KernelPath(t)

KSpec == KInit /\ [][KNext]_kvars
-----------------------------------------------------------------------------
\* What the trap layer adds to the thread table keeps its types.
KernelTypeOK ==
    /\ resume \in [Threads -> {"none", "send", "recv", "fault", "fault_send", "fault_recv",
                             "kill", "panic"}]
    /\ call_to \in [Threads -> Threads \cup {Nobody}]
    /\ g_pager_tid \in Threads \cup {Nobody}
    /\ g_irq_tid \in [IrqLines -> Threads \cup {Nobody}]
    /\ \A t \in Threads : Len(ctable[t]) <= CapMax

(* The right to answer a call is race-free ("authorise a reply", SYS_SEND):*)
(* from the moment a request can be taken, and before the client has run   *)
(* again and waits for the answer, the server may send to the client.      *)
ReplyRaceFree ==
    \A c \in Threads : resume[c] = "send" => SendAllowed(ipc_peer[c], c)

(* The same for the call the kernel makes on behalf of a faulting thread   *)
(* ("a send/recv call"; "kernel-mediated reply"): the pager that has taken *)
(* the fault may answer it.                                                *)
FaultReplyRaceFree ==
    \A t \in Threads :
        resume[t] = "fault_send" /\ ipc_state[t] = "NONE" => SendAllowed(ipc_peer[t], t)

(* A faulting thread is killed only by a verdict: a message with non-zero  *)
(* data0, sent by the pager.  So it is of programs of which one registers  *)
(* as the pager and none both faults and drives a device, as shipped; else *)
(* an interrupt ends the receive of the fault, whose result is ignored     *)
(* (trap.c:225), or the fault goes to a newcomer in the pager's slot.      *)
KilledByVerdict ==
    \A t \in Threads :
        resume[t] = "kill" =>
            ret.tid = t /\ ret.msg \in Kills /\ ret.rax = g_pager_tid

(* No thread ever fills its table with copies of one endpoint.             *)
GrantsIdempotent ==
    \A t \in Threads : \A i, j \in DOMAIN ctable[t] :
        ctable[t][i] = ctable[t][j] /\ ctable[t][i].type = "ENDPOINT" => i = j

(* Authority is never lost while a thread lives: no grant, spawn, refused  *)
(* grant on a full table or exit of the target takes a capability away.    *)
AuthorityKept ==
    [][\A t, d \in Threads :
          HasEndpoint(ctable[t], d) /\ tstate[t] \notin Free => HasEndpoint(ctable[t], d)']_kvars

(* "Parent may message its child" (SYS_SPAWN), although the system call    *)
(* ignores a refused grant: a table of endpoints only, with a slot for     *)
(* every thread, never refuses one, however often slots are reused.  (With *)
(* ports in the table too it may: a parent that spawns is given none.)     *)
SpawnEndows ==
    [][\A c \in Threads :
          tstate[c] \in Free /\ tstate'[c] \notin Free /\ current # Idle =>
              HasEndpoint(ctable[current]', c)]_kvars

\* For IPC, the kernel between the halves of a fault is user code that the
\* timer leaves alone.
IpcView(k) ==
    CASE k = "fault_send" -> "send"
      [] k = "fault_recv" -> "recv"
      [] k \in {"fault", "kill", "panic"} -> "none"
      [] OTHER -> k

ipc_resume == [t \in Threads |-> IpcView(resume[t])]

IpcK == INSTANCE Ipc WITH resume <- ipc_resume

(* System calls, page faults, kills and interrupts use IPC only as Ipc     *)
(* describes it, so everything Ipc guarantees holds in the kernel: no      *)
(* missed rendezvous, no sleep over an interrupt, atomic hand-over.        *)
ImplementsIpc == IpcK!Spec
=============================================================================
