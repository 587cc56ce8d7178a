--------------------------------- MODULE Ipc ---------------------------------
(***************************************************************************)
(* Synchronous rendezvous IPC (kernel/ipc.c) on top of the scheduler, with *)
(* the interrupt notifications of isr_handler().                           *)
(*                                                                         *)
(* A call runs with interrupts disabled.  It either completes at once, in  *)
(* one atomic step, or blocks its thread and calls schedule() in one       *)
(* atomic step; the rest of the call runs when the thread is next          *)
(* dispatched, again before anything else can happen.  `resume' is that    *)
(* continuation: where in the kernel a thread stands that is not in user   *)
(* code.                                                                   *)
(***************************************************************************)
EXTENDS Sched

CONSTANTS
    Message,             \* contents of a struct ipc_msg
    NoMsg,               \* an ipc_msg nobody has written
    IrqBound             \* cap on irq_pending (the model's only bound)

ASSUME IpcAssumption == NoMsg \notin Message /\ IrqBound \in Nat

Any == -1                \* IPC_ANY
Irq == -2                \* IPC_IRQ_SENDER

VARIABLES
    ipc_state,           \* "NONE", "SENDING" or "RECEIVING"
    ipc_peer,            \* tid communicated with, or Any
    ipc_from,            \* tid of the sender that delivered
    ipc_buf,             \* staged or delivered message
    irq_pending,         \* undelivered notifications
    resume,              \* continuation of a blocked call, "none" in user code
    ret                  \* the call this step completed: thread, rax, message read

ipcVars == <<ipc_state, ipc_peer, ipc_from, ipc_buf, irq_pending>>
vars    == <<schedVars, ipcVars, resume, ret>>
-----------------------------------------------------------------------------
NoResult == [tid |-> Any, rax |-> 0, msg |-> NoMsg]

\* The call of t gives r, and the message m if it is a receive; the kernel
\* path it is part of goes on at k, and to user code if k is "none".
Gives(t, r, m, k) ==
    /\ ret' = [tid |-> t, rax |-> r, msg |-> m]
    /\ resume' = [resume EXCEPT ![t] = k]

Return(t, r, m) == Gives(t, r, m, "none")

\* The call of t blocks; its continuation is k.
BlocksIn(t, k) ==
    /\ ret' = NoResult
    /\ resume' = [resume EXCEPT ![t] = k]

\* No call returns in this step.
NoCall == ret' = NoResult /\ UNCHANGED resume

(* A blocked call of t is over.  The code leaves ipc_peer, ipc_from and    *)
(* ipc_buf as they are; nothing reads them again before it writes them, so *)
(* the model forgets them.                                                 *)
CallOver(t) ==
    /\ ipc_state' = [ipc_state EXCEPT ![t] = "NONE"]
    /\ ipc_peer' = [ipc_peer EXCEPT ![t] = Any]
    /\ ipc_from' = [ipc_from EXCEPT ![t] = Any]
    /\ ipc_buf' = [ipc_buf EXCEPT ![t] = NoMsg]

\* Thread t executes user code and may enter the kernel.
InUser(t) == current = t /\ tstate[t] = "RUNNING" /\ resume[t] = "none"

\* Interrupts are enabled: the CPU is in user code or idles.
Interruptible == current # Idle => resume[current] = "none"

\* A dispatched thread runs its continuation k.
Resumed(t, k) == current = t /\ resume[t] = k

Exists(d) == d \in Threads /\ tstate[d] \notin Free
-----------------------------------------------------------------------------
WaitingSender(t, me, want) ==
    /\ tstate[t] = "BLOCKED"
    /\ ipc_state[t] = "SENDING"
    /\ ipc_peer[t] = me
    /\ want \in {Any, t}

\* find_waiting_sender(): the lowest slot wins.
FindsSender(t, me, want) ==
    /\ WaitingSender(t, me, want)
    /\ \A u \in Threads : WaitingSender(u, me, want) => t <= u

NoSender(me, want) == \A t \in Threads : ~WaitingSender(t, me, want)

Receives(d) == tstate[d] = "BLOCKED" /\ ipc_state[d] = "RECEIVING"

\* Mutant: only a receiver that asked for Any is found.
ReceiverReady_AnyOnly(d, from) == Receives(d) /\ ipc_peer[d] = Any

\* Mutant: a receiver an interrupt has already woken still counts as waiting.
ReceiverReady_Awake(d, from) ==
    ipc_state[d] = "RECEIVING" /\ ipc_peer[d] \in {Any, from}

ReceiverReady(d, from) == Receives(d) /\ ipc_peer[d] \in {Any, from}

\* ipc_send_locked(), receiver ready: copy across and wake it.
Deliver(t, d, m) ==
    /\ Exists(d)
    /\ ReceiverReady(d, t)
    /\ ipc_buf' = [ipc_buf EXCEPT ![d] = m]
    /\ ipc_from' = [ipc_from EXCEPT ![d] = t]
    /\ ipc_state' = [ipc_state EXCEPT ![d] = "NONE"]
    /\ tstate' = Woken(tstate, d)
    /\ UNCHANGED <<current, ipc_peer, irq_pending>>

\* Receiver not ready: stage the message, block, yield.
Stage(t, d, m) ==
    /\ Exists(d)
    /\ ~ReceiverReady(d, t)
    /\ ipc_buf' = [ipc_buf EXCEPT ![t] = m]
    /\ ipc_state' = [ipc_state EXCEPT ![t] = "SENDING"]
    /\ ipc_peer' = [ipc_peer EXCEPT ![t] = d]
    /\ Schedule([tstate EXCEPT ![t] = "BLOCKED"])
    /\ UNCHANGED <<ipc_from, irq_pending>>

\* The staged send resumes once the message was taken.
SendDone(t) ==
    /\ CallOver(t)
    /\ UNCHANGED <<schedVars, irq_pending>>

\* Mutant: the receive does not look at the pending notifications.
IrqDue_Never(t) == FALSE

IrqDue(t) == irq_pending[t] > 0

\* ipc_recv_locked(): a pending notification first.
TakeIrq(t) ==
    /\ IrqDue(t)
    /\ irq_pending' = [irq_pending EXCEPT ![t] = @ - 1]
    /\ UNCHANGED <<schedVars, ipc_state, ipc_peer, ipc_from, ipc_buf>>

\* Then a sender that already waits; the message read is ipc_buf[s].
TakeSender(t, s, src) ==
    /\ ~IrqDue(t)
    /\ FindsSender(s, t, src)
    /\ ipc_state' = [ipc_state EXCEPT ![s] = "NONE"]
    /\ tstate' = Woken(tstate, s)
    /\ UNCHANGED <<current, ipc_peer, ipc_from, ipc_buf, irq_pending>>

\* Neither: block until a sender delivers or an interrupt wakes us.
Await(t, src) ==
    /\ ~IrqDue(t)
    /\ NoSender(t, src)
    /\ ipc_state' = [ipc_state EXCEPT ![t] = "RECEIVING"]
    /\ ipc_peer' = [ipc_peer EXCEPT ![t] = src]
    /\ Schedule([tstate EXCEPT ![t] = "BLOCKED"])
    /\ UNCHANGED <<ipc_from, ipc_buf, irq_pending>>

\* Resumed and still RECEIVING: an interrupt woke us, no sender did.
AwokenByIrq(t) ==
    /\ ipc_state[t] = "RECEIVING"
    /\ CallOver(t)
    /\ irq_pending' = [irq_pending EXCEPT ![t] = IF @ > 0 THEN @ - 1 ELSE @]
    /\ UNCHANGED schedVars

\* Resumed after a delivery: the message read is ipc_buf[t].
Delivered(t) ==
    /\ ipc_state[t] # "RECEIVING"
    /\ CallOver(t)
    /\ UNCHANGED <<schedVars, irq_pending>>

\* Mutant: the interrupt wakes whatever the thread is blocked on.
WokenByIrq_Any(d) == Woken(tstate, d)

WokenByIrq(d) == IF Receives(d) THEN Woken(tstate, d) ELSE tstate

\* isr_handler(), hardware interrupt registered to d: count it and wake d if
\* it is receiving.
Interrupt(d) ==
    /\ irq_pending' = [irq_pending EXCEPT ![d] = @ + 1]
    /\ tstate' = WokenByIrq(d)
    /\ UNCHANGED <<current, ipc_state, ipc_peer, ipc_from, ipc_buf>>

\* thread_create() clears the thread's IPC state and gives it a new stack.
Reset(t) ==
    /\ CallOver(t)
    /\ irq_pending' = [irq_pending EXCEPT ![t] = 0]
    /\ resume' = [resume EXCEPT ![t] = "none"]
    /\ ret' = NoResult
-----------------------------------------------------------------------------
Init ==
    /\ SchedInit
    /\ ipc_state = [t \in Threads |-> "NONE"]
    /\ ipc_peer = [t \in Threads |-> Any]
    /\ ipc_from = [t \in Threads |-> Any]
    /\ ipc_buf = [t \in Threads |-> NoMsg]
    /\ irq_pending = [t \in Threads |-> 0]
    /\ resume = [t \in Threads |-> "none"]
    /\ ret = NoResult

TimerTick ==
    /\ Interruptible
    /\ Tick
    /\ NoCall
    /\ UNCHANGED ipcVars

\* Booting kmain() creates the first thread; from then on user threads spawn.
Spawn(t) ==
    /\ Interruptible
    /\ current = Idle => \A u \in Threads : tstate[u] = "UNUSED"
    /\ Create(t)
    /\ Reset(t)

Exit(t) ==
    /\ InUser(t)
    /\ Yield("DEAD")
    /\ NoCall
    /\ UNCHANGED ipcVars

SendFails(t, d) ==
    /\ InUser(t)
    /\ ~Exists(d)
    /\ Return(t, -1, NoMsg)
    /\ UNCHANGED <<schedVars, ipcVars>>

SendDelivers(t, d, m) ==
    /\ InUser(t)
    /\ Deliver(t, d, m)
    /\ Return(t, 0, NoMsg)

SendBlocks(t, d, m) ==
    /\ InUser(t)
    /\ Stage(t, d, m)
    /\ BlocksIn(t, "send")

SendReturns(t) ==
    /\ Resumed(t, "send")
    /\ SendDone(t)
    /\ Return(t, 0, NoMsg)

RecvTakesIrq(t) ==
    /\ InUser(t)
    /\ TakeIrq(t)
    /\ Return(t, Irq, NoMsg)

RecvTakesSender(t, s, src) ==
    /\ InUser(t)
    /\ TakeSender(t, s, src)
    /\ Return(t, s, ipc_buf[s])

RecvBlocks(t, src) ==
    /\ InUser(t)
    /\ Await(t, src)
    /\ BlocksIn(t, "recv")

RecvReturnsIrq(t) ==
    /\ Resumed(t, "recv")
    /\ AwokenByIrq(t)
    /\ Return(t, Irq, NoMsg)

RecvReturns(t) ==
    /\ Resumed(t, "recv")
    /\ Delivered(t)
    /\ Return(t, ipc_from[t], ipc_buf[t])

Notify(d) ==
    /\ Interruptible
    /\ Exists(d)
    /\ irq_pending[d] < IrqBound
    /\ Interrupt(d)
    /\ NoCall

\* User code runs, or the kernel serves it in ways IPC does not see.
OtherCode ==
    /\ Interruptible
    /\ NoCall
    /\ UNCHANGED <<schedVars, ipcVars>>

\* The kernel half of a blocked call, once its thread is dispatched.
KernelReturns(t) == SendReturns(t) \/ RecvReturnsIrq(t) \/ RecvReturns(t)

Next ==
    \/ TimerTick
    \/ OtherCode
    \/ \E t \in Threads :
        \/ Spawn(t) \/ Exit(t) \/ Notify(t) \/ KernelReturns(t) \/ RecvTakesIrq(t)
        \/ \E d \in Threads \cup {Any} : SendFails(t, d)
        \/ \E d \in Threads, m \in Message : SendDelivers(t, d, m) \/ SendBlocks(t, d, m)
        \/ \E s \in Threads, src \in Threads \cup {Any} : RecvTakesSender(t, s, src)
        \/ \E src \in Threads \cup {Any} : RecvBlocks(t, src)

Spec == Init /\ [][Next]_vars

(* The timer ticks, and kernel code, which runs with interrupts disabled,  *)
(* runs to its end.  Nothing is assumed of user code.                      *)
FairSpec ==
    /\ Spec
    /\ WF_vars(TimerTick)
    /\ \A t \in Threads : WF_vars(KernelReturns(t))
-----------------------------------------------------------------------------
\* The thread table keeps its types.
IpcTypeOK ==
    /\ SchedTypeOK
    /\ ipc_state \in [Threads -> {"NONE", "SENDING", "RECEIVING"}]
    /\ ipc_peer \in [Threads -> Threads \cup {Any}]
    /\ ipc_from \in [Threads -> Threads \cup {Any}]
    /\ ipc_buf \in [Threads -> Message \cup {NoMsg}]
    /\ irq_pending \in [Threads -> 0 .. IrqBound]
    /\ resume \in [Threads -> {"none", "send", "recv"}]
    /\ ret \in [tid : Threads \cup {Any}, rax : Threads \cup {-1, Irq},
                msg : Message \cup {NoMsg}]

(* No missed rendezvous: a sender and a receiver that match never both     *)
(* sleep.  Each side looks for the other (receiver_ready(),                *)
(* find_waiting_sender()) before it blocks, and threads die, slots are     *)
(* reused and interrupts wake receivers in between.                        *)
NoMissedRendezvous ==
    \A s, r \in Threads :
        WaitingSender(s, r, Any) /\ Receives(r) => ipc_peer[r] \notin {Any, s}

(* No lost wake-up of a driver: a thread never sleeps in ipc_recv() on top *)
(* of an interrupt notification (the handler counts, then wakes; the       *)
(* receive looks, then blocks).                                            *)
NoSleepOverIrq ==
    \A t \in Threads : Receives(t) => irq_pending[t] = 0

(* Every wake-up has a cause the resumed call can tell: a resumed send was *)
(* taken; a resumed receive has a message, or is still RECEIVING and then  *)
(* a notification is there for it -- so the test of irq_pending before the *)
(* decrement in ipc_recv_locked() never fails, and no message is           *)
(* overwritten between delivery and resumption.                            *)
WokenForReason ==
    \A t \in Threads :
        tstate[t] \in {"RUNNABLE", "RUNNING"} =>
            /\ resume[t] = "none" => ipc_state[t] = "NONE"
            /\ resume[t] = "send" => ipc_state[t] = "NONE"
            /\ resume[t] = "recv" =>
                \/ ipc_state[t] = "NONE" /\ ipc_buf[t] \in Message
                \/ ipc_state[t] = "RECEIVING" /\ irq_pending[t] > 0

(* A call whose rendezvous happened returns: once the message was taken,   *)
(* delivered, or a notification woke the receiver, the thread gets the CPU *)
(* and leaves the kernel, whatever the other threads do.                   *)
Met(t) ==
    \/ resume[t] \in {"send", "recv"} /\ ipc_state[t] = "NONE"
    \/ resume[t] = "recv" /\ irq_pending[t] > 0

MetReturns ==
    \A t \in Threads :
        Met(t) ~> resume[t] = "none"

(* The IPC and interrupt paths use the scheduler as Sched describes it.    *)
UsesSched == SchedSpec

(* Where thread t stands, seen by the callers of IPC.                      *)
PhaseOf(t) ==
    IF tstate[t] \in Free THEN [at |-> "absent"]
    ELSE IF resume[t] = "none" THEN [at |-> "user"]
    ELSE IF resume[t] = "send" THEN
        IF ipc_state[t] = "SENDING"
        THEN [at |-> "sending", to |-> ipc_peer[t], msg |-> ipc_buf[t]]
        ELSE [at |-> "sent"]
    ELSE IF ipc_state[t] = "NONE"
         THEN [at |-> "got", from |-> ipc_from[t], msg |-> ipc_buf[t]]
    ELSE IF tstate[t] = "BLOCKED" THEN [at |-> "receiving", src |-> ipc_peer[t]]
    ELSE [at |-> "notified"]

RV == INSTANCE Rendezvous WITH
          Tids <- Threads, result <- ret, pending <- irq_pending,
          phase <- [t \in Threads |-> PhaseOf(t)]

(* The kernel implements rendezvous: each message passes from one sender   *)
(* to one receiver, unaltered, the moment the two match, although one      *)
(* ipc_buf serves to stage and to deliver and calls resume in any order.   *)
ImplementsRendezvous == RV!Spec
=============================================================================
