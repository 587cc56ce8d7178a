------------------------------ MODULE IpcProofs ------------------------------
(* Proofs about the scheduler and about rendezvous IPC on top of it, for   *)
(* every table size, message set and number of interrupts.                 *)
EXTENDS Ipc, TLAPS

USE DEF Threads, Idle, States, Free, Any, Irq

-----------------------------------------------------------------------------
(* THE SCHEDULER.                                                          *)

(* The inductive invariant is type correctness together with the agreement *)
(* between the table and the cursor: neither needs strengthening.          *)
SchedInv == SchedTypeOK /\ OneRunning

-----------------------------------------------------------------------------
(* Dist counts slots: it is a position in the table, and two slots are     *)
(* never equally far from the cursor.                                      *)
LEMMA DistPosition ==
    ASSUME NEW c \in Threads \cup {Idle}, NEW t \in Threads
    PROVE  Dist(c, t) \in Threads
BY NAssumption DEF Dist, From

LEMMA DistInjective ==
    ASSUME NEW c \in Threads \cup {Idle}, NEW t \in Threads, NEW u \in Threads,
           Dist(c, t) = Dist(c, u)
    PROVE  t = u
BY NAssumption DEF Dist, From

(* Moving the cursor to a slot n strictly shortens the way to every slot   *)
(* that lies behind n, by the n's distance plus one.                       *)
LEMMA DistShrinks ==
    ASSUME NEW c \in Threads \cup {Idle}, NEW n \in Threads, NEW t \in Threads,
           Dist(c, n) < Dist(c, t)
    PROVE  Dist(n, t) < Dist(c, t)
BY NAssumption DEF Dist, From

(* The switch keeps table and cursor in step, provided the table schedule()*)
(* is called on has no RUNNING thread but the current one.                 *)
LEMMA ScheduleKeepsInv ==
    ASSUME SchedTypeOK, NEW ts \in [Threads -> States],
           \A t \in Threads : ts[t] = "RUNNING" => t = current,
           Schedule(ts)
    PROVE  SchedInv'
<1>1. PICK n \in Threads \cup {Idle} :
          PicksNext(ts, current, n) /\ current' = n /\ tstate' = Switch(ts, n)
  BY DEF Schedule
<1>2. SchedTypeOK'
  BY <1>1 DEF SchedTypeOK, Switch
<1>3. OneRunning'
  BY <1>1 DEF OneRunning, Switch, SchedTypeOK
<1> QED
  BY <1>2, <1>3 DEF SchedInv

(* schedule() is round robin on whatever table it is called on, as long as *)
(* that table differs from the real one in the current thread only.        *)
LEMMA ScheduleIsRoundRobin ==
    ASSUME SchedInv, NEW ts \in [Threads -> States],
           \A t \in Threads : t # current => ts[t] = tstate[t],
           Schedule(ts)
    PROVE  CloserToCpu
<1>1. PICK n \in Threads \cup {Idle} :
          PicksNext(ts, current, n) /\ current' = n /\ tstate' = Switch(ts, n)
  BY DEF Schedule
<1> SUFFICES ASSUME current' # current, NEW t \in Threads,
                    tstate[t] = "RUNNABLE", tstate'[t] = "RUNNABLE"
             PROVE  current' # Idle /\ Dist(current', t) < Dist(current, t)
  BY DEF CloserToCpu
<1>2. t # current
  BY DEF SchedInv, OneRunning
<1>3. t \in Runnable(ts)
  BY <1>2 DEF Runnable
<1>4. n \in Threads /\ Dist(current, n) <= Dist(current, t)
  BY <1>1, <1>3 DEF PicksNext, Runnable
<1>5. n # t
  BY <1>1, <1>4 DEF Switch
<1>6. current \in Threads \cup {Idle}
  BY DEF SchedInv, SchedTypeOK
<1>7. Dist(current, n) < Dist(current, t)
  <2>1. Dist(current, n) \in Int /\ Dist(current, t) \in Int
    <3>1. Dist(current, n) \in Threads
      BY <1>4, <1>6, DistPosition
    <3>2. Dist(current, t) \in Threads
      BY <1>6, DistPosition
    <3> QED
      BY <3>1, <3>2, NAssumption
  <2>2. Dist(current, n) # Dist(current, t)
    BY <1>4, <1>5, <1>6, DistInjective
  <2> QED
    BY <1>4, <2>1, <2>2
<1> QED
  BY <1>1, <1>4, <1>6, <1>7, DistShrinks

-----------------------------------------------------------------------------
LEMMA SchedInitInv == SchedInit => SchedInv
BY DEF SchedInit, SchedInv, SchedTypeOK, OneRunning

LEMMA SchedStepInv == SchedInv /\ [SchedNext]_schedVars => SchedInv'
<1> SUFFICES ASSUME SchedInv, [SchedNext]_schedVars PROVE SchedInv'
  OBVIOUS
<1> USE DEF SchedInv
<1>1. CASE Tick
  BY <1>1, ScheduleKeepsInv DEF Tick, SchedTypeOK, OneRunning
<1>2. ASSUME NEW t \in Threads, Create(t) PROVE SchedInv'
  BY <1>2 DEF Create, CpuLive, LowestFree, SchedTypeOK, OneRunning
<1>3. ASSUME NEW t \in Threads, Wake(t) PROVE SchedInv'
  BY <1>3 DEF Wake, Woken, SchedTypeOK, OneRunning
<1>4. ASSUME NEW s \in {"BLOCKED", "DEAD"}, Yield(s) PROVE SchedInv'
  <2> DEFINE ts == [tstate EXCEPT ![current] = s]
  <2>1. ts \in [Threads -> States]
    BY <1>4 DEF SchedTypeOK
  <2>2. \A t \in Threads : ts[t] = "RUNNING" => t = current
    BY <1>4 DEF SchedTypeOK, OneRunning
  <2>3. Schedule(ts)
    BY <1>4 DEF Yield
  <2> QED
    BY <2>1, <2>2, <2>3, ScheduleKeepsInv
<1>5. CASE ThreadExit
  BY <1>5 DEF ThreadExit, SchedTypeOK, OneRunning
<1>6. CASE UNCHANGED schedVars
  BY <1>6 DEF schedVars, SchedTypeOK, OneRunning
<1> QED
  BY <1>1, <1>2, <1>3, <1>4, <1>5, <1>6 DEF SchedNext

(* The table of thread states and the cursor keep their types.             *)
THEOREM SchedTypeCorrect == SchedSpec => []SchedTypeOK
<1>1. SchedSpec => []SchedInv
  BY SchedInitInv, SchedStepInv, PTL DEF SchedSpec
<1> QED
  BY <1>1, PTL DEF SchedInv

(* The CPU has exactly one owner, and the table says who it is.            *)
THEOREM SchedOneRunning == SchedSpec => []OneRunning
<1>1. SchedSpec => []SchedInv
  BY SchedInitInv, SchedStepInv, PTL DEF SchedSpec
<1> QED
  BY <1>1, PTL DEF SchedInv

LEMMA SchedStepCloser == SchedInv /\ [SchedNext]_schedVars => [CloserToCpu]_schedVars
<1> SUFFICES ASSUME SchedInv, SchedNext PROVE CloserToCpu
  OBVIOUS
<1>1. CASE Tick
  BY <1>1, ScheduleIsRoundRobin DEF Tick, SchedInv, SchedTypeOK
<1>2. ASSUME NEW s \in {"BLOCKED", "DEAD"}, Yield(s) PROVE CloserToCpu
  <2> DEFINE ts == [tstate EXCEPT ![current] = s]
  <2>1. ts \in [Threads -> States]
    BY <1>2 DEF SchedInv, SchedTypeOK
  <2>2. \A t \in Threads : t # current => ts[t] = tstate[t]
    BY DEF SchedInv, SchedTypeOK
  <2>3. Schedule(ts)
    BY <1>2 DEF Yield
  <2> QED
    BY <2>1, <2>2, <2>3, ScheduleIsRoundRobin
<1>3. CASE UNCHANGED current
  BY <1>3 DEF CloserToCpu
<1> QED
  BY <1>1, <1>2, <1>3 DEF SchedNext, Create, Wake, ThreadExit

(* However threads block, wake, exit and are created, every switch of the  *)
(* CPU brings each thread that stays ready strictly closer to it: a ready  *)
(* thread is passed over fewer than N times.                               *)
THEOREM SchedRoundRobin == SchedSpec => RoundRobin
<1>1. SchedSpec => []SchedInv
  BY SchedInitInv, SchedStepInv, PTL DEF SchedSpec
<1> QED
  BY <1>1, SchedStepCloser, PTL DEF SchedSpec, RoundRobin

-----------------------------------------------------------------------------
(* RENDEZVOUS IPC.                                                         *)

Ready == {"RUNNABLE", "RUNNING"}

(* What the thread table says of one thread, at every point where a user   *)
(* thread, an interrupt or the idle loop may run.                          *)
ThreadOK(t) ==
    /\ resume[t] = "none" => ipc_state[t] = "NONE" /\ tstate[t] # "BLOCKED"
    /\ resume[t] = "send" =>
        \/ tstate[t] = "BLOCKED" /\ ipc_state[t] = "SENDING" /\ ipc_buf[t] \in Message
        \/ tstate[t] \in Ready /\ ipc_state[t] = "NONE"
    /\ resume[t] = "recv" =>
        \/ tstate[t] = "BLOCKED" /\ ipc_state[t] = "RECEIVING" /\ irq_pending[t] = 0
        \/ /\ tstate[t] \in Ready /\ ipc_state[t] = "NONE"
           /\ ipc_buf[t] \in Message /\ ipc_from[t] \in Threads
        \/ tstate[t] \in Ready /\ ipc_state[t] = "RECEIVING" /\ irq_pending[t] > 0

(* The inductive invariant.  NoMissedRendezvous alone is not inductive: it *)
(* needs to know that a thread that is not blocked is in no half-finished  *)
(* call that a wake-up or a reused slot could revive.                      *)
IInv ==
    /\ IpcTypeOK
    /\ OneRunning
    /\ \A t \in Threads : ThreadOK(t)
    /\ NoMissedRendezvous

-----------------------------------------------------------------------------
(* What schedule() leaves alone: it neither blocks, wakes, kills nor       *)
(* revives a thread.                                                       *)
Undisturbed(ts, u) ==
    /\ ts[u] \notin Ready => tstate'[u] = ts[u]
    /\ ts[u] \in Ready => tstate'[u] \in Ready

LEMMA ScheduleUndisturbs ==
    ASSUME NEW ts \in [Threads -> States], Schedule(ts), NEW u \in Threads
    PROVE  Undisturbed(ts, u)
BY DEF Schedule, PicksNext, Switch, Runnable, Undisturbed, Ready

(* A running thread blocks or dies and yields: its state is the one it     *)
(* took, and no other thread is disturbed.                                 *)
LEMMA YieldEffect ==
    ASSUME SchedInv, NEW t \in Threads, current = t, tstate[t] = "RUNNING",
           NEW s \in {"BLOCKED", "DEAD"},
           Schedule([tstate EXCEPT ![t] = s])
    PROVE  /\ SchedInv'
           /\ tstate'[t] = s
           /\ \A u \in Threads \ {t} : Undisturbed(tstate, u)
<1> DEFINE ts == [tstate EXCEPT ![t] = s]
<1>1. ts \in [Threads -> States] /\ ts[t] = s /\ \A u \in Threads \ {t} : ts[u] = tstate[u]
  BY DEF SchedInv, SchedTypeOK
<1>2. \A u \in Threads : ts[u] = "RUNNING" => u = current
  BY <1>1 DEF SchedInv, OneRunning
<1>3. SchedInv'
  BY <1>1, <1>2, ScheduleKeepsInv DEF SchedInv
<1>4. \A u \in Threads : Undisturbed(ts, u)
  BY <1>1, ScheduleUndisturbs
<1> HIDE DEF ts
<1> QED
  BY <1>1, <1>3, <1>4 DEF Undisturbed, Ready

LEMMA TickEffect ==
    ASSUME SchedInv, Schedule(tstate)
    PROVE  SchedInv' /\ \A u \in Threads : Undisturbed(tstate, u)
BY ScheduleKeepsInv, ScheduleUndisturbs DEF SchedInv, SchedTypeOK, OneRunning

-----------------------------------------------------------------------------
LEMMA InitIInv == Init => IInv
<1> SUFFICES ASSUME Init PROVE IInv
  OBVIOUS
<1>1. SchedTypeOK /\ OneRunning
  BY SchedInitInv DEF Init, SchedInv
<1>2. IpcTypeOK
  BY <1>1, IpcAssumption, NAssumption DEF Init, IpcTypeOK, NoResult
<1>3. \A t \in Threads : tstate[t] = "UNUSED" /\ resume[t] = "none" /\ ipc_state[t] = "NONE"
  BY DEF Init, SchedInit
<1>4. \A t \in Threads : ThreadOK(t)
  BY <1>3 DEF ThreadOK
<1>5. NoMissedRendezvous
  BY <1>3 DEF NoMissedRendezvous, WaitingSender
<1> QED
  BY <1>1, <1>2, <1>4, <1>5 DEF IInv

-----------------------------------------------------------------------------
(* One lemma per operation: it keeps IInv.                                 *)

LEMMA TimerKeeps == ASSUME IInv, TimerTick PROVE IInv'
<1>1. SchedInv' /\ \A u \in Threads : Undisturbed(tstate, u)
  BY TickEffect DEF TimerTick, Tick, IInv, IpcTypeOK, SchedInv
<1> USE DEF TimerTick, NoCall, ipcVars
<1>2. IpcTypeOK'
  BY <1>1, NAssumption, IpcAssumption DEF IInv, IpcTypeOK, SchedInv, NoResult
<1>3. ASSUME NEW t \in Threads PROVE ThreadOK(t)'
  BY <1>1 DEF IInv, ThreadOK, Undisturbed, Ready
<1>4. NoMissedRendezvous'
  BY <1>1 DEF IInv, NoMissedRendezvous, WaitingSender, ReceiverReady, Receives,
              Undisturbed, Ready, IpcTypeOK, SchedTypeOK
<1> QED
  BY <1>1, <1>2, <1>3, <1>4 DEF IInv, SchedInv

LEMMA ExitKeeps == ASSUME IInv, NEW t \in Threads, Exit(t) PROVE IInv'
<1>1. /\ SchedInv' /\ tstate'[t] = "DEAD"
      /\ \A u \in Threads \ {t} : Undisturbed(tstate, u)
  BY YieldEffect DEF Exit, InUser, Yield, IInv, IpcTypeOK, SchedInv
<1> USE DEF Exit, InUser, NoCall, ipcVars
<1>2. IpcTypeOK'
  BY <1>1, NAssumption, IpcAssumption DEF IInv, IpcTypeOK, SchedInv, NoResult
<1>3. ASSUME NEW u \in Threads PROVE ThreadOK(u)'
  BY <1>1 DEF IInv, ThreadOK, Undisturbed, Ready
<1>4. NoMissedRendezvous'
  BY <1>1 DEF IInv, NoMissedRendezvous, WaitingSender, ReceiverReady, Receives,
              Undisturbed, Ready, IpcTypeOK, SchedTypeOK
<1> QED
  BY <1>1, <1>2, <1>3, <1>4 DEF IInv, SchedInv

LEMMA OtherKeeps == ASSUME IInv, OtherCode PROVE IInv'
BY IpcAssumption, NAssumption
   DEF OtherCode, NoCall, schedVars, ipcVars, IInv, IpcTypeOK, SchedTypeOK, OneRunning,
       ThreadOK, NoMissedRendezvous, WaitingSender, ReceiverReady, Receives, NoResult

LEMMA SpawnKeeps == ASSUME IInv, NEW t \in Threads, Spawn(t) PROVE IInv'
<1> USE DEF Spawn, Create, LowestFree, Reset, CallOver, NoCall
<1>1. IpcTypeOK'
  BY NAssumption, IpcAssumption DEF IInv, IpcTypeOK, SchedTypeOK, NoResult
<1>2. OneRunning'
  BY DEF IInv, IpcTypeOK, SchedTypeOK, OneRunning, CpuLive
<1>3. ASSUME NEW u \in Threads PROVE ThreadOK(u)'
  BY DEF IInv, IpcTypeOK, SchedTypeOK, ThreadOK, Ready
<1>4. NoMissedRendezvous'
  BY DEF IInv, IpcTypeOK, SchedTypeOK, NoMissedRendezvous, WaitingSender,
         ReceiverReady, Receives
<1> QED
  BY <1>1, <1>2, <1>3, <1>4 DEF IInv

LEMMA SendFailsKeeps ==
    ASSUME IInv, NEW t \in Threads, NEW d, SendFails(t, d) PROVE IInv'
<1> USE DEF SendFails, InUser, Return, Gives, schedVars, ipcVars
<1>1. IpcTypeOK'
  BY IpcAssumption DEF IInv, IpcTypeOK, SchedTypeOK
<1>2. ASSUME NEW u \in Threads PROVE ThreadOK(u)'
  BY DEF IInv, IpcTypeOK, ThreadOK, Ready
<1>3. OneRunning' /\ NoMissedRendezvous'
  BY DEF IInv, OneRunning, NoMissedRendezvous, WaitingSender, ReceiverReady, Receives
<1> QED
  BY <1>1, <1>2, <1>3 DEF IInv

LEMMA SendDeliversKeeps ==
    ASSUME IInv, NEW t \in Threads, NEW d \in Threads, NEW m \in Message,
           SendDelivers(t, d, m)
    PROVE  IInv'
<1> USE DEF SendDelivers, Deliver, InUser, Return, Gives, Woken, ReceiverReady, Receives
<1>1. IpcTypeOK'
  BY IpcAssumption, NAssumption DEF IInv, IpcTypeOK, SchedTypeOK
<1>2. OneRunning'
  BY DEF IInv, IpcTypeOK, SchedTypeOK, OneRunning
<1>3. ASSUME NEW u \in Threads PROVE ThreadOK(u)'
  BY DEF IInv, IpcTypeOK, SchedTypeOK, ThreadOK, Ready
<1>4. NoMissedRendezvous'
  BY DEF IInv, IpcTypeOK, SchedTypeOK, NoMissedRendezvous, WaitingSender
<1> QED
  BY <1>1, <1>2, <1>3, <1>4 DEF IInv

LEMMA SendBlocksKeeps ==
    ASSUME IInv, NEW t \in Threads, NEW d \in Threads, NEW m \in Message,
           SendBlocks(t, d, m)
    PROVE  IInv'
<1>1. /\ SchedInv' /\ tstate'[t] = "BLOCKED"
      /\ \A u \in Threads \ {t} : Undisturbed(tstate, u)
  BY YieldEffect DEF SendBlocks, Stage, InUser, IInv, IpcTypeOK, SchedInv
<1> USE DEF SendBlocks, Stage, InUser, BlocksIn
<1>2. IpcTypeOK'
  BY <1>1, IpcAssumption, NAssumption DEF IInv, IpcTypeOK, SchedInv, NoResult
<1>3. ASSUME NEW u \in Threads PROVE ThreadOK(u)'
  BY <1>1 DEF IInv, IpcTypeOK, ThreadOK, Undisturbed, Ready
<1>4. NoMissedRendezvous'
  BY <1>1 DEF IInv, IpcTypeOK, SchedTypeOK, NoMissedRendezvous, WaitingSender,
              ReceiverReady, Receives, Undisturbed, Ready
<1> QED
  BY <1>1, <1>2, <1>3, <1>4 DEF IInv, SchedInv

LEMMA SendReturnsKeeps ==
    ASSUME IInv, NEW t \in Threads, SendReturns(t) PROVE IInv'
<1> USE DEF SendReturns, SendDone, CallOver, Resumed, Return, Gives, schedVars
<1>1. IpcTypeOK'
  BY IpcAssumption, NAssumption DEF IInv, IpcTypeOK, SchedTypeOK
<1>2. OneRunning'
  BY DEF IInv, OneRunning
<1>3. ASSUME NEW u \in Threads PROVE ThreadOK(u)'
  BY DEF IInv, IpcTypeOK, OneRunning, ThreadOK, Ready
<1>4. NoMissedRendezvous'
  BY DEF IInv, IpcTypeOK, NoMissedRendezvous, WaitingSender, ReceiverReady, Receives
<1> QED
  BY <1>1, <1>2, <1>3, <1>4 DEF IInv

LEMMA RecvTakesIrqKeeps ==
    ASSUME IInv, NEW t \in Threads, RecvTakesIrq(t) PROVE IInv'
<1> USE DEF RecvTakesIrq, TakeIrq, IrqDue, InUser, Return, Gives, schedVars
<1>1. IpcTypeOK'
  BY IpcAssumption DEF IInv, IpcTypeOK, SchedTypeOK
<1>2. ASSUME NEW u \in Threads PROVE ThreadOK(u)'
  BY DEF IInv, IpcTypeOK, ThreadOK, Ready
<1>3. OneRunning' /\ NoMissedRendezvous'
  BY DEF IInv, OneRunning, NoMissedRendezvous, WaitingSender, ReceiverReady, Receives
<1> QED
  BY <1>1, <1>2, <1>3 DEF IInv

LEMMA RecvTakesSenderKeeps ==
    ASSUME IInv, NEW t \in Threads, NEW s \in Threads, NEW src \in Threads \cup {Any},
           RecvTakesSender(t, s, src)
    PROVE  IInv'
<1> USE DEF RecvTakesSender, TakeSender, FindsSender, WaitingSender, InUser, Return, Gives, Woken
<1>1. IpcTypeOK'
  BY IpcAssumption DEF IInv, IpcTypeOK, SchedTypeOK
<1>2. OneRunning'
  BY DEF IInv, IpcTypeOK, SchedTypeOK, OneRunning
<1>3. ASSUME NEW u \in Threads PROVE ThreadOK(u)'
  BY DEF IInv, IpcTypeOK, SchedTypeOK, ThreadOK, Ready
<1>4. NoMissedRendezvous'
  BY DEF IInv, IpcTypeOK, SchedTypeOK, NoMissedRendezvous, ReceiverReady, Receives
<1> QED
  BY <1>1, <1>2, <1>3, <1>4 DEF IInv

LEMMA RecvBlocksKeeps ==
    ASSUME IInv, NEW t \in Threads, NEW src \in Threads \cup {Any}, RecvBlocks(t, src)
    PROVE  IInv'
<1>1. /\ SchedInv' /\ tstate'[t] = "BLOCKED"
      /\ \A u \in Threads \ {t} : Undisturbed(tstate, u)
  BY YieldEffect DEF RecvBlocks, Await, InUser, IInv, IpcTypeOK, SchedInv
<1> USE DEF RecvBlocks, Await, InUser, BlocksIn, IrqDue
<1>2. IpcTypeOK'
  BY <1>1, IpcAssumption, NAssumption DEF IInv, IpcTypeOK, SchedInv, NoResult
<1>3. ASSUME NEW u \in Threads PROVE ThreadOK(u)'
  BY <1>1 DEF IInv, IpcTypeOK, ThreadOK, Undisturbed, Ready
<1>4. NoMissedRendezvous'
  BY <1>1 DEF IInv, IpcTypeOK, SchedTypeOK, NoMissedRendezvous, WaitingSender, NoSender,
              ReceiverReady, Receives, Undisturbed, Ready
<1> QED
  BY <1>1, <1>2, <1>3, <1>4 DEF IInv, SchedInv

LEMMA RecvReturnsIrqKeeps ==
    ASSUME IInv, NEW t \in Threads, RecvReturnsIrq(t) PROVE IInv'
<1> USE DEF RecvReturnsIrq, AwokenByIrq, CallOver, Resumed, Return, Gives, schedVars
<1>1. IpcTypeOK'
  BY IpcAssumption DEF IInv, IpcTypeOK, SchedTypeOK
<1>2. OneRunning'
  BY DEF IInv, OneRunning
<1>3. ASSUME NEW u \in Threads PROVE ThreadOK(u)'
  BY DEF IInv, IpcTypeOK, OneRunning, ThreadOK, Ready
<1>4. NoMissedRendezvous'
  BY DEF IInv, IpcTypeOK, NoMissedRendezvous, WaitingSender, ReceiverReady, Receives
<1> QED
  BY <1>1, <1>2, <1>3, <1>4 DEF IInv

LEMMA RecvReturnsKeeps ==
    ASSUME IInv, NEW t \in Threads, RecvReturns(t) PROVE IInv'
<1> USE DEF RecvReturns, Delivered, CallOver, Resumed, Return, Gives, schedVars
<1>1. tstate[t] \in Ready /\ ipc_from[t] \in Threads /\ ipc_buf[t] \in Message
  BY DEF IInv, IpcTypeOK, OneRunning, ThreadOK, Ready
<1>2. IpcTypeOK'
  BY <1>1, IpcAssumption DEF IInv, IpcTypeOK, SchedTypeOK
<1>3. OneRunning'
  BY DEF IInv, OneRunning
<1>4. ASSUME NEW u \in Threads PROVE ThreadOK(u)'
  BY <1>1 DEF IInv, IpcTypeOK, ThreadOK, Ready
<1>5. NoMissedRendezvous'
  BY DEF IInv, IpcTypeOK, NoMissedRendezvous, WaitingSender, ReceiverReady, Receives
<1> QED
  BY <1>2, <1>3, <1>4, <1>5 DEF IInv

LEMMA NotifyKeeps ==
    ASSUME IInv, NEW d \in Threads, Notify(d) PROVE IInv'
<1> USE DEF Notify, Interrupt, WokenByIrq, Woken, Receives, NoCall
<1>1. IpcTypeOK'
  <2> USE DEF IInv, IpcTypeOK
  <2>1. SchedTypeOK'
    BY DEF SchedTypeOK
  <2>2. irq_pending' \in [Threads -> 0 .. IrqBound]
    BY IpcAssumption
  <2>3. UNCHANGED <<ipc_state, ipc_peer, ipc_from, ipc_buf, resume>> /\ ret' = NoResult
    OBVIOUS
  <2>4. ret' \in [tid : Threads \cup {Any}, rax : Threads \cup {-1, Irq}, msg : Message \cup {NoMsg}]
    BY <2>3, IpcAssumption, NAssumption DEF NoResult
  <2> QED
    BY <2>1, <2>2, <2>3, <2>4
<1>2. OneRunning'
  BY DEF IInv, IpcTypeOK, SchedTypeOK, OneRunning
<1>3. ASSUME NEW u \in Threads PROVE ThreadOK(u)'
  BY DEF IInv, IpcTypeOK, SchedTypeOK, ThreadOK, Ready
<1>4. NoMissedRendezvous'
  BY DEF IInv, IpcTypeOK, SchedTypeOK, NoMissedRendezvous, WaitingSender, ReceiverReady
<1> QED
  BY <1>1, <1>2, <1>3, <1>4 DEF IInv

-----------------------------------------------------------------------------
LEMMA StepIInv == IInv /\ [Next]_vars => IInv'
<1> SUFFICES ASSUME IInv, [Next]_vars PROVE IInv'
  OBVIOUS
<1>1. CASE UNCHANGED vars
  BY <1>1 DEF vars, schedVars, ipcVars, IInv, IpcTypeOK, SchedTypeOK, OneRunning, ThreadOK,
              NoMissedRendezvous, WaitingSender, ReceiverReady, Receives
<1>2. CASE TimerTick \/ OtherCode
  BY <1>2, TimerKeeps, OtherKeeps
<1>3. ASSUME NEW t \in Threads,
             Spawn(t) \/ Exit(t) \/ Notify(t) \/ KernelReturns(t) \/ RecvTakesIrq(t)
      PROVE  IInv'
  BY <1>3, SpawnKeeps, ExitKeeps, NotifyKeeps, SendReturnsKeeps, RecvReturnsIrqKeeps,
     RecvReturnsKeeps, RecvTakesIrqKeeps DEF KernelReturns
<1>4. ASSUME NEW t \in Threads, NEW d \in Threads \cup {Any}, SendFails(t, d)
      PROVE  IInv'
  BY <1>4, SendFailsKeeps
<1>5. ASSUME NEW t \in Threads, NEW d \in Threads, NEW m \in Message,
             SendDelivers(t, d, m) \/ SendBlocks(t, d, m)
      PROVE  IInv'
  BY <1>5, SendDeliversKeeps, SendBlocksKeeps
<1>6. ASSUME NEW t \in Threads, NEW s \in Threads, NEW src \in Threads \cup {Any},
             RecvTakesSender(t, s, src)
      PROVE  IInv'
  BY <1>6, RecvTakesSenderKeeps
<1>7. ASSUME NEW t \in Threads, NEW src \in Threads \cup {Any}, RecvBlocks(t, src)
      PROVE  IInv'
  BY <1>7, RecvBlocksKeeps
<1> QED
  BY <1>1, <1>2, <1>3, <1>4, <1>5, <1>6, <1>7 DEF Next

LEMMA IInvAlways == Spec => []IInv
BY InitIInv, StepIInv, PTL DEF Spec

LEMMA IInvImplies == IInv => IpcTypeOK /\ NoMissedRendezvous /\ NoSleepOverIrq /\ WokenForReason
<1> SUFFICES ASSUME IInv PROVE NoSleepOverIrq /\ WokenForReason
  BY DEF IInv
<1>1. NoSleepOverIrq
  BY DEF IInv, IpcTypeOK, ThreadOK, NoSleepOverIrq, Receives, Ready
<1>2. WokenForReason
  BY DEF IInv, IpcTypeOK, ThreadOK, WokenForReason, Ready
<1> QED
  BY <1>1, <1>2

(* The thread table of the IPC layer keeps its types.                      *)
THEOREM IpcTypeCorrect == Spec => []IpcTypeOK
BY IInvAlways, IInvImplies, PTL

(* A sender and a receiver that match are never both asleep.               *)
THEOREM IpcNoMissedRendezvous == Spec => []NoMissedRendezvous
BY IInvAlways, IInvImplies, PTL

(* No thread sleeps in a receive with a notification pending.              *)
THEOREM IpcNoSleepOverIrq == Spec => []NoSleepOverIrq
BY IInvAlways, IInvImplies, PTL

(* Whatever wakes a blocked call left the cause where the call looks.      *)
THEOREM IpcWokenForReason == Spec => []WokenForReason
BY IInvAlways, IInvImplies, PTL
-----------------------------------------------------------------------------
(* The kernel's IPC implements Rendezvous, and uses the scheduler as Sched *)
(* describes it.                                                           *)
phase == [t \in Threads |-> PhaseOf(t)]

USE DEF RV!Absent, RV!User, RV!Sent, RV!Notified, RV!Sending, RV!Receiving, RV!Got,
        RV!NoResult, RV!NoReturn, RV!Returns

-----------------------------------------------------------------------------
(* Steps of the CPU that callers cannot see: a thread is not disturbed and *)
(* its IPC state does not change.                                          *)
LEMMA PhaseUndisturbed ==
    ASSUME NEW t \in Threads, Undisturbed(tstate, t),
           ipc_state'[t] = ipc_state[t], ipc_peer'[t] = ipc_peer[t],
           ipc_from'[t] = ipc_from[t], ipc_buf'[t] = ipc_buf[t], resume'[t] = resume[t]
    PROVE  PhaseOf(t)' = PhaseOf(t)
BY DEF PhaseOf, Undisturbed, Ready

LEMMA InitImplements == Init => RV!Init
<1> SUFFICES ASSUME Init PROVE RV!Init
  OBVIOUS
<1>1. \A t \in Threads : PhaseOf(t) = RV!Absent
  BY DEF Init, SchedInit, PhaseOf
<1> QED
  BY <1>1 DEF Init, NoResult, RV!Init

LEMMA TimerImplements == ASSUME IInv, TimerTick PROVE RV!Elsewhere
<1>1. \A u \in Threads : Undisturbed(tstate, u)
  BY TickEffect DEF TimerTick, Tick, IInv, IpcTypeOK, SchedInv
<1>2. \A u \in Threads : PhaseOf(u)' = PhaseOf(u)
  BY <1>1, PhaseUndisturbed DEF TimerTick, NoCall, ipcVars
<1> QED
  BY <1>2 DEF TimerTick, NoCall, NoResult, ipcVars, RV!Elsewhere

LEMMA OtherImplements == ASSUME OtherCode PROVE RV!Elsewhere
BY DEF OtherCode, NoCall, NoResult, schedVars, ipcVars, PhaseOf, RV!Elsewhere

(* When only thread t moves, the phases change at t only.                  *)
LEMMA PhaseUpdate ==
    ASSUME NEW t \in Threads, NEW p, PhaseOf(t)' = p,
           \A u \in Threads \ {t} : PhaseOf(u)' = PhaseOf(u)
    PROVE  phase' = [phase EXCEPT ![t] = p]
BY DEF phase

LEMMA ExitImplements == ASSUME IInv, NEW t \in Threads, Exit(t) PROVE RV!Leave(t)
<1>1. tstate'[t] = "DEAD" /\ \A u \in Threads \ {t} : Undisturbed(tstate, u)
  BY YieldEffect DEF Exit, InUser, Yield, IInv, IpcTypeOK, SchedInv
<1>2. \A u \in Threads \ {t} : PhaseOf(u)' = PhaseOf(u)
  BY <1>1, PhaseUndisturbed DEF Exit, NoCall, ipcVars
<1>3. PhaseOf(t) = RV!User /\ PhaseOf(t)' = RV!Absent
  BY <1>1 DEF PhaseOf, Exit, InUser, NoCall
<1>4. phase' = [phase EXCEPT ![t] = RV!Absent] /\ phase[t] = RV!User
  BY <1>2, <1>3, PhaseUpdate DEF phase
<1> QED
  BY <1>4 DEF Exit, NoCall, NoResult, ipcVars, RV!Leave, phase

LEMMA SpawnImplements == ASSUME IInv, NEW t \in Threads, Spawn(t) PROVE RV!Arrive(t)
<1> USE DEF Spawn, Create, LowestFree, Reset, CallOver, NoCall
<1>1. \A u \in Threads \ {t} : PhaseOf(u)' = PhaseOf(u)
  BY DEF PhaseOf, IInv, IpcTypeOK, SchedTypeOK
<1>2. PhaseOf(t) = RV!Absent /\ PhaseOf(t)' = RV!User
  BY DEF PhaseOf, IInv, IpcTypeOK, SchedTypeOK, ThreadOK, Ready
<1>3. phase' = [phase EXCEPT ![t] = RV!User] /\ phase[t] = RV!Absent
  BY <1>1, <1>2, PhaseUpdate DEF phase
<1> QED
  BY <1>3 DEF NoResult, RV!Arrive, phase

LEMMA SendFailsImplements ==
    ASSUME IInv, NEW t \in Threads, NEW d \in Threads \cup {Any}, SendFails(t, d)
    PROVE  RV!Refused(t)
<1> USE DEF SendFails, InUser, Return, Gives
<1>1. phase' = phase
  BY DEF phase, PhaseOf, schedVars, ipcVars, IInv, IpcTypeOK
<1>2. phase[t] = RV!User
  BY DEF phase, PhaseOf
<1>3. d \notin Threads \/ phase[d] = RV!Absent
  BY DEF phase, PhaseOf, Exists
<1> QED
  BY <1>1, <1>2, <1>3 DEF RV!Refused, phase, ipcVars

LEMMA SendDeliversImplements ==
    ASSUME IInv, NEW t \in Threads, NEW d \in Threads, NEW m \in Message,
           SendDelivers(t, d, m)
    PROVE  RV!SendMeets(t, d, m)
<1> USE DEF SendDelivers, Deliver, InUser, Return, Gives, Woken, ReceiverReady, Receives, Exists
<1>1. resume[d] = "recv" /\ d # t
  BY DEF IInv, IpcTypeOK, ThreadOK, Ready
<1>2. \A u \in Threads \ {d} : PhaseOf(u)' = PhaseOf(u)
  BY <1>1 DEF PhaseOf, IInv, IpcTypeOK, SchedTypeOK
<1>3. PhaseOf(t) = RV!User
  BY DEF PhaseOf
<1>4. PhaseOf(d) = RV!Receiving(ipc_peer[d]) /\ PhaseOf(d)' = RV!Got(t, m)
  BY <1>1 DEF PhaseOf, IInv, IpcTypeOK, SchedTypeOK
<1>5. phase' = [phase EXCEPT ![d] = RV!Got(t, m)]
  BY <1>2, <1>4, PhaseUpdate
<1>6. RV!AwaitsFrom(d, t)
  BY <1>4 DEF phase, RV!AwaitsFrom
<1> QED
  BY <1>3, <1>5, <1>6 DEF RV!SendMeets, phase

LEMMA SendBlocksImplements ==
    ASSUME IInv, NEW t \in Threads, NEW d \in Threads, NEW m \in Message,
           SendBlocks(t, d, m)
    PROVE  RV!SendWaits(t, d, m)
<1>1. tstate'[t] = "BLOCKED" /\ \A u \in Threads \ {t} : Undisturbed(tstate, u)
  BY YieldEffect DEF SendBlocks, Stage, InUser, IInv, IpcTypeOK, SchedInv
<1> USE DEF SendBlocks, Stage, InUser, BlocksIn
<1>2. \A u \in Threads \ {t} : PhaseOf(u)' = PhaseOf(u)
  BY <1>1, PhaseUndisturbed DEF IInv, IpcTypeOK
<1>3. PhaseOf(t) = RV!User /\ PhaseOf(t)' = RV!Sending(d, m)
  BY <1>1 DEF PhaseOf, IInv, IpcTypeOK
<1>4. phase' = [phase EXCEPT ![t] = RV!Sending(d, m)] /\ phase[t] = RV!User
  BY <1>2, <1>3, PhaseUpdate DEF phase
<1>5. PhaseOf(d) # RV!Absent
  BY DEF PhaseOf, Exists
<1>6. PhaseOf(d) \notin {RV!Receiving(Any), RV!Receiving(t)}
  BY DEF PhaseOf, ReceiverReady, Receives, IInv, IpcTypeOK, ThreadOK, Ready
<1> QED
  BY <1>4, <1>5, <1>6 DEF RV!SendWaits, RV!AwaitsFrom, phase, NoResult

LEMMA SendReturnsImplements ==
    ASSUME IInv, NEW t \in Threads, SendReturns(t) PROVE RV!ReturnSent(t)
<1> USE DEF SendReturns, SendDone, CallOver, Resumed, Return, Gives, schedVars
<1>1. tstate[t] \in Ready /\ ipc_state[t] = "NONE"
  BY DEF IInv, OneRunning, ThreadOK, Ready
<1>2. \A u \in Threads \ {t} : PhaseOf(u)' = PhaseOf(u)
  BY DEF PhaseOf, IInv, IpcTypeOK
<1>3. PhaseOf(t) = RV!Sent /\ PhaseOf(t)' = RV!User
  BY <1>1 DEF PhaseOf, Ready, IInv, IpcTypeOK
<1>4. phase' = [phase EXCEPT ![t] = RV!User] /\ phase[t] = RV!Sent
  BY <1>2, <1>3, PhaseUpdate DEF phase
<1> QED
  BY <1>4 DEF RV!ReturnSent, phase

LEMMA RecvTakesIrqImplements ==
    ASSUME IInv, NEW t \in Threads, RecvTakesIrq(t) PROVE RV!RecvNotified(t)
<1> USE DEF RecvTakesIrq, TakeIrq, IrqDue, InUser, Return, Gives, schedVars
<1>1. phase' = phase
  BY DEF phase, PhaseOf, IInv, IpcTypeOK
<1>2. phase[t] = RV!User
  BY DEF phase, PhaseOf
<1> QED
  BY <1>1, <1>2 DEF RV!RecvNotified, phase

LEMMA RecvTakesSenderImplements ==
    ASSUME IInv, NEW t \in Threads, NEW s \in Threads, NEW src \in Threads \cup {Any},
           RecvTakesSender(t, s, src)
    PROVE  RV!RecvMeets(t, s, src)
<1> USE DEF RecvTakesSender, TakeSender, FindsSender, WaitingSender, InUser, Return, Gives, Woken, IrqDue
<1>1. resume[s] = "send" /\ s # t
  BY DEF IInv, IpcTypeOK, ThreadOK, Ready
<1>2. \A u \in Threads \ {s} : PhaseOf(u)' = PhaseOf(u)
  BY <1>1 DEF PhaseOf, IInv, IpcTypeOK, SchedTypeOK
<1>3. PhaseOf(t) = RV!User
  BY DEF PhaseOf
<1>4. PhaseOf(s) = RV!Sending(t, ipc_buf[s]) /\ PhaseOf(s)' = RV!Sent
  BY <1>1 DEF PhaseOf, IInv, IpcTypeOK, SchedTypeOK
<1>5. phase' = [phase EXCEPT ![s] = RV!Sent]
  BY <1>2, <1>4, PhaseUpdate
<1>6. phase[s].at = "sending" /\ phase[s].to = t /\ phase[s].msg = ipc_buf[s]
  BY <1>4 DEF phase
<1>7. irq_pending[t] = 0
  BY DEF IInv, IpcTypeOK
<1>8. phase[t] = RV!User
  BY <1>3 DEF phase
<1> QED
  BY <1>5, <1>6, <1>7, <1>8 DEF RV!RecvMeets, RV!Offers, phase

LEMMA RecvBlocksImplements ==
    ASSUME IInv, NEW t \in Threads, NEW src \in Threads \cup {Any}, RecvBlocks(t, src)
    PROVE  RV!RecvWaits(t, src)
<1>1. tstate'[t] = "BLOCKED" /\ \A u \in Threads \ {t} : Undisturbed(tstate, u)
  BY YieldEffect DEF RecvBlocks, Await, InUser, IInv, IpcTypeOK, SchedInv
<1> USE DEF RecvBlocks, Await, InUser, BlocksIn, IrqDue
<1>2. \A u \in Threads \ {t} : PhaseOf(u)' = PhaseOf(u)
  BY <1>1, PhaseUndisturbed DEF IInv, IpcTypeOK
<1>3. PhaseOf(t) = RV!User /\ PhaseOf(t)' = RV!Receiving(src)
  BY <1>1 DEF PhaseOf, IInv, IpcTypeOK
<1>4. phase' = [phase EXCEPT ![t] = RV!Receiving(src)] /\ phase[t] = RV!User
  BY <1>2, <1>3, PhaseUpdate DEF phase
<1>5. ASSUME NEW s \in Threads, RV!Offers(s, t) PROVE src \notin {Any, s}
  <2>1. PhaseOf(s).at = "sending" /\ PhaseOf(s).to = t
    BY <1>5 DEF RV!Offers, phase
  <2>2. resume[s] = "send" /\ ipc_state[s] = "SENDING" /\ ipc_peer[s] = t
    BY <2>1 DEF PhaseOf, IInv, ThreadOK
  <2>3. tstate[s] = "BLOCKED"
    BY <2>2 DEF IInv, ThreadOK
  <2> QED
    BY <2>2, <2>3 DEF NoSender, WaitingSender
<1>6. irq_pending[t] = 0
  BY DEF IInv, IpcTypeOK
<1> QED
  BY <1>4, <1>5, <1>6 DEF RV!RecvWaits, phase, NoResult

LEMMA RecvReturnsIrqImplements ==
    ASSUME IInv, NEW t \in Threads, RecvReturnsIrq(t) PROVE RV!ReturnNotified(t)
<1> USE DEF RecvReturnsIrq, AwokenByIrq, CallOver, Resumed, Return, Gives, schedVars
<1>1. tstate[t] \in Ready /\ irq_pending[t] > 0
  BY DEF IInv, IpcTypeOK, OneRunning, ThreadOK, Ready
<1>2. \A u \in Threads \ {t} : PhaseOf(u)' = PhaseOf(u)
  BY DEF PhaseOf, IInv, IpcTypeOK
<1>3. PhaseOf(t) = RV!Notified /\ PhaseOf(t)' = RV!User
  BY <1>1 DEF PhaseOf, Ready, IInv, IpcTypeOK
<1>4. phase' = [phase EXCEPT ![t] = RV!User] /\ phase[t] = RV!Notified
  BY <1>2, <1>3, PhaseUpdate DEF phase
<1>5. irq_pending' = [irq_pending EXCEPT ![t] = irq_pending[t] - 1]
  BY <1>1
<1> QED
  BY <1>4, <1>5 DEF RV!ReturnNotified, phase

LEMMA RecvReturnsImplements ==
    ASSUME IInv, NEW t \in Threads, RecvReturns(t) PROVE RV!ReturnGot(t)
<1> USE DEF RecvReturns, Delivered, CallOver, Resumed, Return, Gives, schedVars
<1>1. tstate[t] \in Ready /\ ipc_state[t] = "NONE"
  BY DEF IInv, IpcTypeOK, OneRunning, ThreadOK, Ready
<1>2. \A u \in Threads \ {t} : PhaseOf(u)' = PhaseOf(u)
  BY DEF PhaseOf, IInv, IpcTypeOK
<1>3. PhaseOf(t) = RV!Got(ipc_from[t], ipc_buf[t]) /\ PhaseOf(t)' = RV!User
  BY <1>1 DEF PhaseOf, Ready, IInv, IpcTypeOK
<1>4. phase' = [phase EXCEPT ![t] = RV!User]
  BY <1>2, <1>3, PhaseUpdate
<1>5. phase[t].at = "got" /\ phase[t].from = ipc_from[t] /\ phase[t].msg = ipc_buf[t]
  BY <1>3 DEF phase
<1> QED
  BY <1>4, <1>5 DEF RV!ReturnGot, phase

LEMMA NotifyImplements ==
    ASSUME IInv, NEW d \in Threads, Notify(d) PROVE RV!Notify(d)
<1> USE DEF Notify, Interrupt, WokenByIrq, Woken, Receives, NoCall, Exists
<1>1. \A u \in Threads \ {d} : PhaseOf(u)' = PhaseOf(u)
  BY DEF PhaseOf, IInv, IpcTypeOK, SchedTypeOK
<1>2. PhaseOf(d) # RV!Absent
  BY DEF PhaseOf
<1>3. CASE Receives(d)
  <2>1. resume[d] = "recv"
    BY <1>3 DEF IInv, IpcTypeOK, ThreadOK, Ready
  <2>2. PhaseOf(d) = RV!Receiving(ipc_peer[d]) /\ PhaseOf(d)' = RV!Notified
    BY <1>3, <2>1 DEF PhaseOf, IInv, IpcTypeOK, SchedTypeOK
  <2>3. phase' = [phase EXCEPT ![d] = RV!Notified] /\ phase[d].at = "receiving"
    BY <1>1, <2>2, PhaseUpdate DEF phase
  <2> QED
    BY <1>2, <2>3 DEF RV!Notify, NoResult, phase
<1>4. CASE ~Receives(d)
  <2>1. PhaseOf(d)' = PhaseOf(d)
    BY <1>4 DEF PhaseOf
  <2>2. PhaseOf(d).at # "receiving"
    BY <1>4 DEF PhaseOf, IInv, IpcTypeOK, ThreadOK, Ready
  <2>3. phase' = [phase EXCEPT ![d] = phase[d]] /\ phase[d].at # "receiving"
    BY <1>1, <2>1, <2>2 DEF phase
  <2> QED
    BY <1>2, <2>3 DEF RV!Notify, NoResult, phase
<1> QED
  BY <1>3, <1>4

-----------------------------------------------------------------------------
LEMMA StepImplements == IInv /\ [Next]_vars => [RV!Next]_(RV!vars)
<1> SUFFICES ASSUME IInv, [Next]_vars PROVE [RV!Next]_(RV!vars)
  OBVIOUS
<1>1. CASE UNCHANGED vars
  BY <1>1 DEF vars, schedVars, ipcVars, RV!vars, PhaseOf
<1>2. CASE TimerTick \/ OtherCode
  BY <1>2, TimerImplements, OtherImplements DEF RV!Next
<1>3. ASSUME NEW t \in Threads,
             Spawn(t) \/ Exit(t) \/ Notify(t) \/ KernelReturns(t) \/ RecvTakesIrq(t)
      PROVE  RV!Next
  BY <1>3, SpawnImplements, ExitImplements, NotifyImplements, SendReturnsImplements,
     RecvReturnsIrqImplements, RecvReturnsImplements, RecvTakesIrqImplements
     DEF KernelReturns, RV!Next
<1>4. ASSUME NEW t \in Threads, NEW d \in Threads \cup {Any}, SendFails(t, d)
      PROVE  RV!Next
  BY <1>4, SendFailsImplements DEF RV!Next
<1>5. ASSUME NEW t \in Threads, NEW d \in Threads, NEW m \in Message,
             SendDelivers(t, d, m) \/ SendBlocks(t, d, m)
      PROVE  RV!Next
  BY <1>5, SendDeliversImplements, SendBlocksImplements DEF RV!Next
<1>6. ASSUME NEW t \in Threads, NEW s \in Threads, NEW src \in Threads \cup {Any},
             RecvTakesSender(t, s, src)
      PROVE  RV!Next
  BY <1>6, RecvTakesSenderImplements DEF RV!Next
<1>7. ASSUME NEW t \in Threads, NEW src \in Threads \cup {Any}, RecvBlocks(t, src)
      PROVE  RV!Next
  BY <1>7, RecvBlocksImplements DEF RV!Next
<1> QED
  BY <1>1, <1>2, <1>3, <1>4, <1>5, <1>6, <1>7 DEF Next

(* The kernel's IPC is a rendezvous: every message passes, unaltered, from *)
(* one sender to one receiver at the moment the two match.                 *)
THEOREM IpcImplementsRendezvous == Spec => ImplementsRendezvous
<1>1. Spec => []IInv
  BY IInvAlways
<1> QED
  BY <1>1, InitImplements, StepImplements, PTL DEF Spec, ImplementsRendezvous, RV!Spec

-----------------------------------------------------------------------------
(* Every IPC operation is, for the scheduler, one of its own operations or *)
(* nothing.                                                                *)
LEMMA StepUsesSched == IInv /\ [Next]_vars => [SchedNext]_schedVars
<1> SUFFICES ASSUME IInv, [Next]_vars PROVE [SchedNext]_schedVars
  OBVIOUS
<1>1. CASE UNCHANGED vars
  BY <1>1 DEF vars
<1>2. CASE TimerTick \/ OtherCode
  BY <1>2 DEF TimerTick, OtherCode, SchedNext
<1>3. ASSUME NEW t \in Threads, Spawn(t) \/ Exit(t)
      PROVE  SchedNext
  BY <1>3 DEF Spawn, Exit, SchedNext
<1>4. ASSUME NEW t \in Threads, KernelReturns(t) \/ RecvTakesIrq(t)
      PROVE  UNCHANGED schedVars
  BY <1>4 DEF KernelReturns, RecvTakesIrq, SendReturns, SendDone, RecvReturns, Delivered,
              RecvReturnsIrq, AwokenByIrq, TakeIrq
<1>5. ASSUME NEW t \in Threads, Notify(t) PROVE [SchedNext]_schedVars
  BY <1>5 DEF Notify, Interrupt, WokenByIrq, Receives, Wake, SchedNext, schedVars
<1>6. ASSUME NEW t \in Threads, NEW d \in Threads \cup {Any}, SendFails(t, d)
      PROVE  UNCHANGED schedVars
  BY <1>6 DEF SendFails
<1>7. ASSUME NEW t \in Threads, NEW d \in Threads, NEW m \in Message,
             SendDelivers(t, d, m)
      PROVE  SchedNext
  BY <1>7 DEF SendDelivers, Deliver, ReceiverReady, Receives, Wake, SchedNext
<1>8. ASSUME NEW t \in Threads, NEW d \in Threads, NEW m \in Message, SendBlocks(t, d, m)
      PROVE  SchedNext
  BY <1>8 DEF SendBlocks, Stage, InUser, Yield, SchedNext
<1>9. ASSUME NEW t \in Threads, NEW s \in Threads, NEW src \in Threads \cup {Any},
             RecvTakesSender(t, s, src)
      PROVE  SchedNext
  BY <1>9 DEF RecvTakesSender, TakeSender, FindsSender, WaitingSender, Wake, SchedNext
<1>10. ASSUME NEW t \in Threads, NEW src \in Threads \cup {Any}, RecvBlocks(t, src)
       PROVE  SchedNext
  BY <1>10 DEF RecvBlocks, Await, InUser, Yield, SchedNext
<1> QED
  BY <1>1, <1>2, <1>3, <1>4, <1>5, <1>6, <1>7, <1>8, <1>9, <1>10 DEF Next

(* The IPC and interrupt paths wake, block and switch threads only in the  *)
(* ways Sched allows.                                                      *)
THEOREM IpcUsesSched == Spec => UsesSched
<1>1. Init => SchedInit
  BY DEF Init
<1> QED
  BY <1>1, IInvAlways, StepUsesSched, PTL DEF Spec, UsesSched, SchedSpec

(* So the dispatcher stays round robin under every use IPC makes of it.    *)
THEOREM IpcRoundRobin == Spec => RoundRobin
BY IpcUsesSched, SchedRoundRobin, PTL DEF UsesSched
=============================================================================
