-------------------------------- MODULE Sched --------------------------------
(***************************************************************************)
(* The preemptive round-robin scheduler of kernel/sched.c.                 *)
(*                                                                         *)
(* A fixed table of N thread slots, a cursor (`current', the thread that   *)
(* owns the CPU) and one dispatcher, schedule(), which the timer interrupt *)
(* and every blocking or exiting kernel path call with interrupts disabled *)
(* and which is therefore one atomic step.  The bootstrap context is the   *)
(* idle thread: it is outside the table and runs when nothing else can.    *)
(*                                                                         *)
(* The operators are written over a given table `ts' because the kernel    *)
(* paths change a thread's state and then call schedule() in one atomic    *)
(* stretch: ts is the table schedule() sees.                               *)
(***************************************************************************)
EXTENDS Integers, FiniteSets

CONSTANT N               \* SCHED_MAX_THREADS (16 in the code)

ASSUME NAssumption == N \in Nat \ {0}

Threads == 0 .. N - 1
Idle    == -1            \* idle.id

States  == {"UNUSED", "RUNNABLE", "RUNNING", "BLOCKED", "DEAD"}
Free    == {"UNUSED", "DEAD"}       \* a slot thread_create() may take

VARIABLES
    tstate,              \* threads[i].state
    current              \* current->id

schedVars == <<tstate, current>>
-----------------------------------------------------------------------------
(* schedule() scans the table cyclically, starting one past the running    *)
(* thread, or at slot 0 when the CPU was idle.  Dist is the number of      *)
(* slots it visits before it reaches t.                                    *)
From(c) == IF c = Idle THEN 0 ELSE c + 1

Dist(c, t) == IF t >= From(c) THEN t - From(c) ELSE t - From(c) + N

Runnable(ts) == {t \in Threads : ts[t] = "RUNNABLE"}

\* Mutant: slot 0 always wins over the cyclic order.
PicksNext_Lowest(ts, c, n) ==
    \/ /\ n \in Runnable(ts)
       /\ \A t \in Runnable(ts) : n <= t
    \/ /\ Runnable(ts) = {}
       /\ n = Idle

(* The thread schedule() switches to.  A running thread is not RUNNABLE:   *)
(* when it is alone the scan finds nothing and the idle thread is next.    *)
PicksNext(ts, c, n) ==
    \/ /\ n \in Runnable(ts)
       /\ \A t \in Runnable(ts) : Dist(c, n) <= Dist(c, t)
    \/ /\ Runnable(ts) = {}
       /\ n = Idle

\* Mutant: the preempted thread is not put back in the ready set.
Switch_KeepRunning(ts, n) ==
    [t \in Threads |-> IF t = n THEN "RUNNING" ELSE ts[t]]

\* The table after a switch away from `current' to n.
Switch(ts, n) ==
    [t \in Threads |->
        IF t = n THEN "RUNNING"
        ELSE IF t = current /\ ts[t] = "RUNNING" THEN "RUNNABLE" ELSE ts[t]]

Schedule(ts) ==
    \E n \in Threads \cup {Idle} :
        /\ PicksNext(ts, current, n)
        /\ current' = n
        /\ tstate' = Switch(ts, n)
-----------------------------------------------------------------------------
SchedInit ==
    /\ tstate = [t \in Threads |-> "UNUSED"]
    /\ current = Idle

\* thread_wake(): only a blocked thread becomes ready.
Woken(ts, t) ==
    IF ts[t] = "BLOCKED" THEN [ts EXCEPT ![t] = "RUNNABLE"] ELSE ts

\* Code of a live thread, or of the bootstrap context, owns the CPU.
CpuLive == current # Idle => tstate[current] = "RUNNING"

\* thread_create() takes the lowest slot that is unused or dead.
LowestFree(t) ==
    /\ tstate[t] \in Free
    /\ \A u \in Threads : tstate[u] \in Free => t <= u

\* The timer interrupt.
Tick == Schedule(tstate)

Create(t) ==
    /\ CpuLive
    /\ LowestFree(t)
    /\ tstate' = [tstate EXCEPT ![t] = "RUNNABLE"]
    /\ UNCHANGED current

\* A sender that delivers, a receiver that takes, or an interrupt, wakes t.
Wake(t) ==
    /\ tstate[t] = "BLOCKED"
    /\ tstate' = Woken(tstate, t)
    /\ UNCHANGED current

\* The running thread blocks or is torn down, then gives the CPU away.
Yield(s) ==
    /\ current # Idle
    /\ tstate[current] = "RUNNING"
    /\ Schedule([tstate EXCEPT ![current] = s])

\* A kernel thread returned: it is dead but halts on the CPU until a tick.
ThreadExit ==
    /\ current # Idle
    /\ tstate[current] = "RUNNING"
    /\ tstate' = [tstate EXCEPT ![current] = "DEAD"]
    /\ UNCHANGED current

SchedNext ==
    \/ Tick
    \/ \E t \in Threads : Create(t)
    \/ \E t \in Threads : Wake(t)
    \/ Yield("BLOCKED")
    \/ Yield("DEAD")
    \/ ThreadExit

SchedSpec == SchedInit /\ [][SchedNext]_schedVars

(* The timer keeps ticking: it is periodic hardware, and no thread runs    *)
(* with interrupts disabled for longer than one kernel path.               *)
FairSchedSpec == SchedSpec /\ WF_schedVars(Tick)
-----------------------------------------------------------------------------
\* The table holds thread states, the cursor a slot or the idle thread.
SchedTypeOK ==
    /\ tstate \in [Threads -> States]
    /\ current \in Threads \cup {Idle}

(* The CPU has one owner and the table agrees with the cursor: a thread    *)
(* marked RUNNING is the current one, and the current one is RUNNING or    *)
(* has just died in thread_exit().  schedule() keeps the two in step over  *)
(* four exit paths (tick, block, exit, idle).                              *)
OneRunning ==
    /\ \A t \in Threads : tstate[t] = "RUNNING" => t = current
    /\ current # Idle => tstate[current] \in {"RUNNING", "DEAD"}

(* schedule()'s cyclic scan is fair whoever blocks, wakes, exits or is     *)
(* created in between: each switch of the CPU brings every thread that     *)
(* stays ready strictly closer to the front, and never goes to the idle    *)
(* thread past it.  The cursor's jump back to slot 0 after an idle period  *)
(* is the case that could break it.                                        *)
CloserToCpu ==
    current' # current =>
        \A t \in Threads :
            tstate[t] = "RUNNABLE" /\ tstate'[t] = "RUNNABLE" =>
                /\ current' # Idle
                /\ Dist(current', t) < Dist(current, t)

RoundRobin == [][CloserToCpu]_schedVars

(* No starvation: with the timer ticking, a thread schedule() finds        *)
(* runnable gets the CPU.                                                  *)
Served ==
    \A t \in Threads : tstate[t] = "RUNNABLE" ~> tstate[t] = "RUNNING"
=============================================================================
