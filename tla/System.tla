-------------------------------- MODULE System --------------------------------
(***************************************************************************)
(* The shipped user space on the kernel: init brings up the console, the   *)
(* block driver, the pager, the process manager, the filesystem, the VGA   *)
(* terminal and two shells; the first shell then serves the lines typed at *)
(* the serial console.                                                     *)
(*                                                                         *)
(* A program is a table of named blocks of instructions, one per kernel    *)
(* call its source makes, in the order of the source: "main" is what runs  *)
(* first, "loop" the head of its endless loop, which ends in a receive,    *)
(* and a handler for each request (or typed command) the source tests for. *)
(* Which call does what is left to Kernel.                                 *)
(***************************************************************************)
EXTENDS Kernel

CONSTANTS
    Commands,            \* lines typed: names of command blocks of the shell
    Asked,               \* the programs PM is asked to spawn: the shell says "hello"
    Keyed,               \* the terminals users type at
    TypeAhead,           \* cap on the lines typed and not yet read, per terminal
    Preemptions          \* cap on the ticks that meet a running thread

\* Well-known thread ids (syscall.h).
CON_TID == 1
BLK_TID == 2
VM_TID  == 3
PM_TID  == 4
FS_TID  == 5
VGA_TID == 6

Terminals   == {CON_TID, VGA_TID}
IrqOf(term) == IF term = CON_TID THEN 4 ELSE 1

ASSUME SystemAssumption ==
    /\ N > VGA_TID
    /\ Asked \subseteq {"hello", "rogue"}
    /\ Keyed \subseteq Terminals
    /\ TypeAhead \in Nat
    /\ Preemptions \in Nat
-----------------------------------------------------------------------------
(* Messages.  Every answer has the label MSG_REPLY and no client looks at  *)
(* it; `re' records what it answers, for the properties only.              *)
Request(label) == [label |-> label, re |-> "none", val |-> "none"]
Reply(re, val) == [label |-> "REPLY", re |-> re, val |-> val]

Ready == Request("READY")
Go    == Reply("READY", "go")

(* Instructions.  `orelse' is the block that runs instead of the rest when *)
(* the call fails, and "rest" when the source does not look at its result. *)
Instruction(op, arg, what, orelse) == [op |-> op, arg |-> arg, what |-> what, orelse |-> orelse]

Client == -3             \* the thread whose request is being handled
Child  == -4             \* the thread spawned last

Sends(d, ms)    == Instruction("send", d, ms, "rest")
Send(d, m)      == Sends(d, {m})
Recv(src)       == Instruction("recv", src, "none", "rest")
SpawnsOne(ps)   == Instruction("spawn", 0, ps, "rest")
Spawns(p)       == SpawnsOne({p})
GrantCap(t, ep) == Instruction("grant", t, ep, "rest")
IoGrant(t, base, len) == Instruction("grantio", t, <<base, len>>, "rest")
Registers(irq)  == Instruction("irq", irq, "none", "rest")
InOut(port)     == Instruction("io", port, "none", "rest")
SetPager        == Instruction("pager", 0, "none", "rest")
Local           == Instruction("local", 0, "none", "rest")
Touches(page)   == Instruction("touch", 0, page, "rest")
MapsPage        == Instruction("map", 0, "none", "rest")
Drain           == Instruction("drain", 0, "none", "rest")
Ask             == Instruction("ask", 0, "none", "rest")
Edit            == Instruction("edit", 0, "none", "rest")
Leave           == Instruction("exit", 0, "none", "rest")
OrElse(i, block) == [i EXCEPT !.orelse = block]

Call(d, label) == <<Send(d, Request(label)), Recv(d)>>
Prints         == Call(CON_TID, "WRITE")
-----------------------------------------------------------------------------
Start(p, t, grants) ==
    <<Spawns(p), Recv(Any)>> \o grants \o <<Send(t, Go)>>

init_vm_pm ==
    Start("vm", VM_TID, <<GrantCap(VM_TID, CON_TID)>>)
    \o Start("pm", PM_TID, <<GrantCap(PM_TID, CON_TID)>>)

init_main ==
    Start("console", CON_TID, <<IoGrant(CON_TID, 1016, 8)>>)
    \o Prints
    \o Start("block", BLK_TID, <<IoGrant(BLK_TID, 496, 8), GrantCap(BLK_TID, CON_TID)>>)
    \o init_vm_pm
    \o Start("fs", FS_TID, <<GrantCap(FS_TID, CON_TID), GrantCap(FS_TID, BLK_TID)>>)
    \o Prints
    \o <<Local>>                                     \* maps the VGA buffer
    \o Start("vga", VGA_TID, <<IoGrant(VGA_TID, 96, 8)>>)
    \o Prints
    \o <<Touches("heap")>> \o Prints                          \* the demand-paged heap
    \o Start("shell", Child,
             <<GrantCap(Child, CON_TID), GrantCap(Child, FS_TID), GrantCap(Child, PM_TID)>>)
    \o Start("shell2", Child,
             <<GrantCap(Child, VGA_TID), GrantCap(Child, FS_TID), GrantCap(Child, PM_TID)>>)
    \o Prints
    \o <<Recv(Any), Leave>>                          \* park

init == [main |-> init_main]

Announces == <<Send(Root, Ready), Recv(Root)>>
Serves    == <<Recv(Any)>>
Answers(re) == <<Send(Client, Reply(re, "ok"))>>

\* Mutant: the test for MSG_WRITE does not exclude MSG_READLINE.
console_Both ==
    [main     |-> Announces \o <<Registers(4), InOut(1017), Drain>>,
     loop     |-> Serves,
     IRQ      |-> <<Drain, Edit>>,
     WRITE    |-> <<InOut(1016)>> \o Answers("WRITE"),
     READLINE |-> <<InOut(1016)>> \o Answers("WRITE") \o <<Ask, Edit>>]

console ==
    [main     |-> Announces \o <<Registers(4), InOut(1017), Drain>>,
     loop     |-> Serves,
     IRQ      |-> <<Drain, Edit>>,
     WRITE    |-> <<InOut(1016)>> \o Answers("WRITE"),
     READLINE |-> <<Ask, Edit>>]

block ==
    [main  |-> Announces \o Prints,
     loop  |-> Serves,
     BREAD |-> <<InOut(503)>> \o Answers("BREAD")]

vm_maps == <<MapsPage>>

vm_heap == Prints \o Prints \o vm_maps \o Answers("FAULT")

\* Mutant: the pager maps whatever page is touched.
vm_Unbounded == [main |-> <<SetPager>> \o Announces \o Prints, loop |-> Serves,
                 heap |-> vm_heap, wild |-> vm_heap]

\* A fault inside the heap is served, any other one is a wild pointer.
vm ==
    [main |-> <<SetPager>> \o Announces \o Prints,
     loop |-> Serves,
     heap |-> vm_heap,
     wild |-> Prints \o Prints \o <<Send(Client, Reply("FAULT", "kill"))>>]


\* Mutant: PM waits for the child to announce itself.
pm_spawn_Awaits ==
    <<OrElse(SpawnsOne(Asked), "FAILED"), GrantCap(Child, CON_TID), Recv(Child), Send(Child, Go)>>

\* Mutant: PM never releases the child.
pm_spawn_Unreleased == <<OrElse(SpawnsOne(Asked), "FAILED"), GrantCap(Child, CON_TID)>>

pm_spawn ==
    <<OrElse(SpawnsOne(Asked), "FAILED"), GrantCap(Child, CON_TID), Send(Child, Go)>>

pm ==
    [main   |-> Announces \o Prints,
     loop   |-> Serves,
     SPAWN  |-> pm_spawn \o Answers("SPAWN"),
     FAILED |-> <<Send(Client, Reply("SPAWN", "fail"))>>]

\* Mutant: the child does not wait for its release.
hello_Unwaiting == [main |-> Prints \o <<Leave>>]

hello == [main |-> <<Recv(PM_TID)>> \o Prints \o <<Leave>>]

rogue == [main |-> Prints \o <<Touches("wild")>> \o Prints \o <<Leave>>]

\* One sector stands for the sectors a request reads.
BlkRead == Call(BLK_TID, "BREAD")

fs ==
    [main  |-> Announces \o Prints,
     loop  |-> Serves,
     OPEN  |-> BlkRead \o <<Sends(Client, {Reply("OPEN", "ok"), Reply("OPEN", "fail")})>>,
     FREAD |-> BlkRead \o Answers("FREAD"),
     CLOSE |-> Answers("CLOSE"),
     LIST  |-> BlkRead \o Answers("LIST")]

vga ==
    [main     |-> Announces \o <<Registers(1), InOut(96)>>,
     loop     |-> Serves,
     IRQ      |-> <<InOut(96), Drain, Edit>>,
     WRITE    |-> Answers("WRITE"),
     READLINE |-> <<Ask, Edit>>]

\* "show" stands for the commands that only print: help, echo, ps, mem,
\* uptime, clear, and a line the shell does not know.
shell ==
    [main     |-> Announces \o <<OrElse(Send(BLK_TID, Ready), "refused")>> \o Prints \o Prints,
     refused  |-> Prints \o Prints \o Prints,
     loop     |-> Prints \o Call(CON_TID, "READLINE"),
     show     |-> Prints \o Prints,
     ls       |-> Call(FS_TID, "LIST") \o Prints,
     cat      |-> <<Send(FS_TID, Request("OPEN")), OrElse(Recv(FS_TID), "cat_none")>>
                  \o Call(FS_TID, "FREAD") \o Prints \o Call(FS_TID, "CLOSE"),
     cat_none |-> Prints \o Prints \o Prints,
     run      |-> Call(PM_TID, "SPAWN") \o Prints \o Prints \o Prints,
     vga      |-> Call(VGA_TID, "VPUTS") \o Prints,
     exit     |-> Prints \o <<Leave>>]

\* shell2 is the same source: nothing in it reads the terminal it is told.
Program ==
    [init |-> init, console |-> console, block |-> block, vm |-> vm, pm |-> pm,
     fs |-> fs, vga |-> vga, shell |-> shell, shell2 |-> shell, hello |-> hello,
     rogue |-> rogue]

(* What the kernel is told of the programs covers what they do: the        *)
(* messages they send, none of which is the kernel's own, the grants of    *)
(* init and PM, and the lines of the two terminals.  The pager's answer to *)
(* a fault it has served has data0 = 0, and so has its MSG_READY.          *)
ASSUME ProgramsAssumption ==
    /\ Commands \subseteq {"show", "ls", "cat", "run", "vga", "exit"}
    /\ FaultMsg = Request("FAULT")
    /\ {Reply("FAULT", "ok"), Ready} \cap Kills = {}
    /\ {Request(l) : l \in {"READY", "WRITE", "READLINE", "BREAD", "SPAWN", "OPEN", "FREAD",
                           "CLOSE", "LIST", "VPUTS"}} \subseteq Message
    /\ {Reply(l, "ok") : l \in {"WRITE", "BREAD", "SPAWN", "FAULT", "OPEN", "FREAD", "CLOSE",
                               "LIST"}} \subseteq Message
    /\ {Go, Reply("OPEN", "fail"), Reply("SPAWN", "fail"), Reply("FAULT", "kill")} \subseteq Message
    /\ {Reply("READLINE", line) : line \in Commands} \subseteq Message
    /\ Threads \X {CON_TID, BLK_TID, PM_TID, FS_TID, VGA_TID} \subseteq Grants
    /\ {<<CON_TID, 1016, 8>>, <<BLK_TID, 496, 8>>, <<VGA_TID, 96, 8>>} \subseteq IoGrants
    /\ {IrqOf(term) : term \in Terminals} \subseteq IrqLines
-----------------------------------------------------------------------------
VARIABLES
    prog,                \* the program each thread runs, "none" if there is no thread
    at,                  \* the instruction it is at: block and place in it
    client,              \* `from' of the request it handles
    child,               \* the tid its last spawn gave
    reader,              \* rd_from of a terminal with rd_active, else Nobody
    device,              \* per terminal: lines typed that the driver has not drained
    ring,                \* per terminal: lines drained that no reader has got
    mapped,              \* the demand-paged pages the pager has mapped
    composed,            \* per program: the thread whose text is in the buffer on its stack
    preempted            \* ticks that met a running thread

userVars == <<prog, at, client, child, reader, device, ring, mapped, composed>>
svars    == <<kvars, userVars, preempted>>

Code(t)  == Program[prog[t]][at[t].block]
Instr(t) == Code(t)[at[t].pc]

\* t is about to execute an instruction of the given kind.
Executes(t, op) == InUser(t) /\ Instr(t).op = op

Who(t, x) ==
    CASE x = Client -> client[t]
      [] x = Child  -> child[t]
      [] OTHER      -> x

Entry(b) == [block |-> b, pc |-> 1]

(* What a receive that returned r and m makes the loop run next.  A fault  *)
(* message names the page: the one r is about to touch.                    *)
Selects(t, r, m) ==
    LET key == IF r = Irq THEN "IRQ"
               ELSE IF m.label = "REPLY" THEN m.val
               ELSE IF m.label = "FAULT" THEN Instr(r).what
               ELSE m.label
    IN  IF key \in DOMAIN Program[prog[t]] THEN Entry(key) ELSE Entry("loop")

Failed(r, m) == r = -1 \/ (m # NoMsg /\ m.val = "fail")

\* The instruction after the present one, whose call returned r and m.
After(t, r, m) ==
    IF Failed(r, m) /\ Instr(t).orelse # "rest" THEN Entry(Instr(t).orelse)
    ELSE IF at[t].pc < Len(Code(t)) THEN [at[t] EXCEPT !.pc = @ + 1]
    ELSE IF at[t].block = "loop" THEN Selects(t, r, m)
    ELSE Entry("loop")

Moves(t, r, m) == at' = [at EXCEPT ![t] = After(t, r, m)]

\* A server remembers whose request it handles.
Remembers(t, r) ==
    client' = IF Code(t) = Serves THEN [client EXCEPT ![t] = r] ELSE client

\* The send or receive of t goes as far as it can; when it is over t goes on.
Follow(t) ==
    /\ IF ret'.tid = t
       THEN Moves(t, ret'.rax, ret'.msg) /\ Remembers(t, ret'.rax)
       ELSE UNCHANGED <<at, client>>
    /\ UNCHANGED <<prog, child>>

\* A call that always ends at once, with result r.
Done(t, r) == Moves(t, r, NoMsg) /\ UNCHANGED <<prog, client>>

Others == <<reader, device, ring, mapped>>
-----------------------------------------------------------------------------
DoSend(t) ==
    /\ Executes(t, "send")
    /\ LET d == Who(t, Instr(t).arg) IN
       \/ SysSendDenied(t, d)
       \/ \E m \in Instr(t).what : SysSend(t, d, m)
    /\ Follow(t)
    /\ UNCHANGED Others

DoRecv(t) ==
    /\ Executes(t, "recv")
    /\ SysRecv(t, Who(t, Instr(t).arg))
    /\ Follow(t)
    /\ UNCHANGED Others

DoSpawn(t) ==
    /\ Executes(t, "spawn")
    /\ \/ \E c \in Threads :
          /\ SysSpawn(c)
          /\ \E p \in Instr(t).what : prog' = [prog EXCEPT ![c] = p]
          /\ at' = [at EXCEPT ![t] = After(t, 0, NoMsg), ![c] = Entry("main")]
          /\ client' = [client EXCEPT ![c] = Nobody]
          /\ child' = [child EXCEPT ![t] = c, ![c] = Nobody]
       \/ /\ \A c \in Threads : Exists(c)
          /\ SysLocal(t)
          /\ Done(t, -1)
          /\ child' = [child EXCEPT ![t] = Nobody]
    /\ UNCHANGED Others

DoGrant(t) ==
    /\ LET i == Instr(t) IN
       \/ Executes(t, "grant") /\ SysGrantCap(t, Who(t, i.arg), i.what)
       \/ Executes(t, "grantio") /\ SysGrantIo(t, i.arg, i.what[1], i.what[2])
    /\ Done(t, 0)
    /\ UNCHANGED <<child, Others>>

DoRegister(t) ==
    /\ \/ Executes(t, "irq") /\ SysIrqRegister(t, Instr(t).arg)
       \/ Executes(t, "pager") /\ SysSetPager(t)
    /\ Done(t, 0)
    /\ UNCHANGED <<child, Others>>

\* Port I/O and the mapping of memory.
DoLocal(t) ==
    /\ Executes(t, "io") \/ Executes(t, "local")
    /\ SysLocal(t)
    /\ Done(t, 0)
    /\ UNCHANGED <<child, Others>>

\* An access to a page; after a fault it is repeated.
DoTouch(t) ==
    /\ Executes(t, "touch")
    /\ IF Instr(t).what \in mapped THEN SysLocal(t) /\ Done(t, 0) /\ UNCHANGED <<child, Others>>
       ELSE PageFault(t) /\ UNCHANGED userVars

\* u_map() of the page of the fault; memory suffices.
DoMap(t) ==
    /\ Executes(t, "map")
    /\ SysLocal(t)
    /\ mapped' = mapped \cup {Instr(client[t]).what}
    /\ Done(t, 0)
    /\ UNCHANGED <<child, reader, device, ring>>

\* drain_rx(), kbd_drain().
DoDrain(t) ==
    /\ Executes(t, "drain")
    /\ SysLocal(t)
    /\ ring' = [ring EXCEPT ![t] = @ \o device[t]]
    /\ device' = [device EXCEPT ![t] = << >>]
    /\ Done(t, 0)
    /\ UNCHANGED <<child, reader, mapped>>

\* Mutant: a line request is answered at once, without a line.
DoAsk_Empty(t) ==
    /\ Executes(t, "ask")
    /\ SysLocal(t)
    /\ reader' = [reader EXCEPT ![t] = Nobody]
    /\ Done(t, 0)
    /\ UNCHANGED <<child, device, ring, mapped>>

\* MSG_READLINE: the request becomes the pending one.
DoAsk(t) ==
    /\ Executes(t, "ask")
    /\ SysLocal(t)
    /\ reader' = [reader EXCEPT ![t] = client[t]]
    /\ Done(t, 0)
    /\ UNCHANGED <<child, device, ring, mapped>>

\* edit(): a finished line goes to whoever waits for one.
DoEdit(t) ==
    /\ Executes(t, "edit")
    /\ IF reader[t] # Nobody /\ ring[t] # << >>
       THEN LET m == Reply("READLINE", ring[t][1]) IN
            /\ SysSend(t, reader[t], m)
            /\ reader' = [reader EXCEPT ![t] = Nobody]
            /\ ring' = [ring EXCEPT ![t] = Tail(@)]
            /\ Follow(t)
       ELSE /\ SysLocal(t)
            /\ Done(t, 0)
            /\ UNCHANGED <<child, reader, ring>>
    /\ UNCHANGED <<device, mapped>>

Gone(t) ==
    /\ prog' = [prog EXCEPT ![t] = "none"]
    /\ at' = [at EXCEPT ![t] = Entry("main")]
    /\ client' = [client EXCEPT ![t] = Nobody]
    /\ child' = [child EXCEPT ![t] = Nobody]
    /\ UNCHANGED Others

\* crt0.S: main() has returned.
DoExit(t) ==
    /\ Executes(t, "exit")
    /\ SysExit(t)
    /\ Gone(t)

\* A blocked call of t is over.
Returns(t) ==
    /\ SysSendReturns(t) \/ SysRecvReturns(t)
    /\ Follow(t)
    /\ UNCHANGED Others

\* The kernel goes on with a page fault of t.
FaultPath(t) ==
    /\ FaultSent(t) \/ FaultReceives(t) \/ FaultAnswered(t)
    /\ UNCHANGED userVars

FaultEnds(t) == FaultKills(t) /\ Gone(t)

\* con_linef() and its like: a thread that asks the console to print has
\* composed the text on its stack, which belongs to the program's image.
Composes(t) ==
    composed' = IF Instr(t).what = {Request("WRITE")} THEN [composed EXCEPT ![prog[t]] = t] ELSE composed

Works(t) ==
    \/ DoRecv(t) \/ DoSpawn(t) \/ DoGrant(t) \/ DoRegister(t)
    \/ DoLocal(t) \/ DoTouch(t) \/ DoMap(t) \/ DoDrain(t) \/ DoAsk(t) \/ DoEdit(t) \/ DoExit(t)
    \/ Returns(t) \/ FaultPath(t) \/ FaultEnds(t)

Step(t) ==
    \/ DoSend(t) /\ Composes(t)
    \/ Works(t) /\ UNCHANGED composed

\* kmain() creates the root task from the bootstrap context.
StartInit ==
    /\ current = Idle
    /\ SysSpawn(Root)
    /\ prog' = [prog EXCEPT ![Root] = "init"]
    /\ UNCHANGED <<at, client, child, Others, composed>>

\* Somebody completes a line; the terminal interrupts.
Type(term, line) ==
    /\ Len(device[term]) + Len(ring[term]) < TypeAhead
    /\ HwInterrupt(IrqOf(term))
    /\ device' = [device EXCEPT ![term] = Append(@, line)]
    /\ UNCHANGED <<prog, at, client, child, reader, ring, mapped, composed, preempted>>

\* The timer finds the CPU idle, or takes it from a thread.
IdleTick == current = Idle /\ TimerInterrupt /\ UNCHANGED <<userVars, preempted>>

Preempt ==
    /\ current # Idle
    /\ preempted < Preemptions
    /\ TimerInterrupt
    /\ preempted' = preempted + 1
    /\ UNCHANGED userVars

SystemInit ==
    /\ KInit
    /\ prog = [t \in Threads |-> "none"]
    /\ at = [t \in Threads |-> Entry("main")]
    /\ client = [t \in Threads |-> Nobody]
    /\ child = [t \in Threads |-> Nobody]
    /\ reader = [t \in Threads |-> Nobody]
    /\ device = [term \in Terminals |-> << >>]
    /\ ring = [term \in Terminals |-> << >>]
    /\ mapped = {}
    /\ composed = [p \in DOMAIN Program |-> Nobody]
    /\ preempted = 0

Runs == (StartInit \/ \E t \in Threads : Step(t)) /\ UNCHANGED preempted

SystemNext ==
    \/ Runs
    \/ IdleTick
    \/ Preempt
    \/ \E term \in Keyed, line \in Commands : Type(term, line)

SystemSpec == SystemInit /\ [][SystemNext]_svars

(* The processor executes the current thread, and the timer ends an idle   *)
(* period once a thread is ready.                                          *)
FairSystemSpec == SystemSpec /\ WF_svars(Runs) /\ WF_svars(IdleTick)
-----------------------------------------------------------------------------
\* The programs' state keeps its types; the kernel's is KernelTypeOK.
SystemTypeOK ==
    /\ prog \in [Threads -> DOMAIN Program \cup {"none"}]
    /\ \A t \in Threads :
          prog[t] # "none" =>
              /\ at[t].block \in DOMAIN Program[prog[t]]
              /\ at[t].pc \in DOMAIN Code(t)
    /\ client \in [Threads -> Threads \cup {Nobody, Irq}]
    /\ child \in [Threads -> Threads \cup {Nobody}]
    /\ reader \in [Threads -> Threads \cup {Nobody}]
    /\ \A term \in Terminals : Len(device[term]) + Len(ring[term]) <= TypeAhead
    /\ mapped \subseteq {"heap", "wild"}
    /\ composed \in [DOMAIN Program -> Threads \cup {Nobody}]
    /\ preempted \in 0 .. Preemptions

(* The programs name each other by the numbers of syscall.h; the kernel    *)
(* hands out the lowest free slot.  The two agree, whatever boots late and *)
(* whoever is spawned when.                                                *)
TidsAsNumbered ==
    \A t \in Threads :
        /\ prog[t] = "console" <=> t = CON_TID /\ prog[t] # "none"
        /\ prog[t] = "block" <=> t = BLK_TID /\ prog[t] # "none"
        /\ prog[t] = "vm" <=> t = VM_TID /\ prog[t] # "none"
        /\ prog[t] = "pm" <=> t = PM_TID /\ prog[t] # "none"
        /\ prog[t] = "fs" <=> t = FS_TID /\ prog[t] # "none"
        /\ prog[t] = "vga" <=> t = VGA_TID /\ prog[t] # "none"

\* The kernel would let t make the call it is at.
Authorized(t) ==
    LET i == Instr(t) IN
    /\ i.op = "send" => SendAllowed(t, Who(t, i.arg))
    /\ i.op = "edit" /\ reader[t] # Nobody => SendAllowed(t, reader[t])
    /\ i.op = "io" => HasPort(ctable[t], i.arg)
    /\ i.op = "grant" => t = Root \/ HasEndpoint(ctable[t], i.what)

\* t is about to send to d.
SendsTo(t, d) == Instr(t).op = "send" /\ Instr(t).arg = d

\* The first shell runs the command vga.
AtVga(t) == prog[t] = "shell" /\ at[t].block = "vga"

\* PM has spawned t and has yet to grant it the console.
Unendowed(t) == prog[PM_TID] = "pm" /\ Instr(PM_TID).op = "grant" /\ child[PM_TID] = t


\* The instruction, run by s for client c, sends to t or keeps its request.
Serving(s, i, c, t) ==
    \/ i.op = "send" /\ t = IF i.arg = Client THEN c ELSE Who(s, i.arg)
    \/ i.op = "ask" /\ t = c

(* s holds t's line request, or has still to send to t before it serves    *)
(* anybody else, or has t's request in its mailbox and a handler for it.   *)
Owes(s, t) ==
    \/ reader[s] = t
    \/ \E pc \in at[s].pc .. Len(Code(s)) : Serving(s, Code(s)[pc], client[s], t)
    \/ /\ resume[s] = "recv" /\ ipc_state[s] = "NONE" /\ ipc_from[s] = t
       /\ LET b == Selects(s, t, ipc_buf[s]).block IN
          /\ b \in DOMAIN Program[prog[s]]
          /\ \E pc \in DOMAIN Program[prog[s]][b] : Serving(s, Program[prog[s]][b][pc], t, t)

\* Where s is, or in the loop it comes back to, it receives from t.
WillTake(s, t) ==
    LET loop == IF "loop" \in DOMAIN Program[prog[s]] THEN Program[prog[s]].loop ELSE << >>
        rest == SubSeq(Code(s), at[s].pc, Len(Code(s))) \o loop
    IN  \E i \in DOMAIN rest : rest[i].op = "recv" /\ Who(s, rest[i].arg) \in {Any, t}

\* t is blocked in a call that only one peer can end.
Waits(t) == tstate[t] = "BLOCKED" /\ ipc_peer[t] # Any

\* The peer lives, and its program has that message still to send or to take.
Owed(t) ==
    LET s == ipc_peer[t] IN
    prog[s] # "none" /\ IF Receives(t) THEN Owes(s, t) ELSE WillTake(s, t)

\* PM sends "go" to rogue, which never receives from it, or has been killed.
HeldByRogue == Waits(PM_TID) /\ prog[ipc_peer[PM_TID]] \in {"rogue", "none"}

(* The waits that never end in the shipped system: of a shell or a rogue   *)
(* for the answer to a call that was refused (CallsRefused), of PM for     *)
(* rogue, and, behind it, of the shell that has asked PM for rogue.        *)
Stuck(t) ==
    /\ Waits(t)
    /\ \/ AtVga(t) /\ ipc_peer[t] = VGA_TID
       \/ prog[t] = "shell2" /\ ipc_peer[t] = CON_TID
       \/ prog[t] = "rogue" /\ ipc_peer[t] = CON_TID /\ ~Owed(t)
       \/ t = PM_TID /\ HeldByRogue
       \/ prog[t] = "shell" /\ at[t].block = "run" /\ ipc_peer[t] = PM_TID /\ HeldByRogue

(* Whoever waits for one peer (in the second half of con_write() and its   *)
(* like, for "go", after a page fault, in a send) waits for a live thread  *)
(* whose program has the message still to send or to take, and which is    *)
(* not itself blocked for ever; but for the five waits of Stuck.  A peer   *)
(* that exits, is killed or takes no release (sched.c:39) leaves nobody    *)
(* else behind.                                                            *)
WaitsAreOwed ==
    \A t \in Threads :
        Waits(t) => Stuck(t) \/ (Owed(t) /\ ~Stuck(ipc_peer[t]))

(* The calls between the servers form no circle: no set of blocked threads *)
(* waits for members of the set only.                                      *)
NoCircularWait ==
    \A S \in SUBSET {t \in Threads : Waits(t)} :
        S # {} => \E t \in S : ipc_peer[t] \notin S

(* Answers are not mixed up: what a call receives is the answer to what it *)
(* has just sent, although a terminal keeps a line request open while it   *)
(* serves others, and all answers look alike.                              *)
AnswersMatch ==
    [][\A t \in Threads :
          ret'.tid = t /\ ret'.msg # NoMsg /\ prog[t] # "none" /\ at[t].pc > 1 =>
              LET asked == Code(t)[at[t].pc - 1] IN
              asked.op = "send" /\ asked.arg = Instr(t).arg =>
                  \A m \in asked.what : ret'.msg.re = m.label]_svars

(* The programs do only what Kernel lets programs do: its theorems about   *)
(* authority, replies and grants hold of the shipped system.               *)
ImplementsKernel == KSpec

Booted == prog[Root] = "init" /\ at[Root].pc = Len(init_main) - 1 /\ tstate[Root] = "BLOCKED"

(* The boot protocol ends: every server is announced, endowed, released,   *)
(* and init parks.                                                         *)
BootCompletes == <>Booted

AtPrompt(name, term) == \E t \in Threads : prog[t] = name /\ reader[term] = t

ShellLeft == Booted /\ \A t \in Threads : prog[t] # "shell"

(* The shell comes back to its prompt, until it exits, from every command  *)
(* but two: its own vga, whose answer never comes, and run, when PM has    *)
(* been made to spawn rogue; in a session without a rogue, from vga only.  *)
ShellComesBack ==
    /\ []<>(AtPrompt("shell", CON_TID) \/ ShellLeft
                \/ \E t \in Threads : prog[t] = "shell" /\ Stuck(t))
    /\ [](\A t \in Threads : prog[t] # "rogue") =>
          []<>(AtPrompt("shell", CON_TID) \/ ShellLeft \/ \E t \in Threads : AtVga(t) /\ Stuck(t))

(* "The rest of the system keeps running" (docs/HARDENING:27, of the kill  *)
(* of rogue), and every command of the shell's help ends.  Not so: see     *)
(* Stuck.                                                                  *)
SystemKeepsRunning == []<>(AtPrompt("shell", CON_TID) \/ ShellLeft)

LineWaits == device[CON_TID] # << >> \/ ring[CON_TID] # << >>

(* The hello started by `run' is released, prints and ends.  Only lines    *)
(* typed without a pause may keep it from that: find_waiting_sender()      *)
(* serves the lowest slot first, so a shell that never rests starves the   *)
(* child in a later slot.                                                  *)
ChildrenEnd == []<>(LineWaits \/ \A t \in Threads : prog[t] # "hello")

(* "The kernel tears it down" (servers/rogue/main.c): what a process does  *)
(* after it has used a wild pointer never happens, and no other process is *)
(* killed.                                                                 *)
RogueContained ==
    \A t \in Threads :
        /\ prog[t] = "rogue" =>
              at[t].pc <= CHOOSE i \in DOMAIN rogue.main : rogue.main[i].op = "touch"
        /\ resume[t] = "kill" => prog[t] = "rogue"

(* "Compose a whole line in one buffer so concurrent printers never        *)
(* interleave mid-line" (lib/usys.h): what the console prints for a client *)
(* is the line that client has composed.                                   *)
PrintsOwnLine ==
    \A t \in Threads :
        prog[t] = "console" /\ Executes(t, "io") /\ at[t].block = "WRITE" =>
            composed[prog[client[t]]] = client[t]

(* "so a shell bound to this server gets a full session on the             *)
(* screen+keyboard" (servers/vga/main.c): the second shell prompts there.  *)
SecondSession == <>AtPrompt("shell2", VGA_TID)
=============================================================================
