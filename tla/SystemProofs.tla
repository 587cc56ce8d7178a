----------------------------- MODULE SystemProofs -----------------------------
(***************************************************************************)
(* Proofs about the shipped programs on the kernel, for every size of the  *)
(* thread table, every set of commands and any number of preemptions.      *)
(***************************************************************************)
EXTENDS System, KernelProofs

-----------------------------------------------------------------------------
(* The code of the programs: of which instructions each block is made.     *)
Servers == {"console", "block", "vm", "pm", "fs", "vga"}

Jumps == {"rest", "refused", "FAILED", "cat_none"}

\* The messages programs send, and those they send while the system boots.
\* No program sends what a receiver takes for a fault.
Mails ==
    {m \in Message \ {FaultMsg} : {m.label, m.val} \cap {"main", "heap", "wild", "FAULT"} = {}}
BootMails == {Ready, Go, Request("WRITE"), Reply("WRITE", "ok")}

Instructions ==
    [op : {"send"}, arg : Threads \cup {Client, Child}, what : SUBSET Mails, orelse : Jumps]
    \cup [op : {"recv"}, arg : Threads \cup {Any}, what : {"none"}, orelse : Jumps]
    \cup [op : {"spawn"}, arg : {0}, what : SUBSET (DOMAIN Program), orelse : Jumps]
    \cup [op : {"grant"}, arg : Threads \cup {Child},
          what : {CON_TID, BLK_TID, PM_TID, FS_TID, VGA_TID}, orelse : Jumps]
    \cup [op : {"grantio"}, arg : {CON_TID}, what : {<<1016, 8>>}, orelse : Jumps]
    \cup [op : {"grantio"}, arg : {BLK_TID}, what : {<<496, 8>>}, orelse : Jumps]
    \cup [op : {"grantio"}, arg : {VGA_TID}, what : {<<96, 8>>}, orelse : Jumps]
    \cup [op : {"irq"}, arg : {1, 4}, what : {"none"}, orelse : Jumps]
    \cup [op : {"touch"}, arg : {0}, what : {"heap", "wild"}, orelse : Jumps]
    \cup [op : {"io", "pager", "local", "map", "drain", "ask", "edit", "exit"}, arg : Int,
          what : {"none"}, orelse : Jumps]

\* Nonempty sequences.
Block(S) == {s \in Seq(S) : s # << >>}

LEMMA BlockCat ==
    ASSUME NEW S, NEW x \in Block(S), NEW y \in Block(S)
    PROVE  x \o y \in Block(S)
BY DEF Block

\* Blocks that do not begin with a receive, as the loop of a server does.
Asks(S) == {s \in Block(S) : s[1].op # "recv"}

LEMMA AsksCat ==
    ASSUME NEW S, NEW x \in Asks(S), NEW y \in Block(S)
    PROVE  x \o y \in Asks(S)
<1>1. x \o y \in Block(S)
  BY BlockCat DEF Asks
<1>2. (x \o y)[1] = x[1]
  BY DEF Asks, Block
<1> QED
  BY <1>1, <1>2 DEF Asks

LEMMA BlockTuples ==
    ASSUME NEW S
    PROVE  /\ \A a \in S : a.op # "recv" => <<a>> \in Asks(S)
           /\ \A a, b \in S : a.op # "recv" => <<a, b>> \in Asks(S)
           /\ \A a, b, c \in S : a.op # "recv" => <<a, b, c>> \in Asks(S)
           /\ \A a \in S : <<a>> \in Block(S)
           /\ \A a, b \in S : <<a, b>> \in Block(S)
           /\ \A a, b, c \in S : <<a, b, c>> \in Block(S)
           /\ \A a, b, c, d \in S : <<a, b, c, d>> \in Block(S)
BY DEF Block, Asks

LEMMA AsksIsBlock == ASSUME NEW S, NEW x \in Asks(S) PROVE x \in Block(S) /\ x[1].op # "recv"
BY DEF Asks

LEMMA BlockMore ==
    ASSUME NEW S, NEW T, S \subseteq T
    PROVE  Block(S) \subseteq Block(T) /\ Asks(S) \subseteq Asks(T)
BY DEF Block, Asks

LEMMA Numbers ==
    /\ N \in Nat /\ N > 6
    /\ {Root, CON_TID, BLK_TID, VM_TID, PM_TID, FS_TID, VGA_TID} \subseteq Threads
BY NAssumption, SystemAssumption
   DEF Threads, Root, CON_TID, BLK_TID, VM_TID, PM_TID, FS_TID, VGA_TID

\* What an instruction makes of its parts.
Made(i, op, arg, what, orelse) ==
    i.op = op /\ i.arg = arg /\ i.what = what /\ i.orelse = orelse

LEMMA Makes ==
    ASSUME NEW d, NEW ms, NEW w
    PROVE  /\ Made(Sends(d, ms), "send", d, ms, "rest")
           /\ Made(Recv(d), "recv", d, "none", "rest")
           /\ Made(SpawnsOne(ms), "spawn", 0, ms, "rest")
           /\ Made(GrantCap(d, w), "grant", d, w, "rest")
<1>1. ASSUME NEW op, NEW arg, NEW what, NEW i, i = Instruction(op, arg, what, "rest")
      PROVE  Made(i, op, arg, what, "rest")
  BY <1>1 DEF Made, Instruction
<1>2. /\ Sends(d, ms) = Instruction("send", d, ms, "rest")
      /\ Recv(d) = Instruction("recv", d, "none", "rest")
      /\ SpawnsOne(ms) = Instruction("spawn", 0, ms, "rest")
      /\ GrantCap(d, w) = Instruction("grant", d, w, "rest")
  BY DEF Sends, Recv, SpawnsOne, GrantCap
<1> HIDE DEF Made
<1>3. Made(Sends(d, ms), "send", d, ms, "rest")
  BY ONLY <1>1, <1>2
<1>4. Made(Recv(d), "recv", d, "none", "rest")
  BY ONLY <1>1, <1>2
<1>5. Made(SpawnsOne(ms), "spawn", 0, ms, "rest")
  BY ONLY <1>1, <1>2
<1>6. Made(GrantCap(d, w), "grant", d, w, "rest")
  BY ONLY <1>1, <1>2
<1> QED
  BY ONLY <1>3, <1>4, <1>5, <1>6

LEMMA MakesInstructions ==
    /\ \A d \in Threads \cup {Client, Child} : \A ms \in SUBSET Mails : Sends(d, ms) \in Instructions
    /\ \A s \in Threads \cup {Any} : Recv(s) \in Instructions
    /\ \A ps \in SUBSET (DOMAIN Program) : SpawnsOne(ps) \in Instructions
    /\ \A t \in Threads \cup {Child}, ep \in {CON_TID, BLK_TID, PM_TID, FS_TID, VGA_TID} :
          GrantCap(t, ep) \in Instructions
    /\ IoGrant(CON_TID, 1016, 8) \in Instructions
    /\ IoGrant(BLK_TID, 496, 8) \in Instructions
    /\ IoGrant(VGA_TID, 96, 8) \in Instructions
    /\ Registers(1) \in Instructions /\ Registers(4) \in Instructions
    /\ \A p \in Int : InOut(p) \in Instructions
    /\ {SetPager, Local, MapsPage, Drain, Ask, Edit, Leave} \subseteq Instructions
    /\ \A page \in {"heap", "wild"} : Touches(page) \in Instructions
<1> USE DEF Instructions, Instruction, Jumps
<1>1. \A d \in Threads \cup {Client, Child} : \A ms \in SUBSET Mails : Sends(d, ms) \in Instructions
  BY DEF Sends
<1>2. \A s \in Threads \cup {Any} : Recv(s) \in Instructions
  BY DEF Recv
<1>3. \A ps \in SUBSET (DOMAIN Program) : SpawnsOne(ps) \in Instructions
  BY DEF SpawnsOne
<1>4. \A t \in Threads \cup {Child}, ep \in {CON_TID, BLK_TID, PM_TID, FS_TID, VGA_TID} :
          GrantCap(t, ep) \in Instructions
  BY DEF GrantCap
<1>5. /\ IoGrant(CON_TID, 1016, 8) \in Instructions
      /\ IoGrant(BLK_TID, 496, 8) \in Instructions
      /\ IoGrant(VGA_TID, 96, 8) \in Instructions
  BY DEF IoGrant
<1>6. Registers(1) \in Instructions /\ Registers(4) \in Instructions
  BY DEF Registers
<1>7. \A p \in Int : InOut(p) \in Instructions
  BY DEF InOut
<1>8. {SetPager, Local, MapsPage, Drain, Ask, Edit, Leave} \subseteq Instructions
  BY DEF SetPager, Local, MapsPage, Drain, Ask, Edit, Leave
<1>9. \A page \in {"heap", "wild"} : Touches(page) \in Instructions
  BY DEF Touches
<1>10. /\ IoGrant(CON_TID, 1016, 8) \in Instructions
       /\ IoGrant(BLK_TID, 496, 8) \in Instructions
       /\ IoGrant(VGA_TID, 96, 8) \in Instructions
       /\ Registers(1) \in Instructions /\ Registers(4) \in Instructions
       /\ \A p \in Int : InOut(p) \in Instructions
       /\ {SetPager, Local, MapsPage, Drain, Ask, Edit, Leave} \subseteq Instructions
       /\ \A page \in {"heap", "wild"} : Touches(page) \in Instructions
  BY ONLY <1>5, <1>6, <1>7, <1>8, <1>9
<1> QED
  BY ONLY <1>1, <1>2, <1>3, <1>4, <1>10, SMTT(30)

-----------------------------------------------------------------------------
\* Instructions about the request being handled.
OfRequest(i) == i.op \in {"ask", "map"} \/ (i.op = "send" /\ i.arg = Client)

\* The calls each program makes.
Calls ==
    [init    |-> {"send", "recv", "spawn", "grant", "grantio", "local", "touch", "exit"},
     console |-> {"send", "recv", "irq", "io", "drain", "ask", "edit"},
     block   |-> {"send", "recv", "io"},
     vm      |-> {"send", "recv", "pager", "map"},
     pm      |-> {"send", "recv", "spawn", "grant"},
     fs      |-> {"send", "recv"},
     vga     |-> {"send", "recv", "irq", "io", "drain", "ask", "edit"},
     shell   |-> {"send", "recv", "exit"},
     shell2  |-> {"send", "recv", "exit"},
     hello   |-> {"send", "recv", "exit"},
     rogue   |-> {"send", "recv", "touch", "exit"}]

\* What the program p may contain.
Allowed(p) ==
    {i \in Instructions :
        /\ i.op \in Calls[p]
        /\ i.orelse \in {"rest"} \cup DOMAIN Program[p]
        /\ p \notin Servers => ~OfRequest(i)
        /\ p = "pm" /\ i.op = "spawn" => i.what \subseteq {"hello", "rogue"}
        /\ i.op = "touch" => i.what = IF p = "rogue" THEN "wild" ELSE "heap"}

\* The blocks of a server that run while the system boots, and what is there.
BootBlocks == {"main", "loop", "IRQ", "WRITE"}

BootInstructions(p) ==
    {i \in Instructions :
        /\ i.op \in Calls[p] \ {"spawn", "touch", "ask", "map", "exit"}
        /\ i.orelse = "rest"
        /\ i.op = "send" => i.what \subseteq BootMails}

\* The blocks that run on behalf of nobody.
OwnBlocks == {"main", "loop", "IRQ"}

OwnInstructions(p) == {i \in BootInstructions(p) : ~OfRequest(i)}

BlockOK(p, b) ==
    /\ Program[p][b] \in Block(Allowed(p))
    /\ "main" \in DOMAIN Program[p]
    /\ "loop" \notin DOMAIN Program[p] => Program[p][b][Len(Program[p][b])].op = "exit"
    /\ p \in Servers =>
          /\ b \in BootBlocks => Program[p][b] \in Block(BootInstructions(p))
          /\ b \in OwnBlocks => Program[p][b] \in Block(OwnInstructions(p))
          /\ "loop" \in DOMAIN Program[p] /\ Program[p]["loop"] = Serves
          /\ b # "loop" => Program[p][b][1].op # "recv"

LEMMA Names ==
    /\ DOMAIN Program = {"init", "console", "block", "vm", "pm", "fs", "vga", "shell", "shell2",
                         "hello", "rogue"}
    /\ Program["init"] = init /\ Program["console"] = console /\ Program["block"] = block
    /\ Program["vm"] = vm /\ Program["pm"] = pm /\ Program["fs"] = fs /\ Program["vga"] = vga
    /\ Program["shell"] = shell /\ Program["shell2"] = shell /\ Program["hello"] = hello
    /\ Program["rogue"] = rogue
BY DEF Program

LEMMA Blocks ==
    /\ DOMAIN init = {"main"} /\ DOMAIN hello = {"main"} /\ DOMAIN rogue = {"main"}
    /\ DOMAIN console = {"main", "loop", "IRQ", "WRITE", "READLINE"}
    /\ DOMAIN vga = {"main", "loop", "IRQ", "WRITE", "READLINE"}
    /\ DOMAIN block = {"main", "loop", "BREAD"}
    /\ DOMAIN vm = {"main", "loop", "heap", "wild"}
    /\ DOMAIN pm = {"main", "loop", "SPAWN", "FAILED"}
    /\ DOMAIN fs = {"main", "loop", "OPEN", "FREAD", "CLOSE", "LIST"}
    /\ DOMAIN shell = {"main", "refused", "loop", "show", "ls", "cat", "cat_none", "run", "vga",
                       "exit"}
BY DEF init, hello, rogue, console, vga, block, vm, pm, fs, shell

\* The messages of the programs are in Mails.
LEMMA MailsSent ==
    /\ BootMails \subseteq Mails
    /\ {Request(l) : l \in {"READY", "WRITE", "READLINE", "BREAD", "SPAWN", "OPEN", "FREAD",
                            "CLOSE", "LIST", "VPUTS"}} \subseteq Mails
    /\ {Reply(l, "ok") : l \in {"WRITE", "BREAD", "SPAWN", "FAULT", "OPEN", "FREAD", "CLOSE",
                                "LIST"}} \subseteq Mails
    /\ {Reply("OPEN", "fail"), Reply("SPAWN", "fail"), Reply("FAULT", "kill")} \subseteq Mails
    /\ \A line \in Commands : Reply("READLINE", line) \in Mails
<1> DEFINE Bad == {"main", "heap", "wild", "FAULT"}
<1>1. ASSUME NEW l, l \notin Bad, Request(l) \in Message PROVE Request(l) \in Mails
  <2>1. Request(l).label = l /\ Request(l).val = "none" /\ FaultMsg.label = "FAULT"
    BY ProgramsAssumption DEF Request
  <2> QED
    BY <1>1, <2>1 DEF Mails
<1>2. ASSUME NEW l, NEW v, v \notin Bad, Reply(l, v) \in Message PROVE Reply(l, v) \in Mails
  <2>1. Reply(l, v).label = "REPLY" /\ Reply(l, v).val = v /\ FaultMsg.label = "FAULT"
    BY ProgramsAssumption DEF Request, Reply
  <2> QED
    BY <1>2, <2>1 DEF Mails
<1> HIDE DEF Bad
<1>3. {Request(l) : l \in {"READY", "WRITE", "READLINE", "BREAD", "SPAWN", "OPEN", "FREAD",
                            "CLOSE", "LIST", "VPUTS"}} \subseteq Mails
  BY <1>1, ProgramsAssumption DEF Bad
<1>4. {Reply(l, "ok") : l \in {"WRITE", "BREAD", "SPAWN", "FAULT", "OPEN", "FREAD", "CLOSE",
                                "LIST"}} \subseteq Mails
  BY <1>2, ProgramsAssumption DEF Bad
<1>5. {Reply("OPEN", "fail"), Reply("SPAWN", "fail"), Reply("FAULT", "kill")} \subseteq Mails
  BY <1>2, ProgramsAssumption DEF Bad
<1>6. \A line \in Commands : Reply("READLINE", line) \in Mails
  BY <1>2, ProgramsAssumption DEF Bad
<1>7. Go \in Mails
  BY <1>2, ProgramsAssumption DEF Go, Bad
<1>8. BootMails \subseteq Mails
  BY <1>3, <1>4, <1>7 DEF BootMails, Ready
<1> QED
  BY <1>3, <1>4, <1>5, <1>6, <1>8

LEMMA CallsOf ==
    /\ DOMAIN Calls = DOMAIN Program
    /\ \A p \in DOMAIN Program : {"send", "recv"} \subseteq Calls[p]
    /\ \A p \in Servers : p \in DOMAIN Program /\ "touch" \notin Calls[p] /\ "exit" \notin Calls[p]
    /\ \A p \in DOMAIN Program \ Servers :
          /\ {"ask", "map", "edit", "drain"} \cap Calls[p] = {}
          /\ "exit" \in Calls[p]
    /\ \A p \in DOMAIN Program :
          /\ "spawn" \in Calls[p] => p \in {"init", "pm"}
          /\ "touch" \in Calls[p] => p \in {"init", "rogue"}
          /\ "map" \in Calls[p] \/ "pager" \in Calls[p] => p = "vm"
          /\ {"irq", "drain", "ask", "edit"} \cap Calls[p] # {} => p \in {"console", "vga"}
BY Names DEF Calls, Servers

LEMMA AllowedParts ==
    ASSUME NEW p, NEW i \in Instructions, i.op \in Calls[p], i.orelse = "rest",
           i.op \notin {"spawn", "touch"}, p \notin Servers => ~OfRequest(i)
    PROVE  i \in Allowed(p)
BY DEF Allowed

LEMMA BootAllowed == ASSUME NEW p \in Servers PROVE BootInstructions(p) \subseteq Allowed(p)
BY AllowedParts DEF BootInstructions

\* How the instructions look.
LEMMA Ops ==
    /\ \A d, m : Send(d, m).op = "send" /\ Send(d, m).arg = d /\ Send(d, m).what = {m}
    /\ \A d, ms : Sends(d, ms).op = "send" /\ Sends(d, ms).arg = d
    /\ \A s : Recv(s).op = "recv"
    /\ \A t, ep : GrantCap(t, ep).op = "grant"
    /\ \A t, base, len : IoGrant(t, base, len).op = "grantio"
    /\ \A port : InOut(port).op = "io"
    /\ \A page : Touches(page).op = "touch" /\ Touches(page).what = page
    /\ \A irq : Registers(irq).op = "irq"
    /\ SetPager.op = "pager" /\ Ask.op = "ask" /\ Edit.op = "edit" /\ Leave.op = "exit"
    /\ MapsPage.op = "map" /\ Drain.op = "drain" /\ Local.op = "local"
BY DEF Send, Sends, Recv, GrantCap, IoGrant, InOut, Touches, Registers, SetPager, Ask, Edit, Leave,
       MapsPage, Drain, Local, Instruction

LEMMA Rests ==
    /\ \A d, m : Send(d, m).orelse = "rest"
    /\ \A d, ms : Sends(d, ms).orelse = "rest"
    /\ \A s : Recv(s).orelse = "rest"
    /\ \A t, ep : GrantCap(t, ep).orelse = "rest"
    /\ \A t, base, len : IoGrant(t, base, len).orelse = "rest"
    /\ \A port : InOut(port).orelse = "rest"
    /\ \A page : Touches(page).orelse = "rest"
    /\ \A irq : Registers(irq).orelse = "rest"
    /\ SetPager.orelse = "rest" /\ Ask.orelse = "rest" /\ Edit.orelse = "rest" /\ Leave.orelse = "rest"
    /\ MapsPage.orelse = "rest" /\ Drain.orelse = "rest" /\ Local.orelse = "rest"
BY DEF Send, Sends, Recv, GrantCap, IoGrant, InOut, Touches, Registers, SetPager, Ask, Edit, Leave,
       MapsPage, Drain, Local, Instruction

LEMMA SendMakes ==
    \A d \in Threads \cup {Client, Child}, m \in Mails : Send(d, m) \in Instructions
BY MakesInstructions DEF Send

LEMMA BootMakes ==
    ASSUME NEW p \in DOMAIN Program
    PROVE  /\ \A d \in Threads \cup {Client, Child}, m \in BootMails :
                Send(d, m) \in BootInstructions(p)
           /\ \A s \in Threads \cup {Any} : Recv(s) \in BootInstructions(p)
           /\ "irq" \in Calls[p] => {Registers(1), Registers(4)} \subseteq BootInstructions(p)
           /\ "drain" \in Calls[p] => Drain \in BootInstructions(p)
           /\ "edit" \in Calls[p] => Edit \in BootInstructions(p)
           /\ "pager" \in Calls[p] => SetPager \in BootInstructions(p)
           /\ "io" \in Calls[p] => \A port \in Int : InOut(port) \in BootInstructions(p)
<1>1. {"send", "recv"} \subseteq Calls[p]
  BY CallsOf
<1>2. ASSUME NEW d \in Threads \cup {Client, Child}, NEW m \in BootMails
      PROVE  Send(d, m) \in BootInstructions(p)
  BY <1>1, SendMakes, MailsSent, Ops, Rests DEF BootInstructions
<1>3. \A s \in Threads \cup {Any} : Recv(s) \in BootInstructions(p)
  BY <1>1, MakesInstructions, Ops, Rests DEF BootInstructions
<1>4. /\ "irq" \in Calls[p] => {Registers(1), Registers(4)} \subseteq BootInstructions(p)
      /\ "drain" \in Calls[p] => Drain \in BootInstructions(p)
      /\ "edit" \in Calls[p] => Edit \in BootInstructions(p)
      /\ "pager" \in Calls[p] => SetPager \in BootInstructions(p)
  BY MakesInstructions, Ops, Rests DEF BootInstructions
<1>5. "io" \in Calls[p] => \A port \in Int : InOut(port) \in BootInstructions(p)
  BY MakesInstructions, Ops, Rests DEF BootInstructions
<1> QED
  BY <1>2, <1>3, <1>4, <1>5

LEMMA OwnMakes ==
    ASSUME NEW p \in DOMAIN Program
    PROVE  /\ \A d \in Threads \cup {Child}, m \in BootMails : Send(d, m) \in OwnInstructions(p)
           /\ \A s \in Threads \cup {Any} : Recv(s) \in OwnInstructions(p)
           /\ "irq" \in Calls[p] => {Registers(1), Registers(4)} \subseteq OwnInstructions(p)
           /\ "drain" \in Calls[p] => Drain \in OwnInstructions(p)
           /\ "edit" \in Calls[p] => Edit \in OwnInstructions(p)
           /\ "pager" \in Calls[p] => SetPager \in OwnInstructions(p)
           /\ "io" \in Calls[p] => \A port \in Int : InOut(port) \in OwnInstructions(p)
<1>1. Client \notin Threads \cup {Child}
  BY Numbers DEF Client, Child, Threads
<1>2. ASSUME NEW i \in BootInstructions(p), i.op \notin {"send", "ask", "map"}
      PROVE  i \in OwnInstructions(p)
  BY <1>2 DEF OwnInstructions, OfRequest
<1>3. \A d \in Threads \cup {Child}, m \in BootMails : Send(d, m) \in OwnInstructions(p)
  BY <1>1, BootMakes, Ops DEF OwnInstructions, OfRequest
<1>4. \A s \in Threads \cup {Any} : Recv(s) \in OwnInstructions(p)
  BY <1>2, BootMakes, Ops
<1>5. /\ "irq" \in Calls[p] => {Registers(1), Registers(4)} \subseteq OwnInstructions(p)
      /\ "drain" \in Calls[p] => Drain \in OwnInstructions(p)
      /\ "edit" \in Calls[p] => Edit \in OwnInstructions(p)
      /\ "pager" \in Calls[p] => SetPager \in OwnInstructions(p)
  BY <1>2, BootMakes, Ops
<1>6. "io" \in Calls[p] => \A port \in Int : InOut(port) \in OwnInstructions(p)
  BY <1>2, BootMakes, Ops
<1> QED
  BY <1>3, <1>4, <1>5, <1>6

LEMMA AllowedMakes ==
    ASSUME NEW p \in DOMAIN Program
    PROVE  /\ \A d \in Threads \cup {Child} : \A ms \in SUBSET Mails : Sends(d, ms) \in Allowed(p)
           /\ p \in Servers => \A ms \in SUBSET Mails : Sends(Client, ms) \in Allowed(p)
           /\ \A s \in Threads \cup {Any} : Recv(s) \in Allowed(p)
           /\ "grant" \in Calls[p] =>
                \A t \in Threads \cup {Child}, ep \in {CON_TID, BLK_TID, PM_TID, FS_TID, VGA_TID} :
                   GrantCap(t, ep) \in Allowed(p)
           /\ "grantio" \in Calls[p] =>
                {IoGrant(CON_TID, 1016, 8), IoGrant(BLK_TID, 496, 8), IoGrant(VGA_TID, 96, 8)}
                   \subseteq Allowed(p)
           /\ "local" \in Calls[p] => Local \in Allowed(p)
           /\ "io" \in Calls[p] => \A port \in Int : InOut(port) \in Allowed(p)
           /\ "exit" \in Calls[p] => Leave \in Allowed(p)
           /\ "ask" \in Calls[p] => Ask \in Allowed(p)
           /\ "edit" \in Calls[p] => Edit \in Allowed(p)
           /\ "map" \in Calls[p] => MapsPage \in Allowed(p)
<1>0. {"send", "recv"} \subseteq Calls[p] /\ Client \notin Threads \cup {Child}
  BY CallsOf, Numbers DEF Client, Child, Threads
<1>1. ASSUME NEW i \in Instructions, i.op \in Calls[p], i.orelse = "rest",
             i.op \notin {"spawn", "touch", "ask", "map", "send"}
      PROVE  i \in Allowed(p)
  BY <1>1, AllowedParts DEF OfRequest
<1>2. \A d \in Threads \cup {Child} : \A ms \in SUBSET Mails : Sends(d, ms) \in Allowed(p)
  <2> SUFFICES ASSUME NEW d \in Threads \cup {Child}, NEW ms \in SUBSET Mails
               PROVE  Sends(d, ms) \in Allowed(p)
    OBVIOUS
  <2>1. Sends(d, ms) \in Instructions
    <3>1. d \in Threads \cup {Client, Child}
      OBVIOUS
    <3> QED
      BY <3>1, MakesInstructions
  <2>2. Sends(d, ms).op = "send" /\ Sends(d, ms).arg = d /\ Sends(d, ms).orelse = "rest"
    BY Ops, Rests
  <2>3. d # Client
    BY Numbers DEF Threads, Child, Client
  <2> DEFINE i == Sends(d, ms)
  <2>4. i \in Instructions /\ i.op = "send" /\ i.orelse = "rest" /\ i.arg # Client
    BY <2>1, <2>2, <2>3
  <2> HIDE DEF i
  <2>5. ~OfRequest(i)
    BY <2>4 DEF OfRequest
  <2>6. i \in Allowed(p)
    BY <1>0, <2>4, <2>5, AllowedParts
  <2> QED
    BY <2>6 DEF i
<1>3. p \in Servers => \A ms \in SUBSET Mails : Sends(Client, ms) \in Allowed(p)
  <2> SUFFICES ASSUME p \in Servers, NEW ms \in SUBSET Mails PROVE Sends(Client, ms) \in Allowed(p)
    OBVIOUS
  <2>1. Sends(Client, ms) \in Instructions
    BY MakesInstructions
  <2>2. Sends(Client, ms).op = "send" /\ Sends(Client, ms).orelse = "rest"
    BY Ops, Rests
  <2> QED
    BY <1>0, <2>1, <2>2, AllowedParts
<1>4. \A s \in Threads \cup {Any} : Recv(s) \in Allowed(p)
  BY <1>0, <1>1, MakesInstructions, Ops, Rests
<1>5. "grant" \in Calls[p] =>
        \A t \in Threads \cup {Child}, ep \in {CON_TID, BLK_TID, PM_TID, FS_TID, VGA_TID} :
           GrantCap(t, ep) \in Allowed(p)
  BY <1>1, MakesInstructions, Ops, Rests
<1>6. "grantio" \in Calls[p] =>
        {IoGrant(CON_TID, 1016, 8), IoGrant(BLK_TID, 496, 8), IoGrant(VGA_TID, 96, 8)}
           \subseteq Allowed(p)
  BY <1>1, MakesInstructions, Ops, Rests
<1>7. /\ "local" \in Calls[p] => Local \in Allowed(p)
      /\ "exit" \in Calls[p] => Leave \in Allowed(p)
      /\ "edit" \in Calls[p] => Edit \in Allowed(p)
  BY <1>1, MakesInstructions, Ops, Rests
<1>8. "io" \in Calls[p] => \A port \in Int : InOut(port) \in Allowed(p)
  BY <1>1, MakesInstructions, Ops, Rests
<1>9. /\ "ask" \in Calls[p] => Ask \in Allowed(p)
      /\ "map" \in Calls[p] => MapsPage \in Allowed(p)
  <2>1. "ask" \in Calls[p] \/ "map" \in Calls[p] => p \in Servers
    BY CallsOf
  <2> QED
    BY <2>1, AllowedParts, MakesInstructions, Ops, Rests
<1> QED
  BY <1>2, <1>3, <1>4, <1>5, <1>6, <1>7, <1>8, <1>9

-----------------------------------------------------------------------------
(* The blocks, program by program.                                         *)
LEMMA CommonBlocks ==
    ASSUME NEW p \in DOMAIN Program
    PROVE  /\ Announces \in Asks(OwnInstructions(p))
           /\ Serves \in Block(OwnInstructions(p))
           /\ Prints \in Asks(OwnInstructions(p))
           /\ Answers("WRITE") \in Asks(BootInstructions(p))
           /\ p \in Servers =>
                \A re \in {"WRITE", "BREAD", "SPAWN", "FAULT", "OPEN", "FREAD", "CLOSE", "LIST"} :
                   Answers(re) \in Asks(Allowed(p))
           /\ \A d \in {CON_TID, BLK_TID, PM_TID, FS_TID, VGA_TID} :
                \A l \in {"WRITE", "READLINE", "BREAD", "SPAWN", "OPEN", "FREAD", "CLOSE", "LIST",
                         "VPUTS"} : Call(d, l) \in Asks(Allowed(p))
           /\ Prints \in Asks(Allowed(p)) /\ Announces \in Asks(Allowed(p))
<1>1. {Ready, Go, Request("WRITE"), Reply("WRITE", "ok")} \subseteq BootMails
  BY DEF BootMails
<1>2. Announces \in Asks(OwnInstructions(p))
  BY <1>1, OwnMakes, BlockTuples, Ops, Numbers DEF Announces
<1>3. Serves \in Block(OwnInstructions(p))
  BY OwnMakes, BlockTuples, Ops DEF Serves
<1>4. Prints \in Asks(OwnInstructions(p))
  BY <1>1, OwnMakes, BlockTuples, Ops, Numbers DEF Prints, Call
<1>5. Answers("WRITE") \in Asks(BootInstructions(p))
  BY <1>1, BootMakes, BlockTuples, Ops DEF Answers
<1>6. ASSUME p \in Servers,
             NEW re \in {"WRITE", "BREAD", "SPAWN", "FAULT", "OPEN", "FREAD", "CLOSE", "LIST"}
      PROVE  Answers(re) \in Asks(Allowed(p))
  <2>1. {Reply(re, "ok")} \in SUBSET Mails
    BY MailsSent
  <2>2. Send(Client, Reply(re, "ok")) \in Allowed(p)
    BY <1>6, <2>1, AllowedMakes DEF Send
  <2> QED
    BY <2>2, BlockTuples, Ops DEF Answers
<1>7. ASSUME NEW d \in {CON_TID, BLK_TID, PM_TID, FS_TID, VGA_TID},
             NEW l \in {"WRITE", "READLINE", "BREAD", "SPAWN", "OPEN", "FREAD", "CLOSE", "LIST",
                       "VPUTS"}
      PROVE  Call(d, l) \in Asks(Allowed(p))
  <2>1. {Request(l)} \in SUBSET Mails
    BY MailsSent
  <2>2. Send(d, Request(l)) \in Allowed(p) /\ Recv(d) \in Allowed(p)
    BY <2>1, AllowedMakes, Numbers DEF Send
  <2> QED
    BY <2>2, BlockTuples, Ops DEF Call
<1>8. Prints \in Asks(Allowed(p)) /\ Announces \in Asks(Allowed(p))
  <2>1. Prints \in Asks(Allowed(p))
    BY <1>7 DEF Prints
  <2>2. {Ready} \in SUBSET Mails
    BY MailsSent, <1>1
  <2>3. Send(Root, Ready) \in Allowed(p) /\ Recv(Root) \in Allowed(p)
    BY <2>2, AllowedMakes, Numbers DEF Send
  <2> QED
    BY <2>1, <2>3, BlockTuples, Ops DEF Announces
<1> QED
  BY <1>2, <1>3, <1>4, <1>5, <1>6, <1>7, <1>8

LEMMA ServerBlock ==
    ASSUME NEW p \in Servers, NEW b,
           "main" \in DOMAIN Program[p], "loop" \in DOMAIN Program[p], Program[p]["loop"] = Serves,
           \/ b \in OwnBlocks /\ Program[p][b] \in Block(OwnInstructions(p))
           \/ b = "WRITE" /\ Program[p][b] \in Block(BootInstructions(p))
           \/ b \notin BootBlocks /\ Program[p][b] \in Block(Allowed(p)),
           b # "loop" => Program[p][b][1].op # "recv"
    PROVE  BlockOK(p, b)
<1>1. OwnInstructions(p) \subseteq BootInstructions(p)
  BY DEF OwnInstructions
<1>2. BootInstructions(p) \subseteq Allowed(p)
  BY BootAllowed
<1>3. Program[p][b] \in Block(Allowed(p))
  BY <1>1, <1>2, BlockMore
<1>4. b \in BootBlocks => Program[p][b] \in Block(BootInstructions(p))
  BY <1>1, BlockMore DEF BootBlocks, OwnBlocks
<1>5. b \in OwnBlocks => Program[p][b] \in Block(OwnInstructions(p))
  BY DEF BootBlocks, OwnBlocks
<1> QED
  BY <1>3, <1>4, <1>5 DEF BlockOK

\* The blocks of a server, from what each class of them asks.
LEMMA ServerBlocks ==
    ASSUME NEW p \in Servers, NEW q, Program[p] = q,
           "main" \in DOMAIN q, "loop" \in DOMAIN q, q["loop"] = Serves, p \in DOMAIN Program,
           \A b \in DOMAIN q \cap {"main", "IRQ"} : q[b] \in Asks(OwnInstructions(p)),
           "WRITE" \in DOMAIN q => q["WRITE"] \in Asks(BootInstructions(p)),
           \A b \in DOMAIN q \ BootBlocks : q[b] \in Asks(Allowed(p))
    PROVE  \A b \in DOMAIN q : BlockOK(p, b)
<1> SUFFICES ASSUME NEW b \in DOMAIN q PROVE BlockOK(p, b)
  OBVIOUS
<1>1. CASE b = "loop"
  BY <1>1, CommonBlocks, ServerBlock DEF OwnBlocks
<1>2. CASE b \in {"main", "IRQ"}
  <2>1. q[b] \in Block(OwnInstructions(p)) /\ q[b][1].op # "recv"
    BY <1>2, AsksIsBlock
  <2> QED
    BY <1>2, <2>1, ServerBlock DEF OwnBlocks
<1>3. CASE b = "WRITE"
  <2>1. q[b] \in Block(BootInstructions(p)) /\ q[b][1].op # "recv"
    BY <1>3, AsksIsBlock
  <2> QED
    BY <1>3, <2>1, ServerBlock
<1>4. CASE b \notin BootBlocks
  <2>1. q[b] \in Block(Allowed(p)) /\ q[b][1].op # "recv"
    BY <1>4, AsksIsBlock
  <2> QED
    BY <1>4, <2>1, ServerBlock
<1> QED
  BY <1>1, <1>2, <1>3, <1>4 DEF BootBlocks

LEMMA consoleOK == \A b \in DOMAIN console : BlockOK("console", b)
<1> DEFINE B(b) == console[b]
<1>0. /\ "console" \in DOMAIN Program /\ "console" \in Servers
      /\ {"irq", "io", "drain", "ask", "edit"} \subseteq Calls["console"]
  BY Names DEF Servers, Calls
<1>1. B("main") \in Asks(OwnInstructions("console"))
  <2>1. B("main") = Announces \o <<Registers(4), InOut(1017), Drain>>
    BY DEF console
  <2>2. <<Registers(4), InOut(1017), Drain>> \in Block(OwnInstructions("console"))
    BY <1>0, OwnMakes, BlockTuples
  <2> QED
    BY <1>0, <2>1, <2>2, AsksCat, CommonBlocks
<1>2. B("loop") = Serves
  BY DEF console
<1>3. B("IRQ") \in Asks(OwnInstructions("console"))
  <2>1. B("IRQ") = <<Drain, Edit>>
    BY DEF console
  <2> QED
    BY <1>0, <2>1, OwnMakes, BlockTuples, Ops
<1>4. B("WRITE") \in Asks(BootInstructions("console"))
  <2>1. B("WRITE") = <<InOut(1016)>> \o Answers("WRITE")
    BY DEF console
  <2>2. <<InOut(1016)>> \in Asks(BootInstructions("console"))
    BY <1>0, BootMakes, BlockTuples, Ops
  <2> QED
    BY <1>0, <2>1, <2>2, AsksCat, AsksIsBlock, CommonBlocks
<1>5. B("READLINE") \in Asks(Allowed("console"))
  <2>1. B("READLINE") = <<Ask, Edit>>
    BY DEF console
  <2> QED
    BY <1>0, <2>1, AllowedMakes, BlockTuples, Ops DEF Servers
<1>8. /\ Program["console"] = console
      /\ DOMAIN console \cap {"main", "IRQ"} = {"main", "IRQ"}
      /\ DOMAIN console \ BootBlocks = {"READLINE"}
      /\ "main" \in DOMAIN console /\ "loop" \in DOMAIN console
  BY Names, Blocks DEF BootBlocks
<1> QED
  BY <1>0, <1>1, <1>2, <1>3, <1>4, <1>5, <1>8, ServerBlocks

LEMMA vgaOK == \A b \in DOMAIN vga : BlockOK("vga", b)
<1> DEFINE B(b) == vga[b]
<1>0. /\ "vga" \in DOMAIN Program /\ "vga" \in Servers
      /\ {"irq", "io", "drain", "ask", "edit"} \subseteq Calls["vga"]
  BY Names DEF Servers, Calls
<1>1. B("main") \in Asks(OwnInstructions("vga"))
  <2>1. B("main") = Announces \o <<Registers(1), InOut(96)>>
    BY DEF vga
  <2>2. <<Registers(1), InOut(96)>> \in Block(OwnInstructions("vga"))
    BY <1>0, OwnMakes, BlockTuples
  <2> QED
    BY <1>0, <2>1, <2>2, AsksCat, CommonBlocks
<1>2. B("loop") = Serves
  BY DEF vga
<1>3. B("IRQ") \in Asks(OwnInstructions("vga"))
  <2>1. B("IRQ") = <<InOut(96), Drain, Edit>>
    BY DEF vga
  <2> QED
    BY <1>0, <2>1, OwnMakes, BlockTuples, Ops
<1>4. B("WRITE") \in Asks(BootInstructions("vga"))
  BY <1>0, CommonBlocks DEF vga
<1>5. B("READLINE") \in Asks(Allowed("vga"))
  <2>1. B("READLINE") = <<Ask, Edit>>
    BY DEF vga
  <2> QED
    BY <1>0, <2>1, AllowedMakes, BlockTuples, Ops DEF Servers
<1>8. /\ Program["vga"] = vga
      /\ DOMAIN vga \cap {"main", "IRQ"} = {"main", "IRQ"}
      /\ DOMAIN vga \ BootBlocks = {"READLINE"}
      /\ "main" \in DOMAIN vga /\ "loop" \in DOMAIN vga
  BY Names, Blocks DEF BootBlocks
<1> QED
  BY <1>0, <1>1, <1>2, <1>3, <1>4, <1>5, <1>8, ServerBlocks

LEMMA blockOK == \A b \in DOMAIN block : BlockOK("block", b)
<1> DEFINE B(b) == block[b]
<1>0. /\ "block" \in DOMAIN Program /\ "block" \in Servers
      /\ "io" \in Calls["block"]
  BY Names DEF Servers, Calls
<1>1. B("main") \in Asks(OwnInstructions("block"))
  <2>1. B("main") = Announces \o Prints
    BY DEF block
  <2> QED
    BY <1>0, <2>1, AsksCat, AsksIsBlock, CommonBlocks
<1>2. B("loop") = Serves
  BY DEF block
<1>3. B("BREAD") \in Asks(Allowed("block"))
  <2>1. B("BREAD") = <<InOut(503)>> \o Answers("BREAD")
    BY DEF block
  <2>2. <<InOut(503)>> \in Asks(Allowed("block"))
    BY <1>0, AllowedMakes, BlockTuples, Ops
  <2>3. Answers("BREAD") \in Asks(Allowed("block"))
    BY <1>0, CommonBlocks DEF Servers
  <2> QED
    BY <2>1, <2>2, <2>3, AsksCat, AsksIsBlock
<1>8. /\ Program["block"] = block
      /\ DOMAIN block \cap {"main", "IRQ"} = {"main"}
      /\ DOMAIN block \ BootBlocks = {"BREAD"}
      /\ "main" \in DOMAIN block /\ "loop" \in DOMAIN block /\ "WRITE" \notin DOMAIN block
  BY Names, Blocks DEF BootBlocks
<1> QED
  BY <1>0, <1>1, <1>2, <1>3, <1>8, ServerBlocks

LEMMA vmOK == \A b \in DOMAIN vm : BlockOK("vm", b)
<1> DEFINE B(b) == vm[b]
           S == Allowed("vm")
<1>0. /\ "vm" \in DOMAIN Program /\ "vm" \in Servers
      /\ {"pager", "map"} \subseteq Calls["vm"]
  BY Names DEF Servers, Calls
<1>1. B("main") \in Asks(OwnInstructions("vm"))
  <2>1. B("main") = <<SetPager>> \o Announces \o Prints
    BY DEF vm
  <2>2. <<SetPager>> \in Asks(OwnInstructions("vm"))
    BY <1>0, OwnMakes, BlockTuples, Ops
  <2>3. <<SetPager>> \o Announces \in Asks(OwnInstructions("vm"))
    BY <1>0, <2>2, AsksCat, AsksIsBlock, CommonBlocks
  <2> QED
    BY <1>0, <2>1, <2>3, AsksCat, AsksIsBlock, CommonBlocks
<1>2. B("loop") = Serves
  BY DEF vm
<1>3. Prints \o Prints \in Asks(S)
  BY <1>0, AsksCat, AsksIsBlock, CommonBlocks
<1>4. B("heap") \in Asks(S)
  <2>1. B("heap") = Prints \o Prints \o vm_maps \o Answers("FAULT")
    BY DEF vm, vm_heap
  <2>2. vm_maps \in Block(S)
    BY <1>0, AllowedMakes, BlockTuples DEF vm_maps
  <2>3. Prints \o Prints \o vm_maps \in Asks(S)
    BY <1>3, <2>2, AsksCat
  <2> QED
    BY <2>1, <2>3, <1>0, AsksCat, AsksIsBlock, CommonBlocks
<1>5. B("wild") \in Asks(S)
  <2>1. B("wild") = Prints \o Prints \o <<Send(Client, Reply("FAULT", "kill"))>>
    BY DEF vm
  <2>2. {Reply("FAULT", "kill")} \in SUBSET Mails
    BY MailsSent
  <2>3. Send(Client, Reply("FAULT", "kill")) \in S
    BY <2>2, <1>0, AllowedMakes DEF Send
  <2>4. <<Send(Client, Reply("FAULT", "kill"))>> \in Block(S)
    BY <2>3, BlockTuples
  <2> QED
    BY <2>1, <2>4, <1>3, AsksCat
<1>8. /\ Program["vm"] = vm
      /\ DOMAIN vm \cap {"main", "IRQ"} = {"main"}
      /\ DOMAIN vm \ BootBlocks = {"heap", "wild"}
      /\ "main" \in DOMAIN vm /\ "loop" \in DOMAIN vm /\ "WRITE" \notin DOMAIN vm
  BY Names, Blocks DEF BootBlocks
<1> QED
  BY <1>0, <1>1, <1>2, <1>4, <1>5, <1>8, ServerBlocks

LEMMA fsOK == \A b \in DOMAIN fs : BlockOK("fs", b)
<1> DEFINE B(b) == fs[b]
           S == Allowed("fs")
<1>0. /\ "fs" \in DOMAIN Program /\ "fs" \in Servers
  BY Names DEF Servers
<1>1. B("main") \in Asks(OwnInstructions("fs"))
  <2>1. B("main") = Announces \o Prints
    BY DEF fs
  <2> QED
    BY <1>0, <2>1, AsksCat, AsksIsBlock, CommonBlocks
<1>2. B("loop") = Serves
  BY DEF fs
<1>3. BlkRead \in Asks(S)
  BY <1>0, CommonBlocks DEF BlkRead
<1>4. \A re \in {"FREAD", "CLOSE", "LIST"} : Answers(re) \in Asks(S)
  BY <1>0, CommonBlocks
<1>5. \A re \in {"FREAD", "LIST"} : BlkRead \o Answers(re) \in Asks(S)
  BY <1>3, <1>4, AsksCat, AsksIsBlock
<1>6. B("OPEN") \in Asks(S)
  <2>1. B("OPEN") = BlkRead \o <<Sends(Client, {Reply("OPEN", "ok"), Reply("OPEN", "fail")})>>
    BY DEF fs
  <2>2. {Reply("OPEN", "ok"), Reply("OPEN", "fail")} \in SUBSET Mails
    BY MailsSent
  <2>3. Sends(Client, {Reply("OPEN", "ok"), Reply("OPEN", "fail")}) \in S
    BY <2>2, <1>0, AllowedMakes
  <2>4. <<Sends(Client, {Reply("OPEN", "ok"), Reply("OPEN", "fail")})>> \in Block(S)
    BY <2>3, BlockTuples
  <2> QED
    BY <2>1, <2>4, <1>3, AsksCat
<1>7. B("FREAD") \in Asks(S) /\ B("LIST") \in Asks(S) /\ B("CLOSE") \in Asks(S)
  BY <1>4, <1>5 DEF fs
<1>8. /\ Program["fs"] = fs
      /\ DOMAIN fs \cap {"main", "IRQ"} = {"main"}
      /\ DOMAIN fs \ BootBlocks = {"OPEN", "FREAD", "CLOSE", "LIST"}
      /\ "main" \in DOMAIN fs /\ "loop" \in DOMAIN fs /\ "WRITE" \notin DOMAIN fs
  BY Names, Blocks DEF BootBlocks
<1> QED
  BY <1>0, <1>1, <1>2, <1>6, <1>7, <1>8, ServerBlocks

LEMMA pmOK == \A b \in DOMAIN pm : BlockOK("pm", b)
<1> DEFINE B(b) == pm[b]
           S == Allowed("pm")
<1>0. /\ "pm" \in DOMAIN Program /\ "pm" \in Servers
      /\ {"spawn", "grant"} \subseteq Calls["pm"]
  BY Names DEF Servers, Calls
<1>1. B("main") \in Asks(OwnInstructions("pm"))
  <2>1. B("main") = Announces \o Prints
    BY DEF pm
  <2> QED
    BY <1>0, <2>1, AsksCat, AsksIsBlock, CommonBlocks
<1>2. B("loop") = Serves
  BY DEF pm
<1>3. B("SPAWN") \in Asks(S)
  <2>1. B("SPAWN") = pm_spawn \o Answers("SPAWN")
    BY DEF pm
  <2> DEFINE spawning == OrElse(SpawnsOne(Asked), "FAILED")
  <2>2. spawning \in S /\ spawning.op # "recv"
    <3>1. spawning = Instruction("spawn", 0, Asked, "FAILED")
      BY DEF OrElse, SpawnsOne, Instruction
    <3>2. spawning.op = "spawn" /\ spawning.what = Asked /\ spawning.orelse = "FAILED"
      BY <3>1 DEF Instruction
    <3>3. Asked \in SUBSET {"hello", "rogue"} /\ Asked \in SUBSET (DOMAIN Program)
      BY SystemAssumption, Names
    <3>4. spawning \in Instructions
      <4>1. Instruction("spawn", 0, Asked, "FAILED")
               \in [op : {"spawn"}, arg : {0}, what : SUBSET (DOMAIN Program), orelse : Jumps]
        BY <3>3 DEF Instruction, Jumps
      <4> QED
        BY <3>1, <4>1 DEF Instructions
    <3>5. "FAILED" \in DOMAIN Program["pm"]
      BY Names, Blocks
    <3> HIDE DEF spawning
    <3> QED
      BY <3>2, <3>3, <3>4, <3>5, <1>0 DEF Allowed
  <2>3. {Go} \in SUBSET Mails
    BY MailsSent DEF BootMails
  <2>4. GrantCap(Child, CON_TID) \in S /\ Send(Child, Go) \in S
    BY <1>0, <2>3, AllowedMakes DEF Send
  <2>5. pm_spawn \in Asks(S)
    BY <2>2, <2>4, BlockTuples DEF pm_spawn
  <2>6. Answers("SPAWN") \in Block(S)
    BY <1>0, CommonBlocks, AsksIsBlock
  <2> QED
    BY <2>1, <2>5, <2>6, AsksCat
<1>4. B("FAILED") \in Asks(S)
  <2>1. B("FAILED") = <<Send(Client, Reply("SPAWN", "fail"))>>
    BY DEF pm
  <2>2. {Reply("SPAWN", "fail")} \in SUBSET Mails
    BY MailsSent
  <2>3. Send(Client, Reply("SPAWN", "fail")) \in S
    BY <2>2, <1>0, AllowedMakes DEF Send
  <2> QED
    BY <2>1, <2>3, BlockTuples, Ops
<1>8. /\ Program["pm"] = pm
      /\ DOMAIN pm \cap {"main", "IRQ"} = {"main"}
      /\ DOMAIN pm \ BootBlocks = {"SPAWN", "FAILED"}
      /\ "main" \in DOMAIN pm /\ "loop" \in DOMAIN pm /\ "WRITE" \notin DOMAIN pm
  BY Names, Blocks DEF BootBlocks
<1> QED
  BY <1>0, <1>1, <1>2, <1>3, <1>4, <1>8, ServerBlocks

LEMMA shellOK == \A p \in {"shell", "shell2"} : \A b \in DOMAIN shell : BlockOK(p, b)
<1> SUFFICES ASSUME NEW p \in {"shell", "shell2"} PROVE \A b \in DOMAIN shell : BlockOK(p, b)
  OBVIOUS
<1> DEFINE S == Allowed(p)
           B(b) == shell[b]
<1>0. Program[p] = shell /\ p \in DOMAIN Program \ Servers /\ Calls[p] = {"send", "recv", "exit"}
  BY Names DEF Servers, Calls
<1>1. \A x \in Asks(S), y \in Asks(S) : x \o y \in Asks(S)
  BY AsksCat, AsksIsBlock
<1>2. Prints \in Asks(S) /\ Announces \in Asks(S)
  BY <1>0, CommonBlocks
<1>3. Prints \o Prints \in Asks(S)
  BY <1>1, <1>2
<1>4. Prints \o Prints \o Prints \in Asks(S)
  BY <1>1, <1>2, <1>3
<1>5. B("main") \in Asks(S)
  <2> DEFINE probe == OrElse(Send(BLK_TID, Ready), "refused")
  <2>1. probe = Instruction("send", BLK_TID, {Ready}, "refused")
    BY DEF OrElse, Send, Sends, Instruction
  <2>2. "refused" \in DOMAIN Program[p] /\ BLK_TID \in Threads /\ BLK_TID # Client
    BY <1>0, Blocks, Numbers DEF BLK_TID, Client
  <2>3. {Ready} \in SUBSET Mails
    BY MailsSent DEF BootMails
  <2>4. probe \in Instructions /\ probe.op = "send"
    BY <2>1, <2>2, <2>3 DEF Instructions, Instruction, Jumps
  <2>5. probe \in S
    BY <2>1, <2>2, <2>4, <1>0 DEF Allowed, Instruction, OfRequest
  <2>6. B("main") = Announces \o <<probe>> \o Prints \o Prints
    BY DEF shell
  <2>7. <<probe>> \in Block(S)
    BY <2>5, BlockTuples
  <2> HIDE DEF probe
  <2>8. Announces \o <<probe>> \in Asks(S)
    BY <2>7, <1>2, AsksCat
  <2> QED
    BY <2>6, <2>8, <1>1, <1>2
<1>6. \A d \in {CON_TID, BLK_TID, PM_TID, FS_TID, VGA_TID} :
         \A l \in {"WRITE", "READLINE", "BREAD", "SPAWN", "OPEN", "FREAD", "CLOSE", "LIST", "VPUTS"} :
            Call(d, l) \in Asks(S)
  BY <1>0, CommonBlocks
<1>7. B("loop") \in Asks(S)
  BY <1>1, <1>2, <1>6 DEF shell
<1>8. B("show") \in Asks(S) /\ B("refused") \in Asks(S) /\ B("cat_none") \in Asks(S)
  BY <1>3, <1>4 DEF shell
<1>9. B("ls") \in Asks(S)
  BY <1>1, <1>2, <1>6 DEF shell
<1>10. B("vga") \in Asks(S)
  BY <1>1, <1>2, <1>6 DEF shell
<1>11. B("run") \in Asks(S)
  <2>1. B("run") = Call(PM_TID, "SPAWN") \o Prints \o Prints \o Prints
    BY DEF shell
  <2>2. Call(PM_TID, "SPAWN") \o Prints \in Asks(S)
    BY <1>1, <1>2, <1>6
  <2>3. Call(PM_TID, "SPAWN") \o Prints \o Prints \in Asks(S)
    BY <2>2, <1>1, <1>2
  <2> QED
    BY <2>1, <2>3, <1>1, <1>2
<1>12. B("exit") \in Asks(S)
  <2>1. B("exit") = Prints \o <<Leave>>
    BY DEF shell
  <2> QED
    BY <2>1, <1>0, <1>2, AllowedMakes, BlockTuples, AsksCat
<1>13. B("cat") \in Asks(S)
  <2> DEFINE opened == OrElse(Recv(FS_TID), "cat_none")
             asked == Send(FS_TID, Request("OPEN"))
             opens == <<asked, opened>>
  <2>1. opened = Instruction("recv", FS_TID, "none", "cat_none")
    BY DEF OrElse, Recv, Instruction
  <2>2. "cat_none" \in DOMAIN Program[p] /\ FS_TID \in Threads
    BY <1>0, Blocks, Numbers
  <2>3. opened \in Instructions
    BY <2>1, <2>2 DEF Instructions, Instruction, Jumps
  <2>4. opened \in S
    BY <2>1, <2>2, <2>3, <1>0 DEF Allowed, Instruction, OfRequest
  <2>5. {Request("OPEN")} \in SUBSET Mails
    BY MailsSent
  <2>6. asked \in S
    BY <1>0, <2>5, Numbers, AllowedMakes DEF Send
  <2>7. opens \in Asks(S)
    BY <2>4, <2>6, BlockTuples, Ops
  <2>8. B("cat") = opens \o Call(FS_TID, "FREAD") \o Prints \o Call(FS_TID, "CLOSE")
    BY DEF shell
  <2> HIDE DEF opens
  <2>9. opens \o Call(FS_TID, "FREAD") \in Asks(S)
    BY <2>7, <1>1, <1>6
  <2>10. opens \o Call(FS_TID, "FREAD") \o Prints \in Asks(S)
    BY <2>9, <1>1, <1>2
  <2> QED
    BY <2>8, <2>10, <1>1, <1>6
<1>14. \A b \in DOMAIN shell : B(b) \in Asks(S)
  BY <1>5, <1>7, <1>8, <1>9, <1>10, <1>11, <1>12, <1>13, Blocks
<1>15. "main" \in DOMAIN Program[p] /\ "loop" \in DOMAIN Program[p]
  BY <1>0, Blocks
<1> QED
  BY <1>0, <1>14, <1>15, AsksIsBlock DEF BlockOK

LEMMA LastOf ==
    ASSUME NEW S, NEW x \in Block(S), NEW a PROVE (x \o <<a>>)[Len(x \o <<a>>)] = a
BY DEF Block

LEMMA helloOK == \A b \in DOMAIN hello : BlockOK("hello", b)
<1> DEFINE S == Allowed("hello")
<1>0. /\ "hello" \in DOMAIN Program \ Servers /\ Program["hello"] = hello /\ DOMAIN hello = {"main"}
      /\ {"exit"} \subseteq Calls["hello"]
  BY Names, Blocks DEF Servers, Calls
<1>1. hello["main"] = <<Recv(PM_TID)>> \o Prints \o <<Leave>>
  BY DEF hello
<1>2. <<Recv(PM_TID)>> \in Block(S) /\ <<Leave>> \in Block(S) /\ Prints \in Block(S)
  BY <1>0, AllowedMakes, BlockTuples, Numbers, CommonBlocks, AsksIsBlock
<1>3. <<Recv(PM_TID)>> \o Prints \in Block(S)
  BY <1>2, BlockCat
<1>4. <<Recv(PM_TID)>> \o Prints \o <<Leave>> \in Block(S)
  BY <1>2, <1>3, BlockCat
<1>5. hello["main"][Len(hello["main"])] = Leave
  BY <1>1, <1>3, LastOf
<1>6. hello["main"] \in Block(S) /\ hello["main"][Len(hello["main"])].op = "exit"
  BY <1>1, <1>4, <1>5, Ops
<1> QED
  BY <1>0, <1>6 DEF BlockOK

LEMMA rogueOK == \A b \in DOMAIN rogue : BlockOK("rogue", b)
<1> DEFINE S == Allowed("rogue")
<1>0. /\ "rogue" \in DOMAIN Program \ Servers /\ Program["rogue"] = rogue /\ DOMAIN rogue = {"main"}
      /\ {"exit", "touch"} \subseteq Calls["rogue"]
  BY Names, Blocks DEF Servers, Calls
<1>1. rogue["main"] = Prints \o <<Touches("wild")>> \o Prints \o <<Leave>>
  BY DEF rogue
<1>7. Touches("wild") \in S
  BY <1>0, MakesInstructions, Ops, Rests DEF Allowed, OfRequest
<1>2. <<Touches("wild")>> \in Block(S) /\ <<Leave>> \in Block(S) /\ Prints \in Block(S)
  BY <1>0, <1>7, AllowedMakes, BlockTuples, Numbers, CommonBlocks, AsksIsBlock
<1>3. Prints \o <<Touches("wild")>> \in Block(S)
  BY <1>2, BlockCat
<1>4. Prints \o <<Touches("wild")>> \o Prints \in Block(S)
  BY <1>2, <1>3, BlockCat
<1>5. Prints \o <<Touches("wild")>> \o Prints \o <<Leave>> \in Block(S)
  BY <1>2, <1>4, BlockCat
<1>6. rogue["main"][Len(rogue["main"])] = Leave
  BY <1>1, <1>4, LastOf
<1>8. rogue["main"] \in Block(S) /\ rogue["main"][Len(rogue["main"])].op = "exit"
  BY <1>1, <1>5, <1>6, Ops
<1> QED
  BY <1>0, <1>8 DEF BlockOK

-----------------------------------------------------------------------------
(* The code of init: where it spawns, and what it sends before the last of *)
(* the servers is there.                                                   *)
InitQuiet ==
    {i \in Allowed("init") :
        /\ i.op \in {"send", "recv", "grant", "grantio", "local"}
        /\ i.orelse = "rest"
        /\ i.op = "send" => i.what \subseteq BootMails}

InitLate ==
    {i \in Allowed("init") :
        /\ i.orelse = "rest"
        /\ i.op = "spawn" => i.what \subseteq {"shell", "shell2"}
        /\ i.op = "touch" => i.what = "heap"}

InitPlace(i) ==
    CASE i = 1  -> {Spawns("console")}
      [] i = 7  -> {Spawns("block")}
      [] i = 12 -> {Spawns("vm")}
      [] i = 16 -> {Spawns("pm")}
      [] i = 20 -> {Spawns("fs")}
      [] i = 28 -> {Spawns("vga")}
      [] i > 28 -> InitLate
      [] OTHER  -> InitQuiet

\* The sequence s of length m, laid out after n instructions.
Lays(s, m, n) ==
    s \in Seq(Allowed("init")) /\ Len(s) = m /\ \A i \in 1 .. m : s[i] \in InitPlace(n + i)

LEMMA Cat ==
    ASSUME NEW S, NEW x \in Seq(S), NEW y \in Seq(S)
    PROVE  /\ x \o y \in Seq(S)
           /\ Len(x \o y) = Len(x) + Len(y)
           /\ \A i \in 1 .. Len(x) : (x \o y)[i] = x[i]
           /\ \A i \in Len(x) + 1 .. Len(x) + Len(y) : (x \o y)[i] = y[i - Len(x)]
OBVIOUS

LEMMA LaysCat ==
    ASSUME NEW m \in Nat, NEW k \in Nat, NEW n \in Nat, NEW x, NEW y,
           Lays(x, m, n), Lays(y, k, n + m)
    PROVE  Lays(x \o y, m + k, n)
<1> DEFINE S == Allowed("init")
<1>0. x \in Seq(S) /\ y \in Seq(S) /\ Len(x) = m /\ Len(y) = k
  BY DEF Lays
<1> HIDE DEF S
<1>1. x \o y \in Seq(S) /\ Len(x \o y) = m + k
  BY <1>0, Cat
<1>2. ASSUME NEW i \in 1 .. m PROVE (x \o y)[i] \in InitPlace(n + i)
  BY <1>0, Cat DEF Lays
<1>3. ASSUME NEW i \in m + 1 .. m + k PROVE (x \o y)[i] \in InitPlace(n + i)
  <2>1. (x \o y)[i] = y[i - m] /\ i - m \in 1 .. k
    BY <1>0, Cat
  <2>2. y[i - m] \in InitPlace((n + m) + (i - m))
    BY <2>1 DEF Lays
  <2>3. (n + m) + (i - m) = n + i
    OBVIOUS
  <2> QED
    BY <2>1, <2>2, <2>3
<1> QED
  BY <1>1, <1>2, <1>3 DEF Lays, S

LEMMA PlacesAllowed ==
    /\ InitQuiet \subseteq InitLate
    /\ {Spawns(p) : p \in DOMAIN Program} \subseteq Allowed("init")
<1>1. InitQuiet \subseteq InitLate
  BY DEF InitQuiet, InitLate
<1>2. ASSUME NEW p \in DOMAIN Program PROVE Spawns(p) \in Allowed("init")
  <2>1. Spawns(p) \in Instructions
    BY MakesInstructions DEF Spawns
  <2>2. Spawns(p).op = "spawn" /\ Spawns(p).orelse = "rest"
    BY DEF Spawns, SpawnsOne, Instruction
  <2>3. "spawn" \in Calls["init"]
    BY DEF Calls
  <2> QED
    BY <2>1, <2>2, <2>3 DEF Allowed, OfRequest
<1> QED
  BY <1>1, <1>2

LEMMA QuietMakes ==
    /\ \A d \in Threads \cup {Child}, m \in BootMails : Send(d, m) \in InitQuiet
    /\ \A s \in Threads \cup {Any} : Recv(s) \in InitQuiet
    /\ \A t \in Threads \cup {Child}, ep \in {CON_TID, BLK_TID, PM_TID, FS_TID, VGA_TID} :
          GrantCap(t, ep) \in InitQuiet
    /\ {IoGrant(CON_TID, 1016, 8), IoGrant(BLK_TID, 496, 8), IoGrant(VGA_TID, 96, 8), Local}
          \subseteq InitQuiet
<1>0. /\ "init" \in DOMAIN Program
      /\ {"send", "recv", "grant", "grantio", "local"} \subseteq Calls["init"]
  BY Names DEF Calls
<1>1. ASSUME NEW d \in Threads \cup {Child}, NEW m \in BootMails PROVE Send(d, m) \in InitQuiet
  <2>1. {m} \in SUBSET Mails
    BY MailsSent
  <2>2. Send(d, m) \in Allowed("init")
    BY <1>0, <2>1, AllowedMakes DEF Send
  <2> QED
    BY <2>2 DEF InitQuiet, Send, Sends, Instruction
<1>2. ASSUME NEW s \in Threads \cup {Any} PROVE Recv(s) \in InitQuiet
  <2>1. Recv(s) \in Allowed("init")
    BY <1>0, AllowedMakes
  <2> QED
    BY <2>1 DEF InitQuiet, Recv, Instruction
<1>3. ASSUME NEW t \in Threads \cup {Child}, NEW ep \in {CON_TID, BLK_TID, PM_TID, FS_TID, VGA_TID}
      PROVE  GrantCap(t, ep) \in InitQuiet
  <2>1. GrantCap(t, ep) \in Allowed("init")
    BY <1>0, AllowedMakes
  <2> QED
    BY <2>1 DEF InitQuiet, GrantCap, Instruction
<1>4. {IoGrant(CON_TID, 1016, 8), IoGrant(BLK_TID, 496, 8), IoGrant(VGA_TID, 96, 8), Local}
          \subseteq InitQuiet
  <2>1. \A t, b, l : IoGrant(t, b, l).op = "grantio" /\ IoGrant(t, b, l).orelse = "rest"
    BY DEF IoGrant, Instruction
  <2>2. Local.op = "local" /\ Local.orelse = "rest"
    BY DEF Local, Instruction
  <2> QED
    BY <1>0, <2>1, <2>2, AllowedMakes DEF InitQuiet
<1> QED
  BY <1>1, <1>2, <1>3, <1>4

LEMMA LaysOne ==
    ASSUME NEW n \in Nat, NEW a \in Allowed("init"), a \in InitPlace(n + 1)
    PROVE  Lays(<<a>>, 1, n)
BY DEF Lays

LEMMA LaysPlain ==
    ASSUME NEW n \in Nat, NEW m \in Nat, NEW s \in Seq(InitQuiet), Len(s) = m,
           \A i \in n + 1 .. n + m : i \notin {1, 7, 12, 16, 20, 28}
    PROVE  Lays(s, m, n)
<1>1. s \in Seq(Allowed("init"))
  BY DEF InitQuiet
<1>2. ASSUME NEW i \in 1 .. m PROVE s[i] \in InitPlace(n + i)
  <2>1. s[i] \in InitQuiet
    OBVIOUS
  <2>2. n + i \in n + 1 .. n + m
    OBVIOUS
  <2>3. n + i \notin {1, 7, 12, 16, 20, 28}
    BY <2>2
  <2> QED
    BY <2>1, <2>3, PlacesAllowed DEF InitPlace
<1> QED
  BY <1>1, <1>2 DEF Lays

LEMMA LaysStart ==
    ASSUME NEW n \in Nat, NEW m \in Nat, NEW p \in DOMAIN Program, NEW t \in Threads \cup {Child},
           NEW grants \in Seq(InitQuiet), Len(grants) = m,
           Spawns(p) \in InitPlace(n + 1),
           \A i \in n + 2 .. n + m + 3 : i \notin {1, 7, 12, 16, 20, 28}
    PROVE  Lays(Start(p, t, grants), m + 3, n)
<1>1. Lays(<<Spawns(p)>>, 1, n)
  BY PlacesAllowed, LaysOne
<1>2. Recv(Any) \in InitQuiet /\ Send(t, Go) \in InitQuiet
  BY QuietMakes DEF BootMails
<1> DEFINE rest == <<Recv(Any)>> \o grants \o <<Send(t, Go)>>
<1>3. rest \in Seq(InitQuiet) /\ Len(rest) = m + 2
  BY <1>2
<1>4. Start(p, t, grants) = <<Spawns(p)>> \o rest
  BY <1>2 DEF Start
<1> HIDE DEF rest
<1>5. \A i \in (n + 1) + 1 .. (n + 1) + (m + 2) : i \in n + 2 .. n + m + 3
  OBVIOUS
<1>6. n + 1 \in Nat /\ m + 2 \in Nat /\ 1 + (m + 2) = m + 3
  OBVIOUS
<1>7. Lays(rest, m + 2, n + 1)
  BY <1>3, <1>5, <1>6, LaysPlain
<1>8. Lays(<<Spawns(p)>> \o rest, 1 + (m + 2), n)
  BY <1>1, <1>6, <1>7, LaysCat
<1> QED
  BY <1>4, <1>6, <1>8

\* What is known of the code of init.
InitCode(s) ==
    /\ s \in Block(Allowed("init"))
    /\ Len(s) >= 28
    /\ \A i \in DOMAIN s : s[i] \in InitPlace(i)

LEMMA InitCodeCat ==
    ASSUME NEW s, InitCode(s), NEW u \in Block(InitLate) PROVE InitCode(s \o u)
<1> DEFINE S == Allowed("init")
<1>1. s \in Seq(S) /\ u \in Seq(S) /\ Len(u) > 0
  BY DEF InitCode, Block, InitLate
<1> HIDE DEF S
<1>2. s \o u \in Seq(S) /\ Len(s \o u) = Len(s) + Len(u) /\ Len(s) \in Nat /\ Len(u) \in Nat
  BY <1>1, Cat
<1>3. s \o u # << >>
  BY <1>1, <1>2
<1>4. ASSUME NEW i \in 1 .. Len(s) PROVE (s \o u)[i] \in InitPlace(i)
  <2>1. (s \o u)[i] = s[i] /\ i \in DOMAIN s
    BY <1>1, Cat
  <2> QED
    BY <2>1 DEF InitCode
<1>5. ASSUME NEW i \in Len(s) + 1 .. Len(s) + Len(u) PROVE (s \o u)[i] \in InitPlace(i)
  <2>1. (s \o u)[i] = u[i - Len(s)] /\ i - Len(s) \in 1 .. Len(u)
    BY <1>1, <1>2, Cat
  <2>2. u[i - Len(s)] \in InitLate
    BY <2>1 DEF Block
  <2>3. i > 28
    BY <1>2 DEF InitCode
  <2> QED
    BY <2>1, <2>2, <2>3 DEF InitPlace
<1>6. DOMAIN (s \o u) = 1 .. Len(s) + Len(u)
  BY <1>2
<1>7. \A i \in DOMAIN (s \o u) : (s \o u)[i] \in InitPlace(i)
  BY <1>2, <1>4, <1>5, <1>6
<1> QED
  BY <1>2, <1>3, <1>7 DEF InitCode, Block, S

LEMMA SpawnPlaces ==
    /\ Spawns("console") \in InitPlace(0 + 1) /\ Spawns("block") \in InitPlace(6 + 1)
    /\ Spawns("vm") \in InitPlace(11 + 1) /\ Spawns("pm") \in InitPlace(15 + 1)
    /\ Spawns("fs") \in InitPlace(19 + 1) /\ Spawns("vga") \in InitPlace(27 + 1)
BY DEF InitPlace

\* The part of init up to the start of the VGA terminal.
LEMMA InitBoots ==
    /\ Lays(Start("console", CON_TID, <<IoGrant(CON_TID, 1016, 8)>>), 1 + 3, 0)
    /\ Lays(Prints, 2, 4)
    /\ Lays(Start("block", BLK_TID, <<IoGrant(BLK_TID, 496, 8), GrantCap(BLK_TID, CON_TID)>>), 2 + 3, 6)
    /\ Lays(Start("vm", VM_TID, <<GrantCap(VM_TID, CON_TID)>>), 1 + 3, 11)
    /\ Lays(Start("pm", PM_TID, <<GrantCap(PM_TID, CON_TID)>>), 1 + 3, 15)
    /\ Lays(Start("fs", FS_TID, <<GrantCap(FS_TID, CON_TID), GrantCap(FS_TID, BLK_TID)>>), 2 + 3, 19)
    /\ Lays(Prints, 2, 24)
    /\ Lays(<<Local>>, 1, 26)
    /\ Lays(Start("vga", VGA_TID, <<IoGrant(VGA_TID, 96, 8)>>), 1 + 3, 27)
<1> DEFINE G(s, m) == s \in Seq(InitQuiet) /\ Len(s) = m
<1>1. \A a \in InitQuiet : G(<<a>>, 1)
  OBVIOUS
<1>2. \A a, b \in InitQuiet : G(<<a, b>>, 2)
  OBVIOUS
<1>3. /\ G(<<IoGrant(CON_TID, 1016, 8)>>, 1) /\ G(<<IoGrant(VGA_TID, 96, 8)>>, 1)
      /\ G(<<GrantCap(VM_TID, CON_TID)>>, 1) /\ G(<<GrantCap(PM_TID, CON_TID)>>, 1)
      /\ G(<<Local>>, 1)
  BY <1>1, QuietMakes, Numbers
<1>4. /\ G(<<IoGrant(BLK_TID, 496, 8), GrantCap(BLK_TID, CON_TID)>>, 2)
      /\ G(<<GrantCap(FS_TID, CON_TID), GrantCap(FS_TID, BLK_TID)>>, 2)
  BY <1>2, QuietMakes, Numbers
<1>5. G(Prints, 2)
  <2>1. Send(CON_TID, Request("WRITE")) \in InitQuiet /\ Recv(CON_TID) \in InitQuiet
    BY QuietMakes, Numbers DEF BootMails
  <2> QED
    BY <1>2, <2>1 DEF Prints, Call
<1> HIDE DEF G
<1>6. ASSUME NEW n \in Nat, NEW m \in Nat, NEW s, G(s, m),
             \A i \in n + 1 .. n + m : i \notin {1, 7, 12, 16, 20, 28}
      PROVE  Lays(s, m, n)
  BY <1>6, LaysPlain DEF G
<1>7. ASSUME NEW n \in Nat, NEW m \in Nat, NEW p \in DOMAIN Program, NEW t \in Threads,
             NEW grants, G(grants, m), Spawns(p) \in InitPlace(n + 1),
             \A i \in n + 2 .. n + m + 3 : i \notin {1, 7, 12, 16, 20, 28}
      PROVE  Lays(Start(p, t, grants), m + 3, n)
  BY <1>7, LaysStart DEF G
<1>8. {CON_TID, BLK_TID, VM_TID, PM_TID, FS_TID, VGA_TID} \subseteq Threads
  BY Numbers
<1>9. {"console", "block", "vm", "pm", "fs", "vga"} \subseteq DOMAIN Program
  BY Names
<1>10. Lays(Prints, 2, 4) /\ Lays(Prints, 2, 24) /\ Lays(<<Local>>, 1, 26)
  BY <1>3, <1>5, <1>6
<1>11. Lays(Start("console", CON_TID, <<IoGrant(CON_TID, 1016, 8)>>), 1 + 3, 0)
  <2>1. PICK grants : grants = <<IoGrant(CON_TID, 1016, 8)>> /\ G(grants, 1)
    BY <1>3
  <2>2. Spawns("console") \in InitPlace(0 + 1) /\ "console" \in DOMAIN Program /\ CON_TID \in Threads
    BY <1>8, <1>9, SpawnPlaces
  <2>3. \A i \in 0 + 2 .. 0 + 1 + 3 : i \notin {1, 7, 12, 16, 20, 28}
    OBVIOUS
  <2>4. Lays(Start("console", CON_TID, grants), 1 + 3, 0)
    BY <1>7, <2>1, <2>2, <2>3
  <2> QED
    BY <2>1, <2>4
<1>12. Lays(Start("block", BLK_TID, <<IoGrant(BLK_TID, 496, 8), GrantCap(BLK_TID, CON_TID)>>), 2 + 3, 6)
  <2>1. PICK grants : grants = <<IoGrant(BLK_TID, 496, 8), GrantCap(BLK_TID, CON_TID)>> /\ G(grants, 2)
    BY <1>4
  <2>2. Spawns("block") \in InitPlace(6 + 1) /\ "block" \in DOMAIN Program /\ BLK_TID \in Threads
    BY <1>8, <1>9, SpawnPlaces
  <2>3. \A i \in 6 + 2 .. 6 + 2 + 3 : i \notin {1, 7, 12, 16, 20, 28}
    OBVIOUS
  <2>4. Lays(Start("block", BLK_TID, grants), 2 + 3, 6)
    BY <1>7, <2>1, <2>2, <2>3
  <2> QED
    BY <2>1, <2>4
<1>13. Lays(Start("vm", VM_TID, <<GrantCap(VM_TID, CON_TID)>>), 1 + 3, 11)
  <2>1. PICK grants : grants = <<GrantCap(VM_TID, CON_TID)>> /\ G(grants, 1)
    BY <1>3
  <2>2. Spawns("vm") \in InitPlace(11 + 1) /\ "vm" \in DOMAIN Program /\ VM_TID \in Threads
    BY <1>8, <1>9, SpawnPlaces
  <2>3. \A i \in 11 + 2 .. 11 + 1 + 3 : i \notin {1, 7, 12, 16, 20, 28}
    OBVIOUS
  <2>4. Lays(Start("vm", VM_TID, grants), 1 + 3, 11)
    BY <1>7, <2>1, <2>2, <2>3
  <2> QED
    BY <2>1, <2>4
<1>14. Lays(Start("pm", PM_TID, <<GrantCap(PM_TID, CON_TID)>>), 1 + 3, 15)
  <2>1. PICK grants : grants = <<GrantCap(PM_TID, CON_TID)>> /\ G(grants, 1)
    BY <1>3
  <2>2. Spawns("pm") \in InitPlace(15 + 1) /\ "pm" \in DOMAIN Program /\ PM_TID \in Threads
    BY <1>8, <1>9, SpawnPlaces
  <2>3. \A i \in 15 + 2 .. 15 + 1 + 3 : i \notin {1, 7, 12, 16, 20, 28}
    OBVIOUS
  <2>4. Lays(Start("pm", PM_TID, grants), 1 + 3, 15)
    BY <1>7, <2>1, <2>2, <2>3
  <2> QED
    BY <2>1, <2>4
<1>15. Lays(Start("fs", FS_TID, <<GrantCap(FS_TID, CON_TID), GrantCap(FS_TID, BLK_TID)>>), 2 + 3, 19)
  <2>1. PICK grants : grants = <<GrantCap(FS_TID, CON_TID), GrantCap(FS_TID, BLK_TID)>> /\ G(grants, 2)
    BY <1>4
  <2>2. Spawns("fs") \in InitPlace(19 + 1) /\ "fs" \in DOMAIN Program /\ FS_TID \in Threads
    BY <1>8, <1>9, SpawnPlaces
  <2>3. \A i \in 19 + 2 .. 19 + 2 + 3 : i \notin {1, 7, 12, 16, 20, 28}
    OBVIOUS
  <2>4. Lays(Start("fs", FS_TID, grants), 2 + 3, 19)
    BY <1>7, <2>1, <2>2, <2>3
  <2> QED
    BY <2>1, <2>4
<1>16. Lays(Start("vga", VGA_TID, <<IoGrant(VGA_TID, 96, 8)>>), 1 + 3, 27)
  <2>1. PICK grants : grants = <<IoGrant(VGA_TID, 96, 8)>> /\ G(grants, 1)
    BY <1>3
  <2>2. Spawns("vga") \in InitPlace(27 + 1) /\ "vga" \in DOMAIN Program /\ VGA_TID \in Threads
    BY <1>8, <1>9, SpawnPlaces
  <2>3. \A i \in 27 + 2 .. 27 + 1 + 3 : i \notin {1, 7, 12, 16, 20, 28}
    OBVIOUS
  <2>4. Lays(Start("vga", VGA_TID, grants), 1 + 3, 27)
    BY <1>7, <2>1, <2>2, <2>3
  <2> QED
    BY <2>1, <2>4
<1> QED
  BY <1>10, <1>11, <1>12, <1>13, <1>14, <1>15, <1>16

LEMMA InitBootsInOrder ==
    ASSUME NEW c, Lays(c, 1 + 3, 0), NEW w, Lays(w, 2, 4), Lays(w, 2, 24), NEW b, Lays(b, 2 + 3, 6),
           NEW v, Lays(v, 1 + 3, 11), NEW p, Lays(p, 1 + 3, 15), NEW f, Lays(f, 2 + 3, 19),
           NEW l, Lays(l, 1, 26), NEW g, Lays(g, 1 + 3, 27)
    PROVE  InitCode(c \o w \o b \o (v \o p) \o f \o w \o l \o g)
<1>1. Lays(c \o w, 6, 0)
  BY LaysCat
<1>2. Lays(c \o w \o b, 11, 0)
  BY <1>1, LaysCat
<1>3. Lays(v \o p, 8, 11)
  BY LaysCat
<1>4. Lays(c \o w \o b \o (v \o p), 19, 0)
  BY <1>2, <1>3, LaysCat
<1>5. Lays(c \o w \o b \o (v \o p) \o f, 24, 0)
  BY <1>4, LaysCat
<1>6. Lays(c \o w \o b \o (v \o p) \o f \o w, 26, 0)
  BY <1>5, LaysCat
<1>7. Lays(c \o w \o b \o (v \o p) \o f \o w \o l, 27, 0)
  BY <1>6, LaysCat
<1>8. Lays(c \o w \o b \o (v \o p) \o f \o w \o l \o g, 31, 0)
  BY <1>7, LaysCat
<1> DEFINE s == c \o w \o b \o (v \o p) \o f \o w \o l \o g
<1>9. Lays(s, 31, 0)
  BY <1>8
<1> HIDE DEF s
<1>10. InitCode(s)
  <2>1. s \in Seq(Allowed("init")) /\ Len(s) = 31 /\ \A i \in 1 .. 31 : s[i] \in InitPlace(0 + i)
    BY <1>9 DEF Lays
  <2>2. \A i \in 1 .. 31 : 0 + i = i
    OBVIOUS
  <2>3. DOMAIN s = 1 .. 31
    BY <2>1
  <2>4. s # << >>
    <3>1. Len(s) = 31
      BY <2>1
    <3> QED
      BY <3>1
  <2>5. \A i \in DOMAIN s : s[i] \in InitPlace(i)
    BY <2>1, <2>2, <2>3
  <2> QED
    BY <2>1, <2>4, <2>5 DEF InitCode, Block
<1> QED
  BY <1>10 DEF s

LEMMA LateMakes ==
    /\ Prints \in Block(InitLate)
    /\ <<Touches("heap")>> \in Block(InitLate)
    /\ \A p \in {"shell", "shell2"} : \A grants \in Block(InitQuiet) :
          Start(p, Child, grants) \in Block(InitLate)
    /\ <<Recv(Any), Leave>> \in Block(InitLate)
<1>0. /\ "init" \in DOMAIN Program \ Servers
      /\ {"spawn", "touch", "exit"} \subseteq Calls["init"]
  BY Names DEF Calls, Servers
<1>1. Prints \in Block(InitLate)
  <2>1. Send(CON_TID, Request("WRITE")) \in InitLate /\ Recv(CON_TID) \in InitLate
    BY QuietMakes, PlacesAllowed, Numbers DEF BootMails
  <2> QED
    BY <2>1, BlockTuples DEF Prints, Call
<1>2. <<Touches("heap")>> \in Block(InitLate)
  <2>1. Touches("heap") \in Allowed("init")
    BY <1>0, MakesInstructions, Ops, Rests DEF Allowed, OfRequest
  <2>2. Touches("heap") \in InitLate
    BY <2>1 DEF InitLate, Touches, Instruction
  <2> QED
    BY <2>2, BlockTuples
<1>3. ASSUME NEW p \in {"shell", "shell2"}, NEW grants \in Block(InitQuiet)
      PROVE  Start(p, Child, grants) \in Block(InitLate)
  <2>1. Spawns(p) \in Allowed("init")
    BY Names, PlacesAllowed
  <2>2. Spawns(p) \in InitLate
    BY <2>1 DEF InitLate, Spawns, SpawnsOne, Instruction
  <2>3. Recv(Any) \in InitLate /\ Send(Child, Go) \in InitLate
    BY QuietMakes, PlacesAllowed DEF BootMails
  <2>4. <<Spawns(p), Recv(Any)>> \in Block(InitLate) /\ <<Send(Child, Go)>> \in Block(InitLate)
    BY <2>2, <2>3, BlockTuples
  <2>5. grants \in Block(InitLate)
    BY BlockMore, PlacesAllowed
  <2>6. <<Spawns(p), Recv(Any)>> \o grants \in Block(InitLate)
    BY <2>4, <2>5, BlockCat
  <2> QED
    BY <2>4, <2>6, BlockCat DEF Start
<1>4. <<Recv(Any), Leave>> \in Block(InitLate)
  <2>1. Recv(Any) \in InitLate
    BY QuietMakes, PlacesAllowed
  <2>2. Leave \in Allowed("init")
    BY <1>0, AllowedMakes
  <2>3. Leave \in InitLate
    BY <2>2 DEF InitLate, Leave, Instruction
  <2> QED
    BY <2>1, <2>3, BlockTuples
<1> QED
  BY <1>1, <1>2, <1>3, <1>4

LEMMA LastOfTwo ==
    ASSUME NEW S, NEW x \in Block(S), NEW a, NEW b
    PROVE  (x \o <<a, b>>)[Len(x \o <<a, b>>)] = b
BY DEF Block

\* init boots the servers in the order of their numbers, and ends.
LEMMA initOK == InitCode(init_main) /\ init_main[Len(init_main)].op = "exit"
<1> DEFINE i8 == Start("console", CON_TID, <<IoGrant(CON_TID, 1016, 8)>>) \o Prints
                 \o Start("block", BLK_TID, <<IoGrant(BLK_TID, 496, 8), GrantCap(BLK_TID, CON_TID)>>)
                 \o (Start("vm", VM_TID, <<GrantCap(VM_TID, CON_TID)>>)
                     \o Start("pm", PM_TID, <<GrantCap(PM_TID, CON_TID)>>))
                 \o Start("fs", FS_TID, <<GrantCap(FS_TID, CON_TID), GrantCap(FS_TID, BLK_TID)>>)
                 \o Prints \o <<Local>>
                 \o Start("vga", VGA_TID, <<IoGrant(VGA_TID, 96, 8)>>)
           grants == <<GrantCap(Child, CON_TID), GrantCap(Child, FS_TID), GrantCap(Child, PM_TID)>>
           grants2 == <<GrantCap(Child, VGA_TID), GrantCap(Child, FS_TID), GrantCap(Child, PM_TID)>>
           s1 == Start("shell", Child, grants)
           s2 == Start("shell2", Child, grants2)
           ends == <<Recv(Any), Leave>>
<1>1. InitCode(i8)
  BY InitBoots, InitBootsInOrder
<1>2. s1 \in Block(InitLate) /\ s2 \in Block(InitLate)
  <2>1. grants \in Block(InitQuiet) /\ grants2 \in Block(InitQuiet)
    BY QuietMakes, BlockTuples
  <2> QED
    BY <2>1, LateMakes
<1>3. init_main = i8 \o Prints \o <<Touches("heap")>> \o Prints \o s1 \o s2 \o Prints \o ends
  BY DEF init_main, init_vm_pm
<1> HIDE DEF i8, s1, s2
<1>4. InitCode(i8 \o Prints)
  BY <1>1, LateMakes, InitCodeCat
<1>5. InitCode(i8 \o Prints \o <<Touches("heap")>>)
  BY <1>4, LateMakes, InitCodeCat
<1>6. InitCode(i8 \o Prints \o <<Touches("heap")>> \o Prints)
  BY <1>5, LateMakes, InitCodeCat
<1>7. InitCode(i8 \o Prints \o <<Touches("heap")>> \o Prints \o s1)
  BY <1>2, <1>6, InitCodeCat
<1>8. InitCode(i8 \o Prints \o <<Touches("heap")>> \o Prints \o s1 \o s2)
  BY <1>2, <1>7, InitCodeCat
<1> DEFINE all == i8 \o Prints \o <<Touches("heap")>> \o Prints \o s1 \o s2 \o Prints
<1>9. InitCode(all)
  BY <1>8, LateMakes, InitCodeCat
<1>10. init_main = all \o ends
  BY <1>3
<1> HIDE DEF all
<1>11. InitCode(all \o ends)
  BY <1>9, LateMakes, InitCodeCat
<1>12. (all \o ends)[Len(all \o ends)] = Leave
  BY <1>9, LastOfTwo DEF InitCode
<1> QED
  BY <1>10, <1>11, <1>12, Ops

\* All the code.
LEMMA CodeTable == \A p \in DOMAIN Program : \A b \in DOMAIN Program[p] : BlockOK(p, b)
<1>1. \A b \in DOMAIN Program["init"] : BlockOK("init", b)
  <2>1. Program["init"] = init /\ DOMAIN init = {"main"} /\ "init" \notin Servers
    BY Names, Blocks DEF Servers
  <2>2. init["main"] = init_main
    BY DEF init
  <2> QED
    BY <2>1, <2>2, initOK DEF BlockOK, InitCode
<1>2. \A p \in DOMAIN Program :
        p \in {"init", "console", "block", "vm", "pm", "fs", "vga", "shell", "shell2", "hello", "rogue"}
  BY Names
<1> QED
  BY <1>1, <1>2, consoleOK, blockOK, vmOK, pmOK, fsOK, vgaOK, shellOK, helloOK, rogueOK, Names

-----------------------------------------------------------------------------
(* What the kernel paths do to threads and messages, as the programs see   *)
(* it: only creation and exit change which threads there are.              *)
Stays == \A u \in Threads : tstate'[u] \in Free <=> tstate[u] \in Free

Carries(ms) == \A u \in Threads : ipc_buf'[u] \in {ipc_buf[u], NoMsg} \cup ms

Mailbox == [Threads -> Message \cup {NoMsg}]

LEMMA ScheduleStays ==
    ASSUME SchedTypeOK, NEW t \in Threads, tstate[t] = "RUNNING",
           Schedule([tstate EXCEPT ![t] = "BLOCKED"])
    PROVE  Stays
<1>1. PICK n \in Threads \cup {Idle} :
        /\ PicksNext([tstate EXCEPT ![t] = "BLOCKED"], current, n)
        /\ tstate' = Switch([tstate EXCEPT ![t] = "BLOCKED"], n)
  BY DEF Schedule
<1> DEFINE ts == [tstate EXCEPT ![t] = "BLOCKED"]
<1>2. \A u \in Threads : ts[u] \in Free <=> tstate[u] \in Free
  BY DEF SchedTypeOK, Free
<1>3. n \in Threads => ts[n] = "RUNNABLE"
  BY <1>1 DEF PicksNext, Runnable, Idle, Threads
<1> HIDE DEF ts
<1>4. \A u \in Threads : tstate'[u] \in Free <=> ts[u] \in Free
  BY <1>1, <1>3 DEF Switch, ts, Free
<1> QED
  BY <1>2, <1>4 DEF Stays

LEMMA TickStays == ASSUME SchedTypeOK, Schedule(tstate) PROVE Stays
<1>1. PICK n \in Threads \cup {Idle} :
        PicksNext(tstate, current, n) /\ tstate' = Switch(tstate, n)
  BY DEF Schedule
<1>2. n \in Threads => tstate[n] = "RUNNABLE"
  BY <1>1 DEF PicksNext, Runnable, Idle, Threads
<1> QED
  BY <1>1, <1>2 DEF Switch, Free, Stays

LEMMA WokenStays == ASSUME SchedTypeOK, NEW d, tstate' = Woken(tstate, d) PROVE Stays
BY DEF SchedTypeOK, Woken, Free, Stays

LEMMA SameStays == ASSUME UNCHANGED tstate PROVE Stays
BY DEF Stays

\* A call of t that blocks in k, or is over with a result of the kind given.
Passes(t, k, ms) ==
    /\ Stays
    /\ Carries(ms)
    /\ \A u \in Threads \ {t} : resume'[u] = resume[u]
    /\ \/ /\ ret'.tid = t /\ resume'[t] = "none"
          /\ ret'.rax \in Threads \cup {-1, Irq}
          /\ ret'.msg \in {NoMsg} \cup {ipc_buf[u] : u \in Threads}
       \/ ret'.tid \notin Threads /\ resume'[t] = k

LEMMA SendPasses ==
    ASSUME CpuOK, CallsOK, ipc_buf \in Mailbox, NEW t \in Threads, NEW d, NEW m,
           SysSendDenied(t, d) \/ SysSend(t, d, m)
    PROVE  Passes(t, "send", {m})
<1> USE DEF CallsOK, Mailbox
<1>1. CASE SysSendDenied(t, d)
  <2>1. Stays /\ Carries({m})
    BY <1>1, SameStays DEF SysSendDenied, schedVars, ipcVars, Carries
  <2> QED
    BY <1>1, <2>1 DEF SysSendDenied, Return, Gives, Passes
<1>2. CASE SysSend(t, d, m)
  <2>0. SchedTypeOK /\ InUser(t)
    BY <1>2 DEF CpuOK, SysSend, Does
  <2>1. CASE SendFails(t, d)
    <3>1. Stays /\ Carries({m})
      BY <2>1, SameStays DEF SendFails, schedVars, ipcVars, Carries
    <3> QED
      BY <2>1, <3>1 DEF SendFails, Return, Gives, Passes
  <2>2. CASE SendDelivers(t, d, m)
    <3>1. Stays
      BY <2>0, <2>2, WokenStays DEF SendDelivers, Deliver
    <3>2. Carries({m})
      BY <2>2 DEF SendDelivers, Deliver, Carries
    <3>3. 0 \in Threads
      BY Numbers DEF Root
    <3> QED
      BY <2>2, <3>1, <3>2, <3>3 DEF SendDelivers, Return, Gives, Passes
  <2>3. CASE SendBlocks(t, d, m)
    <3>1. Stays
      BY <2>0, <2>3, ScheduleStays DEF SendBlocks, Stage, InUser
    <3>2. Carries({m})
      BY <2>3 DEF SendBlocks, Stage, Carries
    <3>3. Any \notin Threads
      BY NAssumption DEF Any, Threads
    <3> QED
      BY <2>3, <3>1, <3>2, <3>3 DEF SendBlocks, BlocksIn, NoResult, Passes
  <2> QED
    BY <1>2, <2>1, <2>2, <2>3 DEF SysSend
<1> QED
  BY <1>1, <1>2

\* A receive that is over got a message or a notification.
LEMMA RecvPasses ==
    ASSUME CpuOK, CallsOK, ipc_buf \in Mailbox, NEW t \in Threads, NEW src, SysRecv(t, src)
    PROVE  Passes(t, "recv", {})
<1> USE DEF CallsOK, Mailbox
<1>0. SchedTypeOK /\ InUser(t)
  BY DEF CpuOK, SysRecv, Does
<1>1. CASE RecvTakesIrq(t)
  <2>1. Stays /\ Carries({})
    BY <1>1, SameStays DEF RecvTakesIrq, TakeIrq, schedVars, Carries
  <2> QED
    BY <1>1, <2>1 DEF RecvTakesIrq, Return, Gives, Passes
<1>2. ASSUME NEW s \in Threads, RecvTakesSender(t, s, src) PROVE Passes(t, "recv", {})
  <2>1. Stays
    BY <1>0, <1>2, WokenStays DEF RecvTakesSender, TakeSender
  <2>2. Carries({})
    BY <1>2 DEF RecvTakesSender, TakeSender, Carries
  <2> QED
    BY <1>2, <2>1, <2>2 DEF RecvTakesSender, Return, Gives, Passes
<1>3. CASE RecvBlocks(t, src)
  <2>1. Stays
    BY <1>0, <1>3, ScheduleStays DEF RecvBlocks, Await, InUser
  <2>2. Carries({})
    BY <1>3 DEF RecvBlocks, Await, Carries
  <2>3. Any \notin Threads
    BY NAssumption DEF Any, Threads
  <2> QED
    BY <1>3, <2>1, <2>2, <2>3 DEF RecvBlocks, BlocksIn, NoResult, Passes
<1> QED
  BY <1>1, <1>2, <1>3 DEF SysRecv

LEMMA ReturnPasses ==
    ASSUME CallsOK, ipc_buf \in Mailbox, ipc_from \in [Threads -> Threads \cup {Any}],
           NEW t \in Threads, SysSendReturns(t) \/ SysRecvReturns(t)
    PROVE  Passes(t, "none", {}) /\ ret'.tid = t
<1> USE DEF CallsOK, Mailbox
<1>1. CASE SysSendReturns(t)
  <2>1. Stays /\ Carries({})
    BY <1>1, SameStays DEF SysSendReturns, SendReturns, SendDone, CallOver, schedVars, Carries
  <2>2. 0 \in Threads
    BY Numbers DEF Root
  <2> QED
    BY <1>1, <2>1, <2>2 DEF SysSendReturns, SendReturns, Return, Gives, Passes
<1>2. CASE RecvReturnsIrq(t)
  <2>1. Stays /\ Carries({})
    BY <1>2, SameStays DEF RecvReturnsIrq, AwokenByIrq, CallOver, schedVars, Carries
  <2> QED
    BY <1>2, <2>1 DEF RecvReturnsIrq, Return, Gives, Passes
<1>3. CASE RecvReturns(t)
  <2>1. Stays /\ Carries({})
    BY <1>3, SameStays DEF RecvReturns, Delivered, CallOver, schedVars, Carries
  <2> QED
    BY <1>3, <2>1 DEF RecvReturns, Return, Gives, Passes, Any
<1> QED
  BY <1>1, <1>2, <1>3 DEF SysRecvReturns

LEMMA LocalPasses ==
    ASSUME NEW t, \/ SysLocal(t) \/ SysSetPager(t)
                  \/ \E irq : SysIrqRegister(t, irq)
                  \/ \E d, ep : SysGrantCap(t, d, ep)
                  \/ \E d, base, len : SysGrantIo(t, d, base, len)
    PROVE  UNCHANGED <<tstate, ipc_buf, resume>>
BY DEF SysLocal, SysSetPager, SysIrqRegister, SysGrantCap, SysGrantIo, NoCall, schedVars, ipcVars

FaultKinds == {"fault", "fault_send", "fault_recv", "kill", "panic"}

\* A step of the page fault of t: it is over, or goes on.
LEMMA FaultPasses ==
    ASSUME CpuOK, CallsOK, ipc_buf \in Mailbox, NEW t \in Threads,
           PageFault(t) \/ FaultSent(t) \/ FaultReceives(t) \/ FaultAnswered(t)
    PROVE  /\ Stays /\ Carries({FaultMsg})
           /\ \A u \in Threads \ {t} : resume'[u] = resume[u]
           /\ resume'[t] \in {"none"} \cup FaultKinds
           /\ resume[t] \in FaultKinds \/ PageFault(t)
<1> USE DEF CallsOK, Mailbox, FaultKinds
<1> DEFINE Goal ==
        /\ Stays /\ Carries({FaultMsg})
        /\ \A u \in Threads \ {t} : resume'[u] = resume[u]
        /\ resume'[t] \in {"none"} \cup FaultKinds
        /\ resume[t] \in FaultKinds \/ PageFault(t)
<1>0. SchedTypeOK
  BY DEF CpuOK
<1>1. CASE FaultPanics(t)
  <2>1. Stays /\ Carries({FaultMsg})
    BY <1>1, SameStays DEF FaultPanics, schedVars, ipcVars, Carries
  <2> QED
    BY <1>1, <2>1 DEF FaultPanics, PageFault
<1>2. CASE FaultSends(t)
  <2>0. InUser(t) /\ PageFault(t)
    BY <1>2 DEF FaultSends, Does, PageFault
  <2>1. CASE UNCHANGED <<schedVars, ipcVars>> /\ Gives(t, -1, NoMsg, "fault")
    <3>1. Stays /\ Carries({FaultMsg})
      BY <2>1, SameStays DEF schedVars, ipcVars, Carries
    <3> QED
      BY <2>0, <2>1, <3>1 DEF Gives
  <2>2. CASE Deliver(t, g_pager_tid, FaultMsg) /\ Gives(t, 0, NoMsg, "fault")
    <3>1. Stays
      BY <1>0, <2>2, WokenStays DEF Deliver
    <3>2. Carries({FaultMsg})
      BY <2>2 DEF Deliver, Carries
    <3> QED
      BY <2>0, <2>2, <3>1, <3>2 DEF Gives
  <2>3. CASE Stage(t, g_pager_tid, FaultMsg) /\ BlocksIn(t, "fault_send")
    <3>1. Stays
      BY <1>0, <2>0, <2>3, ScheduleStays DEF Stage, InUser
    <3>2. Carries({FaultMsg})
      BY <2>3 DEF Stage, Carries
    <3> QED
      BY <2>0, <2>3, <3>1, <3>2 DEF BlocksIn
  <2> QED
    BY <1>2, <2>1, <2>2, <2>3 DEF FaultSends
<1>3. CASE FaultSent(t)
  <2>1. Stays /\ Carries({FaultMsg})
    BY <1>3, SameStays DEF FaultSent, SendDone, CallOver, schedVars, Carries
  <2> QED
    BY <1>3, <2>1 DEF FaultSent, Gives, Resumed
<1>4. CASE FaultReceives(t)
  <2>0. resume[t] \in FaultKinds /\ current = t /\ tstate[t] = "RUNNING"
    BY <1>4 DEF FaultReceives, Resumed, CpuOK, CpuLive, SchedTypeOK, Idle, Threads
  <2>1. CASE TakeIrq(t) /\ \E k \in {"none", "kill"} : Gives(t, Irq, NoMsg, k)
    <3>1. Stays /\ Carries({FaultMsg})
      BY <2>1, SameStays DEF TakeIrq, schedVars, Carries
    <3> QED
      BY <2>0, <2>1, <3>1 DEF Gives
  <2>2. ASSUME NEW s \in Threads, TakeSender(t, s, g_pager_tid),
               Gives(t, s, ipc_buf[s], Verdict(ipc_buf[s]))
        PROVE  Goal
    <3>1. Stays
      BY <1>0, <2>2, WokenStays DEF TakeSender
    <3>2. Carries({FaultMsg})
      BY <2>2 DEF TakeSender, Carries
    <3> QED
      BY <2>0, <2>2, <3>1, <3>2 DEF Gives, Verdict
  <2>3. CASE Await(t, g_pager_tid) /\ BlocksIn(t, "fault_recv")
    <3>1. Stays
      BY <1>0, <2>0, <2>3, ScheduleStays DEF Await
    <3>2. Carries({FaultMsg})
      BY <2>3 DEF Await, Carries
    <3> QED
      BY <2>0, <2>3, <3>1, <3>2 DEF BlocksIn
  <2> QED
    BY <1>4, <2>1, <2>2, <2>3 DEF FaultReceives
<1>5. CASE FaultAnswered(t)
  <2>1. Stays
    BY <1>5, SameStays DEF FaultAnswered, AwokenByIrq, Delivered, schedVars
  <2>2. Carries({FaultMsg})
    BY <1>5 DEF FaultAnswered, AwokenByIrq, Delivered, CallOver, Carries
  <2>3. resume[t] \in FaultKinds
    BY <1>5 DEF FaultAnswered, Resumed
  <2>4. PICK r, m, k : Gives(t, r, m, k) /\ k \in {"none", "kill"}
    BY <1>5 DEF FaultAnswered, Verdict
  <2> QED
    BY <2>1, <2>2, <2>3, <2>4 DEF Gives
<1> QED
  BY <1>1, <1>2, <1>3, <1>4, <1>5 DEF PageFault

\* An exit, or the end of a thread in the kernel.
LEMMA ExitPasses ==
    ASSUME CpuOK, CallsOK, ipc_buf \in Mailbox, NEW t \in Threads, SysExit(t) \/ FaultKills(t)
    PROVE  /\ \A u \in Threads \ {t} : tstate'[u] \in Free <=> tstate[u] \in Free
           /\ tstate'[t] \in Free
           /\ Carries({})
           /\ \A u \in Threads \ {t} : resume'[u] = resume[u]
           /\ resume'[t] = "none"
           /\ InUser(t) \/ resume[t] = "kill"
<1> USE DEF CallsOK, Mailbox
<1>1. current = t /\ Schedule([tstate EXCEPT ![t] = "DEAD"])
  BY DEF SysExit, Exit, InUser, FaultKills, TornDown, Resumed, Yield
<1> DEFINE ts == [tstate EXCEPT ![t] = "DEAD"]
<1>2. PICK n \in Threads \cup {Idle} : PicksNext(ts, current, n) /\ tstate' = Switch(ts, n)
  BY <1>1 DEF Schedule
<1>3. n \in Threads => ts[n] = "RUNNABLE"
  BY <1>2 DEF PicksNext, Runnable, Idle, Threads
<1>4. ts[t] = "DEAD" /\ \A u \in Threads \ {t} : ts[u] = tstate[u]
  BY DEF CpuOK, SchedTypeOK
<1> HIDE DEF ts
<1>5. \A u \in Threads : tstate'[u] \in Free <=> ts[u] \in Free
  BY <1>2, <1>3 DEF Switch, Free
<1>6. \A u \in Threads \ {t} : tstate'[u] \in Free <=> tstate[u] \in Free
  BY <1>4, <1>5
<1>7. tstate'[t] \in Free
  BY <1>4, <1>5 DEF Free
<1>8. Carries({})
  BY DEF SysExit, Exit, FaultKills, ipcVars, Carries
<1>9. /\ \A u \in Threads \ {t} : resume'[u] = resume[u]
      /\ resume'[t] = "none"
      /\ InUser(t) \/ resume[t] = "kill"
  BY DEF SysExit, Exit, FaultKills, NoCall, InUser, Resumed
<1> QED
  BY <1>6, <1>7, <1>8, <1>9

\* A new thread takes the lowest free slot.
LEMMA SpawnPasses ==
    ASSUME CpuOK, CallsOK, ipc_buf \in Mailbox, NEW c \in Threads, SysSpawn(c)
    PROVE  /\ tstate[c] \in Free /\ tstate'[c] \notin Free
           /\ \A u \in Threads : tstate[u] \in Free => c <= u
           /\ \A u \in Threads \ {c} : tstate'[u] = tstate[u] /\ resume'[u] = resume[u]
           /\ resume'[c] = "none"
           /\ Carries({})
           /\ current = Idle => \A u \in Threads : tstate[u] = "UNUSED"
BY DEF CallsOK, Mailbox, CpuOK, SchedTypeOK, SysSpawn, Spawn, Create, LowestFree, Reset, CallOver,
       Carries, Free

\* Interrupts change nothing of this.
LEMMA InterruptPasses ==
    ASSUME CpuOK, CallsOK, TimerInterrupt \/ \E irq \in IrqLines : HwInterrupt(irq)
    PROVE  Stays /\ UNCHANGED <<ipc_buf, resume>>
<1>0. SchedTypeOK
  BY DEF CpuOK
<1>1. CASE TimerInterrupt
  BY <1>0, <1>1, TickStays DEF TimerInterrupt, TimerTick, Tick, NoCall, ipcVars
<1>2. ASSUME NEW irq \in IrqLines, HwInterrupt(irq) PROVE Stays /\ UNCHANGED <<ipc_buf, resume>>
  <2>1. tstate' = Woken(tstate, g_irq_tid[irq]) \/ UNCHANGED tstate
    BY <1>2 DEF HwInterrupt, Notify, Interrupt, WokenByIrq
  <2> QED
    BY <1>0, <1>2, <2>1, WokenStays, SameStays DEF HwInterrupt, Notify, Interrupt, NoCall
<1> QED
  BY <1>1, <1>2

-----------------------------------------------------------------------------
(* Where the threads are in their programs.                                *)
Places == [block : UNION {DOMAIN Program[p] : p \in DOMAIN Program}, pc : Nat]

\* A place of program p.
PlaceOf(p, e) ==
    /\ e \in Places
    /\ e.block \in DOMAIN Program[p]
    /\ e.pc \in DOMAIN Program[p][e.block]

\* A thread is at a place of its program; a free slot has none.
PlacesOK ==
    /\ prog \in [Threads -> DOMAIN Program \cup {"none"}]
    /\ at \in [Threads -> Places]
    /\ \A t \in Threads :
          IF prog[t] = "none" THEN at[t] = Entry("main") ELSE PlaceOf(prog[t], at[t])

\* A thread is where a slot is taken, and it is blocked at the call it makes.
LivesOK == \A t \in Threads : prog[t] = "none" <=> tstate[t] \in Free

WaitsIn(k) ==
    CASE k = "send" -> {"send", "edit"}
      [] k = "recv" -> {"recv"}
      [] OTHER      -> {"touch"}

BlockedOK ==
    \A t \in Threads :
        resume[t] # "none" => prog[t] # "none" /\ Instr(t).op \in WaitsIn(resume[t])

LEMMA Here ==
    ASSUME PlacesOK, NEW t \in Threads, prog[t] # "none"
    PROVE  /\ prog[t] \in DOMAIN Program
           /\ PlaceOf(prog[t], at[t])
           /\ BlockOK(prog[t], at[t].block)
           /\ Code(t) \in Block(Allowed(prog[t]))
           /\ DOMAIN Code(t) = 1 .. Len(Code(t)) /\ Len(Code(t)) \in Nat \ {0}
           /\ Instr(t) \in Allowed(prog[t])
<1>1. prog[t] \in DOMAIN Program /\ PlaceOf(prog[t], at[t])
  BY DEF PlacesOK
<1>2. at[t].block \in DOMAIN Program[prog[t]] /\ at[t].pc \in DOMAIN Code(t)
  BY <1>1 DEF PlaceOf, Code
<1>3. BlockOK(prog[t], at[t].block)
  BY <1>1, <1>2, CodeTable
<1>4. Code(t) \in Block(Allowed(prog[t]))
  BY <1>3 DEF BlockOK, Code
<1>5. DOMAIN Code(t) = 1 .. Len(Code(t)) /\ Len(Code(t)) \in Nat \ {0}
  BY <1>4 DEF Block
<1>6. Instr(t) \in Allowed(prog[t])
  BY <1>2, <1>4, <1>5 DEF Block, Instr
<1> QED
  BY <1>1, <1>3, <1>4, <1>5, <1>6

LEMMA EntryPlace ==
    ASSUME NEW p \in DOMAIN Program, NEW b \in DOMAIN Program[p] PROVE PlaceOf(p, Entry(b))
<1>1. Program[p][b] \in Block(Allowed(p))
  BY CodeTable DEF BlockOK
<1>2. 1 \in DOMAIN Program[p][b]
  BY <1>1 DEF Block
<1> QED
  BY <1>2 DEF PlaceOf, Entry, Places

LEMMA MainPlace == ASSUME NEW p \in DOMAIN Program PROVE PlaceOf(p, Entry("main"))
<1>1. "main" \in DOMAIN Program[p]
  BY Names, Blocks
<1> QED
  BY <1>1, EntryPlace

LEMMA AfterPlace ==
    ASSUME PlacesOK, NEW t \in Threads, prog[t] # "none", Instr(t).op # "exit", NEW r, NEW m
    PROVE  PlaceOf(prog[t], After(t, r, m))
<1> DEFINE p == prog[t]
<1>0. p \in DOMAIN Program /\ PlaceOf(p, at[t]) /\ BlockOK(p, at[t].block) /\ Instr(t) \in Allowed(p)
  BY Here
<1>1. CASE Failed(r, m) /\ Instr(t).orelse # "rest"
  <2>1. Instr(t).orelse \in DOMAIN Program[p]
    BY <1>0, <1>1 DEF Allowed
  <2> QED
    BY <1>0, <1>1, <2>1, EntryPlace DEF After
<1>2. CASE ~(Failed(r, m) /\ Instr(t).orelse # "rest") /\ at[t].pc < Len(Code(t))
  <2>1. After(t, r, m) = [at[t] EXCEPT !.pc = @ + 1]
    BY <1>2 DEF After
  <2>2. at[t] \in Places /\ at[t].pc \in Nat /\ at[t].block \in DOMAIN Program[p]
    BY <1>0 DEF PlaceOf, Places
  <2>3. [at[t] EXCEPT !.pc = @ + 1] \in Places
    BY <2>2 DEF Places
  <2>4. at[t].pc + 1 \in DOMAIN Code(t)
    BY <1>2, <2>2, Here
  <2>5. /\ [at[t] EXCEPT !.pc = @ + 1].block = at[t].block
        /\ [at[t] EXCEPT !.pc = @ + 1].pc = at[t].pc + 1
    BY <2>2 DEF Places
  <2> QED
    BY <2>1, <2>2, <2>3, <2>4, <2>5 DEF PlaceOf, Code
<1>3. CASE ~(Failed(r, m) /\ Instr(t).orelse # "rest") /\ ~(at[t].pc < Len(Code(t)))
  <2>1. at[t].pc = Len(Code(t))
    BY <1>3, <1>0, Here DEF PlaceOf, Code
  <2>2. "loop" \in DOMAIN Program[p]
    BY <2>1, <1>0 DEF BlockOK, Instr, Code
  <2>3. After(t, r, m) = Entry("loop") \/ After(t, r, m) = Selects(t, r, m)
    BY <1>3 DEF After
  <2>4. \E b \in DOMAIN Program[p] : Selects(t, r, m) = Entry(b)
    BY <2>2 DEF Selects
  <2> QED
    BY <1>0, <2>2, <2>3, <2>4, EntryPlace
<1> QED
  BY <1>1, <1>2, <1>3


-----------------------------------------------------------------------------
(* A message that is staged or was delivered is one: what a receive reads  *)
(* was sent.                                                               *)
MailOK ==
    /\ ipc_state \in [Threads -> {"NONE", "SENDING", "RECEIVING"}]
    /\ ipc_from \in [Threads -> Threads \cup {Any}]
    /\ ipc_buf \in Mailbox
    /\ \A t \in Threads :
          \/ ipc_state[t] = "SENDING"
          \/ resume[t] \in {"recv", "fault_recv"} /\ ipc_state[t] # "RECEIVING"
          => ipc_buf[t] \in Message
    /\ \A t \in Threads :
          resume[t] \in {"recv", "fault_recv"} /\ ipc_state[t] # "RECEIVING" => ipc_from[t] \in Threads

LEMMA MailGives ==
    ASSUME MailOK, NEW t \in Threads, NEW k, k \notin {"recv", "fault_recv"}, CallsOK,
           resume' = [resume EXCEPT ![t] = k], UNCHANGED <<ipc_state, ipc_from, ipc_buf>>
    PROVE  MailOK'
BY DEF MailOK, CallsOK, Mailbox

LEMMA MailSame ==
    ASSUME MailOK, UNCHANGED <<ipc_state, ipc_from, ipc_buf, resume>> PROVE MailOK'
BY DEF MailOK, Mailbox

LEMMA MailOver ==
    ASSUME MailOK, NEW t \in Threads, NEW k, k \notin {"recv", "fault_recv"}, CallsOK, CallOver(t),
           resume' = [resume EXCEPT ![t] = k]
    PROVE  MailOK'
<1>1. /\ ipc_state' \in [Threads -> {"NONE", "SENDING", "RECEIVING"}]
      /\ ipc_from' \in [Threads -> Threads \cup {Any}]
      /\ ipc_buf' \in Mailbox
  BY DEF MailOK, CallOver, Mailbox
<1>2. /\ ipc_state'[t] = "NONE" /\ resume'[t] = k
      /\ \A u \in Threads \ {t} :
            /\ ipc_state'[u] = ipc_state[u] /\ ipc_from'[u] = ipc_from[u]
            /\ ipc_buf'[u] = ipc_buf[u] /\ resume'[u] = resume[u]
  BY DEF MailOK, CallOver, CallsOK, Mailbox
<1> QED
  BY <1>1, <1>2 DEF MailOK

LEMMA MailDelivered ==
    ASSUME MailOK, CallsOK, NEW t \in Threads, NEW d, NEW m \in Message, Deliver(t, d, m),
           NEW k, k \notin {"recv", "fault_recv"}, resume' = [resume EXCEPT ![t] = k]
    PROVE  MailOK'
<1>0. d \in Threads
  BY DEF Deliver, Exists
<1>1. /\ ipc_state' \in [Threads -> {"NONE", "SENDING", "RECEIVING"}]
      /\ ipc_from' \in [Threads -> Threads \cup {Any}]
      /\ ipc_buf' \in Mailbox
  BY DEF MailOK, Deliver, Mailbox
<1>2. /\ ipc_buf'[d] = m /\ ipc_from'[d] = t
      /\ \A u \in Threads \ {d} :
            /\ ipc_state'[u] = ipc_state[u] /\ ipc_from'[u] = ipc_from[u]
            /\ ipc_buf'[u] = ipc_buf[u]
      /\ \A u \in Threads \ {t} : resume'[u] = resume[u]
      /\ resume'[t] = k
      /\ ipc_state'[d] = "NONE"
  BY <1>0 DEF MailOK, Deliver, CallsOK, Mailbox
<1> QED
  BY <1>0, <1>1, <1>2 DEF MailOK

LEMMA MailStaged ==
    ASSUME MailOK, CallsOK, NEW t \in Threads, NEW d, NEW m \in Message, Stage(t, d, m),
           NEW k, k \notin {"recv", "fault_recv"}, resume' = [resume EXCEPT ![t] = k]
    PROVE  MailOK'
<1>1. /\ ipc_state' \in [Threads -> {"NONE", "SENDING", "RECEIVING"}]
      /\ ipc_from' \in [Threads -> Threads \cup {Any}]
      /\ ipc_buf' \in Mailbox
  BY DEF MailOK, Stage, Mailbox
<1>2. /\ ipc_buf'[t] = m /\ resume'[t] = k
      /\ \A u \in Threads \ {t} :
            /\ ipc_state'[u] = ipc_state[u] /\ ipc_from'[u] = ipc_from[u]
            /\ ipc_buf'[u] = ipc_buf[u] /\ resume'[u] = resume[u]
  BY DEF MailOK, Stage, CallsOK, Mailbox
<1> QED
  BY <1>1, <1>2 DEF MailOK

LEMMA MailTaken ==
    ASSUME MailOK, CallsOK, NEW t \in Threads, NEW s \in Threads, NEW src, TakeSender(t, s, src),
           NEW k, k \notin {"recv", "fault_recv"}, resume' = [resume EXCEPT ![t] = k]
    PROVE  MailOK' /\ ipc_buf[s] \in Message
<1>1. ipc_state[s] = "SENDING" /\ ipc_buf[s] \in Message
  BY DEF TakeSender, FindsSender, WaitingSender, MailOK
<1>2. /\ ipc_state' \in [Threads -> {"NONE", "SENDING", "RECEIVING"}]
      /\ UNCHANGED <<ipc_from, ipc_buf>>
      /\ \A u \in Threads \ {s} : ipc_state'[u] = ipc_state[u]
      /\ \A u \in Threads \ {t} : resume'[u] = resume[u]
      /\ resume'[t] = k /\ ipc_state'[s] = "NONE"
  BY DEF MailOK, TakeSender, CallsOK
<1>3. \A u \in Threads : resume[u] \in {"recv", "fault_recv"} /\ ipc_state[u] # "RECEIVING"
        => ipc_from[u] \in Threads
  BY DEF MailOK
<1> QED
  BY <1>1, <1>2, <1>3 DEF MailOK, Mailbox

LEMMA MailAwaits ==
    ASSUME MailOK, CallsOK, NEW t \in Threads, NEW src, Await(t, src), NEW k, BlocksIn(t, k)
    PROVE  MailOK'
<1>1. /\ ipc_state' \in [Threads -> {"NONE", "SENDING", "RECEIVING"}]
      /\ UNCHANGED <<ipc_from, ipc_buf>>
      /\ ipc_state'[t] = "RECEIVING"
      /\ \A u \in Threads \ {t} : ipc_state'[u] = ipc_state[u] /\ resume'[u] = resume[u]
  BY DEF MailOK, Await, BlocksIn, CallsOK
<1> QED
  BY <1>1 DEF MailOK, Mailbox

LEMMA MailKept == ASSUME MailOK, CallsOK, [KNext]_kvars PROVE MailOK'
<1> USE NAssumption, KernelAssumption
<1> DEFINE Reads == {"recv", "fault_recv"}
<1>1. CASE UNCHANGED kvars
  BY <1>1, MailSame DEF kvars, vars, ipcVars
<1>2. CASE TimerInterrupt
  BY <1>2, MailSame DEF TimerInterrupt, TimerTick, NoCall, ipcVars
<1>3. ASSUME NEW irq \in IrqLines, HwInterrupt(irq) PROVE MailOK'
  BY <1>3, MailSame DEF HwInterrupt, Notify, Interrupt, NoCall
<1>4. ASSUME NEW t \in Threads, SysSpawn(t) PROVE MailOK'
  <2>1. CallOver(t) /\ resume' = [resume EXCEPT ![t] = "none"]
    BY <1>4 DEF SysSpawn, Spawn, Reset
  <2> QED
    BY <2>1, MailOver
<1>5. ASSUME NEW t \in Threads, NEW d \in Threads \cup {Any}, NEW m \in Message,
             SysSendDenied(t, d) \/ SysSend(t, d, m)
      PROVE  MailOK'
  <2>1. CASE SysSendDenied(t, d) \/ SendFails(t, d)
    <3>1. UNCHANGED ipcVars /\ resume' = [resume EXCEPT ![t] = "none"]
      BY <2>1 DEF SysSendDenied, SendFails, Return, Gives
    <3> QED
      BY <3>1, MailGives DEF ipcVars
  <2>2. CASE SendDelivers(t, d, m)
    BY <2>2, MailDelivered DEF SendDelivers, Return, Gives
  <2>3. CASE SendBlocks(t, d, m)
    BY <2>3, MailStaged DEF SendBlocks, BlocksIn
  <2> QED
    BY <1>5, <2>1, <2>2, <2>3 DEF SysSend
<1>6. ASSUME NEW t \in Threads, NEW src, SysRecv(t, src) PROVE MailOK'
  <2>1. CASE RecvTakesIrq(t)
    BY <2>1, MailGives DEF RecvTakesIrq, TakeIrq, Return, Gives
  <2>2. ASSUME NEW s \in Threads, RecvTakesSender(t, s, src) PROVE MailOK'
    BY <2>2, MailTaken DEF RecvTakesSender, Return, Gives
  <2>3. CASE RecvBlocks(t, src)
    BY <2>3, MailAwaits DEF RecvBlocks
  <2> QED
    BY <1>6, <2>1, <2>2, <2>3 DEF SysRecv
<1>7. ASSUME NEW t \in Threads, SysExit(t) \/ SysSetPager(t) \/ SysLocal(t)
                                \/ (\E irq \in IrqLines : SysIrqRegister(t, irq))
                                \/ (\E g \in Grants : SysGrantCap(t, g[1], g[2]))
                                \/ (\E g \in IoGrants : SysGrantIo(t, g[1], g[2], g[3]))
      PROVE  MailOK'
  <2>1. UNCHANGED <<ipcVars, resume>>
    BY <1>7 DEF SysExit, Exit, SysSetPager, SysLocal, SysIrqRegister, SysGrantCap, SysGrantIo, NoCall
  <2> QED
    BY <2>1, MailSame DEF ipcVars
<1>8. ASSUME NEW t \in Threads, PageFault(t) PROVE MailOK'
  <2>1. CASE FaultPanics(t)
    <3>1. UNCHANGED ipcVars /\ resume' = [resume EXCEPT ![t] = "panic"]
      BY <2>1 DEF FaultPanics
    <3> QED
      BY <3>1, MailGives DEF ipcVars
  <2>2. CASE UNCHANGED <<schedVars, ipcVars>> /\ Gives(t, -1, NoMsg, "fault")
    BY <2>2, MailGives DEF Gives, ipcVars
  <2>3. CASE Deliver(t, g_pager_tid, FaultMsg) /\ Gives(t, 0, NoMsg, "fault")
    BY <2>3, MailDelivered DEF Gives
  <2>4. CASE Stage(t, g_pager_tid, FaultMsg) /\ BlocksIn(t, "fault_send")
    BY <2>4, MailStaged DEF BlocksIn
  <2> QED
    BY <1>8, <2>1, <2>2, <2>3, <2>4 DEF PageFault, FaultSends
<1>9. ASSUME NEW t \in Threads, KernelPath(t) PROVE MailOK'
  <2>1. CASE SysSendReturns(t) \/ SysRecvReturns(t) \/ FaultSent(t) \/ FaultAnswered(t)
    <3>1. CallOver(t)
      BY <2>1 DEF SysSendReturns, SendReturns, SysRecvReturns, RecvReturnsIrq, RecvReturns, FaultSent,
                  FaultAnswered, SendDone, AwokenByIrq, Delivered
    <3>2. \E k \in {"none", "fault", "kill"} : resume' = [resume EXCEPT ![t] = k]
      BY <2>1 DEF SysSendReturns, SendReturns, SysRecvReturns, RecvReturnsIrq, RecvReturns, FaultSent,
                  FaultAnswered, Return, Gives, Verdict
    <3> QED
      BY <3>1, <3>2, MailOver
  <2>2. CASE FaultReceives(t)
    <3>1. CASE TakeIrq(t) /\ \E k \in {"none", "kill"} : Gives(t, Irq, NoMsg, k)
      BY <3>1, MailGives DEF TakeIrq, Gives
    <3>2. ASSUME NEW s \in Threads, TakeSender(t, s, g_pager_tid),
                 Gives(t, s, ipc_buf[s], Verdict(ipc_buf[s]))
          PROVE  MailOK'
      <4>1. \E k \in {"none", "kill"} : resume' = [resume EXCEPT ![t] = k]
        BY <3>2 DEF Gives, Verdict
      <4> QED
        BY <3>2, <4>1, MailTaken
    <3>3. CASE Await(t, g_pager_tid) /\ BlocksIn(t, "fault_recv")
      BY <3>3, MailAwaits
    <3> QED
      BY <2>2, <3>1, <3>2, <3>3 DEF FaultReceives
  <2>3. CASE FaultKills(t)
    <3>1. UNCHANGED ipcVars /\ resume' = [resume EXCEPT ![t] = "none"]
      BY <2>3 DEF FaultKills
    <3> QED
      BY <3>1, MailGives DEF ipcVars
  <2> QED
    BY <1>9, <2>1, <2>2, <2>3 DEF KernelPath
<1>10. ASSUME NEW t \in Threads, Syscall(t) PROVE MailOK'
  BY <1>10, <1>5, <1>6, <1>7 DEF Syscall
<1> QED
  BY <1>1, <1>2, <1>3, <1>4, <1>8, <1>9, <1>10 DEF KNext

\* A receive that is over gave a notification, or a message and its sender.
LEMMA RecvGets ==
    ASSUME MailOK, NEW t \in Threads, (\E src : SysRecv(t, src)) \/ SysRecvReturns(t), ret'.tid = t
    PROVE  ret'.rax = Irq \/ (ret'.rax \in Threads /\ ret'.msg \in Message)
<1>1. CASE RecvTakesIrq(t) \/ RecvReturnsIrq(t)
  BY <1>1 DEF RecvTakesIrq, RecvReturnsIrq, Return, Gives
<1>2. ASSUME NEW src, NEW s \in Threads, RecvTakesSender(t, s, src)
      PROVE  ret'.rax \in Threads /\ ret'.msg \in Message
  <2>1. ipc_state[s] = "SENDING"
    BY <1>2 DEF RecvTakesSender, TakeSender, FindsSender, WaitingSender
  <2> QED
    BY <1>2, <2>1 DEF RecvTakesSender, Return, Gives, MailOK
<1>3. ASSUME NEW src, RecvBlocks(t, src) PROVE FALSE
  <2>1. ret'.tid = Any
    BY <1>3 DEF RecvBlocks, BlocksIn, NoResult
  <2> QED
    BY <2>1, NAssumption DEF Any, Threads
<1>4. CASE RecvReturns(t)
  <2>1. resume[t] = "recv" /\ ipc_state[t] # "RECEIVING"
    BY <1>4 DEF RecvReturns, Resumed, Delivered
  <2> QED
    BY <1>4, <2>1 DEF RecvReturns, Return, Gives, MailOK
<1> QED
  BY <1>1, <1>2, <1>3, <1>4 DEF SysRecv, SysRecvReturns

-----------------------------------------------------------------------------
(* The rest of the programs' state.  What a server does for nobody, it     *)
(* does in blocks that send nothing to a client.                           *)
UsersOK ==
    /\ client \in [Threads -> Threads \cup {Nobody, Irq}]
    /\ child \in [Threads -> Threads \cup {Nobody}]
    /\ reader \in [Threads -> Threads \cup {Nobody}]
    /\ device \in [Terminals -> Seq(Commands)]
    /\ ring \in [Terminals -> Seq(Commands)]
    /\ \A t \in Threads :
          client[t] = Irq /\ prog[t] \in Servers => at[t].block \in OwnBlocks

(* The boot: who runs after how many spawns of init, and where init is.    *)
Cast == <<"console", "block", "vm", "pm", "fs", "vga">>

SpawnsBefore(pc) ==
    CASE pc <= 1  -> 0
      [] pc \in 2 .. 7   -> 1
      [] pc \in 8 .. 12  -> 2
      [] pc \in 13 .. 16 -> 3
      [] pc \in 17 .. 20 -> 4
      [] pc \in 21 .. 28 -> 5
      [] OTHER -> 6

Numbered(k) ==
    \A t \in Threads :
        /\ t \in 1 .. k => prog[t] = Cast[t]
        /\ prog[t] \in Servers => t \in 1 .. k
        /\ prog[t] = "init" => t = Root

\* Only boot messages, no line request and no request but to print.
Quiet ==
    /\ \A t \in Threads : reader[t] = Nobody
    /\ \A t \in Threads : ipc_buf[t] \in BootMails \cup {NoMsg}
    /\ \A t \in Threads : prog[t] \in Servers => at[t].block \in BootBlocks

NothingYet == Quiet /\ \A t \in Threads : prog[t] = "none"

Booting ==
    LET k == SpawnsBefore(at[Root].pc) IN
    /\ prog[Root] = "init"
    /\ at[Root].pc <= 28
    /\ Numbered(k)
    /\ \A t \in Threads : t > k => prog[t] = "none"
    /\ Quiet

Running == Numbered(6) /\ (prog[Root] = "init" => at[Root].pc > 28)

BootOK == NothingYet \/ Booting \/ Running

SysInv ==
    /\ TablesOK /\ CallsOK /\ CpuOK /\ MailOK
    /\ PlacesOK /\ LivesOK /\ BlockedOK /\ UsersOK /\ BootOK

-----------------------------------------------------------------------------
(* What a step of thread t does, in five forms.                            *)

\* What it may put into a mailbox.
Words(t) ==
    CASE Instr(t).op = "send"  -> Instr(t).what
      [] Instr(t).op = "edit" /\ reader[t] # Nobody -> {Reply("READLINE", line) : line \in Commands}
      [] Instr(t).op = "touch" -> {FaultMsg}
      [] OTHER -> {}

OthersStay(t) == \A u \in Threads \ {t} : resume'[u] = resume[u]

\* Its call is over, with result r and message m.
Goes(t, r, m) ==
    /\ prog[t] # "none" /\ Instr(t).op # "exit"
    /\ Stays
    /\ OthersStay(t) /\ resume'[t] = "none"
    /\ Moves(t, r, m) /\ Remembers(t, r) /\ UNCHANGED prog
    /\ r \in Threads \cup {-1, Irq}
    /\ m \in {NoMsg} \cup {ipc_buf[u] : u \in Threads}
    /\ Instr(t).op = "recv" => r = Irq \/ (r \in Threads /\ m \in Message)
    /\ Instr(t).op = "spawn" => \A c \in Threads : tstate[c] \notin Free

\* It is blocked, or somewhere in the kernel, or repeats an access.
Stops(t) ==
    /\ prog[t] # "none"
    /\ Stays
    /\ OthersStay(t)
    /\ resume'[t] # "none" => Instr(t).op \in WaitsIn(resume'[t])
    /\ UNCHANGED <<prog, at, client>>

\* It spawns c.
Starts(t, c, p) ==
    /\ prog[t] # "none" /\ Instr(t).op = "spawn" /\ p \in Instr(t).what
    /\ c # t /\ LowestFree(c) /\ tstate'[c] \notin Free
    /\ \A u \in Threads \ {c} : tstate'[u] = tstate[u] /\ resume'[u] = resume[u]
    /\ resume'[c] = "none"
    /\ prog' = [prog EXCEPT ![c] = p]
    /\ at' = [at EXCEPT ![t] = After(t, 0, NoMsg), ![c] = Entry("main")]
    /\ client' = [client EXCEPT ![c] = Nobody]

\* It is no more.
Ends(t) ==
    /\ prog[t] # "none" /\ Instr(t).op \in {"exit", "touch"}
    /\ \A u \in Threads \ {t} : tstate'[u] \in Free <=> tstate[u] \in Free
    /\ tstate'[t] \in Free
    /\ OthersStay(t) /\ resume'[t] = "none"
    /\ prog' = [prog EXCEPT ![t] = "none"]
    /\ at' = [at EXCEPT ![t] = Entry("main")]
    /\ client' = [client EXCEPT ![t] = Nobody]

\* Its line request.
Asking(t) ==
    \/ UNCHANGED reader
    \/ reader' = [reader EXCEPT ![t] = Nobody]
    \/ Instr(t).op = "ask" /\ reader' = [reader EXCEPT ![t] = client[t]]

Effect(t) ==
    /\ Carries(Words(t))
    /\ Asking(t)
    /\ \/ \E r, m : Goes(t, r, m)
       \/ Stops(t)
       \/ \E c \in Threads : \E p : Starts(t, c, p)
       \/ Ends(t)

LEMMA Awake ==
    ASSUME LivesOK, PlacesOK, NEW t \in Threads, InUser(t)
    PROVE  /\ prog[t] # "none" /\ prog[t] \in DOMAIN Program
           /\ resume[t] = "none" /\ tstate[t] \notin Free /\ current = t
BY DEF LivesOK, PlacesOK, InUser, Free

LEMMA InKernel ==
    ASSUME BlockedOK, NEW t \in Threads, NEW k, k # "none", Resumed(t, k)
    PROVE  prog[t] # "none" /\ Instr(t).op \in WaitsIn(k)
BY DEF BlockedOK, Resumed

\* A call that is over, or blocks its thread.
LEMMA FollowEffect ==
    ASSUME NEW t \in Threads, prog[t] # "none", Instr(t).op \notin {"exit", "spawn"},
           NEW k, NEW ms, Passes(t, k, ms), ms \subseteq Words(t), Follow(t), Asking(t),
           k = "none" \/ Instr(t).op \in WaitsIn(k),
           Instr(t).op = "recv" /\ ret'.tid = t
              => ret'.rax = Irq \/ (ret'.rax \in Threads /\ ret'.msg \in Message)
    PROVE  Effect(t)
<1>1. Carries(Words(t))
  BY DEF Passes, Carries
<1>2. CASE ret'.tid = t
  <2>1. Goes(t, ret'.rax, ret'.msg)
    BY <1>2 DEF Passes, Follow, Goes, OthersStay
  <2> QED
    BY <1>1, <2>1 DEF Effect
<1>3. CASE ret'.tid # t
  <2>1. Stops(t)
    BY <1>3 DEF Passes, Follow, Stops, OthersStay
  <2> QED
    BY <1>1, <2>1 DEF Effect
<1> QED
  BY <1>2, <1>3

LEMMA LoopReceives ==
    ASSUME PlacesOK, NEW t \in Threads, prog[t] # "none", Code(t) = Serves
    PROVE  at[t].pc = 1 /\ Instr(t) = Recv(Any) /\ Len(Code(t)) = 1
<1>1. at[t].pc \in DOMAIN Code(t)
  BY DEF PlacesOK, PlaceOf, Code
<1>2. Serves = <<Recv(Any)>>
  BY DEF Serves
<1>3. DOMAIN Serves = {1} /\ Serves[1] = Recv(Any) /\ Len(Serves) = 1
  BY <1>2
<1> QED
  BY <1>1, <1>3 DEF Instr

LEMMA DoneEffect ==
    ASSUME LivesOK, PlacesOK, NEW t \in Threads, InUser(t), UNCHANGED <<tstate, ipc_buf, resume>>,
           NEW r \in {0, -1}, Done(t, r), Instr(t).op \notin {"recv", "exit"}, Asking(t),
           Instr(t).op = "spawn" => \A c \in Threads : tstate[c] \notin Free
    PROVE  Effect(t)
<1>1. prog[t] # "none" /\ resume[t] = "none"
  BY Awake
<1>2. Carries(Words(t)) /\ Stays
  BY DEF Carries, Stays
<1>3. Code(t) # Serves
  BY <1>1, LoopReceives, Ops
<1>4. Moves(t, r, NoMsg) /\ Remembers(t, r) /\ UNCHANGED prog
  BY <1>3 DEF Done, Remembers
<1>5. r \in Threads \cup {-1, Irq}
  BY Numbers DEF Root
<1>6. OthersStay(t) /\ resume'[t] = "none"
  BY <1>1 DEF OthersStay
<1>7. Goes(t, r, NoMsg)
  BY <1>1, <1>2, <1>4, <1>5, <1>6 DEF Goes
<1> QED
  BY <1>2, <1>7 DEF Effect

LEMMA SameAsking == ASSUME NEW t, UNCHANGED reader PROVE Asking(t)
BY DEF Asking

\* Without a receive, a call passes no message.
LEMMA SendEffect ==
    ASSUME SysInv, NEW t \in Threads, DoSend(t)
    PROVE  Effect(t)
<1> USE DEF SysInv
<1>1. Instr(t).op = "send" /\ InUser(t) /\ prog[t] # "none"
  BY Awake DEF DoSend, Executes
<1>2. ipc_buf \in Mailbox
  BY DEF MailOK
<1>3. Words(t) = Instr(t).what
  BY <1>1 DEF Words
<1>4. PICK ms : Passes(t, "send", ms) /\ ms \subseteq Words(t)
  <2>1. CASE SysSendDenied(t, Who(t, Instr(t).arg))
    <3>1. Passes(t, "send", {})
      <4>1. Stays /\ Carries({})
        BY <2>1, SameStays DEF SysSendDenied, schedVars, ipcVars, Carries
      <4> QED
        BY <2>1, <4>1 DEF SysSendDenied, Return, Gives, Passes, CallsOK
    <3> QED
      BY <3>1
  <2>2. ASSUME NEW m \in Instr(t).what, SysSend(t, Who(t, Instr(t).arg), m)
        PROVE  \E ms : Passes(t, "send", ms) /\ ms \subseteq Words(t)
    <3>1. Passes(t, "send", {m})
      BY <1>2, <2>2, SendPasses
    <3> QED
      BY <1>3, <2>2, <3>1
  <2> QED
    BY <2>1, <2>2 DEF DoSend
<1>5. Follow(t) /\ Asking(t)
  BY SameAsking DEF DoSend, Others
<1>6. Instr(t).op \in WaitsIn("send")
  BY <1>1 DEF WaitsIn
<1> QED
  BY <1>1, <1>4, <1>5, <1>6, FollowEffect

LEMMA RecvEffect ==
    ASSUME SysInv, NEW t \in Threads, DoRecv(t)
    PROVE  Effect(t)
<1> USE DEF SysInv
<1>1. Instr(t).op = "recv" /\ InUser(t) /\ prog[t] # "none"
  BY Awake DEF DoRecv, Executes
<1>2. ipc_buf \in Mailbox
  BY DEF MailOK
<1>3. Passes(t, "recv", {})
  BY <1>2, RecvPasses DEF DoRecv
<1>4. Follow(t) /\ Asking(t)
  BY SameAsking DEF DoRecv, Others
<1>5. ret'.tid = t => ret'.rax = Irq \/ (ret'.rax \in Threads /\ ret'.msg \in Message)
  BY RecvGets DEF DoRecv
<1>6. Instr(t).op \in WaitsIn("recv")
  BY <1>1 DEF WaitsIn
<1> QED
  BY <1>1, <1>3, <1>4, <1>5, <1>6, FollowEffect

LEMMA ReturnEffect ==
    ASSUME SysInv, NEW t \in Threads, Returns(t)
    PROVE  Effect(t)
<1> USE DEF SysInv
<1>1. ipc_buf \in Mailbox /\ ipc_from \in [Threads -> Threads \cup {Any}]
  BY DEF MailOK
<1>2. Passes(t, "none", {}) /\ ret'.tid = t
  BY <1>1, ReturnPasses DEF Returns
<1>3. Follow(t) /\ Asking(t)
  BY SameAsking DEF Returns, Others
<1>4. CASE SysSendReturns(t)
  <2>1. Resumed(t, "send")
    BY <1>4 DEF SysSendReturns, SendReturns
  <2>2. prog[t] # "none" /\ Instr(t).op \in {"send", "edit"}
    BY <2>1, InKernel DEF WaitsIn
  <2> QED
    BY <2>2, <1>2, <1>3, FollowEffect
<1>5. CASE SysRecvReturns(t)
  <2>1. Resumed(t, "recv")
    BY <1>5 DEF SysRecvReturns, RecvReturns, RecvReturnsIrq
  <2>2. prog[t] # "none" /\ Instr(t).op = "recv"
    BY <2>1, InKernel DEF WaitsIn
  <2>3. ret'.rax = Irq \/ (ret'.rax \in Threads /\ ret'.msg \in Message)
    BY <1>2, <1>5, RecvGets
  <2> QED
    BY <2>2, <2>3, <1>2, <1>3, FollowEffect
<1> QED
  BY <1>4, <1>5 DEF Returns

LEMMA SpawnEffect ==
    ASSUME SysInv, NEW t \in Threads, DoSpawn(t)
    PROVE  Effect(t)
<1> USE DEF SysInv
<1>1. Instr(t).op = "spawn" /\ InUser(t) /\ prog[t] # "none" /\ tstate[t] \notin Free /\ current = t
  BY Awake DEF DoSpawn, Executes
<1>2. Asking(t) /\ UNCHANGED Others
  BY SameAsking DEF DoSpawn, Others
<1>3. ASSUME NEW c \in Threads, SysSpawn(c), NEW p \in Instr(t).what,
             prog' = [prog EXCEPT ![c] = p],
             at' = [at EXCEPT ![t] = After(t, 0, NoMsg), ![c] = Entry("main")],
             client' = [client EXCEPT ![c] = Nobody]
      PROVE  Effect(t)
  <2>1. ipc_buf \in Mailbox
    BY DEF MailOK
  <2>2. /\ tstate[c] \in Free /\ tstate'[c] \notin Free
        /\ \A u \in Threads : tstate[u] \in Free => c <= u
        /\ \A u \in Threads \ {c} : tstate'[u] = tstate[u] /\ resume'[u] = resume[u]
        /\ resume'[c] = "none"
        /\ Carries({})
    BY <1>3, <2>1, SpawnPasses
  <2>3. c # t
    BY <1>1, <2>2
  <2>4. Starts(t, c, p)
    BY <1>1, <1>3, <2>2, <2>3 DEF Starts, LowestFree
  <2>5. Carries(Words(t))
    BY <2>2 DEF Carries
  <2> QED
    BY <1>2, <2>4, <2>5 DEF Effect
<1>4. CASE (\A c \in Threads : Exists(c)) /\ SysLocal(t) /\ Done(t, -1)
  <2>1. UNCHANGED <<tstate, ipc_buf, resume>>
    BY <1>4, LocalPasses
  <2> QED
    BY <1>1, <1>2, <1>4, <2>1, DoneEffect DEF Exists
<1> QED
  BY <1>3, <1>4 DEF DoSpawn

LEMMA LocalEffect ==
    ASSUME SysInv, NEW t \in Threads,
           \/ DoGrant(t) \/ DoRegister(t) \/ DoLocal(t) \/ DoMap(t) \/ DoDrain(t) \/ DoAsk(t)
    PROVE  Effect(t)
<1> USE DEF SysInv
<1>1. InUser(t) /\ Instr(t).op \in {"grant", "grantio", "irq", "pager", "io", "local", "map", "drain",
                                    "ask"}
  BY DEF DoGrant, DoRegister, DoLocal, DoMap, DoDrain, DoAsk, Executes
<1>2. Done(t, 0)
  BY DEF DoGrant, DoRegister, DoLocal, DoMap, DoDrain, DoAsk
<1>3. UNCHANGED <<tstate, ipc_buf, resume>>
  BY LocalPasses DEF DoGrant, DoRegister, DoLocal, DoMap, DoDrain, DoAsk
<1>4. Asking(t)
  <2>1. CASE DoAsk(t)
    BY <2>1 DEF DoAsk, Executes, Asking
  <2>2. CASE ~DoAsk(t)
    BY <2>2, SameAsking DEF DoGrant, DoRegister, DoLocal, DoMap, DoDrain, Others
  <2> QED
    BY <2>1, <2>2
<1> QED
  BY <1>1, <1>2, <1>3, <1>4, DoneEffect

LEMMA TouchEffect ==
    ASSUME SysInv, NEW t \in Threads, DoTouch(t)
    PROVE  Effect(t)
<1> USE DEF SysInv
<1>1. Instr(t).op = "touch" /\ InUser(t) /\ prog[t] # "none"
  BY Awake DEF DoTouch, Executes
<1>2. CASE SysLocal(t) /\ Done(t, 0) /\ UNCHANGED <<child, Others>>
  <2>1. UNCHANGED <<tstate, ipc_buf, resume>>
    BY <1>2, LocalPasses
  <2> QED
    BY <1>1, <1>2, <2>1, SameAsking, DoneEffect DEF Others
<1>3. CASE PageFault(t) /\ UNCHANGED userVars
  <2>1. ipc_buf \in Mailbox
    BY DEF MailOK
  <2>2. /\ Stays /\ Carries({FaultMsg})
        /\ \A u \in Threads \ {t} : resume'[u] = resume[u]
        /\ resume'[t] \in {"none"} \cup FaultKinds
    BY <1>3, <2>1, FaultPasses
  <2>3. resume'[t] # "none" => Instr(t).op \in WaitsIn(resume'[t])
    BY <1>1, <2>2 DEF WaitsIn, FaultKinds
  <2>4. Stops(t)
    BY <1>1, <1>3, <2>2, <2>3 DEF Stops, OthersStay, userVars
  <2>5. Words(t) = {FaultMsg}
    BY <1>1 DEF Words
  <2> QED
    BY <1>3, <2>2, <2>4, <2>5, SameAsking DEF Effect, userVars
<1> QED
  BY <1>2, <1>3 DEF DoTouch

LEMMA FaultEffect ==
    ASSUME SysInv, NEW t \in Threads, FaultPath(t)
    PROVE  Effect(t)
<1> USE DEF SysInv
<1>0. ipc_buf \in Mailbox
  BY DEF MailOK
<1>1. /\ Stays /\ Carries({FaultMsg})
      /\ \A u \in Threads \ {t} : resume'[u] = resume[u]
      /\ resume'[t] \in {"none"} \cup FaultKinds
  BY <1>0, FaultPasses DEF FaultPath
<1>2. \E k \in FaultKinds : Resumed(t, k)
  BY DEF FaultPath, FaultSent, FaultReceives, FaultAnswered, FaultKinds
<1>3. prog[t] # "none" /\ Instr(t).op = "touch"
  BY <1>2, InKernel DEF WaitsIn, FaultKinds
<1>4. resume'[t] # "none" => Instr(t).op \in WaitsIn(resume'[t])
  BY <1>1, <1>3 DEF WaitsIn, FaultKinds
<1>5. Stops(t)
  BY <1>1, <1>3, <1>4 DEF Stops, OthersStay, FaultPath, userVars
<1>6. Words(t) = {FaultMsg}
  BY <1>3 DEF Words
<1> QED
  BY <1>1, <1>5, <1>6, SameAsking DEF Effect, FaultPath, userVars

LEMMA EndEffect ==
    ASSUME SysInv, NEW t \in Threads, DoExit(t) \/ FaultEnds(t)
    PROVE  Effect(t)
<1> USE DEF SysInv
<1>0. ipc_buf \in Mailbox
  BY DEF MailOK
<1>1. prog[t] # "none" /\ Instr(t).op \in {"exit", "touch"}
  <2>1. CASE DoExit(t)
    BY <2>1, Awake DEF DoExit, Executes
  <2>2. CASE FaultEnds(t)
    <3>1. Resumed(t, "kill")
      BY <2>2 DEF FaultEnds, FaultKills
    <3> QED
      BY <3>1, InKernel DEF WaitsIn
  <2> QED
    BY <2>1, <2>2
<1>2. /\ \A u \in Threads \ {t} : tstate'[u] \in Free <=> tstate[u] \in Free
      /\ tstate'[t] \in Free
      /\ Carries({})
      /\ \A u \in Threads \ {t} : resume'[u] = resume[u]
      /\ resume'[t] = "none"
  BY <1>0, ExitPasses DEF DoExit, FaultEnds
<1>3. Gone(t)
  BY DEF DoExit, FaultEnds
<1>4. Ends(t)
  BY <1>1, <1>2, <1>3 DEF Gone, Ends, OthersStay
<1>5. Carries(Words(t)) /\ Asking(t)
  BY <1>2, <1>3, SameAsking DEF Carries, Gone, Others
<1> QED
  BY <1>4, <1>5 DEF Effect

LEMMA Places6 ==
    /\ Cast[1] = "console" /\ Cast[2] = "block" /\ Cast[3] = "vm" /\ Cast[4] = "pm" /\ Cast[5] = "fs"
    /\ Cast[6] = "vga"
    /\ \A pc \in Nat : SpawnsBefore(pc) \in 0 .. 6
    /\ \A t \in Threads : t \in Nat
BY Numbers DEF Cast, SpawnsBefore, Threads

LEMMA FiveBefore == \A pc \in Nat : pc <= 28 => SpawnsBefore(pc) \in 0 .. 5
BY DEF SpawnsBefore

\* In every phase the servers are numbered.
LEMMA Numbering ==
    ASSUME BootOK, PlacesOK
    PROVE  \A t \in Threads :
              /\ prog[t] = "console" => t = CON_TID
              /\ prog[t] = "block" => t = BLK_TID
              /\ prog[t] = "vm" => t = VM_TID
              /\ prog[t] = "pm" => t = PM_TID
              /\ prog[t] = "fs" => t = FS_TID
              /\ prog[t] = "vga" => t = VGA_TID
              /\ prog[t] = "init" => t = Root
              /\ t \in 1 .. 6 => prog[t] \in {"none", Cast[t]}
<1> DEFINE Goal == \A t \in Threads :
              /\ prog[t] = "console" => t = CON_TID
              /\ prog[t] = "block" => t = BLK_TID
              /\ prog[t] = "vm" => t = VM_TID
              /\ prog[t] = "pm" => t = PM_TID
              /\ prog[t] = "fs" => t = FS_TID
              /\ prog[t] = "vga" => t = VGA_TID
              /\ prog[t] = "init" => t = Root
              /\ t \in 1 .. 6 => prog[t] \in {"none", Cast[t]}
<1>1. ASSUME NEW k \in 0 .. 6, Numbered(k), \A t \in Threads : t > k /\ t \in 1 .. 6 => prog[t] = "none"
      PROVE  Goal
  <2> SUFFICES ASSUME NEW t \in Threads
               PROVE  /\ prog[t] = "console" => t = CON_TID
                      /\ prog[t] = "block" => t = BLK_TID
                      /\ prog[t] = "vm" => t = VM_TID
                      /\ prog[t] = "pm" => t = PM_TID
                      /\ prog[t] = "fs" => t = FS_TID
                      /\ prog[t] = "vga" => t = VGA_TID
                      /\ prog[t] = "init" => t = Root
                      /\ t \in 1 .. 6 => prog[t] \in {"none", Cast[t]}
    OBVIOUS
  <2>1. prog[t] \in Servers => t \in 1 .. 6 /\ prog[t] = Cast[t]
    BY <1>1 DEF Numbered
  <2>2. t \in 1 .. 6 => prog[t] \in {"none", Cast[t]}
    BY <1>1, Places6 DEF Numbered
  <2>3. prog[t] = "init" => t = Root
    BY <1>1 DEF Numbered
  <2>4. t \in 1 .. 6 => t \in {1, 2, 3, 4, 5, 6}
    BY Places6
  <2> QED
    BY <2>1, <2>2, <2>3, <2>4, Places6
       DEF Servers, CON_TID, BLK_TID, VM_TID, PM_TID, FS_TID, VGA_TID
<1>2. CASE NothingYet
  BY <1>2 DEF NothingYet
<1>3. CASE Booting
  <2>1. at[Root].pc \in Nat
    BY Numbers DEF PlacesOK, Places
  <2> QED
    BY <1>1, <1>3, <2>1, Places6 DEF Booting
<1>4. CASE Running
  BY <1>1, <1>4, Places6 DEF Running
<1> QED
  BY <1>2, <1>3, <1>4 DEF BootOK

LEMMA TerminalsEdit ==
    ASSUME BootOK, PlacesOK, NEW t \in Threads, prog[t] # "none",
           Instr(t).op \in {"irq", "drain", "ask", "edit"}
    PROVE  t \in Terminals /\ prog[t] \in {"console", "vga"}
<1>1. prog[t] \in DOMAIN Program /\ Instr(t).op \in Calls[prog[t]]
  BY Here DEF Allowed
<1>2. prog[t] \in {"console", "vga"}
  BY <1>1, CallsOf
<1> QED
  BY <1>2, Numbering DEF Terminals

LEMMA EditEffect ==
    ASSUME SysInv, NEW t \in Threads, DoEdit(t)
    PROVE  /\ Effect(t)
           /\ reader[t] # Nobody /\ ring[t] # << >> =>
                 ring[t][1] \in Commands /\ Reply("READLINE", ring[t][1]) \in Mails
<1> USE DEF SysInv
<1>1. Instr(t).op = "edit" /\ InUser(t) /\ prog[t] # "none"
  BY Awake DEF DoEdit, Executes
<1>2. t \in Terminals
  BY <1>1, TerminalsEdit
<1>3. CASE ~(reader[t] # Nobody /\ ring[t] # << >>)
  <2>1. SysLocal(t) /\ Done(t, 0) /\ Asking(t)
    BY <1>3, SameAsking DEF DoEdit
  <2>2. UNCHANGED <<tstate, ipc_buf, resume>>
    BY <2>1, LocalPasses
  <2> QED
    BY <1>1, <1>3, <2>1, <2>2, DoneEffect
<1>4. CASE reader[t] # Nobody /\ ring[t] # << >>
  <2> DEFINE m == Reply("READLINE", ring[t][1])
  <2>1. ring[t] \in Seq(Commands)
    BY <1>2 DEF UsersOK
  <2>2. ring[t][1] \in Commands
    BY <1>4, <2>1
  <2>3. m \in Words(t) /\ m \in Mails
    BY <1>1, <1>4, <2>2, MailsSent DEF Words
  <2>4. SysSend(t, reader[t], m) /\ Follow(t) /\ Asking(t)
    BY <1>4 DEF DoEdit, Asking
  <2>5. ipc_buf \in Mailbox
    BY DEF MailOK
  <2> HIDE DEF m
  <2>6. Passes(t, "send", {m}) /\ {m} \subseteq Words(t)
    BY <2>3, <2>4, <2>5, SendPasses
  <2>7. Instr(t).op \in WaitsIn("send")
    BY <1>1 DEF WaitsIn
  <2>8. Effect(t)
    BY <1>1, <2>4, <2>6, <2>7, FollowEffect
  <2> QED
    BY <2>2, <2>3, <2>8 DEF m
<1> QED
  BY <1>3, <1>4

LEMMA StepEffect ==
    ASSUME SysInv, NEW t \in Threads, Step(t)
    PROVE  Effect(t)
BY SendEffect, RecvEffect, ReturnEffect, SpawnEffect, LocalEffect, TouchEffect, FaultEffect, EndEffect,
   EditEffect DEF Step, Works

-----------------------------------------------------------------------------
(* What the programs ask of the kernel is what Kernel lets programs ask.   *)
LEMMA CallArgs ==
    ASSUME NEW i \in Instructions
    PROVE  /\ i.op = "send" => i.arg \in Threads \cup {Client, Child} /\ i.what \subseteq Mails
           /\ i.op = "recv" => i.arg \in Threads \cup {Any}
           /\ i.op = "grant" => /\ i.arg \in Threads \cup {Child}
                                /\ i.what \in {CON_TID, BLK_TID, PM_TID, FS_TID, VGA_TID}
           /\ i.op = "grantio" => <<i.arg, i.what[1], i.what[2]>> \in IoGrants
           /\ i.op = "irq" => i.arg \in IrqLines
<1>1. i.op = "send" => i.arg \in Threads \cup {Client, Child} /\ i.what \subseteq Mails
  BY DEF Instructions
<1>2. i.op = "recv" => i.arg \in Threads \cup {Any}
  BY DEF Instructions
<1>3. i.op = "grant" => /\ i.arg \in Threads \cup {Child}
                        /\ i.what \in {CON_TID, BLK_TID, PM_TID, FS_TID, VGA_TID}
  BY DEF Instructions
<1>4. i.op = "grantio" => \/ i.arg = CON_TID /\ i.what = <<1016, 8>>
                          \/ i.arg = BLK_TID /\ i.what = <<496, 8>>
                          \/ i.arg = VGA_TID /\ i.what = <<96, 8>>
  BY DEF Instructions
<1>5. i.op = "grantio" => <<i.arg, i.what[1], i.what[2]>> \in IoGrants
  BY <1>4, ProgramsAssumption
<1>6. {1, 4} \subseteq IrqLines
  <2>1. IrqOf(CON_TID) \in IrqLines /\ IrqOf(VGA_TID) \in IrqLines
    BY ProgramsAssumption DEF Terminals
  <2> QED
    BY <2>1 DEF IrqOf, CON_TID, VGA_TID
<1>7. i.op = "irq" => i.arg \in IrqLines
  BY <1>6 DEF Instructions
<1> QED
  BY <1>1, <1>2, <1>3, <1>5, <1>7

LEMMA WhoIs ==
    ASSUME NEW t
    PROVE  /\ Who(t, Client) = client[t]
           /\ Who(t, Child) = child[t]
           /\ \A x \in Threads \cup {Any} : Who(t, x) = x
<1>1. Client # Child /\ \A x \in Threads \cup {Any} : x # Client /\ x # Child
  BY Numbers DEF Client, Child, Any, Threads
<1> QED
  BY <1>1 DEF Who

\* Nothing is sent to an interrupt.
LEMMA SendsToThreads ==
    ASSUME SysInv, NEW t \in Threads, prog[t] # "none"
    PROVE  /\ Instr(t).op = "send" => Who(t, Instr(t).arg) \in Threads \cup {Nobody}
           /\ OfRequest(Instr(t)) => client[t] \in Threads \cup {Nobody} /\ prog[t] \in Servers
<1> USE DEF SysInv
<1>0. prog[t] \in DOMAIN Program /\ BlockOK(prog[t], at[t].block) /\ Instr(t) \in Allowed(prog[t])
      /\ at[t].pc \in DOMAIN Code(t)
  BY Here DEF PlaceOf, Code
<1>1. ASSUME OfRequest(Instr(t)) PROVE client[t] \in Threads \cup {Nobody} /\ prog[t] \in Servers
  <2>1. prog[t] \in Servers
    BY <1>0, <1>1 DEF Allowed
  <2>2. at[t].block \notin OwnBlocks
    <3>1. SUFFICES ASSUME at[t].block \in OwnBlocks PROVE FALSE
      OBVIOUS
    <3>2. Code(t) \in Block(OwnInstructions(prog[t]))
      BY <1>0, <2>1, <3>1 DEF BlockOK, Code
    <3>3. Instr(t) \in OwnInstructions(prog[t])
      BY <1>0, <3>2 DEF Instr, Block
    <3> QED
      BY <1>1, <3>3 DEF OwnInstructions
  <2>3. client[t] # Irq
    BY <2>1, <2>2 DEF UsersOK
  <2> QED
    BY <2>1, <2>3 DEF UsersOK
<1>2. ASSUME Instr(t).op = "send" PROVE Who(t, Instr(t).arg) \in Threads \cup {Nobody}
  <2>1. Instr(t).arg \in Threads \cup {Client, Child}
    BY <1>0, <1>2, CallArgs DEF Allowed
  <2>2. CASE Instr(t).arg = Client
    BY <1>1, <1>2, <2>2, WhoIs DEF OfRequest
  <2>3. CASE Instr(t).arg = Child
    BY <2>3, WhoIs DEF UsersOK
  <2>4. CASE Instr(t).arg \in Threads
    BY <2>4, WhoIs
  <2> QED
    BY <2>1, <2>2, <2>3, <2>4
<1> QED
  BY <1>1, <1>2

LEMMA GrantToNobody ==
    ASSUME TablesOK, NEW t, NEW d, d \notin Threads, NEW ep, SysGrantCap(t, d, ep)
    PROVE  SysLocal(t)
<1>1. ctable' = ctable
  BY DEF SysGrantCap, TablesOK
<1> QED
  BY <1>1 DEF SysGrantCap, SysLocal, Does, trapVars

LEMMA StepIsKernel ==
    ASSUME SysInv, NEW t \in Threads, Step(t)
    PROVE  [KNext]_kvars
<1> USE DEF SysInv
<1>0. ASSUME Syscall(t) \/ PageFault(t) \/ KernelPath(t) PROVE [KNext]_kvars
  BY <1>0 DEF KNext
<1>1. ASSUME InUser(t) PROVE prog[t] # "none" /\ Instr(t) \in Instructions
  BY <1>1, Awake, Here DEF Allowed
<1>a. Nobody = Any
  BY DEF Nobody, Any
<1>2. ASSUME DoSend(t) PROVE Syscall(t)
  <2>1. Instr(t).op = "send" /\ InUser(t)
    BY <1>2 DEF DoSend, Executes
  <2>2. Who(t, Instr(t).arg) \in Threads \cup {Any}
    BY <1>1, <1>a, <2>1, SendsToThreads
  <2>3. Instr(t).what \subseteq Message \ {FaultMsg}
    BY <1>1, <2>1, CallArgs DEF Mails
  <2> QED
    BY <1>2, <2>2, <2>3 DEF DoSend, Syscall
<1>3. ASSUME DoRecv(t) PROVE Syscall(t)
  <2>1. Instr(t).op = "recv" /\ InUser(t)
    BY <1>3 DEF DoRecv, Executes
  <2>2. Instr(t).arg \in Threads \cup {Any}
    BY <1>1, <2>1, CallArgs
  <2>3. Who(t, Instr(t).arg) = Instr(t).arg
    BY <2>2, WhoIs
  <2> QED
    BY <1>3, <2>2, <2>3 DEF DoRecv, Syscall
<1>4. ASSUME DoSpawn(t) PROVE [KNext]_kvars
  <2>1. CASE \E c \in Threads : SysSpawn(c)
    BY <2>1 DEF KNext
  <2>2. CASE SysLocal(t)
    BY <1>0, <2>2 DEF Syscall
  <2> QED
    BY <1>4, <2>1, <2>2 DEF DoSpawn
<1>5. ASSUME DoGrant(t) PROVE Syscall(t)
  <2>1. InUser(t)
    BY <1>5 DEF DoGrant, Executes
  <2> DEFINE i == Instr(t)
  <2>2. i \in Instructions
    BY <1>1, <2>1
  <2>3. CASE i.op = "grant" /\ SysGrantCap(t, Who(t, i.arg), i.what)
    <3>1. i.what \in {CON_TID, BLK_TID, PM_TID, FS_TID, VGA_TID}
      BY <2>2, <2>3, CallArgs
    <3> HIDE DEF i
    <3>2. CASE Who(t, i.arg) \in Threads
      <4>1. <<Who(t, i.arg), i.what>> \in Grants
        BY <3>1, <3>2, ProgramsAssumption
      <4> QED
        BY <2>3, <4>1 DEF Syscall
    <3>3. CASE Who(t, i.arg) \notin Threads
      BY <2>3, <3>3, GrantToNobody DEF Syscall
    <3> QED
      BY <3>2, <3>3
  <2>4. CASE i.op = "grantio" /\ SysGrantIo(t, i.arg, i.what[1], i.what[2])
    <3>1. <<i.arg, i.what[1], i.what[2]>> \in IoGrants
      BY <2>2, <2>4, CallArgs
    <3> QED
      BY <2>4, <3>1 DEF Syscall
  <2> QED
    BY <1>5, <2>3, <2>4 DEF DoGrant, Executes
<1>6. ASSUME DoRegister(t) PROVE Syscall(t)
  <2>1. InUser(t)
    BY <1>6 DEF DoRegister, Executes
  <2>2. CASE Instr(t).op = "irq" /\ SysIrqRegister(t, Instr(t).arg)
    <3>1. Instr(t).arg \in IrqLines
      BY <1>1, <2>1, <2>2, CallArgs
    <3> QED
      BY <2>2, <3>1 DEF Syscall
  <2>3. CASE SysSetPager(t)
    BY <2>3 DEF Syscall
  <2> QED
    BY <1>6, <2>2, <2>3 DEF DoRegister, Executes
<1>7. ASSUME DoLocal(t) \/ DoMap(t) \/ DoDrain(t) \/ DoAsk(t) PROVE Syscall(t)
  BY <1>7 DEF DoLocal, DoMap, DoDrain, DoAsk, Syscall
<1>8. ASSUME DoTouch(t) PROVE Syscall(t) \/ PageFault(t)
  BY <1>8 DEF DoTouch, Syscall
<1>9. ASSUME DoEdit(t) PROVE Syscall(t)
  <2>1. CASE reader[t] # Nobody /\ ring[t] # << >>
    <3>1. Reply("READLINE", ring[t][1]) \in Message \ {FaultMsg}
      BY <1>9, <2>1, EditEffect DEF Mails
    <3>2. reader[t] \in Threads \cup {Any}
      BY <1>a DEF UsersOK
    <3>3. SysSend(t, reader[t], Reply("READLINE", ring[t][1]))
      BY <1>9, <2>1 DEF DoEdit
    <3> QED
      BY <3>1, <3>2, <3>3 DEF Syscall
  <2>2. CASE ~(reader[t] # Nobody /\ ring[t] # << >>)
    BY <1>9, <2>2 DEF DoEdit, Syscall
  <2> QED
    BY <2>1, <2>2
<1>10. ASSUME DoExit(t) PROVE Syscall(t)
  BY <1>10 DEF DoExit, Syscall
<1>11. ASSUME Returns(t) \/ FaultPath(t) \/ FaultEnds(t) PROVE KernelPath(t)
  BY <1>11 DEF Returns, FaultPath, FaultEnds, KernelPath
<1> QED
  BY <1>0, <1>2, <1>3, <1>4, <1>5, <1>6, <1>7, <1>8, <1>9, <1>10, <1>11 DEF Step, Works

LEMMA SystemIsKernel ==
    ASSUME SysInv, [SystemNext]_svars
    PROVE  [KNext]_kvars
<1>1. CASE UNCHANGED svars
  BY <1>1 DEF svars
<1>2. CASE StartInit
  BY <1>2, Numbers DEF StartInit, KNext
<1>3. ASSUME NEW t \in Threads, Step(t) PROVE [KNext]_kvars
  BY <1>3, StepIsKernel
<1>4. CASE IdleTick \/ Preempt
  BY <1>4 DEF IdleTick, Preempt, KNext
<1>5. ASSUME NEW term \in Keyed, NEW line \in Commands, Type(term, line) PROVE [KNext]_kvars
  <2>1. IrqOf(term) \in IrqLines
    BY SystemAssumption, ProgramsAssumption
  <2> QED
    BY <1>5, <2>1 DEF Type, KNext
<1> QED
  BY <1>1, <1>2, <1>3, <1>4, <1>5 DEF SystemNext, Runs

-----------------------------------------------------------------------------
(* What the forms of a step keep.                                          *)
LEMMA SameInstr ==
    ASSUME NEW u, prog'[u] = prog[u], at'[u] = at[u] PROVE Instr(u)' = Instr(u) /\ Code(u)' = Code(u)
BY DEF Instr, Code

LEMMA GoesKeeps ==
    ASSUME SysInv, NEW t \in Threads, NEW r, NEW m, Goes(t, r, m)
    PROVE  PlacesOK' /\ LivesOK' /\ BlockedOK'
<1> USE DEF SysInv
<1>1. prog[t] # "none" /\ Instr(t).op # "exit" /\ UNCHANGED prog /\ Stays
      /\ OthersStay(t) /\ resume'[t] = "none"
  BY DEF Goes
<1>2. PlaceOf(prog[t], After(t, r, m)) /\ After(t, r, m) \in Places
  BY <1>1, AfterPlace DEF PlaceOf
<1>3. /\ at' \in [Threads -> Places] /\ at'[t] = After(t, r, m)
      /\ \A u \in Threads \ {t} : at'[u] = at[u]
  BY <1>2 DEF Goes, Moves, PlacesOK
<1>4. PlacesOK'
  BY <1>1, <1>2, <1>3 DEF PlacesOK, PlaceOf
<1>5. LivesOK'
  BY <1>1 DEF LivesOK, Stays
<1>6. ASSUME NEW u \in Threads, resume'[u] # "none"
      PROVE  prog'[u] # "none" /\ Instr(u)'.op \in WaitsIn(resume'[u])
  <2>1. u # t /\ resume'[u] = resume[u]
    BY <1>1, <1>6 DEF OthersStay
  <2>2. Instr(u)' = Instr(u)
    BY <1>1, <1>3, <2>1, SameInstr
  <2> QED
    BY <1>1, <1>6, <2>1, <2>2 DEF BlockedOK
<1> QED
  BY <1>4, <1>5, <1>6 DEF BlockedOK

LEMMA StopsKeeps ==
    ASSUME SysInv, NEW t \in Threads, Stops(t)
    PROVE  PlacesOK' /\ LivesOK' /\ BlockedOK'
<1> USE DEF SysInv
<1>1. /\ prog[t] # "none" /\ Stays /\ OthersStay(t) /\ UNCHANGED <<prog, at>>
      /\ resume'[t] # "none" => Instr(t).op \in WaitsIn(resume'[t])
  BY DEF Stops
<1>2. PlacesOK' /\ LivesOK'
  BY <1>1 DEF PlacesOK, LivesOK, Stays, PlaceOf
<1>3. \A u \in Threads : Instr(u)' = Instr(u)
  BY <1>1, SameInstr
<1> QED
  BY <1>1, <1>2, <1>3 DEF BlockedOK, OthersStay

LEMMA SpawnedProgram ==
    ASSUME SysInv, NEW t \in Threads, NEW c \in Threads, NEW p, Starts(t, c, p)
    PROVE  p \in DOMAIN Program
<1>1. Instr(t) \in Instructions /\ Instr(t).op = "spawn" /\ p \in Instr(t).what
  BY Here DEF Starts, Allowed, SysInv
<1>2. Instr(t).what \subseteq DOMAIN Program
  BY <1>1 DEF Instructions
<1> QED
  BY <1>1, <1>2

LEMMA StartsKeeps ==
    ASSUME SysInv, NEW t \in Threads, NEW c \in Threads, NEW p, Starts(t, c, p)
    PROVE  PlacesOK' /\ LivesOK' /\ BlockedOK'
<1> USE DEF SysInv
<1>1. /\ prog[t] # "none" /\ Instr(t).op = "spawn" /\ c # t
      /\ tstate[c] \in Free /\ tstate'[c] \notin Free
      /\ \A u \in Threads \ {c} : tstate'[u] = tstate[u] /\ resume'[u] = resume[u]
      /\ resume'[c] = "none"
  BY DEF Starts, LowestFree
<1>2. p \in DOMAIN Program /\ p # "none"
  BY SpawnedProgram, Names
<1>3. PlaceOf(prog[t], After(t, 0, NoMsg)) /\ After(t, 0, NoMsg) \in Places
  BY <1>1, AfterPlace DEF PlaceOf
<1>4. PlaceOf(p, Entry("main")) /\ Entry("main") \in Places
  BY <1>2, MainPlace DEF PlaceOf
<1>5. /\ at' \in [Threads -> Places]
      /\ at'[t] = After(t, 0, NoMsg) /\ at'[c] = Entry("main")
      /\ \A u \in Threads \ {t, c} : at'[u] = at[u]
  BY <1>1, <1>3, <1>4 DEF Starts, PlacesOK
<1>6. /\ prog' \in [Threads -> DOMAIN Program \cup {"none"}]
      /\ prog'[c] = p /\ \A u \in Threads \ {c} : prog'[u] = prog[u]
  BY <1>2 DEF Starts, PlacesOK
<1>7. PlacesOK'
  BY <1>1, <1>2, <1>3, <1>4, <1>5, <1>6 DEF PlacesOK, PlaceOf
<1>8. LivesOK'
  BY <1>1, <1>2, <1>6 DEF LivesOK
<1>9. ASSUME NEW u \in Threads, resume'[u] # "none"
      PROVE  prog'[u] # "none" /\ Instr(u)'.op \in WaitsIn(resume'[u])
  <2>1. u # c /\ resume[u] = resume'[u]
    BY <1>1, <1>9
  <2>2. u # t
    <3>1. Instr(t).op \notin WaitsIn(resume[t])
      BY <1>1 DEF WaitsIn
    <3> QED
      BY <1>9, <2>1, <3>1 DEF BlockedOK
  <2>3. Instr(u)' = Instr(u) /\ prog'[u] = prog[u]
    BY <1>5, <1>6, <2>1, <2>2, SameInstr
  <2> QED
    BY <1>9, <2>1, <2>3 DEF BlockedOK
<1> QED
  BY <1>7, <1>8, <1>9 DEF BlockedOK

LEMMA EndsKeeps ==
    ASSUME SysInv, NEW t \in Threads, Ends(t)
    PROVE  PlacesOK' /\ LivesOK' /\ BlockedOK'
<1> USE DEF SysInv
<1>1. /\ \A u \in Threads \ {t} : tstate'[u] \in Free <=> tstate[u] \in Free
      /\ tstate'[t] \in Free
      /\ OthersStay(t) /\ resume'[t] = "none"
  BY DEF Ends
<1>2. "init" \in DOMAIN Program /\ Entry("main") \in Places
  BY Names, MainPlace DEF PlaceOf
<1>3. /\ prog' \in [Threads -> DOMAIN Program \cup {"none"}]
      /\ at' \in [Threads -> Places]
      /\ prog'[t] = "none" /\ at'[t] = Entry("main")
      /\ \A u \in Threads \ {t} : prog'[u] = prog[u] /\ at'[u] = at[u]
  BY <1>2 DEF Ends, PlacesOK
<1>4. PlacesOK' /\ LivesOK'
  BY <1>1, <1>3 DEF PlacesOK, PlaceOf, LivesOK
<1>5. \A u \in Threads \ {t} : Instr(u)' = Instr(u) /\ prog'[u] = prog[u] /\ resume'[u] = resume[u]
  BY <1>1, <1>3, SameInstr DEF OthersStay
<1> QED
  BY <1>1, <1>4, <1>5 DEF BlockedOK

LEMMA EffectKeeps ==
    ASSUME SysInv, NEW t \in Threads, Effect(t)
    PROVE  PlacesOK' /\ LivesOK' /\ BlockedOK'
BY GoesKeeps, StopsKeeps, StartsKeeps, EndsKeeps DEF Effect

\* The typed part of a program's state.
LEMMA ChildKept ==
    ASSUME SysInv, NEW t \in Threads, Step(t)
    PROVE  child' \in [Threads -> Threads \cup {Nobody}]
<1> USE DEF SysInv
<1>1. child \in [Threads -> Threads \cup {Nobody}]
  BY DEF UsersOK
<1>2. CASE DoSpawn(t)
  BY <1>1, <1>2 DEF DoSpawn
<1>3. CASE DoExit(t) \/ FaultEnds(t)
  BY <1>1, <1>3 DEF DoExit, FaultEnds, Gone
<1>4. CASE DoEdit(t)
  BY <1>1, <1>4 DEF DoEdit, Follow
<1>5. CASE DoTouch(t)
  BY <1>1, <1>5 DEF DoTouch, userVars
<1>6. CASE DoGrant(t) \/ DoRegister(t) \/ DoLocal(t) \/ DoMap(t) \/ DoDrain(t) \/ DoAsk(t)
  BY <1>1, <1>6 DEF DoGrant, DoRegister, DoLocal, DoMap, DoDrain, DoAsk
<1>7. CASE DoSend(t) \/ DoRecv(t) \/ Returns(t)
  BY <1>1, <1>7 DEF DoSend, DoRecv, Returns, Follow
<1>8. CASE FaultPath(t)
  BY <1>1, <1>8 DEF FaultPath, userVars
<1> QED
  BY <1>2, <1>3, <1>4, <1>5, <1>6, <1>7, <1>8 DEF Step, Works

LEMMA LinesKept ==
    ASSUME SysInv, NEW t \in Threads, Step(t)
    PROVE  device' \in [Terminals -> Seq(Commands)] /\ ring' \in [Terminals -> Seq(Commands)]
<1> USE DEF SysInv
<1>1. device \in [Terminals -> Seq(Commands)] /\ ring \in [Terminals -> Seq(Commands)]
  BY DEF UsersOK
<1>2. CASE DoDrain(t)
  <2>1. t \in Terminals
    BY <1>2, Awake, TerminalsEdit DEF DoDrain, Executes
  <2>2. ring[t] \in Seq(Commands) /\ device[t] \in Seq(Commands)
    BY <1>1, <2>1
  <2>3. ring[t] \o device[t] \in Seq(Commands) /\ << >> \in Seq(Commands)
    BY <2>2
  <2> QED
    BY <1>1, <1>2, <2>3 DEF DoDrain
<1>3. CASE DoEdit(t)
  <2>1. t \in Terminals
    BY <1>3, Awake, TerminalsEdit DEF DoEdit, Executes
  <2>2. ring[t] # << >> => Tail(ring[t]) \in Seq(Commands)
    BY <1>1, <2>1
  <2> QED
    BY <1>1, <1>3, <2>2 DEF DoEdit
<1>4. CASE UNCHANGED <<device, ring>>
  BY <1>1, <1>4
<1> QED
  BY <1>2, <1>3, <1>4 DEF Step, Works, DoSend, DoRecv, DoSpawn, DoGrant, DoRegister, DoLocal, DoTouch, DoMap,
     DoAsk, DoExit, Returns, FaultPath, FaultEnds, Gone, Others, userVars

LEMMA AskersKept ==
    ASSUME SysInv, NEW t \in Threads, Effect(t)
    PROVE  /\ client' \in [Threads -> Threads \cup {Nobody, Irq}]
           /\ reader' \in [Threads -> Threads \cup {Nobody}]
<1> USE DEF SysInv
<1>1. /\ client \in [Threads -> Threads \cup {Nobody, Irq}]
      /\ reader \in [Threads -> Threads \cup {Nobody}]
  BY DEF UsersOK
<1>2. prog[t] # "none"
  BY DEF Effect, Goes, Stops, Starts, Ends
<1>3. Instr(t).op = "ask" => client[t] \in Threads \cup {Nobody}
  BY <1>2, SendsToThreads DEF OfRequest
<1>4. reader' \in [Threads -> Threads \cup {Nobody}]
  BY <1>1, <1>3 DEF Effect, Asking
<1>5. ASSUME NEW r, NEW m, Goes(t, r, m) PROVE client' \in [Threads -> Threads \cup {Nobody, Irq}]
  BY <1>1, <1>5 DEF Goes, Remembers, Nobody
<1>6. ASSUME Stops(t) PROVE client' \in [Threads -> Threads \cup {Nobody, Irq}]
  BY <1>1, <1>6 DEF Stops
<1>7. ASSUME Ends(t) PROVE client' \in [Threads -> Threads \cup {Nobody, Irq}]
  BY <1>1, <1>7 DEF Ends
<1>8. ASSUME NEW c \in Threads, NEW p, Starts(t, c, p)
      PROVE  client' \in [Threads -> Threads \cup {Nobody, Irq}]
  BY <1>1, <1>8 DEF Starts
<1> QED
  BY <1>4, <1>5, <1>6, <1>7, <1>8 DEF Effect

\* A notification selects a block that answers nobody.
LEMMA IrqSelects ==
    ASSUME SysInv, NEW t \in Threads, prog[t] \in Servers, NEW r, NEW m, Goes(t, r, m)
    PROVE  client'[t] = Irq => After(t, r, m).block \in OwnBlocks
<1> USE DEF SysInv
<1>1. prog[t] # "none" /\ BlockOK(prog[t], at[t].block) /\ at[t].pc \in DOMAIN Code(t)
  BY Here DEF Goes, PlaceOf, Code
<1>2. Remembers(t, r)
  BY DEF Goes
<1>3. "loop" \in OwnBlocks /\ "IRQ" \in OwnBlocks
  BY DEF OwnBlocks
<1>4. Entry("loop").block = "loop" /\ Entry("IRQ").block = "IRQ"
  BY DEF Entry
<1>5. CASE Code(t) = Serves
  <2>1. at[t].pc = 1 /\ Instr(t) = Recv(Any) /\ Len(Code(t)) = 1
    BY <1>1, <1>5, LoopReceives
  <2>2. Instr(t).orelse = "rest"
    BY <2>1, Rests
  <2>3. client'[t] = r
    BY <1>2, <1>5 DEF Remembers, UsersOK
  <2>4. After(t, r, m) \in {Entry("loop"), Selects(t, r, m)}
    BY <2>1, <2>2 DEF After
  <2>5. r = Irq => Selects(t, r, m) \in {Entry("loop"), Entry("IRQ")}
    BY DEF Selects
  <2> QED
    BY <1>3, <1>4, <2>3, <2>4, <2>5
<1>6. CASE Code(t) # Serves
  <2>1. SUFFICES ASSUME client'[t] = Irq PROVE After(t, r, m).block \in OwnBlocks
    OBVIOUS
  <2>2. client[t] = Irq
    BY <1>2, <1>6, <2>1 DEF Remembers
  <2>3. at[t].block \in OwnBlocks /\ at[t].block # "loop"
    BY <1>1, <1>6, <2>2 DEF UsersOK, BlockOK, Code
  <2>4. Instr(t) \in OwnInstructions(prog[t])
    BY <1>1, <2>3 DEF BlockOK, Code, Instr, Block
  <2>5. Instr(t).orelse = "rest"
    BY <2>4 DEF OwnInstructions, BootInstructions
  <2>6. After(t, r, m) \in {Entry("loop"), [at[t] EXCEPT !.pc = @ + 1]}
    BY <2>3, <2>5 DEF After
  <2>7. [at[t] EXCEPT !.pc = @ + 1].block = at[t].block
    BY DEF PlacesOK, Places
  <2> QED
    BY <1>3, <1>4, <2>3, <2>6, <2>7
<1> QED
  BY <1>5, <1>6

LEMMA OwnKept ==
    ASSUME SysInv, NEW t \in Threads, Effect(t)
    PROVE  \A u \in Threads : client'[u] = Irq /\ prog'[u] \in Servers => at'[u].block \in OwnBlocks
<1> USE DEF SysInv
<1>1. \A u \in Threads : client[u] = Irq /\ prog[u] \in Servers => at[u].block \in OwnBlocks
  BY DEF UsersOK
<1>2. /\ client \in [Threads -> Threads \cup {Nobody, Irq}] /\ at \in [Threads -> Places]
      /\ prog \in [Threads -> DOMAIN Program \cup {"none"}]
  BY DEF UsersOK, PlacesOK
<1>3. ASSUME NEW r, NEW m, Goes(t, r, m), NEW u \in Threads, client'[u] = Irq, prog'[u] \in Servers
      PROVE  at'[u].block \in OwnBlocks
  <2>1. CASE u = t
    BY <1>2, <1>3, <2>1, IrqSelects DEF Goes, Moves
  <2>2. CASE u # t
    BY <1>1, <1>2, <1>3, <2>2 DEF Goes, Moves, Remembers
  <2> QED
    BY <2>1, <2>2
<1>4. CASE Stops(t)
  BY <1>1, <1>4 DEF Stops
<1>5. ASSUME NEW c \in Threads, NEW p, Starts(t, c, p), NEW u \in Threads, client'[u] = Irq,
             prog'[u] \in Servers
      PROVE  at'[u].block \in OwnBlocks
  <2>1. u # c
    BY <1>2, <1>5 DEF Starts, Nobody, Irq
  <2>2. client[u] = Irq /\ prog[u] \in Servers
    BY <1>2, <1>5, <2>1 DEF Starts
  <2>3. CASE u # t
    BY <1>1, <1>2, <1>5, <2>1, <2>2, <2>3 DEF Starts
  <2>4. CASE u = t
    <3>1. at[t].block \in OwnBlocks /\ BlockOK(prog[t], at[t].block) /\ at[t].pc \in DOMAIN Code(t)
      <4>1. at[t].block \in OwnBlocks /\ prog[t] # "none"
        BY <1>1, <1>5, <2>2, <2>4 DEF Starts
      <4>2. PlaceOf(prog[t], at[t]) /\ BlockOK(prog[t], at[t].block)
        BY <4>1, Here
      <4> QED
        BY <4>1, <4>2 DEF PlaceOf, Code
    <3>2. Instr(t) \in OwnInstructions(prog[t])
      BY <2>2, <2>4, <3>1 DEF BlockOK, Code, Instr, Block
    <3> QED
      BY <1>5, <3>2 DEF Starts, OwnInstructions, BootInstructions
  <2> QED
    BY <2>3, <2>4
<1>6. ASSUME Ends(t), NEW u \in Threads, client'[u] = Irq, prog'[u] \in Servers
      PROVE  at'[u].block \in OwnBlocks
  <2>1. u # t
    BY <1>2, <1>6 DEF Ends, Nobody, Irq
  <2> QED
    BY <1>1, <1>2, <1>6, <2>1 DEF Ends
<1> QED
  BY <1>3, <1>4, <1>5, <1>6 DEF Effect

LEMMA UsersKept ==
    ASSUME SysInv, NEW t \in Threads, Step(t)
    PROVE  UsersOK'
BY ChildKept, LinesKept, AskersKept, OwnKept, StepEffect DEF UsersOK

-----------------------------------------------------------------------------
(* The boot.                                                               *)
LEMMA InitHere ==
    ASSUME PlacesOK, NEW t \in Threads, prog[t] = "init"
    PROVE  /\ at[t] \in Places /\ at[t].block = "main" /\ Code(t) = init_main
           /\ at[t].pc \in 1 .. Len(init_main) /\ Len(init_main) \in Nat
           /\ Instr(t) = init_main[at[t].pc] /\ Instr(t) \in InitPlace(at[t].pc)
<1>1. Program["init"] = init /\ DOMAIN init = {"main"} /\ "init" # "none"
  BY Names, Blocks
<1>2. init["main"] = init_main
  BY DEF init
<1>3. PlaceOf("init", at[t])
  BY <1>1 DEF PlacesOK
<1>4. at[t] \in Places /\ at[t].block = "main" /\ Code(t) = init_main /\ at[t].pc \in DOMAIN init_main
  BY <1>1, <1>2, <1>3 DEF PlaceOf, Code
<1>5. DOMAIN init_main = 1 .. Len(init_main) /\ Len(init_main) \in Nat
  BY initOK DEF InitCode, Block
<1>6. Instr(t) = init_main[at[t].pc]
  BY <1>4 DEF Instr
<1>7. init_main[at[t].pc] \in InitPlace(at[t].pc)
  BY <1>4, initOK DEF InitCode
<1> QED
  BY <1>4, <1>5, <1>6, <1>7

LEMMA SpawnsLook ==
    ASSUME NEW p
    PROVE  Spawns(p).op = "spawn" /\ Spawns(p).what = {p} /\ Spawns(p).orelse = "rest"
BY DEF Spawns, SpawnsOne, Instruction

\* The instructions of init by their places.
LEMMA InitInstr ==
    ASSUME NEW i \in Nat, i > 0, NEW x \in InitPlace(i)
    PROVE  /\ x.orelse = "rest"
           /\ i \in {1, 7, 12, 16, 20, 28} =>
                 /\ x.op = "spawn" /\ x.what = {Cast[SpawnsBefore(i) + 1]}
                 /\ SpawnsBefore(i + 1) = SpawnsBefore(i) + 1
           /\ i < 28 /\ i \notin {1, 7, 12, 16, 20} =>
                 /\ x.op \in {"send", "recv", "grant", "grantio", "local"}
                 /\ x.op = "send" => x.what \subseteq BootMails
                 /\ SpawnsBefore(i + 1) = SpawnsBefore(i)
           /\ i > 28 /\ x.op = "spawn" => x.what \subseteq {"shell", "shell2"}
<1>1. CASE i = 1
  BY <1>1, SpawnsLook, Places6 DEF InitPlace, SpawnsBefore
<1>2. CASE i = 7
  BY <1>2, SpawnsLook, Places6 DEF InitPlace, SpawnsBefore
<1>3. CASE i = 12
  BY <1>3, SpawnsLook, Places6 DEF InitPlace, SpawnsBefore
<1>4. CASE i = 16
  BY <1>4, SpawnsLook, Places6 DEF InitPlace, SpawnsBefore
<1>5. CASE i = 20
  BY <1>5, SpawnsLook, Places6 DEF InitPlace, SpawnsBefore
<1>6. CASE i = 28
  BY <1>6, SpawnsLook, Places6 DEF InitPlace, SpawnsBefore
<1>7. CASE i > 28
  <2>1. x \in InitLate
    BY <1>7 DEF InitPlace
  <2> QED
    BY <1>7, <2>1 DEF InitLate
<1>8. CASE i < 28 /\ i \notin {1, 7, 12, 16, 20}
  <2>1. x \in InitQuiet
    BY <1>8 DEF InitPlace
  <2>2. SpawnsBefore(i + 1) = SpawnsBefore(i)
    BY <1>8 DEF SpawnsBefore
  <2> QED
    BY <1>8, <2>1, <2>2 DEF InitQuiet
<1> QED
  BY <1>1, <1>2, <1>3, <1>4, <1>5, <1>6, <1>7, <1>8

\* init goes through its code from the first instruction to the last.
LEMMA InitAfter ==
    ASSUME PlacesOK, NEW t \in Threads, prog[t] = "init", Instr(t).op # "exit", NEW r, NEW m
    PROVE  After(t, r, m).pc = at[t].pc + 1 /\ After(t, r, m).block = "main"
<1>1. /\ at[t] \in Places /\ at[t].block = "main" /\ Code(t) = init_main
      /\ at[t].pc \in 1 .. Len(init_main) /\ Len(init_main) \in Nat
      /\ Instr(t) = init_main[at[t].pc] /\ Instr(t) \in InitPlace(at[t].pc)
  BY InitHere
<1>2. Instr(t).orelse = "rest"
  BY <1>1, InitInstr
<1>3. at[t].pc # Len(init_main)
  BY <1>1, initOK
<1>4. After(t, r, m) = [at[t] EXCEPT !.pc = @ + 1]
  BY <1>1, <1>2, <1>3 DEF After
<1> QED
  BY <1>1, <1>4 DEF Places

LEMMA Present ==
    ASSUME Booting, PlacesOK, NEW t \in Threads, prog[t] # "none"
    PROVE  t = Root \/ (prog[t] \in Servers /\ t \in 1 .. SpawnsBefore(at[Root].pc))
<1> DEFINE k == SpawnsBefore(at[Root].pc)
<1>0. at[Root].pc \in Nat
  BY Numbers DEF PlacesOK, Places
<1>1. k \in 0 .. 6 /\ t \in Nat
  BY <1>0, Places6
<1>2. ~(t > k)
  BY DEF Booting
<1> HIDE DEF k
<1>3. CASE t = 0
  BY <1>3 DEF Root
<1>4. CASE t \in 1 .. k
  <2>1. prog[t] = Cast[t]
    BY <1>4 DEF Booting, Numbered, k
  <2>2. t \in {1, 2, 3, 4, 5, 6}
    BY <1>1, <1>4
  <2>3. prog[t] \in Servers
    BY <2>1, <2>2, Places6 DEF Servers
  <2> QED
    BY <2>3, <1>4 DEF k
<1> QED
  BY <1>1, <1>2, <1>3, <1>4

LEMMA QuietServer ==
    ASSUME Quiet, PlacesOK, NEW t \in Threads, prog[t] \in Servers
    PROVE  /\ Instr(t) \in BootInstructions(prog[t])
           /\ Instr(t).op \notin {"spawn", "touch", "ask", "map", "exit"}
           /\ Instr(t).orelse = "rest"
           /\ Instr(t).op = "send" => Instr(t).what \subseteq BootMails
<1>1. prog[t] # "none"
  BY DEF Servers
<1>2. BlockOK(prog[t], at[t].block) /\ at[t].pc \in DOMAIN Code(t) /\ at[t].block \in BootBlocks
  BY <1>1, Here DEF Quiet, PlaceOf, Code
<1>3. Instr(t) \in BootInstructions(prog[t])
  BY <1>2 DEF BlockOK, Code, Instr, Block
<1> QED
  BY <1>3 DEF BootInstructions

\* While the system boots, no thread ends, only init spawns, and all that is
\* said is said by the boot protocol.
LEMMA BootCalls ==
    ASSUME Booting, PlacesOK, NEW t \in Threads, prog[t] # "none"
    PROVE  /\ Instr(t).op \notin {"touch", "ask", "map", "exit"}
           /\ Instr(t).op = "spawn" => t = Root /\ at[Root].pc \in {1, 7, 12, 16, 20, 28}
           /\ Words(t) \subseteq BootMails
<1>1. /\ Instr(t).op \notin {"touch", "ask", "map", "exit"}
      /\ Instr(t).op = "spawn" => t = Root /\ at[Root].pc \in {1, 7, 12, 16, 20, 28}
      /\ Instr(t).op = "send" => Instr(t).what \subseteq BootMails
  <2>1. CASE t = Root
    <3>1. prog[t] = "init" /\ at[t].pc <= 28
      BY <2>1 DEF Booting
    <3>2. at[t].pc \in Nat \ {0} /\ Instr(t) \in InitPlace(at[t].pc)
      BY <3>1, InitHere
    <3> QED
      BY <2>1, <3>1, <3>2, InitInstr
  <2>2. CASE prog[t] \in Servers
    BY <2>2, QuietServer DEF Booting
  <2> QED
    BY <2>1, <2>2, Present
<1>2. reader[t] = Nobody
  BY DEF Booting, Quiet
<1> QED
  BY <1>1, <1>2 DEF Words

LEMMA BootMailsLook ==
    /\ Ready.label = "READY"
    /\ Go.label = "REPLY" /\ Go.val = "go"
    /\ Request("WRITE").label = "WRITE"
    /\ Reply("WRITE", "ok").label = "REPLY" /\ Reply("WRITE", "ok").val = "ok"
BY DEF Ready, Go, Request, Reply

\* A server that got a boot message, or a notification, stays in such blocks.
LEMMA QuietSelects ==
    ASSUME NEW t, prog[t] \in Servers, NEW r, NEW m, r = Irq \/ m \in BootMails
    PROVE  Selects(t, r, m).block \in BootBlocks
<1>1. \A p \in Servers : {"READY", "go", "ok"} \cap DOMAIN Program[p] = {}
  BY Names, Blocks DEF Servers
<1>2. \A b : Entry(b).block = b
  BY DEF Entry
<1>3. CASE r = Irq
  BY <1>2, <1>3 DEF Selects, BootBlocks
<1>4. ASSUME r # Irq, m = Ready PROVE Selects(t, r, m) = Entry("loop")
  BY <1>1, <1>4, BootMailsLook DEF Selects
<1>5. ASSUME r # Irq, m = Go PROVE Selects(t, r, m) = Entry("loop")
  BY <1>1, <1>5, BootMailsLook DEF Selects
<1>6. ASSUME r # Irq, m = Reply("WRITE", "ok") PROVE Selects(t, r, m) = Entry("loop")
  BY <1>1, <1>6, BootMailsLook DEF Selects
<1>7. ASSUME r # Irq, m = Request("WRITE") PROVE Selects(t, r, m) \in {Entry("loop"), Entry("WRITE")}
  BY <1>7, BootMailsLook DEF Selects
<1> QED
  BY <1>2, <1>3, <1>4, <1>5, <1>6, <1>7 DEF BootMails, BootBlocks

LEMMA QuietAfter ==
    ASSUME Quiet, PlacesOK, NEW t \in Threads, prog[t] \in Servers, NEW r, NEW m, Goes(t, r, m)
    PROVE  After(t, r, m).block \in BootBlocks
<1>1. /\ prog[t] # "none" /\ at[t].block \in BootBlocks /\ BlockOK(prog[t], at[t].block)
      /\ at[t].pc \in DOMAIN Code(t) /\ at[t] \in Places
  BY Here DEF Quiet, Goes, PlaceOf, Code
<1>2. Instr(t).orelse = "rest"
  BY QuietServer
<1>3. "loop" \in BootBlocks /\ Entry("loop").block = "loop"
  BY DEF BootBlocks, Entry
<1>4. CASE at[t].pc < Len(Code(t))
  <2>1. After(t, r, m) = [at[t] EXCEPT !.pc = @ + 1]
    BY <1>2, <1>4 DEF After
  <2>2. [at[t] EXCEPT !.pc = @ + 1].block = at[t].block
    BY <1>1 DEF Places
  <2> QED
    BY <1>1, <2>1, <2>2
<1>5. CASE ~(at[t].pc < Len(Code(t))) /\ at[t].block # "loop"
  BY <1>2, <1>3, <1>5 DEF After
<1>6. CASE ~(at[t].pc < Len(Code(t))) /\ at[t].block = "loop"
  <2>1. After(t, r, m) = Selects(t, r, m)
    BY <1>2, <1>6 DEF After
  <2>2. Code(t) = Serves
    BY <1>1, <1>6 DEF BlockOK, Code
  <2>3. Instr(t).op = "recv"
    BY <1>1, <2>2, LoopReceives, Ops
  <2>4. r = Irq \/ m \in BootMails
    BY <2>3, IpcAssumption DEF Goes, Quiet
  <2> QED
    BY <2>1, <2>4, QuietSelects
<1> QED
  BY <1>4, <1>5, <1>6

\* The boot goes on: no spawn, or the next one.
LEMMA QuietWords ==
    ASSUME Booting, PlacesOK, UsersOK, NEW t \in Threads, Effect(t)
    PROVE  /\ \A u \in Threads : reader'[u] = Nobody
           /\ \A u \in Threads : ipc_buf'[u] \in BootMails \cup {NoMsg}
           /\ prog[t] # "none"
           /\ ~Ends(t)
<1>1. prog[t] # "none"
  BY DEF Effect, Goes, Stops, Starts, Ends
<1>2. /\ Instr(t).op \notin {"touch", "ask", "map", "exit"} /\ Words(t) \subseteq BootMails
  BY <1>1, BootCalls
<1>3. \A u \in Threads : reader[u] = Nobody /\ ipc_buf[u] \in BootMails \cup {NoMsg}
  BY DEF Booting, Quiet
<1>4. \A u \in Threads : ipc_buf'[u] \in BootMails \cup {NoMsg}
  BY <1>2, <1>3 DEF Effect, Carries
<1>5. UNCHANGED reader \/ reader' = [reader EXCEPT ![t] = Nobody]
  BY <1>2 DEF Effect, Asking
<1>6. \A u \in Threads : reader'[u] = Nobody
  BY <1>3, <1>5 DEF UsersOK
<1> QED
  BY <1>1, <1>2, <1>4, <1>6 DEF Ends

LEMMA BootingGoes ==
    ASSUME SysInv, Booting, NEW t \in Threads, Effect(t), NEW r, NEW m, Goes(t, r, m)
    PROVE  Booting'
<1>0. Instr(t).op = "spawn" => \A c \in Threads : tstate[c] \notin Free
  BY DEF Goes
<1> USE DEF SysInv
<1>1. /\ \A u \in Threads : reader'[u] = Nobody
      /\ \A u \in Threads : ipc_buf'[u] \in BootMails \cup {NoMsg}
      /\ prog[t] # "none"
  BY QuietWords
<1>2. UNCHANGED prog /\ Instr(t).op # "exit" /\ Root \in Threads
  BY Numbers DEF Goes
<1>3. /\ at'[t] = After(t, r, m) /\ \A u \in Threads \ {t} : at'[u] = at[u]
  BY DEF Goes, Moves, PlacesOK
<1>4. \A u \in Threads : prog'[u] \in Servers => at'[u].block \in BootBlocks
  BY <1>2, <1>3, QuietAfter DEF Booting, Quiet
<1>5. Quiet'
  BY <1>1, <1>4 DEF Quiet
<1> DEFINE k == SpawnsBefore(at[Root].pc)
<1>6. /\ prog[Root] = "init" /\ at[Root].pc <= 28 /\ at[Root].pc \in Nat /\ Numbered(k)
      /\ \A u \in Threads : u > k => prog[u] = "none"
  BY Numbers DEF Booting, PlacesOK, Places
<1>7. at'[Root].pc <= 28 /\ SpawnsBefore(at'[Root].pc) = k
  <2>1. CASE t # Root
    BY <1>2, <1>3, <1>6, <2>1
  <2>2. CASE t = Root
    <3>1. at'[Root].pc = at[Root].pc + 1
      BY <1>2, <1>3, <1>6, <2>2, InitAfter
    <3>2. at[Root].pc \in Nat \ {0} /\ Instr(Root) \in InitPlace(at[Root].pc)
      BY <1>2, <1>6, InitHere
    <3>3. Instr(Root).op # "spawn"
      <4>1. SUFFICES ASSUME Instr(Root).op = "spawn" PROVE FALSE
        OBVIOUS
      <4>2. \A c \in Threads : tstate[c] \notin Free
        BY ONLY <1>0, <2>2, <4>1
      <4>3. k \in 0 .. 5
        BY <1>6, FiveBefore
      <4>4. k + 1 \in Threads /\ k + 1 > k
        BY <4>3, Numbers DEF Threads
      <4>5. prog[k + 1] = "none"
        BY <1>6, <4>4
      <4> QED
        BY <4>2, <4>4, <4>5 DEF LivesOK
    <3>4. at[Root].pc \notin {1, 7, 12, 16, 20, 28}
      BY <3>2, <3>3, InitInstr
    <3>5. SpawnsBefore(at[Root].pc + 1) = SpawnsBefore(at[Root].pc)
      BY <1>6, <3>2, <3>4, InitInstr
    <3> QED
      BY <1>6, <3>1, <3>4, <3>5
  <2> QED
    BY <2>1, <2>2
<1> HIDE DEF k
<1>8. Numbered(k)' <=> Numbered(k)
  BY <1>2, <1>7 DEF Numbered, k
<1>9. /\ prog'[Root] = "init"
      /\ Numbered(SpawnsBefore(at[Root].pc))'
      /\ \A u \in Threads : u > SpawnsBefore(at'[Root].pc) => prog'[u] = "none"
  BY <1>2, <1>6, <1>7 DEF Numbered
<1> QED
  BY <1>5, <1>7, <1>9 DEF Booting

LEMMA BootingStops ==
    ASSUME Booting, PlacesOK, UsersOK, NEW t \in Threads, Effect(t), Stops(t)
    PROVE  Booting'
<1>1. /\ \A u \in Threads : reader'[u] = Nobody
      /\ \A u \in Threads : ipc_buf'[u] \in BootMails \cup {NoMsg}
  BY QuietWords
<1>2. UNCHANGED <<prog, at>>
  BY DEF Stops
<1> QED
  BY <1>1, <1>2 DEF Booting, Quiet, Numbered

LEMMA BootingStarts ==
    ASSUME SysInv, Booting, NEW t \in Threads, Effect(t), NEW c \in Threads, NEW p, Starts(t, c, p)
    PROVE  Booting' \/ Running'
<1> USE DEF SysInv
<1>1. /\ \A u \in Threads : reader'[u] = Nobody
      /\ \A u \in Threads : ipc_buf'[u] \in BootMails \cup {NoMsg}
      /\ prog[t] # "none"
  BY QuietWords
<1>2. Instr(t).op = "spawn" /\ p \in Instr(t).what /\ c # t /\ LowestFree(c)
  BY DEF Starts
<1>3. t = Root /\ at[Root].pc \in {1, 7, 12, 16, 20, 28} /\ Root \in Threads
  BY <1>1, <1>2, BootCalls, Numbers
<1> DEFINE pc == at[Root].pc
           k == SpawnsBefore(pc)
<1>4. prog[Root] = "init" /\ Numbered(k) /\ \A u \in Threads : u > k => prog[u] = "none"
  BY DEF Booting
<1>5. Instr(Root) \in InitPlace(pc) /\ pc \in Nat \ {0}
  BY <1>3, <1>4, InitHere
<1>6. p = Cast[k + 1] /\ SpawnsBefore(pc + 1) = k + 1
  <2>1. Instr(Root).what = {Cast[k + 1]} /\ SpawnsBefore(pc + 1) = k + 1
    BY <1>3, <1>5, InitInstr
  <2> QED
    BY <1>2, <1>3, <2>1
<1>7. k \in 0 .. 5
  BY <1>3 DEF SpawnsBefore
<1>8. at'[Root].pc = pc + 1 /\ at'[c] = Entry("main") /\ \A u \in Threads \ {t, c} : at'[u] = at[u]
  <2>1. at'[Root] = After(t, 0, NoMsg) /\ at'[c] = Entry("main")
        /\ \A u \in Threads \ {t, c} : at'[u] = at[u]
    BY <1>2, <1>3 DEF Starts, PlacesOK
  <2>2. After(t, 0, NoMsg).pc = pc + 1
    BY <1>2, <1>3, <1>4, InitAfter
  <2> QED
    BY <2>1, <2>2
<1>9. prog'[c] = p /\ \A u \in Threads \ {c} : prog'[u] = prog[u]
  BY DEF Starts, PlacesOK
<1>10. Cast[k + 1] \in Servers
  <2>1. k + 1 \in {1, 2, 3, 4, 5, 6}
    BY <1>7
  <2> QED
    BY <2>1, Places6 DEF Servers
<1> HIDE DEF pc, k
<1>11. c = k + 1
  <2>1. k + 1 \in Threads /\ k + 1 > k
    BY <1>7, Numbers DEF Threads
  <2>2. tstate[k + 1] \in Free
    BY <1>4, <2>1 DEF LivesOK
  <2>3. c <= k + 1
    BY <1>2, <2>1, <2>2 DEF LowestFree
  <2>4. prog[c] = "none"
    BY <1>2 DEF LowestFree, LivesOK
  <2>5. c # 0
    BY <1>2, <1>3 DEF Root
  <2>6. c \notin 1 .. k
    <3>1. SUFFICES ASSUME c \in 1 .. k PROVE FALSE
      OBVIOUS
    <3>2. prog[c] = Cast[c]
      BY <1>4, <3>1 DEF Numbered
    <3>3. c \in {1, 2, 3, 4, 5}
      BY <1>7, <3>1
    <3> QED
      BY <2>4, <3>2, <3>3, Places6
  <2> QED
    BY <1>7, <2>1, <2>3, <2>5, <2>6 DEF Threads
<1>n. PICK n \in 1 .. 6 : n = k + 1
  BY <1>7
<1>12. Numbered(n)'
  <2> SUFFICES ASSUME NEW u \in Threads
               PROVE  /\ u \in 1 .. n => prog'[u] = Cast[u]
                      /\ prog'[u] \in Servers => u \in 1 .. n
                      /\ prog'[u] = "init" => u = Root
    BY DEF Numbered
  <2>1. CASE u = c
    BY <1>6, <1>7, <1>9, <1>10, <1>11, <1>n, <2>1 DEF Servers
  <2>2. CASE u # c
    <3>1. prog'[u] = prog[u]
      BY <1>9, <2>2
    <3>2. u \in 1 .. n <=> u \in 1 .. k
      BY <1>7, <1>11, <1>n, <2>2 DEF Threads
    <3> QED
      BY <1>4, <3>1, <3>2 DEF Numbered
  <2> QED
    BY <2>1, <2>2
<1>13. CASE pc = 28
  <2>1. k = 5
    BY <1>13 DEF k, SpawnsBefore
  <2>2. n = 6
    BY <1>n, <2>1
  <2> QED
    BY <1>8, <1>12, <1>13, <2>2 DEF Running
<1>14. CASE pc # 28
  <2>1. pc + 1 <= 28
    BY <1>3, <1>14 DEF pc
  <2>2. \A u \in Threads : prog'[u] \in Servers => at'[u].block \in BootBlocks
    <3> SUFFICES ASSUME NEW u \in Threads, prog'[u] \in Servers
                 PROVE  at'[u].block \in BootBlocks
      OBVIOUS
    <3>1. CASE u = c
      BY <1>8, <3>1 DEF Entry, BootBlocks
    <3>2. CASE u # c
      <4>1. prog[u] \in Servers
        BY <1>9, <3>2
      <4>2. u # t
        BY <1>3, <1>4, <4>1 DEF Servers
      <4> QED
        BY <1>8, <3>2, <4>1, <4>2 DEF Booting, Quiet
    <3> QED
      BY <3>1, <3>2
  <2>3. Quiet'
    BY <1>1, <2>2 DEF Quiet
  <2>4. prog'[Root] = "init"
    BY <1>2, <1>3, <1>4, <1>9
  <2>5. \A u \in Threads : u > k + 1 => prog'[u] = "none"
    BY <1>4, <1>7, <1>9, <1>11 DEF Threads
  <2>6. SpawnsBefore(at'[Root].pc) = k + 1 /\ at'[Root].pc <= 28
    BY <1>6, <1>8, <2>1
  <2>7. Numbered(SpawnsBefore(at[Root].pc))'
    BY <1>12, <1>n, <2>6 DEF Numbered
  <2> QED
    BY <2>3, <2>4, <2>5, <2>6, <2>7 DEF Booting
<1> QED
  BY <1>13, <1>14

\* After the boot, servers stay and nobody becomes one.
LEMMA RunningKept ==
    ASSUME SysInv, Running, NEW t \in Threads, Effect(t)
    PROVE  Running'
<1> USE DEF SysInv
<1>0. prog[t] # "none"
  BY DEF Effect, Goes, Stops, Starts, Ends
<1>a. prog[t] \in DOMAIN Program /\ Instr(t) \in Allowed(prog[t]) /\ Instr(t).op \in Calls[prog[t]]
  BY <1>0, Here DEF Allowed
<1>b. Numbered(6) /\ (prog[Root] = "init" => at[Root].pc > 28) /\ Root \in Threads
  BY Numbers DEF Running
<1>c. at[Root].pc \in Nat
  BY <1>b DEF PlacesOK, Places
<1>1. ASSUME NEW r, NEW m, Goes(t, r, m) PROVE Running'
  <2>1. UNCHANGED prog /\ Instr(t).op # "exit"
    BY <1>1 DEF Goes
  <2>2. Numbered(6)'
    BY <1>b, <2>1 DEF Numbered
  <2>3. prog[Root] = "init" => at'[Root].pc > 28
    <3>1. CASE t = Root
      <4>1. at'[Root] = After(t, r, m)
        BY <1>1, <1>b, <3>1 DEF Goes, Moves, PlacesOK
      <4> QED
        BY <1>b, <1>c, <2>1, <3>1, <4>1, InitAfter
    <3>2. CASE t # Root
      BY <1>1, <1>b, <3>2 DEF Goes, Moves, PlacesOK
    <3> QED
      BY <3>1, <3>2
  <2> QED
    BY <2>1, <2>2, <2>3 DEF Running
<1>2. CASE Stops(t)
  BY <1>2, <1>b DEF Stops, Running, Numbered
<1>3. ASSUME NEW c \in Threads, NEW p, Starts(t, c, p) PROVE Running'
  <2>1. /\ Instr(t).op = "spawn" /\ p \in Instr(t).what /\ c # t /\ tstate[c] \in Free
        /\ prog'[c] = p /\ \A u \in Threads \ {c} : prog'[u] = prog[u]
    BY <1>3 DEF Starts, LowestFree, PlacesOK
  <2>2. p \in {"shell", "shell2", "hello", "rogue"}
    <3>1. prog[t] \in {"init", "pm"}
      BY <1>a, <2>1, CallsOf
    <3>2. CASE prog[t] = "pm"
      BY <1>a, <2>1, <3>2 DEF Allowed
    <3>3. CASE prog[t] = "init"
      <4>1. t = Root
        BY <1>b, <3>3 DEF Numbered
      <4>2. at[t].pc > 28 /\ at[t].pc \in Nat \ {0} /\ Instr(t) \in InitPlace(at[t].pc)
        BY <1>b, <1>c, <3>3, <4>1, InitHere
      <4>3. Instr(t).what \subseteq {"shell", "shell2"}
        BY <2>1, <4>2, InitInstr
      <4> QED
        BY <2>1, <4>3
    <3> QED
      BY <3>1, <3>2, <3>3
  <2>3. prog[c] = "none"
    BY <2>1 DEF LivesOK
  <2>4. c \notin 1 .. 6
    <3>1. SUFFICES ASSUME c \in 1 .. 6 PROVE FALSE
      OBVIOUS
    <3>2. prog[c] = Cast[c] /\ c \in {1, 2, 3, 4, 5, 6}
      BY <1>b, <3>1 DEF Numbered
    <3> QED
      BY <2>3, <3>2, Places6
  <2>5. Numbered(6)'
    BY <1>b, <2>1, <2>2, <2>4 DEF Numbered, Servers
  <2>6. prog'[Root] = "init" => prog[Root] = "init" /\ Root # c
    BY <1>b, <2>1, <2>2
  <2>7. prog'[Root] = "init" => at'[Root].pc > 28
    <3>1. CASE t = Root
      <4>1. at'[Root] = After(t, 0, NoMsg)
        BY <1>3, <1>b, <2>1, <3>1 DEF Starts, PlacesOK
      <4> QED
        BY <1>b, <1>c, <2>1, <2>6, <3>1, <4>1, InitAfter
    <3>2. CASE t # Root
      BY <1>3, <1>b, <2>6, <3>2 DEF Starts, PlacesOK
    <3> QED
      BY <3>1, <3>2
  <2> QED
    BY <2>5, <2>7 DEF Running
<1>4. CASE Ends(t)
  <2>1. /\ prog'[t] = "none" /\ \A u \in Threads \ {t} : prog'[u] = prog[u] /\ at'[u] = at[u]
        /\ Instr(t).op \in {"exit", "touch"}
    BY <1>4 DEF Ends, PlacesOK
  <2>2. prog[t] \notin Servers
    BY <1>a, <2>1, CallsOf
  <2>3. t \notin 1 .. 6
    <3>1. SUFFICES ASSUME t \in 1 .. 6 PROVE FALSE
      OBVIOUS
    <3>2. prog[t] = Cast[t] /\ t \in {1, 2, 3, 4, 5, 6}
      BY <1>b, <3>1 DEF Numbered
    <3> QED
      BY <2>2, <3>2, Places6 DEF Servers
  <2>4. Numbered(6)'
    BY <1>b, <2>1, <2>3 DEF Numbered, Servers
  <2>5. prog'[Root] = "init" => at'[Root].pc > 28
    BY <1>b, <2>1
  <2> QED
    BY <2>4, <2>5 DEF Running
<1> QED
  BY <1>1, <1>2, <1>3, <1>4 DEF Effect

LEMMA BootKept ==
    ASSUME SysInv, NEW t \in Threads, Effect(t)
    PROVE  BootOK'
<1>1. CASE NothingYet
  BY <1>1 DEF NothingYet, Effect, Goes, Stops, Starts, Ends
<1>2. CASE Booting
  <2>1. ~Ends(t)
    BY <1>2, QuietWords DEF SysInv
  <2> QED
    BY <1>2, <2>1, BootingGoes, BootingStops, BootingStarts DEF Effect, SysInv, BootOK
<1>3. CASE Running
  BY <1>3, RunningKept DEF BootOK
<1> QED
  BY <1>1, <1>2, <1>3 DEF SysInv, BootOK

-----------------------------------------------------------------------------
\* kmain() starts init.
LEMMA StartKept ==
    ASSUME SysInv, StartInit
    PROVE  PlacesOK' /\ LivesOK' /\ BlockedOK' /\ UsersOK' /\ BootOK'
<1> USE DEF SysInv
<1>0. Root \in Threads /\ N > 6 /\ N \in Nat /\ ipc_buf \in Mailbox
  BY Numbers DEF MailOK
<1>1. /\ tstate'[Root] \notin Free
      /\ \A u \in Threads \ {Root} : tstate'[u] = tstate[u] /\ resume'[u] = resume[u]
      /\ resume'[Root] = "none"
      /\ Carries({})
      /\ \A u \in Threads : tstate[u] = "UNUSED"
  BY <1>0, SpawnPasses DEF StartInit
<1>2. \A u \in Threads : prog[u] = "none"
  BY <1>1 DEF LivesOK, Free
<1>3. /\ prog'[Root] = "init" /\ \A u \in Threads \ {Root} : prog'[u] = "none"
      /\ prog' \in [Threads -> DOMAIN Program \cup {"none"}]
      /\ UNCHANGED <<at, client, child, reader, device, ring>>
  BY <1>0, <1>2, Names DEF StartInit, PlacesOK, Others
<1>4. "init" \in DOMAIN Program /\ "init" # "none" /\ "init" \notin Servers /\ "none" \notin Servers
  BY Names DEF Servers
<1>5. PlacesOK'
  <2>1. PlaceOf("init", Entry("main"))
    BY <1>4, MainPlace
  <2> QED
    BY <1>0, <1>2, <1>3, <1>4, <2>1 DEF PlacesOK, PlaceOf
<1>6. LivesOK'
  BY <1>1, <1>2, <1>3, <1>4 DEF LivesOK
<1>7. \A u \in Threads : resume[u] = "none"
  BY <1>2 DEF BlockedOK
<1>8. BlockedOK'
  BY <1>1, <1>7 DEF BlockedOK
<1>9. UsersOK'
  BY <1>3, <1>4 DEF UsersOK
<1>10. NothingYet
  <2>1. ~Booting
    BY <1>0, <1>2, <1>4 DEF Booting
  <2>2. ~Running
    <3>1. 1 \in Threads /\ 1 \in 1 .. 6 /\ Cast[1] # "none"
      BY <1>0, Places6 DEF Threads
    <3> QED
      BY <1>2, <3>1 DEF Running, Numbered
  <2> QED
    BY <2>1, <2>2 DEF BootOK
<1>11. at[Root] = Entry("main") /\ Entry("main").pc = 1
  BY <1>0, <1>2 DEF PlacesOK, Entry
<1>12. SpawnsBefore(at'[Root].pc) = 0 /\ at'[Root].pc <= 28
  BY <1>3, <1>11 DEF SpawnsBefore
<1>13. Numbered(0)'
  BY <1>3, <1>4 DEF Numbered
<1>14. Quiet'
  BY <1>1, <1>3, <1>4, <1>10 DEF NothingYet, Quiet, Carries
<1>15. \A u \in Threads : u > 0 => prog'[u] = "none"
  BY <1>0, <1>3 DEF Root
<1>16. Numbered(SpawnsBefore(at[Root].pc))'
  BY <1>12, <1>13 DEF Numbered
<1> QED
  BY <1>3, <1>5, <1>6, <1>8, <1>9, <1>12, <1>14, <1>15, <1>16 DEF BootOK, Booting

\* An interrupt moves no thread.
LEMMA InterruptKept ==
    ASSUME SysInv, \/ IdleTick \/ Preempt
                   \/ \E term \in Keyed, line \in Commands : Type(term, line)
    PROVE  PlacesOK' /\ LivesOK' /\ BlockedOK' /\ UsersOK' /\ BootOK'
<1> USE DEF SysInv
<1>1. Stays /\ UNCHANGED <<ipc_buf, resume>>
  <2>1. TimerInterrupt \/ \E irq \in IrqLines : HwInterrupt(irq)
    <3>1. \A term \in Keyed : IrqOf(term) \in IrqLines
      BY SystemAssumption, ProgramsAssumption
    <3> QED
      BY <3>1 DEF IdleTick, Preempt, Type
  <2> QED
    BY <2>1, InterruptPasses
<1>2. UNCHANGED <<prog, at, client, child, reader, ring>>
  BY DEF IdleTick, Preempt, Type, userVars
<1>3. device' \in [Terminals -> Seq(Commands)]
  <2>1. device \in [Terminals -> Seq(Commands)]
    BY DEF UsersOK
  <2>2. ASSUME NEW term \in Keyed, NEW line \in Commands, Type(term, line)
        PROVE  device' \in [Terminals -> Seq(Commands)]
    <3>1. term \in Terminals
      BY SystemAssumption
    <3>2. Append(device[term], line) \in Seq(Commands)
      BY <2>1, <3>1
    <3> QED
      BY <2>1, <2>2, <3>2 DEF Type
  <2> QED
    BY <2>1, <2>2 DEF IdleTick, Preempt, userVars
<1>4. PlacesOK' /\ LivesOK'
  BY <1>1, <1>2 DEF PlacesOK, PlaceOf, LivesOK, Stays
<1>5. BlockedOK'
  BY <1>1, <1>2, SameInstr DEF BlockedOK
<1>6. UsersOK'
  BY <1>2, <1>3 DEF UsersOK
<1>7. BootOK'
  <2>1. CASE NothingYet
    BY <1>1, <1>2, <2>1 DEF BootOK, NothingYet, Quiet
  <2>2. CASE Booting
    BY <1>1, <1>2, <2>2 DEF BootOK, Booting, Quiet, Numbered
  <2>3. CASE Running
    BY <1>1, <1>2, <2>3 DEF BootOK, Running, Numbered
  <2> QED
    BY <2>1, <2>2, <2>3 DEF BootOK
<1> QED
  BY <1>4, <1>5, <1>6, <1>7

LEMMA SysInvStutter == ASSUME SysInv, UNCHANGED svars PROVE SysInv'
<1> USE DEF SysInv, svars, kvars, vars, userVars, schedVars, ipcVars, trapVars
<1>1. TablesOK' /\ CallsOK' /\ CpuOK'
  BY DEF TablesOK, CallsOK, CpuOK, OpenCalls, SchedTypeOK, CpuLive
<1>2. MailOK'
  BY DEF MailOK
<1>3. PlacesOK' /\ LivesOK'
  BY DEF PlacesOK, PlaceOf, LivesOK
<1>4. BlockedOK'
  BY SameInstr DEF BlockedOK
<1>5. UsersOK'
  BY DEF UsersOK
<1>6. BootOK'
  BY DEF BootOK, NothingYet, Booting, Running, Quiet, Numbered
<1> QED
  BY <1>1, <1>2, <1>3, <1>4, <1>5, <1>6

LEMMA SysInvKept == ASSUME SysInv, [SystemNext]_svars PROVE SysInv'
<1>1. CASE UNCHANGED svars
  BY <1>1, SysInvStutter
<1>2. CASE SystemNext
  <2>1. [KNext]_kvars
    BY SystemIsKernel
  <2>2. TablesOK' /\ CallsOK' /\ CpuOK' /\ MailOK'
    BY <2>1, TablesKept, CallsKept, CpuKept, MailKept DEF SysInv
  <2>3. PlacesOK' /\ LivesOK' /\ BlockedOK' /\ UsersOK' /\ BootOK'
    <3>1. CASE StartInit
      BY <3>1, StartKept
    <3>2. ASSUME NEW t \in Threads, Step(t)
          PROVE  PlacesOK' /\ LivesOK' /\ BlockedOK' /\ UsersOK' /\ BootOK'
      <4>1. Effect(t)
        BY <3>2, StepEffect
      <4> QED
        BY <3>2, <4>1, EffectKeeps, UsersKept, BootKept
    <3>3. CASE \/ IdleTick \/ Preempt
               \/ \E term \in Keyed, line \in Commands : Type(term, line)
      BY <3>3, InterruptKept
    <3> QED
      BY <1>2, <3>1, <3>2, <3>3 DEF SystemNext, Runs
  <2> QED
    BY <2>2, <2>3 DEF SysInv
<1> QED
  BY <1>1, <1>2

LEMMA SysInvInit == ASSUME SystemInit PROVE SysInv
<1>1. TablesOK /\ CallsOK /\ CpuOK
  BY KInitInv, KInvParts, InitRefines DEF SystemInit
<1>2. MailOK
  BY DEF SystemInit, KInit, Init, MailOK, Mailbox
<1>3. \A t \in Threads : prog[t] = "none" /\ resume[t] = "none" /\ tstate[t] = "UNUSED"
  BY DEF SystemInit, KInit, Init, SchedInit
<1>4. PlacesOK
  <2>1. Entry("main") \in Places
    BY Names, MainPlace DEF PlaceOf
  <2> QED
    BY <1>3, <2>1 DEF SystemInit, PlacesOK
<1>5. LivesOK /\ BlockedOK
  BY <1>3 DEF LivesOK, BlockedOK, Free
<1>6. UsersOK
  BY <1>3 DEF SystemInit, UsersOK, Servers, Nobody, Irq
<1>7. BootOK
  BY <1>3 DEF SystemInit, KInit, Init, BootOK, NothingYet, Quiet, Servers
<1> QED
  BY <1>1, <1>2, <1>4, <1>5, <1>6, <1>7 DEF SysInv

LEMMA SysInvAlways == SystemSpec => []SysInv
BY SysInvInit, SysInvKept, PTL DEF SystemSpec

(* The shipped programs do only what Kernel lets programs do: what is      *)
(* proved of Kernel holds of the shipped system.                           *)
THEOREM SystemImplementsKernel == SystemSpec => ImplementsKernel
<1>1. SystemInit => KInit
  BY DEF SystemInit
<1> QED
  BY <1>1, SystemIsKernel, SysInvAlways, PTL DEF SystemSpec, KSpec, ImplementsKernel

(* The numbers of syscall.h are those the kernel gives, in every           *)
(* interleaving of the boot and ever after.                                *)
THEOREM SystemTidsAsNumbered == SystemSpec => []TidsAsNumbered
<1>1. ASSUME SysInv PROVE TidsAsNumbered
  <2> SUFFICES ASSUME NEW t \in Threads
               PROVE  /\ prog[t] = "console" <=> t = CON_TID /\ prog[t] # "none"
                      /\ prog[t] = "block" <=> t = BLK_TID /\ prog[t] # "none"
                      /\ prog[t] = "vm" <=> t = VM_TID /\ prog[t] # "none"
                      /\ prog[t] = "pm" <=> t = PM_TID /\ prog[t] # "none"
                      /\ prog[t] = "fs" <=> t = FS_TID /\ prog[t] # "none"
                      /\ prog[t] = "vga" <=> t = VGA_TID /\ prog[t] # "none"
    BY DEF TidsAsNumbered
  <2>1. /\ prog[t] = "console" => t = CON_TID
        /\ prog[t] = "block" => t = BLK_TID
        /\ prog[t] = "vm" => t = VM_TID
        /\ prog[t] = "pm" => t = PM_TID
        /\ prog[t] = "fs" => t = FS_TID
        /\ prog[t] = "vga" => t = VGA_TID
        /\ t \in 1 .. 6 => prog[t] \in {"none", Cast[t]}
    BY <1>1, Numbering DEF SysInv
  <2> QED
    BY <2>1, Places6 DEF CON_TID, BLK_TID, VM_TID, PM_TID, FS_TID, VGA_TID
<1> QED
  BY <1>1, SysInvAlways, PTL

-----------------------------------------------------------------------------
(* A step of the kernel, as the IPC fields and the kernel paths of the     *)
(* threads see it: t, the thread on the CPU, goes on to k.                 *)
ipcCalls == <<ipc_state, ipc_peer, ipc_from, ipc_buf>>

Turns(t, k) ==
    /\ UNCHANGED ipcCalls
    /\ \/ resume[t] \in {"none", "kill"} /\ k \in {"none", "fault", "panic"}
       \/ resume[t] = "fault" /\ IrqDue(t) /\ k \in {"none", "kill"}

Finishes(t, k) ==
    /\ CallOver(t)
    /\ \/ resume[t] \in {"send", "recv"} /\ k = "none"
       \/ resume[t] = "fault_send" /\ k = "fault"
       \/ resume[t] = "fault_recv" /\ ipc_state[t] = "RECEIVING" /\ k \in {"none", "kill"}
       \/ resume[t] = "fault_recv" /\ ipc_state[t] # "RECEIVING" /\ k = Verdict(ipc_buf[t])

Delivers(t, k) ==
    /\ resume[t] = "none"
    /\ \E d \in Threads, m \in Message :
          /\ Deliver(t, d, m)
          /\ IF m = FaultMsg THEN k = "fault" ELSE k = "none"

Stages(t, k) ==
    /\ resume[t] = "none"
    /\ \E d \in Threads, m \in Message :
          /\ Stage(t, d, m)
          /\ IF m = FaultMsg THEN k = "fault_send" /\ d = g_pager_tid ELSE k = "send"

Takes(t, k) ==
    \E s \in Threads, src \in Threads \cup {Any} :
        /\ TakeSender(t, s, src)
        /\ \/ resume[t] = "none" /\ k = "none"
           \/ resume[t] = "fault" /\ src = g_pager_tid /\ k = Verdict(ipc_buf[s])

Awaits(t, k) ==
    \E src \in Threads \cup {Any} :
        /\ Await(t, src)
        /\ \/ resume[t] = "none" /\ k = "recv"
           \/ resume[t] = "fault" /\ src = g_pager_tid /\ k = "fault_recv"

Advances(t, k) ==
    /\ current = t
    /\ resume' = [resume EXCEPT ![t] = k]
    /\ Turns(t, k) \/ Finishes(t, k) \/ Delivers(t, k) \/ Stages(t, k) \/ Takes(t, k) \/ Awaits(t, k)

FreshCall(t) ==
    tstate[t] \in Free /\ CallOver(t) /\ resume' = [resume EXCEPT ![t] = "none"]

LEMMA StepForms ==
    ASSUME CallsOK, [KNext]_kvars
    PROVE  \/ UNCHANGED <<ipcCalls, resume>>
           \/ \E t \in Threads : FreshCall(t)
           \/ \E t \in Threads : \E k : Advances(t, k)
<1> USE NAssumption, KernelAssumption DEF ipcCalls, Advances
<1>1. CASE UNCHANGED kvars \/ TimerInterrupt \/ \E irq \in IrqLines : HwInterrupt(irq)
  BY <1>1 DEF kvars, vars, ipcVars, TimerInterrupt, TimerTick, HwInterrupt, Notify, Interrupt, NoCall
<1>2. ASSUME NEW t \in Threads, SysSpawn(t) PROVE FreshCall(t)
  BY <1>2 DEF SysSpawn, Spawn, Create, LowestFree, Reset, FreshCall
<1>3. ASSUME NEW t \in Threads, NEW d \in Threads \cup {Any}, SysSendDenied(t, d)
      PROVE  Advances(t, "none")
  BY <1>3 DEF SysSendDenied, Does, InUser, Return, Gives, ipcVars, Turns
<1>4. ASSUME NEW t \in Threads, NEW d \in Threads \cup {Any}, NEW m \in Message \ {FaultMsg},
             SysSend(t, d, m)
      PROVE  \E k : Advances(t, k)
  <2>1. CASE SendFails(t, d)
    <3>1. Advances(t, "none")
      BY <2>1 DEF SendFails, InUser, Return, Gives, ipcVars, Turns
    <3> QED
      BY <3>1
  <2>2. CASE SendDelivers(t, d, m)
    <3>1. d \in Threads
      BY <2>2 DEF SendDelivers, Deliver, Exists
    <3>2. Advances(t, "none")
      BY <2>2, <3>1 DEF SendDelivers, InUser, Return, Gives, Delivers
    <3> QED
      BY <3>2
  <2>3. CASE SendBlocks(t, d, m)
    <3>1. d \in Threads
      BY <2>3 DEF SendBlocks, Stage, Exists
    <3>2. Advances(t, "send")
      BY <2>3, <3>1 DEF SendBlocks, InUser, BlocksIn, Stages
    <3> QED
      BY <3>2
  <2> QED
    BY <1>4, <2>1, <2>2, <2>3 DEF SysSend
<1>5. ASSUME NEW t \in Threads, NEW src \in Threads \cup {Any}, SysRecv(t, src)
      PROVE  \E k : Advances(t, k)
  <2>1. CASE RecvTakesIrq(t)
    <3>1. Advances(t, "none")
      BY <2>1 DEF RecvTakesIrq, InUser, TakeIrq, Return, Gives, Turns
    <3> QED
      BY <3>1
  <2>2. ASSUME NEW s \in Threads, RecvTakesSender(t, s, src) PROVE \E k : Advances(t, k)
    <3>1. Advances(t, "none")
      BY <2>2 DEF RecvTakesSender, InUser, Return, Gives, Takes
    <3> QED
      BY <3>1
  <2>3. CASE RecvBlocks(t, src)
    <3>1. Advances(t, "recv")
      BY <2>3 DEF RecvBlocks, InUser, BlocksIn, Awaits
    <3> QED
      BY <3>1
  <2> QED
    BY <1>5, <2>1, <2>2, <2>3 DEF SysRecv
<1>6. ASSUME NEW t \in Threads, SysExit(t) \/ SysSetPager(t) \/ SysLocal(t)
                                \/ (\E irq \in IrqLines : SysIrqRegister(t, irq))
                                \/ (\E g \in Grants : SysGrantCap(t, g[1], g[2]))
                                \/ (\E g \in IoGrants : SysGrantIo(t, g[1], g[2], g[3]))
      PROVE  UNCHANGED <<ipcCalls, resume>>
  BY <1>6 DEF SysExit, Exit, SysSetPager, SysLocal, SysIrqRegister, SysGrantCap, SysGrantIo, NoCall,
              ipcVars
<1>7. ASSUME NEW t \in Threads, PageFault(t) PROVE \E k : Advances(t, k)
  <2>1. current = t /\ resume[t] = "none"
    BY <1>7 DEF PageFault, FaultPanics, FaultSends, Does, InUser
  <2>2. CASE FaultPanics(t)
    <3>1. Advances(t, "panic")
      BY <2>1, <2>2 DEF FaultPanics, Turns, ipcVars
    <3> QED
      BY <3>1
  <2>3. CASE UNCHANGED <<schedVars, ipcVars>> /\ Gives(t, -1, NoMsg, "fault")
    <3>1. Advances(t, "fault")
      BY <2>1, <2>3 DEF Gives, Turns, ipcVars
    <3> QED
      BY <3>1
  <2>4. CASE Deliver(t, g_pager_tid, FaultMsg) /\ Gives(t, 0, NoMsg, "fault")
    <3>1. g_pager_tid \in Threads
      BY <2>4 DEF Deliver, Exists
    <3>2. Advances(t, "fault")
      BY <2>1, <2>4, <3>1 DEF Gives, Delivers
    <3> QED
      BY <3>2
  <2>5. CASE Stage(t, g_pager_tid, FaultMsg) /\ BlocksIn(t, "fault_send")
    <3>1. g_pager_tid \in Threads
      BY <2>5 DEF Stage, Exists
    <3>2. Advances(t, "fault_send")
      BY <2>1, <2>5, <3>1 DEF BlocksIn, Stages
    <3> QED
      BY <3>2
  <2> QED
    BY <1>7, <2>2, <2>3, <2>4, <2>5 DEF PageFault, FaultSends
<1>8. ASSUME NEW t \in Threads, KernelPath(t) PROVE \E k : Advances(t, k)
  <2>1. CASE SysSendReturns(t)
    <3>1. Advances(t, "none")
      BY <2>1 DEF SysSendReturns, SendReturns, Resumed, SendDone, Return, Gives, Finishes
    <3> QED
      BY <3>1
  <2>2. CASE SysRecvReturns(t)
    <3>1. Advances(t, "none")
      BY <2>2 DEF SysRecvReturns, RecvReturns, RecvReturnsIrq, Resumed, AwokenByIrq, Delivered, Return,
                  Gives, Finishes
    <3> QED
      BY <3>1
  <2>3. CASE FaultSent(t)
    <3>1. Advances(t, "fault")
      BY <2>3 DEF FaultSent, Resumed, SendDone, Gives, Finishes
    <3> QED
      BY <3>1
  <2>4. CASE FaultReceives(t)
    <3>0. current = t /\ resume[t] = "fault" /\ g_pager_tid \in Threads \cup {Any}
      BY <2>4 DEF FaultReceives, Resumed, CallsOK, Nobody, Any
    <3>1. ASSUME NEW k \in {"none", "kill"}, TakeIrq(t), Gives(t, Irq, NoMsg, k) PROVE Advances(t, k)
      BY <3>0, <3>1 DEF TakeIrq, Gives, Turns
    <3>2. ASSUME NEW s \in Threads, TakeSender(t, s, g_pager_tid),
                 Gives(t, s, ipc_buf[s], Verdict(ipc_buf[s]))
          PROVE  Advances(t, Verdict(ipc_buf[s]))
      BY <3>0, <3>2 DEF Gives, Takes
    <3>3. CASE Await(t, g_pager_tid) /\ BlocksIn(t, "fault_recv")
      <4>1. Advances(t, "fault_recv")
        BY <3>0, <3>3 DEF BlocksIn, Awaits
      <4> QED
        BY <4>1
    <3> QED
      BY <2>4, <3>1, <3>2, <3>3 DEF FaultReceives
  <2>5. CASE FaultAnswered(t)
    <3>1. CallOver(t) /\ current = t /\ resume[t] = "fault_recv"
      BY <2>5 DEF FaultAnswered, AwokenByIrq, Delivered, Resumed
    <3>2. CASE AwokenByIrq(t)
      <4>1. PICK k \in {"none", "kill"} : resume' = [resume EXCEPT ![t] = k]
        BY <2>5, <3>2 DEF FaultAnswered, Gives, Verdict
      <4>2. Advances(t, k)
        BY <3>1, <3>2, <4>1 DEF AwokenByIrq, Finishes
      <4> QED
        BY <4>2
    <3>3. CASE ~AwokenByIrq(t)
      <4>1. Advances(t, Verdict(ipc_buf[t]))
        BY <2>5, <3>1, <3>3 DEF FaultAnswered, Delivered, Gives, Finishes
      <4> QED
        BY <4>1
    <3> QED
      BY <3>2, <3>3
  <2>6. CASE FaultKills(t)
    <3>1. Advances(t, "none")
      BY <2>6 DEF FaultKills, Resumed, ipcVars, Turns
    <3> QED
      BY <3>1
  <2> QED
    BY <1>8, <2>1, <2>2, <2>3, <2>4, <2>5, <2>6 DEF KernelPath
<1>9. ASSUME NEW t \in Threads, Syscall(t)
      PROVE  UNCHANGED <<ipcCalls, resume>> \/ \E k : Advances(t, k)
  BY <1>3, <1>4, <1>5, <1>6, <1>9 DEF Syscall
<1> QED
  BY <1>1, <1>2, <1>7, <1>8, <1>9 DEF KNext

\* A message waits to be taken while its sender is in a send; the kernel's
\* own message while it is in a fault.
Staged ==
    \A t \in Threads :
        ipc_state[t] = "SENDING" =>
            \/ resume[t] = "send" /\ ipc_buf[t] # FaultMsg
            \/ resume[t] = "fault_send"

LEMMA StagedKept ==
    ASSUME CallsOK, ipc_state \in [Threads -> {"NONE", "SENDING", "RECEIVING"}], ipc_buf \in Mailbox,
           Staged, [KNext]_kvars
    PROVE  Staged'
<1> USE DEF CallsOK, Staged, Mailbox
<1>1. CASE UNCHANGED <<ipcCalls, resume>>
  BY <1>1 DEF ipcCalls
<1>2. ASSUME NEW t \in Threads, NEW k, CallOver(t), resume' = [resume EXCEPT ![t] = k] PROVE Staged'
  BY <1>2 DEF CallOver
<1>3. ASSUME NEW t \in Threads, NEW k, Advances(t, k) PROVE Staged'
  <2>0. resume' = [resume EXCEPT ![t] = k]
    BY <1>3 DEF Advances
  <2>1. CASE Turns(t, k)
    BY <2>0, <2>1 DEF Turns, ipcCalls
  <2>2. CASE Finishes(t, k)
    BY <1>2, <2>0, <2>2 DEF Finishes
  <2>3. CASE Delivers(t, k)
    <3>1. PICK d \in Threads, m \in Message : Deliver(t, d, m) /\ resume[t] = "none"
      BY <2>3 DEF Delivers
    <3>2. ipc_state'[d] = "NONE"
          /\ \A u \in Threads \ {d} : ipc_state'[u] = ipc_state[u] /\ ipc_buf'[u] = ipc_buf[u]
      BY <3>1 DEF Deliver
    <3> QED
      BY <2>0, <3>1, <3>2
  <2>4. CASE Stages(t, k)
    <3>1. PICK d \in Threads, m \in Message :
            Stage(t, d, m) /\ IF m = FaultMsg THEN k = "fault_send" ELSE k = "send"
      BY <2>4 DEF Stages
    <3>2. ipc_buf'[t] = m
          /\ \A u \in Threads \ {t} : ipc_state'[u] = ipc_state[u] /\ ipc_buf'[u] = ipc_buf[u]
      BY <3>1 DEF Stage
    <3> QED
      BY <2>0, <3>1, <3>2
  <2>5. CASE Takes(t, k)
    <3>1. PICK s \in Threads, src \in Threads \cup {Any} :
            TakeSender(t, s, src) /\ resume[t] \in {"none", "fault"}
      BY <2>5 DEF Takes
    <3>2. ipc_state'[s] = "NONE" /\ UNCHANGED ipc_buf
          /\ \A u \in Threads \ {s} : ipc_state'[u] = ipc_state[u]
      BY <3>1 DEF TakeSender
    <3> QED
      BY <2>0, <3>1, <3>2
  <2>6. CASE Awaits(t, k)
    <3>1. ipc_state'[t] = "RECEIVING" /\ UNCHANGED ipc_buf
          /\ \A u \in Threads \ {t} : ipc_state'[u] = ipc_state[u]
      BY <2>6 DEF Awaits, Await
    <3> QED
      BY <2>0, <3>1
  <2> QED
    BY <1>3, <2>1, <2>2, <2>3, <2>4, <2>5, <2>6 DEF Advances
<1> QED
  BY <1>1, <1>2, <1>3, StepForms DEF FreshCall

\* The fault of c, once the pager has taken it and before it answers.
Taken(c) ==
    \/ resume[c] = "fault_send" /\ ipc_state[c] = "NONE"
    \/ resume[c] = "fault"
    \/ resume[c] = "fault_recv" /\ ipc_state[c] = "RECEIVING"

\* Nobody but the pager ends it.
LEMMA TakenStays ==
    ASSUME CpuOK, CallsOK, FaultWaits, Staged, [KNext]_kvars, NEW D, Undisturbed(D),
           NEW c \in Threads, c \notin D, tstate[c] \notin Free, Taken(c), current # g_pager_tid,
           ~ /\ ipc_state[g_pager_tid] = "SENDING" /\ ipc_peer[g_pager_tid] = c
             /\ ipc_state'[g_pager_tid] # "SENDING"
    PROVE  Taken(c)'
<1> USE DEF CallsOK, FaultWaits, Taken
<1>0. /\ resume[c] \in {"fault_send", "fault", "fault_recv"} /\ g_pager_tid \in Threads
      /\ g_pager_tid # Any /\ irq_pending[c] = 0
      /\ resume[c] = "fault" => current = c
      /\ current = c => tstate[c] = "RUNNING"
  <2>1. resume[c] \in {"fault_send", "fault", "fault_recv"}
    OBVIOUS
  <2>2. g_pager_tid # Nobody /\ irq_pending[c] = 0
    BY <2>1 DEF Faulting, Undisturbed
  <2>3. current = c => tstate[c] = "RUNNING"
    BY Numbers DEF CpuOK, CpuLive, Idle, Threads
  <2> QED
    BY <2>1, <2>2, <2>3 DEF CpuOK, AtCpu, Nobody, Any
<1>1. CASE UNCHANGED <<ipcCalls, resume>>
  BY <1>1 DEF ipcCalls
<1>2. ASSUME NEW t \in Threads, FreshCall(t) PROVE Taken(c)'
  BY <1>2 DEF FreshCall, CallOver
<1>3. ASSUME NEW t \in Threads, NEW k, Advances(t, k) PROVE Taken(c)'
  <2>0. resume' = [resume EXCEPT ![t] = k] /\ current = t /\ t # g_pager_tid
    BY <1>3 DEF Advances
  <2>1. CASE Turns(t, k)
    <3>1. t # c
      BY <1>0, <2>1 DEF Turns, IrqDue
    <3> QED
      BY <2>0, <2>1, <3>1 DEF Turns, ipcCalls
  <2>2. CASE Finishes(t, k)
    <3>1. CASE t # c
      BY <2>0, <2>2, <3>1 DEF Finishes, CallOver
    <3>2. CASE t = c
      <4>1. resume[c] # "fault_recv"
        BY <1>0, <2>0, <3>2
      <4> QED
        BY <1>0, <2>0, <2>2, <3>2, <4>1 DEF Finishes
    <3> QED
      BY <3>1, <3>2
  <2>3. CASE Delivers(t, k)
    <3>1. PICK d \in Threads, m \in Message : Deliver(t, d, m) /\ resume[t] = "none"
      BY <2>3 DEF Delivers
    <3>2. t # c
      BY <1>0, <3>1
    <3>3. d # c
      <4>1. SUFFICES ASSUME d = c PROVE FALSE
        OBVIOUS
      <4>2. tstate[c] = "BLOCKED" /\ ipc_state[c] = "RECEIVING" /\ ipc_peer[c] \in {Any, t}
        BY <3>1, <4>1 DEF Deliver, ReceiverReady, Receives
      <4>3. resume[c] = "fault_recv"
        BY <1>0, <2>0, <3>2, <4>2
      <4> QED
        BY <1>0, <2>0, <4>2, <4>3
    <3> QED
      BY <2>0, <3>1, <3>2, <3>3 DEF Deliver
  <2>4. CASE Stages(t, k)
    <3>1. t # c
      BY <1>0, <2>4 DEF Stages
    <3> QED
      BY <2>0, <2>4, <3>1 DEF Stages, Stage
  <2>5. CASE Takes(t, k)
    <3>1. PICK s \in Threads, src \in Threads \cup {Any} :
            /\ TakeSender(t, s, src)
            /\ resume[t] = "none" \/ (resume[t] = "fault" /\ src = g_pager_tid)
      BY <2>5 DEF Takes
    <3>2. WaitingSender(s, t, src)
      BY <3>1 DEF TakeSender, FindsSender
    <3>3. s # c
      BY <3>2, <1>0 DEF WaitingSender, Staged
    <3>4. t # c
      <4>1. SUFFICES ASSUME t = c PROVE FALSE
        OBVIOUS
      <4>2. s = g_pager_tid
        BY <1>0, <3>1, <3>2, <4>1 DEF WaitingSender
      <4>3. ipc_state'[s] # "SENDING"
        <5>1. ipc_state' = [ipc_state EXCEPT ![s] = "NONE"]
          BY <3>1 DEF TakeSender
        <5> QED
          BY <5>1 DEF FaultWaits
      <4> QED
        BY <3>2, <4>1, <4>2, <4>3 DEF WaitingSender
    <3> QED
      BY <2>0, <3>1, <3>3, <3>4 DEF TakeSender
  <2>6. CASE Awaits(t, k)
    <3>1. CASE t # c
      BY <2>0, <2>6, <3>1 DEF Awaits, Await
    <3>2. CASE t = c
      BY <1>0, <2>0, <2>6, <3>2 DEF Awaits, Await
    <3> QED
      BY <3>1, <3>2
  <2> QED
    BY <1>3, <2>1, <2>2, <2>3, <2>4, <2>5, <2>6 DEF Advances
<1> QED
  BY <1>1, <1>2, <1>3, StepForms


\* What other threads do to one: they take what it offers or give it what
\* it awaits.
LEMMA FieldsStay ==
    ASSUME CallsOK, ipc_state \in [Threads -> {"NONE", "SENDING", "RECEIVING"}],
           ipc_from \in [Threads -> Threads \cup {Any}], ipc_buf \in Mailbox,
           [KNext]_kvars, NEW p \in Threads, current # p
    PROVE  \/ FreshCall(p)
           \/ /\ resume'[p] = resume[p]
              /\ \/ /\ ipc_state'[p] = ipc_state[p] /\ ipc_peer'[p] = ipc_peer[p]
                    /\ ipc_from'[p] = ipc_from[p] /\ ipc_buf'[p] = ipc_buf[p]
                 \/ /\ ipc_state[p] = "SENDING" /\ ipc_state'[p] = "NONE"
                    /\ ipc_peer'[p] = ipc_peer[p]
                    /\ ipc_from'[p] = ipc_from[p] /\ ipc_buf'[p] = ipc_buf[p]
                 \/ /\ ipc_state[p] = "RECEIVING" /\ ipc_state'[p] = "NONE"
                    /\ ipc_from'[p] \in Threads
                    /\ ipc_buf'[p] = FaultMsg => resume'[ipc_from'[p]] = "fault"
<1> USE DEF CallsOK, Mailbox
<1> DEFINE Same == /\ resume'[p] = resume[p]
                   /\ ipc_state'[p] = ipc_state[p] /\ ipc_peer'[p] = ipc_peer[p]
                   /\ ipc_from'[p] = ipc_from[p] /\ ipc_buf'[p] = ipc_buf[p]
           Lost == /\ resume'[p] = resume[p] /\ ipc_state[p] = "SENDING" /\ ipc_state'[p] = "NONE"
                   /\ ipc_peer'[p] = ipc_peer[p]
                   /\ ipc_from'[p] = ipc_from[p] /\ ipc_buf'[p] = ipc_buf[p]
           Given == /\ resume'[p] = resume[p] /\ ipc_state[p] = "RECEIVING" /\ ipc_state'[p] = "NONE"
                    /\ ipc_from'[p] \in Threads
                    /\ ipc_buf'[p] = FaultMsg => resume'[ipc_from'[p]] = "fault"
<1>2. ASSUME NEW t \in Threads, FreshCall(t) PROVE FreshCall(p) \/ Same
  BY <1>2 DEF FreshCall, CallOver
<1>3. ASSUME NEW t \in Threads, NEW k, Advances(t, k) PROVE Same \/ Lost \/ Given
  <2>0. resume' = [resume EXCEPT ![t] = k] /\ t # p /\ resume'[p] = resume[p] /\ resume'[t] = k
    BY <1>3 DEF Advances
  <2>1. CASE Turns(t, k)
    BY <2>0, <2>1 DEF Turns, ipcCalls
  <2>2. CASE Finishes(t, k)
    BY <2>0, <2>2 DEF Finishes, CallOver
  <2>3. CASE Delivers(t, k)
    <3>1. PICK d \in Threads, m \in Message :
            Deliver(t, d, m) /\ IF m = FaultMsg THEN k = "fault" ELSE k = "none"
      BY <2>3 DEF Delivers
    <3>2. CASE d # p
      BY <2>0, <3>1, <3>2 DEF Deliver
    <3>3. CASE d = p
      <4>1. ipc_state[p] = "RECEIVING"
        BY <3>1, <3>3 DEF Deliver, ReceiverReady, Receives
      <4>2. ipc_state'[p] = "NONE" /\ ipc_from'[p] = t /\ ipc_buf'[p] = m
        BY <3>1, <3>3 DEF Deliver
      <4> QED
        BY <2>0, <3>1, <4>1, <4>2
    <3> QED
      BY <3>2, <3>3
  <2>4. CASE Stages(t, k)
    BY <2>0, <2>4 DEF Stages, Stage
  <2>5. CASE Takes(t, k)
    <3>1. PICK s \in Threads, src \in Threads \cup {Any} : TakeSender(t, s, src)
      BY <2>5 DEF Takes
    <3>2. CASE s # p
      BY <2>0, <3>1, <3>2 DEF TakeSender
    <3>3. CASE s = p
      BY <2>0, <3>1, <3>3 DEF TakeSender, FindsSender, WaitingSender
    <3> QED
      BY <3>2, <3>3
  <2>6. CASE Awaits(t, k)
    BY <2>0, <2>6 DEF Awaits, Await
  <2> HIDE DEF Same, Lost, Given
  <2> QED
    BY <1>3, <2>1, <2>2, <2>3, <2>4, <2>5, <2>6 DEF Advances
<1>4. FreshCall(p) \/ Same \/ Lost \/ Given
  <2>0. \/ UNCHANGED <<ipcCalls, resume>>
        \/ \E t \in Threads : FreshCall(t)
        \/ \E t \in Threads : \E k : Advances(t, k)
    BY StepForms
  <2> HIDE DEF Same, Lost, Given
  <2>1. CASE \E t \in Threads : FreshCall(t)
    BY <1>2, <2>1
  <2>2. CASE \E t \in Threads : \E k : Advances(t, k)
    BY <1>3, <2>2
  <2>3. CASE UNCHANGED <<ipcCalls, resume>>
    BY <2>3 DEF Same, ipcCalls
  <2> QED
    BY <2>0, <2>1, <2>2, <2>3
<1> QED
  BY <1>4

\* Nobody but the pager answers a fault.
LEMMA AnswerStays ==
    ASSUME CallsOK, FaultWaits, Staged, [KNext]_kvars, NEW c \in Threads,
           resume'[c] = "fault_recv", ipc_state'[c] # "RECEIVING",
           NEW p, g_pager_tid \in {Nobody, p}, current # p
    PROVE  resume[c] = "fault_recv" /\ ipc_state[c] # "RECEIVING" /\ ipc_buf'[c] = ipc_buf[c]
<1> USE DEF CallsOK, FaultWaits
<1>1. CASE UNCHANGED <<ipcCalls, resume>>
  BY <1>1 DEF ipcCalls
<1>2. ASSUME NEW t \in Threads, FreshCall(t)
      PROVE  resume[c] = "fault_recv" /\ ipc_state[c] # "RECEIVING" /\ ipc_buf'[c] = ipc_buf[c]
  BY <1>2 DEF FreshCall, CallOver
<1>3. ASSUME NEW t \in Threads, NEW k, Advances(t, k)
      PROVE  resume[c] = "fault_recv" /\ ipc_state[c] # "RECEIVING" /\ ipc_buf'[c] = ipc_buf[c]
  <2>0. resume' = [resume EXCEPT ![t] = k] /\ current = t /\ t # g_pager_tid
    BY <1>3, NAssumption DEF Advances, Nobody, Threads
  <2>1. CASE Turns(t, k)
    BY <2>0, <2>1 DEF Turns, ipcCalls
  <2>2. CASE Finishes(t, k)
    BY <2>0, <2>2 DEF Finishes, CallOver, Verdict
  <2>3. CASE Delivers(t, k)
    <3>1. PICK d \in Threads, m \in Message : Deliver(t, d, m) /\ k \in {"none", "fault"}
      BY <2>3 DEF Delivers
    <3>2. t # c /\ resume[c] = "fault_recv"
      BY <2>0, <3>1
    <3>3. d # c
      <4>1. SUFFICES ASSUME d = c PROVE FALSE
        OBVIOUS
      <4>2. ipc_peer[c] \in {Any, t}
        BY <3>1, <4>1 DEF Deliver, ReceiverReady
      <4>3. ipc_peer[c] = g_pager_tid /\ g_pager_tid # Any
        BY <3>2 DEF Faulting, Nobody, Any
      <4> QED
        BY <2>0, <4>2, <4>3
    <3> QED
      BY <3>1, <3>2, <3>3 DEF Deliver
  <2>4. CASE Stages(t, k)
    <3>1. t # c
      BY <2>0, <2>4 DEF Stages
    <3> QED
      BY <2>0, <2>4, <3>1 DEF Stages, Stage
  <2>5. CASE Takes(t, k)
    <3>1. PICK s \in Threads, src \in Threads \cup {Any} :
            TakeSender(t, s, src) /\ k \in {"none", "kill"}
      BY <2>5 DEF Takes, Verdict
    <3>2. t # c /\ resume[c] = "fault_recv"
      BY <2>0, <3>1
    <3>3. s # c
      BY <3>1, <3>2 DEF TakeSender, FindsSender, WaitingSender, Staged
    <3> QED
      BY <3>1, <3>2, <3>3 DEF TakeSender
  <2>6. CASE Awaits(t, k)
    <3>1. t # c
      BY <2>0, <2>6 DEF Awaits, Await
    <3> QED
      BY <2>0, <2>6, <3>1 DEF Awaits, Await
  <2> QED
    BY <1>3, <2>1, <2>2, <2>3, <2>4, <2>5, <2>6 DEF Advances
<1> QED
  BY <1>1, <1>2, <1>3, StepForms

\* A verdict to kill comes from the pager or lies in the mailbox.
LEMMA KillComes ==
    ASSUME CpuOK, CallsOK, FaultWaits, [KNext]_kvars, NEW D, Undisturbed(D),
           NEW u \in Threads, u \notin D, resume[u] # "kill", resume'[u] = "kill"
    PROVE  \/ /\ resume[u] = "fault" /\ g_pager_tid \in Threads
              /\ ipc_state[g_pager_tid] = "SENDING" /\ ipc_peer[g_pager_tid] = u
              /\ ipc_buf[g_pager_tid] \in Kills
           \/ resume[u] = "fault_recv" /\ ipc_state[u] # "RECEIVING" /\ ipc_buf[u] \in Kills
<1> USE DEF CallsOK, FaultWaits
<1>1. ~ UNCHANGED <<ipcCalls, resume>> /\ \A t \in Threads : ~FreshCall(t)
  BY DEF FreshCall
<1>2. PICK t \in Threads : \E k : Advances(t, k)
  BY <1>1, StepForms
<1>3. t = u /\ Advances(u, "kill") /\ current = u /\ tstate[u] = "RUNNING"
  <2>1. PICK k : Advances(t, k)
    BY <1>2
  <2>2. t = u /\ k = "kill"
    BY <2>1 DEF Advances
  <2>3. current = u
    BY <2>1, <2>2 DEF Advances
  <2>4. tstate[u] = "RUNNING"
    BY <2>3, Numbers DEF CpuOK, CpuLive, Idle, Threads
  <2> QED
    BY <2>1, <2>2, <2>3, <2>4
<1>4. ~Turns(u, "kill")
  BY DEF Turns, Undisturbed, IrqDue
<1>5. ~Delivers(u, "kill") /\ ~Stages(u, "kill") /\ ~Awaits(u, "kill")
  BY DEF Delivers, Stages, Awaits
<1>6. CASE Finishes(u, "kill")
  <2>1. ~(resume[u] = "fault_recv" /\ ipc_state[u] = "RECEIVING")
    BY <1>3
  <2> QED
    BY <1>6, <2>1 DEF Finishes, Verdict
<1>7. CASE Takes(u, "kill")
  <2>1. PICK s \in Threads : /\ TakeSender(u, s, g_pager_tid) /\ resume[u] = "fault"
                             /\ Verdict(ipc_buf[s]) = "kill"
    BY <1>7 DEF Takes
  <2>2. g_pager_tid # Any
    BY <2>1 DEF Faulting, Nobody, Any
  <2>3. s = g_pager_tid /\ ipc_state[s] = "SENDING" /\ ipc_peer[s] = u
    BY <2>1, <2>2 DEF TakeSender, FindsSender, WaitingSender
  <2> QED
    BY <2>1, <2>3 DEF Verdict
<1> QED
  BY <1>3, <1>4, <1>5, <1>6, <1>7 DEF Advances

-----------------------------------------------------------------------------
(* The code of the pager and of rogue.                                     *)
PrintPart ==
    {i \in Instructions :
        i.orelse = "rest" /\ i.op \in {"send", "recv"} /\ (i.op = "send" => i.arg = CON_TID)}

StartPart ==
    PrintPart \cup {i \in Instructions :
                      /\ i.orelse = "rest" /\ i.op \in {"pager", "send"}
                      /\ i.op = "send" => i.arg = Root /\ i.what = {Ready}}

Verdicts(b) == Reply("FAULT", IF b = "heap" THEN "ok" ELSE "kill")

LEMMA PagerMakes ==
    /\ Prints \in Block(PrintPart) /\ Serves \in Block(PrintPart)
    /\ Announces \in Block(StartPart) /\ <<SetPager>> \in Block(StartPart)
<1>1. {Request("WRITE"), Ready} \subseteq Mails
  BY MailsSent DEF Ready
<1>2. Send(CON_TID, Request("WRITE")) \in Instructions /\ Send(Root, Ready) \in Instructions
  <2>1. {Request("WRITE")} \in SUBSET Mails /\ {Ready} \in SUBSET Mails
    BY <1>1
  <2> QED
    BY <2>1, MakesInstructions, Numbers DEF Send
<1>3. Send(CON_TID, Request("WRITE")) \in PrintPart /\ Send(Root, Ready) \in StartPart
  BY <1>2, Ops, Rests DEF PrintPart, StartPart
<1>4. \A s \in Threads \cup {Any} : Recv(s) \in PrintPart /\ Recv(s) \in StartPart
  BY MakesInstructions, Ops, Rests DEF PrintPart, StartPart
<1>5. SetPager \in StartPart
  BY MakesInstructions, Ops, Rests DEF StartPart
<1>6. Prints \in Block(PrintPart) /\ Serves \in Block(PrintPart)
  BY <1>3, <1>4, BlockTuples, Numbers DEF Prints, Call, Serves
<1>7. Announces \in Block(StartPart) /\ <<SetPager>> \in Block(StartPart)
  BY <1>3, <1>4, <1>5, BlockTuples, Numbers DEF Announces
<1> QED
  BY <1>6, <1>7

LEMMA PagerEnds ==
    ASSUME NEW S, NEW x \in Block(S), NEW a, NEW i \in DOMAIN (x \o <<a>>)
    PROVE  (x \o <<a>>)[i] \in S \/ (i = Len(x \o <<a>>) /\ (x \o <<a>>)[i] = a)
BY DEF Block

LEMMA PagerBlocks ==
    ASSUME NEW b \in DOMAIN vm, NEW i \in DOMAIN vm[b]
    PROVE  \/ vm[b][i] \in PrintPart
           \/ b = "main" /\ vm[b][i] \in StartPart
           \/ b = "heap" /\ vm[b][i] = MapsPage
           \/ b \in {"heap", "wild"} /\ i = Len(vm[b]) /\ vm[b][i] = Send(Client, Verdicts(b))
<1> DEFINE S == PrintPart
           T == PrintPart \cup {MapsPage}
<1>1. vm["main"] \in Block(StartPart)
  <2>1. vm["main"] = <<SetPager>> \o Announces \o Prints
    BY DEF vm
  <2>2. <<SetPager>> \o Announces \in Block(StartPart)
    BY PagerMakes, BlockCat
  <2>3. Prints \in Block(StartPart)
    <3>1. PrintPart \subseteq StartPart
      BY DEF StartPart
    <3> QED
      BY <3>1, PagerMakes, BlockMore
  <2> QED
    BY <2>1, <2>2, <2>3, BlockCat
<1>2. vm["loop"] \in Block(S)
  BY PagerMakes DEF vm
<1>3. Prints \o Prints \in Block(S)
  BY PagerMakes, BlockCat
<1>4. CASE b = "heap"
  <2> DEFINE x == Prints \o Prints \o vm_maps
             a == Send(Client, Verdicts("heap"))
  <2>1. vm["heap"] = x \o <<a>>
    BY DEF vm, vm_heap, Answers, Verdicts
  <2>2. x \in Block(T)
    <3>1. Prints \o Prints \in Block(T)
      BY <1>3, BlockMore
    <3>2. vm_maps \in Block(T)
      BY BlockTuples DEF vm_maps
    <3> QED
      BY <3>1, <3>2, BlockCat
  <2> HIDE DEF x, a
  <2>3. vm[b][i] \in T \/ (i = Len(vm[b]) /\ vm[b][i] = a)
    BY <1>4, <2>1, <2>2, PagerEnds
  <2> QED
    BY <1>4, <2>3 DEF a
<1>5. CASE b = "wild"
  <2> DEFINE x == Prints \o Prints
             a == Send(Client, Verdicts("wild"))
  <2>1. vm["wild"] = x \o <<a>>
    BY DEF vm, Verdicts
  <2> HIDE DEF x, a
  <2>2. x \in Block(S)
    BY <1>3 DEF x
  <2>3. vm[b][i] \in S \/ (i = Len(vm[b]) /\ vm[b][i] = a)
    BY <1>5, <2>1, <2>2, PagerEnds
  <2> QED
    BY <1>5, <2>3 DEF a
<1>6. CASE b \in {"main", "loop"}
  BY <1>1, <1>2, <1>6 DEF Block
<1> QED
  BY <1>4, <1>5, <1>6, Blocks

\* An instruction of the pager, the jth of block b.
PagerInstr(b, j, i) ==
    /\ i.orelse = "rest" /\ i.op \in {"pager", "send", "recv", "map"}
    /\ i.op = "map" => b = "heap"
    /\ i.op = "send" =>
          \/ i.arg = CON_TID
          \/ b = "main" /\ i.arg = Root /\ i.what = {Ready}
          \/ b \in {"heap", "wild"} /\ j = Len(vm[b]) /\ i.arg = Client /\ i.what = {Verdicts(b)}

LEMMA PagerCode ==
    ASSUME NEW b \in DOMAIN vm, NEW j \in DOMAIN vm[b]
    PROVE  PagerInstr(b, j, vm[b][j])
<1>1. MapsPage.op = "map" /\ MapsPage.orelse = "rest"
  BY Ops, Rests
<1>2. /\ Send(Client, Verdicts(b)).op = "send" /\ Send(Client, Verdicts(b)).arg = Client
      /\ Send(Client, Verdicts(b)).what = {Verdicts(b)} /\ Send(Client, Verdicts(b)).orelse = "rest"
  BY Ops, Rests
<1>3. CASE vm[b][j] \in PrintPart \/ (b = "main" /\ vm[b][j] \in StartPart)
  BY <1>3 DEF PrintPart, StartPart, PagerInstr
<1>4. CASE b = "heap" /\ vm[b][j] = MapsPage
  BY <1>1, <1>4 DEF PagerInstr
<1>5. CASE b \in {"heap", "wild"} /\ j = Len(vm[b]) /\ vm[b][j] = Send(Client, Verdicts(b))
  BY <1>2, <1>5 DEF PagerInstr
<1> QED
  BY <1>3, <1>4, <1>5, PagerBlocks

LEMMA RogueCode ==
    /\ Len(rogue.main) = 6
    /\ \A i \in DOMAIN rogue.main : /\ rogue.main[i].op = "touch" <=> i = 3
                                    /\ rogue.main[i].orelse = "rest"
    /\ rogue.main[3].what = "wild"
    /\ (CHOOSE i \in DOMAIN rogue.main : rogue.main[i].op = "touch") = 3
<1> DEFINE a == Send(CON_TID, Request("WRITE"))
           r == Recv(CON_TID)
           w == Touches("wild")
<1>1. Prints = <<a, r>>
  BY DEF Prints, Call
<1>2. rogue.main = <<a, r>> \o <<w>> \o <<a, r>> \o <<Leave>>
  BY <1>1 DEF rogue
<1>3. /\ a.op = "send" /\ r.op = "recv" /\ w.op = "touch" /\ Leave.op = "exit" /\ w.what = "wild"
      /\ a.orelse = "rest" /\ r.orelse = "rest" /\ w.orelse = "rest" /\ Leave.orelse = "rest"
  BY Ops, Rests
<1> HIDE DEF a, r, w
<1> DEFINE S == {a, r, w, Leave}
<1>4. /\ Len(rogue.main) = 6
      /\ rogue.main[1] = a /\ rogue.main[2] = r /\ rogue.main[3] = w /\ rogue.main[4] = a
      /\ rogue.main[5] = r /\ rogue.main[6] = Leave
      /\ DOMAIN rogue.main = 1 .. 6
  <2> DEFINE x == <<a, r>> \o <<w>>
  <2>1. /\ <<a, r>> \in Seq(S) /\ <<w>> \in Seq(S) /\ <<Leave>> \in Seq(S)
        /\ Len(<<a, r>>) = 2 /\ Len(<<w>>) = 1 /\ Len(<<Leave>>) = 1
        /\ <<a, r>>[1] = a /\ <<a, r>>[2] = r /\ <<w>>[1] = w /\ <<Leave>>[1] = Leave
    OBVIOUS
  <2> HIDE DEF S
  <2>2. x \in Seq(S) /\ Len(x) = 3 /\ x[1] = a /\ x[2] = r /\ x[3] = w
    BY <2>1, Cat
  <2> DEFINE z == <<a, r>>
             l == <<Leave>>
  <2>3. z \in Seq(S) /\ l \in Seq(S)
    BY <2>1
  <2>4. Len(z) = 2 /\ z[1] = a /\ z[2] = r /\ Len(l) = 1 /\ l[1] = Leave
    BY <2>1
  <2>5. rogue.main = x \o z \o l
    BY <1>2
  <2> HIDE DEF x, z, l
  <2>6. x \in Seq(S)
    BY <2>2
  <2>7. /\ x \o z \in Seq(S) /\ Len(x \o z) = Len(x) + Len(z)
        /\ \A i \in 1 .. Len(x) : (x \o z)[i] = x[i]
        /\ \A i \in Len(x) + 1 .. Len(x) + Len(z) : (x \o z)[i] = z[i - Len(x)]
    BY <2>3, <2>6, Cat
  <2>8. /\ Len(x \o z) = 5 /\ (x \o z)[1] = a /\ (x \o z)[2] = r /\ (x \o z)[3] = w
        /\ (x \o z)[4] = a /\ (x \o z)[5] = r
    BY <2>2, <2>4, <2>7
  <2> DEFINE v == x \o z
  <2>9. v \in Seq(S)
    BY <2>7
  <2> HIDE DEF v
  <2>10. /\ Len(v \o l) = Len(v) + Len(l) /\ v \o l \in Seq(S)
         /\ \A i \in 1 .. Len(v) : (v \o l)[i] = v[i]
         /\ \A i \in Len(v) + 1 .. Len(v) + Len(l) : (v \o l)[i] = l[i - Len(v)]
    BY <2>3, <2>9, Cat
  <2>11. /\ Len(v \o l) = 6 /\ (v \o l)[1] = a /\ (v \o l)[2] = r /\ (v \o l)[3] = w
         /\ (v \o l)[4] = a /\ (v \o l)[5] = r /\ (v \o l)[6] = Leave
         /\ DOMAIN (v \o l) = 1 .. 6
    <3>1. Len(v) = 5 /\ v[1] = a /\ v[2] = r /\ v[3] = w /\ v[4] = a /\ v[5] = r
      BY <2>8 DEF v
    <3>2. Len(v \o l) = 6 /\ (v \o l)[6] = Leave
      BY <2>4, <2>10, <3>1
    <3>3. (v \o l)[1] = a /\ (v \o l)[2] = r /\ (v \o l)[3] = w /\ (v \o l)[4] = a /\ (v \o l)[5] = r
      BY <2>10, <3>1
    <3>4. DOMAIN (v \o l) = 1 .. 6
      BY <2>10, <3>2
    <3> QED
      BY <3>2, <3>3, <3>4
  <2> QED
    BY <2>5, <2>11 DEF v
<1>5. \A i \in DOMAIN rogue.main : /\ rogue.main[i].op = "touch" <=> i = 3
                                    /\ rogue.main[i].orelse = "rest"
  <2>1. \A i \in 1 .. 6 : i \in {1, 2, 3, 4, 5, 6}
    OBVIOUS
  <2> QED
    BY <1>3, <1>4, <2>1
<1> QED
  BY <1>3, <1>4, <1>5

-----------------------------------------------------------------------------
LEMMA PagerHere ==
    ASSUME SysInv, prog[VM_TID] # "none"
    PROVE  /\ prog[VM_TID] = "vm" /\ Program["vm"] = vm
           /\ at[VM_TID].block \in DOMAIN vm /\ Code(VM_TID) = vm[at[VM_TID].block]
           /\ at[VM_TID].pc \in DOMAIN Code(VM_TID)
           /\ PagerInstr(at[VM_TID].block, at[VM_TID].pc, Instr(VM_TID))
<1> USE DEF SysInv
<1>1. VM_TID \in Threads /\ VM_TID = 3 /\ VM_TID \in 1 .. 6
  BY Numbers DEF VM_TID
<1>2. prog[VM_TID] = "vm"
  BY <1>1, Numbering, Places6
<1>3. PlaceOf("vm", at[VM_TID])
  BY <1>1, <1>2, Here
<1>4. /\ at[VM_TID].block \in DOMAIN vm /\ Code(VM_TID) = vm[at[VM_TID].block]
      /\ at[VM_TID].pc \in DOMAIN Code(VM_TID)
  BY <1>2, <1>3, Names DEF PlaceOf, Code
<1>5. PagerInstr(at[VM_TID].block, at[VM_TID].pc, Instr(VM_TID))
  BY <1>4, PagerCode DEF Instr
<1> QED
  BY <1>2, <1>4, <1>5, Names

\* Who touches memory that is not mapped, and which.
LEMMA Faulters ==
    ASSUME SysInv, NEW c \in Threads, resume[c] \in FaultKinds
    PROVE  /\ c \notin Terminals /\ c # VM_TID /\ tstate[c] \notin Free
           /\ prog[c] \in {"init", "rogue"} /\ Instr(c).op = "touch"
           /\ Instr(c).what = IF prog[c] = "rogue" THEN "wild" ELSE "heap"
<1> USE DEF SysInv
<1>1. prog[c] # "none" /\ Instr(c).op = "touch"
  BY DEF BlockedOK, FaultKinds, WaitsIn
<1>2. prog[c] \in DOMAIN Program /\ Instr(c) \in Allowed(prog[c])
  BY <1>1, Here
<1>3. prog[c] \in {"init", "rogue"}
  BY <1>1, <1>2, CallsOf DEF Allowed
<1>4. c \notin {1, 2, 3, 4, 5, 6}
  <2>1. \A i \in {1, 2, 3, 4, 5, 6} : i \in 1 .. 6
    OBVIOUS
  <2> QED
    BY <1>3, <2>1, Numbering, Places6
<1>5. Instr(c).what = IF prog[c] = "rogue" THEN "wild" ELSE "heap"
  BY <1>1, <1>2 DEF Allowed
<1> QED
  BY <1>1, <1>3, <1>4, <1>5 DEF Terminals, CON_TID, VGA_TID, VM_TID, LivesOK

FaultersOK ==
    \A c \in Threads :
        resume[c] \in FaultKinds =>
            /\ c \notin Terminals /\ c # VM_TID /\ tstate[c] \notin Free
            /\ prog[c] \in {"init", "rogue"} /\ Instr(c).op = "touch"
            /\ Instr(c).what = IF prog[c] = "rogue" THEN "wild" ELSE "heap"

LEMMA AllFaulters == SysInv => FaultersOK
BY Faulters DEF FaultersOK

LEMMA FaultersNext == SysInv' => FaultersOK'
BY AllFaulters, PTL

\* Registrations: the pager's own, and those of the two terminals.
LEMMA Registered ==
    ASSUME SysInv, NEW t \in Threads, Step(t)
    PROVE  /\ g_pager_tid' = g_pager_tid \/ g_pager_tid' = VM_TID
           /\ \A i \in IrqLines : g_irq_tid'[i] = g_irq_tid[i] \/ g_irq_tid'[i] \in Terminals
<1>1. CASE DoRegister(t)
  <2>1. InUser(t) /\ prog[t] # "none" /\ prog[t] \in DOMAIN Program /\ Instr(t) \in Allowed(prog[t])
    BY <1>1, Awake, Here DEF DoRegister, Executes, SysInv
  <2>2. CASE Instr(t).op = "irq" /\ SysIrqRegister(t, Instr(t).arg)
    <3>1. t \in Terminals
      BY <2>1, <2>2, TerminalsEdit DEF SysInv
    <3> QED
      BY <2>2, <3>1 DEF SysIrqRegister, SysInv, CallsOK
  <2>3. CASE Instr(t).op = "pager" /\ SysSetPager(t)
    <3>1. prog[t] = "vm"
      BY <2>1, <2>3, CallsOf DEF Allowed
    <3>2. t = VM_TID
      BY <3>1, Numbering DEF SysInv
    <3> QED
      BY <2>3, <3>2 DEF SysSetPager
  <2> QED
    BY <1>1, <2>2, <2>3 DEF DoRegister, Executes
<1>2. CASE ~DoRegister(t)
  <2>1. UNCHANGED <<g_pager_tid, g_irq_tid>>
    <3>1. CASE DoSend(t)
      BY <3>1 DEF DoSend, SysSendDenied, SysSend, trapVars
    <3>2. CASE DoRecv(t) \/ DoSpawn(t)
      BY <3>2 DEF DoRecv, SysRecv, DoSpawn, SysSpawn, SysLocal, trapVars
    <3>3. CASE DoGrant(t)
      BY <3>3 DEF DoGrant, SysGrantCap, SysGrantIo
    <3>4. CASE DoLocal(t) \/ DoMap(t) \/ DoDrain(t) \/ DoAsk(t)
      BY <3>4 DEF DoLocal, DoMap, DoDrain, DoAsk, SysLocal, trapVars
    <3>5. CASE DoTouch(t) \/ FaultPath(t) \/ FaultEnds(t)
      BY <3>5 DEF DoTouch, SysLocal, PageFault, FaultPanics, FaultSends, FaultPath, FaultSent,
                  FaultReceives, FaultAnswered, FaultEnds, FaultKills, trapVars
    <3>6. CASE DoEdit(t)
      BY <3>6 DEF DoEdit, SysSend, SysLocal, trapVars
    <3>7. CASE DoExit(t) \/ Returns(t)
      BY <3>7 DEF DoExit, SysExit, Returns, SysSendReturns, SysRecvReturns, trapVars
    <3> QED
      BY <1>2, <3>1, <3>2, <3>3, <3>4, <3>5, <3>6, <3>7 DEF Step, Works
  <2> QED
    BY <2>1
<1> QED
  BY <1>1, <1>2

RolesOK == Roles({VM_TID}, Terminals)

LEMMA RolesKept ==
    ASSUME SysInv, SysInv', RolesOK, [SystemNext]_svars PROVE RolesOK'
<1>1. \A t \in Threads : Faulting(t)' => t \notin Terminals
  <2> SUFFICES ASSUME NEW t \in Threads, Faulting(t)' PROVE t \notin Terminals
    OBVIOUS
  <2>1. (resume[t] \in FaultKinds)'
    BY DEF Faulting, FaultKinds
  <2> QED
    BY <2>1, FaultersNext DEF FaultersOK
<1>2. /\ g_pager_tid' = g_pager_tid \/ g_pager_tid' = VM_TID
      /\ \A i \in IrqLines : g_irq_tid'[i] = g_irq_tid[i] \/ g_irq_tid'[i] \in Terminals
  <2>1. ASSUME NEW t \in Threads, Step(t)
        PROVE  /\ g_pager_tid' = g_pager_tid \/ g_pager_tid' = VM_TID
               /\ \A i \in IrqLines : g_irq_tid'[i] = g_irq_tid[i] \/ g_irq_tid'[i] \in Terminals
    BY <2>1, Registered
  <2>2. CASE UNCHANGED <<g_pager_tid, g_irq_tid>>
    BY <2>2
  <2>3. \/ UNCHANGED <<g_pager_tid, g_irq_tid>>
        \/ \E t \in Threads : Step(t)
    BY DEF SystemNext, svars, kvars, trapVars, Runs, StartInit, SysSpawn, IdleTick, Preempt, Type,
           TimerInterrupt, HwInterrupt
  <2> QED
    BY <2>1, <2>2, <2>3
<1> QED
  BY <1>1, <1>2 DEF RolesOK, Roles


-----------------------------------------------------------------------------
(* What a step of the pager does to the IPC fields, in six forms.          *)
Kept(u) ==
    /\ ipc_state'[u] = ipc_state[u] /\ ipc_peer'[u] = ipc_peer[u]
    /\ ipc_from'[u] = ipc_from[u] /\ ipc_buf'[u] = ipc_buf[u]

\* Whom the pager sends to.
To == IF Instr(VM_TID).arg = Client THEN client[VM_TID] ELSE Instr(VM_TID).arg

\* Its program goes on.
GoesOn(r, m) == at' = [at EXCEPT ![VM_TID] = After(VM_TID, r, m)]

PutsIn(m) ==
    /\ Instr(VM_TID).op = "send" /\ m \in Instr(VM_TID).what /\ To \in Threads
    /\ resume[VM_TID] = "none" /\ UNCHANGED <<resume, client>>
    /\ \A u \in Threads \ {To} : Kept(u)
    /\ ipc_state'[To] = "NONE" /\ ipc_buf'[To] = m
    /\ GoesOn(0, NoMsg)

Offers(m) ==
    /\ Instr(VM_TID).op = "send" /\ m \in Instr(VM_TID).what
    /\ resume[VM_TID] = "none" /\ resume' = [resume EXCEPT ![VM_TID] = "send"]
    /\ \A u \in Threads \ {VM_TID} : Kept(u)
    /\ ipc_state'[VM_TID] = "SENDING" /\ ipc_buf'[VM_TID] = m /\ ipc_peer'[VM_TID] = To
    /\ UNCHANGED <<at, client>>

Calculates(r) ==
    /\ Instr(VM_TID).op \in {"send", "map", "pager"}
    /\ resume[VM_TID] = "none" /\ UNCHANGED <<resume, client>>
    /\ \A u \in Threads : Kept(u)
    /\ GoesOn(r, NoMsg)

Sent ==
    /\ resume[VM_TID] = "send" /\ resume' = [resume EXCEPT ![VM_TID] = "none"] /\ UNCHANGED client
    /\ Instr(VM_TID).op = "send"
    /\ \A u \in Threads \ {VM_TID} : Kept(u)
    /\ ipc_state'[VM_TID] = "NONE"
    /\ GoesOn(0, NoMsg)

Listens ==
    /\ Instr(VM_TID).op = "recv"
    /\ resume[VM_TID] = "none" /\ resume' = [resume EXCEPT ![VM_TID] = "recv"]
    /\ \A u \in Threads \ {VM_TID} : Kept(u)
    /\ ipc_state'[VM_TID] = "RECEIVING"
    /\ UNCHANGED <<at, client>>

\* A message the pager gets was in its mailbox, or waits to be taken.
Gets(r, m) ==
    /\ Instr(VM_TID).op = "recv"
    /\ resume[VM_TID] \in {"none", "recv"} /\ resume' = [resume EXCEPT ![VM_TID] = "none"]
    /\ ipc_state'[VM_TID] \in {ipc_state[VM_TID], "NONE"}
    /\ \A u \in Threads \ {VM_TID} :
          Kept(u) \/ (ipc_state[u] = "SENDING" /\ ipc_state'[u] = "NONE")
    /\ \/ r = Irq
       \/ /\ r \in Threads /\ m = ipc_buf[r]
          /\ ipc_state[r] = "SENDING" /\ ipc_state'[r] = "NONE"
       \/ /\ r \in Threads /\ r = ipc_from[VM_TID] /\ m = ipc_buf[VM_TID]
          /\ resume[VM_TID] = "recv" /\ ipc_state[VM_TID] # "RECEIVING"
          /\ \A u \in Threads \ {VM_TID} : Kept(u)
    /\ GoesOn(r, m) /\ Remembers(VM_TID, r)

PagerForms ==
    \/ \E m : PutsIn(m) \/ Offers(m)
    \/ \E r \in {0, -1} : Calculates(r)
    \/ Sent \/ Listens
    \/ \E r, m : Gets(r, m)

LEMMA PagerAwake ==
    ASSUME SysInv, InUser(VM_TID) \/ resume[VM_TID] # "none"
    PROVE  prog[VM_TID] # "none"
BY Awake, Numbers DEF SysInv, BlockedOK

LEMMA PagerTo ==
    ASSUME SysInv, prog[VM_TID] # "none", Instr(VM_TID).op = "send"
    PROVE  Who(VM_TID, Instr(VM_TID).arg) = To /\ To \in Threads \cup {Nobody}
<1>1. VM_TID \in Threads
  BY Numbers
<1>2. Instr(VM_TID).arg \in {CON_TID, Root, Client}
  BY PagerHere DEF PagerInstr
<1>3. Who(VM_TID, Instr(VM_TID).arg) \in Threads \cup {Nobody}
  BY <1>1, SendsToThreads
<1>4. CON_TID # Client /\ Root # Client
  BY DEF CON_TID, Root, Client
<1> QED
  <2>1. CASE Instr(VM_TID).arg \in {CON_TID, Root}
    <3>1. Instr(VM_TID).arg \in Threads
      BY <2>1, Numbers
    <3>2. Who(VM_TID, Instr(VM_TID).arg) = Instr(VM_TID).arg
      BY <3>1, WhoIs
    <3> QED
      BY <1>3, <1>4, <2>1, <3>2 DEF To
  <2>2. CASE Instr(VM_TID).arg = Client
    <3>1. Who(VM_TID, Client) = client[VM_TID]
      BY WhoIs
    <3> QED
      BY <1>3, <2>2, <3>1 DEF To
  <2> QED
    BY <1>2, <2>1, <2>2

LEMMA ServesLoop ==
    ASSUME SysInv, prog[VM_TID] # "none", Instr(VM_TID).op # "recv" PROVE Code(VM_TID) # Serves
BY LoopReceives, Ops, Numbers DEF SysInv

\* A call of the pager that is over.
LEMMA PagerFollows ==
    ASSUME SysInv, prog[VM_TID] # "none", Follow(VM_TID)
    PROVE  /\ ret'.tid = VM_TID => GoesOn(ret'.rax, ret'.msg) /\ Remembers(VM_TID, ret'.rax)
           /\ ret'.tid = VM_TID /\ Instr(VM_TID).op # "recv" => UNCHANGED client
           /\ ret'.tid # VM_TID => UNCHANGED <<at, client>>
BY ServesLoop DEF Follow, Moves, GoesOn, Remembers

LEMMA PagerSends ==
    ASSUME SysInv, DoSend(VM_TID) PROVE PagerForms
<1> USE DEF SysInv, CallsOK, MailOK, Mailbox
<1> DEFINE d == Who(VM_TID, Instr(VM_TID).arg)
<1>1. /\ Instr(VM_TID).op = "send" /\ InUser(VM_TID) /\ prog[VM_TID] # "none" /\ VM_TID \in Threads
      /\ resume[VM_TID] = "none"
  BY PagerAwake, Numbers DEF DoSend, Executes, InUser
<1>2. d = To /\ To \in Threads \cup {Nobody} /\ Follow(VM_TID)
  BY <1>1, PagerTo DEF DoSend
<1> HIDE DEF d
<1>3. ASSUME Return(VM_TID, -1, NoMsg), UNCHANGED <<schedVars, ipcVars>> PROVE PagerForms
  <2>1. UNCHANGED resume /\ ret'.tid = VM_TID /\ ret'.rax = -1 /\ ret'.msg = NoMsg
    BY <1>1, <1>3 DEF Return, Gives
  <2>2. \A u \in Threads : Kept(u)
    BY <1>3 DEF ipcVars, Kept
  <2>3. Calculates(-1)
    BY <1>1, <1>2, <2>1, <2>2, PagerFollows DEF Calculates
  <2> QED
    BY <2>3 DEF PagerForms
<1>4. ASSUME NEW m \in Instr(VM_TID).what, SendDelivers(VM_TID, d, m) PROVE PagerForms
  <2>1. UNCHANGED resume /\ ret'.tid = VM_TID /\ ret'.rax = 0 /\ ret'.msg = NoMsg
    BY <1>1, <1>4 DEF SendDelivers, Return, Gives
  <2>2. To \in Threads
    BY <1>2, <1>4 DEF SendDelivers, Deliver, Exists
  <2>3. /\ \A u \in Threads \ {To} : Kept(u)
        /\ ipc_state'[To] = "NONE" /\ ipc_buf'[To] = m
    BY <1>2, <1>4, <2>2 DEF SendDelivers, Deliver, Kept
  <2>4. PutsIn(m)
    BY <1>1, <1>2, <2>1, <2>2, <2>3, PagerFollows DEF PutsIn
  <2> QED
    BY <2>4 DEF PagerForms
<1>5. ASSUME NEW m \in Instr(VM_TID).what, SendBlocks(VM_TID, d, m) PROVE PagerForms
  <2>1. resume' = [resume EXCEPT ![VM_TID] = "send"] /\ ret'.tid = Any
    BY <1>5 DEF SendBlocks, BlocksIn, NoResult
  <2>2. Any \notin Threads
    BY NAssumption DEF Any, Threads
  <2>3. /\ \A u \in Threads \ {VM_TID} : Kept(u)
        /\ ipc_state'[VM_TID] = "SENDING" /\ ipc_buf'[VM_TID] = m /\ ipc_peer'[VM_TID] = To
    BY <1>1, <1>2, <1>5 DEF SendBlocks, Stage, Kept
  <2>4. Offers(m)
    BY <1>1, <1>2, <2>1, <2>2, <2>3, PagerFollows DEF Offers
  <2> QED
    BY <2>4 DEF PagerForms
<1>6. \/ SysSendDenied(VM_TID, d)
      \/ \E m \in Instr(VM_TID).what : SysSend(VM_TID, d, m)
  BY DEF DoSend, d
<1> QED
  BY <1>3, <1>4, <1>5, <1>6 DEF SysSendDenied, SysSend, SendFails

LEMMA PagerReceives ==
    ASSUME SysInv, DoRecv(VM_TID) PROVE PagerForms
<1> USE DEF SysInv, CallsOK, MailOK, Mailbox
<1> DEFINE src == Who(VM_TID, Instr(VM_TID).arg)
<1>1. /\ Instr(VM_TID).op = "recv" /\ InUser(VM_TID) /\ prog[VM_TID] # "none" /\ VM_TID \in Threads
      /\ resume[VM_TID] = "none" /\ Follow(VM_TID)
  BY PagerAwake, Numbers DEF DoRecv, Executes, InUser
<1> HIDE DEF src
<1>2. CASE RecvTakesIrq(VM_TID)
  <2>1. /\ resume' = [resume EXCEPT ![VM_TID] = "none"] /\ ret'.tid = VM_TID /\ ret'.rax = Irq
        /\ ret'.msg = NoMsg
    BY <1>2 DEF RecvTakesIrq, Return, Gives
  <2>2. \A u \in Threads : Kept(u)
    BY <1>2 DEF RecvTakesIrq, TakeIrq, Kept
  <2>3. ipc_state'[VM_TID] = ipc_state[VM_TID]
    BY <1>1, <2>2 DEF Kept
  <2>4. Gets(Irq, NoMsg)
    BY <1>1, <2>1, <2>2, <2>3, PagerFollows DEF Gets
  <2> QED
    BY <2>4 DEF PagerForms
<1>3. ASSUME NEW s \in Threads, RecvTakesSender(VM_TID, s, src) PROVE PagerForms
  <2>1. /\ resume' = [resume EXCEPT ![VM_TID] = "none"] /\ ret'.tid = VM_TID /\ ret'.rax = s
        /\ ret'.msg = ipc_buf[s]
    BY <1>3 DEF RecvTakesSender, Return, Gives
  <2>2. /\ \A u \in Threads \ {s} : Kept(u)
        /\ ipc_state[s] = "SENDING" /\ ipc_state'[s] = "NONE"
    BY <1>3 DEF RecvTakesSender, TakeSender, FindsSender, WaitingSender, Kept
  <2>3. ipc_state'[VM_TID] \in {ipc_state[VM_TID], "NONE"}
    BY <1>1, <2>2 DEF Kept
  <2>4. Gets(s, ipc_buf[s])
    BY <1>1, <2>1, <2>2, <2>3, PagerFollows DEF Gets
  <2> QED
    BY <2>4 DEF PagerForms
<1>4. CASE RecvBlocks(VM_TID, src)
  <2>1. resume' = [resume EXCEPT ![VM_TID] = "recv"] /\ ret'.tid = Any
    BY <1>4 DEF RecvBlocks, BlocksIn, NoResult
  <2>2. Any \notin Threads
    BY NAssumption DEF Any, Threads
  <2>3. (\A u \in Threads \ {VM_TID} : Kept(u)) /\ ipc_state'[VM_TID] = "RECEIVING"
    BY <1>1, <1>4 DEF RecvBlocks, Await, Kept
  <2>4. Listens
    BY <1>1, <2>1, <2>2, <2>3, PagerFollows DEF Listens
  <2> QED
    BY <2>4 DEF PagerForms
<1>5. SysRecv(VM_TID, src)
  BY DEF DoRecv, src
<1> QED
  BY <1>2, <1>3, <1>4, <1>5 DEF SysRecv

LEMMA PagerReturns ==
    ASSUME SysInv, Returns(VM_TID) PROVE PagerForms
<1> USE DEF SysInv, CallsOK, MailOK, Mailbox
<1>1. VM_TID \in Threads /\ Follow(VM_TID)
  BY Numbers DEF Returns
<1>2. ASSUME CallOver(VM_TID)
      PROVE  (\A u \in Threads \ {VM_TID} : Kept(u)) /\ ipc_state'[VM_TID] = "NONE"
  BY <1>1, <1>2 DEF CallOver, Kept
<1>3. CASE SysSendReturns(VM_TID)
  <2>1. /\ resume[VM_TID] = "send" /\ resume' = [resume EXCEPT ![VM_TID] = "none"] /\ CallOver(VM_TID)
        /\ ret'.tid = VM_TID /\ ret'.rax = 0 /\ ret'.msg = NoMsg
    BY <1>3 DEF SysSendReturns, SendReturns, Resumed, SendDone, Return, Gives
  <2>2. prog[VM_TID] # "none"
    BY <2>1, PagerAwake
  <2>3. Instr(VM_TID).op = "send"
    <3>1. Instr(VM_TID).op \in {"send", "edit"}
      BY <1>1, <2>1 DEF BlockedOK, WaitsIn
    <3> QED
      BY <2>2, <3>1, PagerHere DEF PagerInstr
  <2>4. Sent
    BY <1>1, <1>2, <2>1, <2>2, <2>3, PagerFollows DEF Sent
  <2> QED
    BY <2>4 DEF PagerForms
<1>4. CASE SysRecvReturns(VM_TID)
  <2>1. /\ resume[VM_TID] = "recv" /\ resume' = [resume EXCEPT ![VM_TID] = "none"] /\ CallOver(VM_TID)
        /\ ret'.tid = VM_TID
        /\ \/ ret'.rax = Irq
           \/ /\ ret'.rax = ipc_from[VM_TID] /\ ret'.msg = ipc_buf[VM_TID]
              /\ ipc_state[VM_TID] # "RECEIVING"
    BY <1>4 DEF SysRecvReturns, RecvReturns, RecvReturnsIrq, Resumed, Delivered, AwokenByIrq, Return, Gives
  <2>2. prog[VM_TID] # "none"
    BY <2>1, PagerAwake
  <2>3. Instr(VM_TID).op = "recv"
    BY <1>1, <2>1 DEF BlockedOK, WaitsIn
  <2>4. ipc_state[VM_TID] # "RECEIVING" => ipc_from[VM_TID] \in Threads
    BY <1>1, <2>1
  <2>5. GoesOn(ret'.rax, ret'.msg) /\ Remembers(VM_TID, ret'.rax)
    BY <1>1, <2>1, <2>2, PagerFollows
  <2>6. (\A u \in Threads \ {VM_TID} : Kept(u)) /\ ipc_state'[VM_TID] = "NONE"
    BY <1>2, <2>1
  <2>7. Gets(ret'.rax, ret'.msg)
    BY <2>1, <2>3, <2>4, <2>5, <2>6 DEF Gets
  <2> QED
    BY <2>7 DEF PagerForms
<1> QED
  BY <1>3, <1>4 DEF Returns

LEMMA PagerLocal ==
    ASSUME SysInv, DoRegister(VM_TID) \/ DoMap(VM_TID) PROVE PagerForms
<1>1. /\ Instr(VM_TID).op \in {"map", "irq", "pager"} /\ InUser(VM_TID) /\ prog[VM_TID] # "none"
      /\ resume[VM_TID] = "none"
  BY PagerAwake DEF DoRegister, DoMap, Executes, InUser
<1>2. Instr(VM_TID).op \in {"map", "pager"}
  BY <1>1, PagerHere DEF PagerInstr
<1>3. UNCHANGED <<ipcCalls, resume, client>> /\ GoesOn(0, NoMsg)
  BY DEF DoRegister, DoMap, SysIrqRegister, SysSetPager, SysLocal, NoCall, ipcVars, ipcCalls, Done, Moves,
         GoesOn
<1>4. \A u \in Threads : Kept(u)
  BY <1>3 DEF ipcCalls, Kept
<1>5. Calculates(0)
  BY <1>1, <1>2, <1>3, <1>4 DEF Calculates
<1> QED
  BY <1>5 DEF PagerForms

\* The pager does nothing else.
LEMMA PagerStep ==
    ASSUME SysInv, Step(VM_TID)
    PROVE  /\ PagerForms
           /\ DoMap(VM_TID) \/ UNCHANGED mapped
           /\ UNCHANGED prog
<1>1. VM_TID \in Threads
  BY Numbers
<1>2. prog[VM_TID] # "none" => Instr(VM_TID).op \in {"pager", "send", "recv", "map"}
  BY PagerHere DEF PagerInstr
<1>3. ASSUME NEW o, Executes(VM_TID, o) PROVE o \in {"pager", "send", "recv", "map"}
  BY <1>2, <1>3, PagerAwake DEF Executes
<1>4. ~FaultPath(VM_TID) /\ ~FaultEnds(VM_TID)
  <2>1. ASSUME NEW k \in FaultKinds, Resumed(VM_TID, k) PROVE FALSE
    <3>1. Instr(VM_TID).op = "touch" /\ prog[VM_TID] # "none"
      BY <1>1, <2>1 DEF SysInv, BlockedOK, Resumed, FaultKinds, WaitsIn
    <3> QED
      BY <1>2, <3>1
  <2> QED
    BY <2>1 DEF FaultPath, FaultSent, FaultReceives, FaultAnswered, FaultEnds, FaultKills, FaultKinds
<1>5. \/ DoSend(VM_TID) \/ DoRecv(VM_TID) \/ DoRegister(VM_TID) \/ DoMap(VM_TID) \/ Returns(VM_TID)
  <2>0. \A o \in {"spawn", "io", "local", "touch", "drain"} : ~Executes(VM_TID, o)
    BY <1>3
  <2>1. ~DoSpawn(VM_TID) /\ ~DoLocal(VM_TID) /\ ~DoTouch(VM_TID) /\ ~DoDrain(VM_TID)
    BY <2>0 DEF DoSpawn, DoLocal, DoTouch, DoDrain
  <2>2. ~DoGrant(VM_TID)
    BY <1>3 DEF DoGrant
  <2>3. ~DoAsk(VM_TID) /\ ~DoEdit(VM_TID) /\ ~DoExit(VM_TID)
    BY <1>3 DEF DoAsk, DoEdit, DoExit
  <2> QED
    BY <1>4, <2>1, <2>2, <2>3 DEF Step, Works
<1>6. PagerForms
  BY <1>5, PagerSends, PagerReceives, PagerLocal, PagerReturns
<1>7. DoMap(VM_TID) \/ UNCHANGED mapped
  BY <1>5 DEF DoSend, DoRecv, DoRegister, Returns, Others
<1>8. UNCHANGED prog
  BY <1>5 DEF DoSend, DoRecv, DoRegister, DoMap, Returns, Follow, Done
<1> QED
  BY <1>6, <1>7, <1>8

-----------------------------------------------------------------------------
(* From the fault the pager finds in its mailbox to the verdict it sends:  *)
(* the thread still waits for it, and the block the pager runs is the one  *)
(* for the page that thread touches.                                       *)
HasFault ==
    /\ at[VM_TID].block = "loop" /\ resume[VM_TID] = "recv"
    /\ ipc_state[VM_TID] # "RECEIVING" /\ ipc_buf[VM_TID] = FaultMsg

Answered ==
    /\ resume[VM_TID] = "send" /\ ipc_state[VM_TID] = "NONE"
    /\ Instr(VM_TID).op = "send" /\ Instr(VM_TID).arg = Client

Handling == at[VM_TID].block \in {"heap", "wild"} /\ ~Answered

TakesFaults == HasFault => ipc_from[VM_TID] \in Threads /\ Taken(ipc_from[VM_TID])

ServesFaults ==
    Handling => /\ client[VM_TID] \in Threads /\ Taken(client[VM_TID])
                /\ Instr(client[VM_TID]).what = at[VM_TID].block

\* What it waits to send is what its program says.
SendsAsWritten ==
    ipc_state[VM_TID] = "SENDING" =>
        /\ Instr(VM_TID).op = "send" /\ ipc_buf[VM_TID] \in Instr(VM_TID).what
        /\ ipc_peer[VM_TID] = To

PagerOK == TakesFaults /\ ServesFaults /\ SendsAsWritten

\* A verdict to kill is for a wild access.
InHand(c) == resume[c] = "fault_recv" /\ ipc_state[c] # "RECEIVING" /\ ipc_buf[c] \in Kills

VerdictOK == \A c \in Threads : resume[c] = "kill" \/ InHand(c) => Instr(c).what = "wild"

\* Only the kernel's own message looks like a fault.
MailsOK == \A t \in Threads : ipc_buf[t] \in Mails \cup {FaultMsg, NoMsg}

LEMMA PagerAfter ==
    ASSUME SysInv, prog[VM_TID] # "none", NEW r, NEW m, After(VM_TID, r, m).block \in {"heap", "wild"}
    PROVE  \/ /\ After(VM_TID, r, m).block = at[VM_TID].block
              /\ Code(VM_TID) # Serves
              /\ Instr(VM_TID).op = "send" => Instr(VM_TID).arg = CON_TID
           \/ /\ at[VM_TID].block = "loop" /\ Code(VM_TID) = Serves
              /\ After(VM_TID, r, m) = Selects(VM_TID, r, m)
<1> DEFINE e == at[VM_TID]
<1>0. /\ Instr(VM_TID).orelse = "rest" /\ e.block \in DOMAIN vm /\ e.pc \in DOMAIN Code(VM_TID)
      /\ Code(VM_TID) = vm[e.block] /\ VM_TID \in Threads
      /\ PagerInstr(e.block, e.pc, Instr(VM_TID))
  BY PagerHere, Numbers DEF PagerInstr
<1>1. Entry("loop").block = "loop"
  BY DEF Entry
<1>2. CASE e.pc < Len(Code(VM_TID))
  <2>1. After(VM_TID, r, m) = [e EXCEPT !.pc = @ + 1]
    BY <1>0, <1>2 DEF After
  <2>2. e \in Places
    BY <1>0 DEF SysInv, PlacesOK
  <2>3. After(VM_TID, r, m).block = e.block
    BY <2>1, <2>2 DEF Places
  <2>4. Code(VM_TID) # Serves
    <3>1. SUFFICES ASSUME Code(VM_TID) = Serves PROVE FALSE
      OBVIOUS
    <3>2. e.pc = 1 /\ Len(Code(VM_TID)) = 1
      BY <1>0, <3>1, LoopReceives DEF SysInv
    <3> QED
      BY <1>2, <3>2
  <2>5. e.pc \in Nat /\ Len(vm[e.block]) \in Nat
    BY <1>0, <2>2, Here DEF Places, SysInv
  <2>6. Instr(VM_TID).op = "send" => Instr(VM_TID).arg = CON_TID
    BY <1>0, <1>2, <2>3, <2>5 DEF PagerInstr
  <2> QED
    BY <2>3, <2>4, <2>6
<1>3. CASE ~(e.pc < Len(Code(VM_TID)))
  <2>1. e.block = "loop" /\ After(VM_TID, r, m) = Selects(VM_TID, r, m)
    BY <1>0, <1>1, <1>3 DEF After
  <2>2. Code(VM_TID) = Serves
    BY <1>0, <2>1 DEF vm
  <2> QED
    BY <2>1, <2>2
<1> QED
  BY <1>2, <1>3

LEMMA PagerSelects ==
    ASSUME SysInv, prog[VM_TID] # "none", NEW r, NEW m,
           r = Irq \/ (r \in Threads /\ m \in Mails \cup {FaultMsg}),
           Selects(VM_TID, r, m).block \in {"heap", "wild"}
    PROVE  /\ r \in Threads /\ m = FaultMsg
           /\ Instr(r).what = Selects(VM_TID, r, m).block
<1>1. prog[VM_TID] = "vm" /\ DOMAIN Program["vm"] = {"main", "loop", "heap", "wild"}
  BY PagerHere, Blocks
<1>2. \A b : Entry(b).block = b
  BY DEF Entry
<1>3. r # Irq
  <2>1. SUFFICES ASSUME r = Irq PROVE FALSE
    OBVIOUS
  <2>2. Selects(VM_TID, r, m) = Entry("loop")
    BY <1>1, <2>1 DEF Selects
  <2> QED
    BY <1>2, <2>2
<1>4. m \notin Mails
  <2>1. SUFFICES ASSUME m \in Mails PROVE FALSE
    OBVIOUS
  <2>2. {m.label, m.val} \cap {"main", "heap", "wild", "FAULT"} = {}
    BY <2>1 DEF Mails
  <2>3. Selects(VM_TID, r, m) \in {Entry("loop"), Entry(m.val), Entry(m.label)}
    BY <1>1, <1>3, <2>2 DEF Selects
  <2> QED
    BY <1>2, <2>2, <2>3
<1>5. m = FaultMsg /\ r \in Threads
  BY <1>3, <1>4
<1>6. m.label = "FAULT"
  BY <1>5, ProgramsAssumption DEF Request
<1>7. Selects(VM_TID, r, m) \in {Entry("loop"), Entry(Instr(r).what)}
  BY <1>3, <1>6 DEF Selects
<1> QED
  BY <1>2, <1>5, <1>7

\* The thread that waits for the pager is another.
LEMMA TakenIs ==
    ASSUME SysInv, NEW c \in Threads, Taken(c)
    PROVE  /\ resume[c] \in FaultKinds /\ c \notin Terminals /\ c # VM_TID /\ tstate[c] \notin Free
           /\ prog[c] \in {"init", "rogue"}
           /\ Instr(c).what = IF prog[c] = "rogue" THEN "wild" ELSE "heap"
<1>1. resume[c] \in FaultKinds
  BY DEF Taken, FaultKinds
<1> QED
  BY <1>1, Faulters

\* While the pager leaves a taken fault alone, it stays taken.
LEMMA TakenKept ==
    ASSUME SysInv, NEW c \in Threads, Taken(c), Kept(c), resume'[c] = resume[c]
    PROVE  Taken(c)'
BY DEF Kept, Taken

\* A verdict to kill that the pager sends goes to a wild access.
LEMMA KillWritten ==
    ASSUME SysInv, prog[VM_TID] # "none", ServesFaults, Instr(VM_TID).op = "send",
           NEW m \in Instr(VM_TID).what, m \in Kills, NEW u \in Threads, u = To,
           resume[u] \in FaultKinds, ~Answered
    PROVE  Instr(u).what = "wild"
<1>1. PagerInstr(at[VM_TID].block, at[VM_TID].pc, Instr(VM_TID))
  BY PagerHere
<1>2. u # CON_TID
  BY Faulters DEF Terminals
<1>3. CON_TID # Client /\ Root # Client
  BY DEF CON_TID, Client, Root
<1>4. Ready \notin Kills /\ Verdicts("heap") \notin Kills
  BY ProgramsAssumption DEF Verdicts
<1>5. Instr(VM_TID).arg # CON_TID /\ Instr(VM_TID).arg # Root
  BY <1>1, <1>2, <1>3, <1>4 DEF PagerInstr, To
<1>6. at[VM_TID].block = "wild" /\ Instr(VM_TID).arg = Client
  BY <1>1, <1>4, <1>5 DEF PagerInstr
<1>7. u = client[VM_TID]
  BY <1>6 DEF To
<1> QED
  BY <1>6, <1>7 DEF ServesFaults, Handling

LEMMA PagerAlone ==
    ASSUME SysInv, PagerForms, UNCHANGED prog
    PROVE  /\ \A u \in Threads \ {VM_TID} : Instr(u)' = Instr(u) /\ resume'[u] = resume[u]
           /\ resume'[VM_TID] \in {"none", "send", "recv"}
           /\ resume'[VM_TID] = "recv" => ipc_state'[VM_TID] = "RECEIVING"
<1> USE DEF SysInv, PlacesOK, CallsOK
<1>0. VM_TID \in Threads
  BY Numbers
<1>1. ASSUME NEW r, NEW m, GoesOn(r, m)
      PROVE  \A u \in Threads \ {VM_TID} : at'[u] = at[u]
  BY <1>1 DEF GoesOn
<1>2. \A u \in Threads \ {VM_TID} : at'[u] = at[u]
  BY <1>1 DEF PagerForms, PutsIn, Offers, Calculates, Sent, Listens, Gets
<1>3. \A u \in Threads \ {VM_TID} : Instr(u)' = Instr(u)
  BY <1>2, SameInstr
<1>4. /\ \A u \in Threads \ {VM_TID} : resume'[u] = resume[u]
      /\ resume'[VM_TID] \in {"none", "send", "recv"}
      /\ resume'[VM_TID] = "recv" => ipc_state'[VM_TID] = "RECEIVING"
  <2>1. ASSUME NEW m, PutsIn(m) PROVE resume'[VM_TID] = "none" /\ UNCHANGED resume
    BY <2>1 DEF PutsIn
  <2>2. ASSUME NEW r, Calculates(r) PROVE resume'[VM_TID] = "none" /\ UNCHANGED resume
    BY <2>2 DEF Calculates
  <2>3. ASSUME NEW k \in {"none", "send", "recv"}, resume' = [resume EXCEPT ![VM_TID] = k]
        PROVE  resume'[VM_TID] = k /\ \A u \in Threads \ {VM_TID} : resume'[u] = resume[u]
    BY <1>0, <2>3
  <2>4. ASSUME NEW m, Offers(m) PROVE resume' = [resume EXCEPT ![VM_TID] = "send"]
    BY <2>4 DEF Offers
  <2>5. Sent => resume' = [resume EXCEPT ![VM_TID] = "none"]
    BY DEF Sent
  <2>6. ASSUME NEW r, NEW m, Gets(r, m) PROVE resume' = [resume EXCEPT ![VM_TID] = "none"]
    BY <2>6 DEF Gets
  <2>7. Listens => resume' = [resume EXCEPT ![VM_TID] = "recv"] /\ ipc_state'[VM_TID] = "RECEIVING"
    BY DEF Listens
  <2> QED
    BY <2>1, <2>2, <2>3, <2>4, <2>5, <2>6, <2>7 DEF PagerForms
<1> QED
  BY <1>3, <1>4

LEMMA StaysInBlock ==
    ASSUME SysInv, Staged, ServesFaults, ~Answered,
           \A u \in Threads \ {VM_TID} : Instr(u)' = Instr(u) /\ resume'[u] = resume[u],
           \A u \in Threads \ {VM_TID} : Taken(u) => Kept(u) \/ ipc_state[u] = "SENDING",
           at'[VM_TID].block = at[VM_TID].block, client'[VM_TID] = client[VM_TID]
    PROVE  ServesFaults'
<1>1. PICK c : c = client[VM_TID]
  OBVIOUS
<1>2. SUFFICES ASSUME at[VM_TID].block \in {"heap", "wild"}
               PROVE  c \in Threads /\ Taken(c)' /\ Instr(c)'.what = at[VM_TID].block
  BY <1>1 DEF ServesFaults, Handling, Taken
<1>3. c \in Threads /\ Taken(c) /\ Instr(c).what = at[VM_TID].block
  BY <1>1, <1>2 DEF ServesFaults, Handling
<1>4. c # VM_TID
  BY <1>3, TakenIs
<1>5. ipc_state[c] # "SENDING"
  BY <1>3 DEF Staged, Taken
<1>6. Taken(c)'
  BY <1>3, <1>4, <1>5, TakenKept
<1> QED
  BY <1>3, <1>4, <1>6

LEMMA PagerServes ==
    ASSUME SysInv, Staged, MailsOK, PagerOK, prog[VM_TID] # "none", PagerForms, UNCHANGED prog
    PROVE  TakesFaults' /\ ServesFaults'
<1> USE DEF PagerOK
<1>0. /\ VM_TID \in Threads
      /\ at \in [Threads -> Places] /\ client \in [Threads -> Threads \cup {Nobody, Irq}]
  BY Numbers DEF SysInv, PlacesOK, UsersOK
<1>1. /\ \A u \in Threads \ {VM_TID} : Instr(u)' = Instr(u) /\ resume'[u] = resume[u]
      /\ resume'[VM_TID] = "recv" => ipc_state'[VM_TID] = "RECEIVING"
  BY PagerAlone
<1>2. TakesFaults'
  BY <1>1 DEF TakesFaults, HasFault
<1> SUFFICES ServesFaults'
  BY <1>2
<1>3. CON_TID # Client
  BY DEF CON_TID, Client
<1>4. ASSUME NEW r, NEW m, GoesOn(r, m) PROVE at'[VM_TID] = After(VM_TID, r, m)
  BY <1>0, <1>4 DEF GoesOn
<1>5. ASSUME NEW m, Offers(m) \/ Listens PROVE ServesFaults'
  <2>1. resume[VM_TID] = "none" /\ UNCHANGED <<at, client>> /\ \A u \in Threads \ {VM_TID} : Kept(u)
    BY <1>5 DEF Offers, Listens
  <2>2. ~Answered
    BY <2>1 DEF Answered
  <2> QED
    BY <1>1, <2>1, <2>2, StaysInBlock
<1>6. ASSUME NEW r, NEW m, GoesOn(r, m), Instr(VM_TID).op # "recv", UNCHANGED client,
             resume[VM_TID] = "none" \/ (Instr(VM_TID).op = "send" /\ Instr(VM_TID).arg = CON_TID),
             \A u \in Threads \ {VM_TID} : Kept(u) \/ (u = To /\ Instr(VM_TID).op = "send")
      PROVE  ServesFaults'
  <2>1. CASE at'[VM_TID].block \notin {"heap", "wild"}
    BY <2>1 DEF ServesFaults, Handling
  <2>2. CASE at'[VM_TID].block \in {"heap", "wild"}
    <3>1. After(VM_TID, r, m).block \in {"heap", "wild"} /\ at'[VM_TID] = After(VM_TID, r, m)
      BY <1>4, <1>6, <2>2
    <3>2. Code(VM_TID) # Serves
      BY <1>6, ServesLoop
    <3>3. /\ at'[VM_TID].block = at[VM_TID].block
          /\ Instr(VM_TID).op = "send" => Instr(VM_TID).arg = CON_TID
      BY <3>1, <3>2, PagerAfter
    <3>4. ~Answered
      BY <1>3, <1>6, <3>3 DEF Answered
    <3>5. ASSUME NEW u \in Threads \ {VM_TID}, Taken(u) PROVE Kept(u)
      <4>1. u # CON_TID
        BY <3>5, TakenIs DEF Terminals
      <4> QED
        BY <1>3, <1>6, <3>3, <4>1 DEF To
    <3> QED
      BY <1>1, <1>6, <3>3, <3>4, <3>5, StaysInBlock
  <2> QED
    BY <2>1, <2>2
<1>7. ASSUME NEW m, PutsIn(m) PROVE ServesFaults'
  BY <1>6, <1>7 DEF PutsIn
<1>8. ASSUME NEW r, Calculates(r) PROVE ServesFaults'
  <2>1. /\ GoesOn(r, NoMsg) /\ Instr(VM_TID).op # "recv" /\ UNCHANGED client /\ resume[VM_TID] = "none"
        /\ \A u \in Threads \ {VM_TID} : Kept(u)
    BY <1>8 DEF Calculates
  <2> QED
    BY <1>6, <2>1
<1>9. CASE Sent
  <2>1. CASE at'[VM_TID].block \notin {"heap", "wild"}
    BY <2>1 DEF ServesFaults, Handling
  <2>2. CASE at'[VM_TID].block \in {"heap", "wild"}
    <3>1. After(VM_TID, 0, NoMsg).block \in {"heap", "wild"} /\ Instr(VM_TID).op = "send"
      BY <1>4, <1>9, <2>2 DEF Sent
    <3>2. Code(VM_TID) # Serves
      BY <3>1, ServesLoop
    <3>3. Instr(VM_TID).arg = CON_TID
      BY <3>1, <3>2, PagerAfter
    <3> QED
      BY <1>6, <1>9, <3>1, <3>3 DEF Sent
  <2> QED
    BY <2>1, <2>2
<1>10. ASSUME NEW r, NEW m, Gets(r, m) PROVE ServesFaults'
  <2>0. /\ Instr(VM_TID).op = "recv" /\ at'[VM_TID] = After(VM_TID, r, m) /\ Remembers(VM_TID, r)
        /\ \A u \in Threads \ {VM_TID} : Kept(u) \/ ipc_state[u] = "SENDING"
    BY <1>4, <1>10 DEF Gets
  <2>1. CASE at'[VM_TID].block \notin {"heap", "wild"}
    BY <2>1 DEF ServesFaults, Handling
  <2>2. CASE at'[VM_TID].block = at[VM_TID].block /\ Code(VM_TID) # Serves
    <3>1. UNCHANGED client
      BY <2>0, <2>2 DEF Remembers
    <3>2. ~Answered
      BY <2>0 DEF Answered
    <3> QED
      BY <1>1, <2>0, <2>2, <3>1, <3>2, StaysInBlock
  <2>3. CASE /\ at'[VM_TID].block \in {"heap", "wild"}
             /\ at[VM_TID].block = "loop" /\ Code(VM_TID) = Serves
             /\ at'[VM_TID] = Selects(VM_TID, r, m)
    <3>1. client'[VM_TID] = r
      BY <1>0, <2>0, <2>3 DEF Remembers
    <3>2. r = Irq \/ (r \in Threads /\ m \in Mails \cup {FaultMsg})
      <4>1. CASE /\ r \in Threads /\ m = ipc_buf[r] /\ ipc_state[r] = "SENDING"
        <5>1. m \in Message
          BY <4>1 DEF SysInv, MailOK
        <5> QED
          BY <4>1, <5>1, IpcAssumption DEF MailsOK
      <4>2. CASE /\ r \in Threads /\ m = ipc_buf[VM_TID]
                 /\ resume[VM_TID] = "recv" /\ ipc_state[VM_TID] # "RECEIVING"
        <5>1. m \in Message
          BY <1>0, <4>2 DEF SysInv, MailOK
        <5> QED
          BY <1>0, <4>2, <5>1, IpcAssumption DEF MailsOK
      <4> QED
        BY <1>10, <4>1, <4>2 DEF Gets
    <3>3. r \in Threads /\ m = FaultMsg /\ Instr(r).what = at'[VM_TID].block
      BY <2>3, <3>2, PagerSelects
    <3>4. r # Irq
      BY <3>3, Numbers DEF Irq, Threads
    <3>5. r # VM_TID /\ Taken(r)'
      <4>1. CASE m = ipc_buf[r] /\ ipc_state[r] = "SENDING" /\ ipc_state'[r] = "NONE"
        <5>1. resume[r] = "fault_send"
          BY <3>3, <4>1 DEF Staged
        <5>2. r # VM_TID
          BY <3>3, <5>1, Faulters DEF FaultKinds
        <5> QED
          BY <1>1, <3>3, <4>1, <5>1, <5>2 DEF Taken
      <4>2. CASE /\ r = ipc_from[VM_TID] /\ m = ipc_buf[VM_TID] /\ resume[VM_TID] = "recv"
                 /\ ipc_state[VM_TID] # "RECEIVING" /\ \A u \in Threads \ {VM_TID} : Kept(u)
        <5>1. Taken(r)
          BY <2>3, <3>3, <4>2 DEF TakesFaults, HasFault
        <5>2. r # VM_TID
          BY <3>3, <5>1, TakenIs
        <5> QED
          BY <1>1, <3>3, <4>2, <5>1, <5>2, TakenKept
      <4> QED
        BY <1>10, <3>4, <4>1, <4>2 DEF Gets
    <3>6. Instr(r)' = Instr(r)
      BY <1>1, <3>3, <3>5
    <3> QED
      BY <3>1, <3>3, <3>5, <3>6 DEF ServesFaults, Taken
  <2> QED
    BY <2>0, <2>1, <2>2, <2>3, PagerAfter
<1> QED
  BY <1>5, <1>7, <1>8, <1>9, <1>10 DEF PagerForms

LEMMA PagerWrites ==
    ASSUME SysInv, Staged, PagerOK, prog[VM_TID] # "none", PagerForms, UNCHANGED prog
    PROVE  SendsAsWritten'
<1> USE DEF SendsAsWritten
<1>0. VM_TID \in Threads /\ (ipc_state[VM_TID] = "SENDING" => resume[VM_TID] \in {"send", "fault_send"})
  BY Numbers DEF Staged
<1>1. ASSUME NEW m, PutsIn(m) PROVE ipc_state'[VM_TID] # "SENDING"
  BY <1>0, <1>1 DEF PutsIn, Kept
<1>2. ASSUME NEW m, Offers(m) PROVE SendsAsWritten'
  <2>1. UNCHANGED <<at, client, prog>>
    BY <1>2 DEF Offers
  <2>2. Instr(VM_TID)' = Instr(VM_TID) /\ To' = To
    BY <2>1 DEF Instr, Code, To
  <2> QED
    BY <1>2, <2>2 DEF Offers
<1>3. ASSUME NEW r, Calculates(r) PROVE ipc_state'[VM_TID] # "SENDING"
  BY <1>0, <1>3 DEF Calculates, Kept
<1>4. Sent \/ Listens => ipc_state'[VM_TID] # "SENDING"
  BY DEF Sent, Listens
<1>5. ASSUME NEW r, NEW m, Gets(r, m) PROVE ipc_state'[VM_TID] # "SENDING"
  BY <1>0, <1>5 DEF Gets
<1> QED
  BY <1>1, <1>2, <1>3, <1>4, <1>5 DEF PagerForms

LEMMA PagerJudges ==
    ASSUME SysInv, Staged, PagerOK, VerdictOK, prog[VM_TID] # "none", PagerForms, UNCHANGED prog
    PROVE  VerdictOK'
<1> SUFFICES ASSUME NEW u \in Threads, resume'[u] = "kill" \/ InHand(u)'
             PROVE  Instr(u)'.what = "wild"
  BY DEF VerdictOK
<1>1. u # VM_TID /\ Instr(u)' = Instr(u) /\ resume'[u] = resume[u]
  BY PagerAlone DEF InHand
<1>2. CASE resume'[u] = "kill"
  BY <1>1, <1>2 DEF VerdictOK
<1>3. CASE InHand(u)' /\ Kept(u)
  BY <1>1, <1>3 DEF VerdictOK, InHand, Kept
<1>4. CASE InHand(u)' /\ ~Kept(u)
  <2>0. resume[u] = "fault_recv" /\ ipc_buf'[u] \in Kills
    BY <1>1, <1>4 DEF InHand
  <2>1. ipc_state[u] # "SENDING"
    BY <2>0 DEF Staged
  <2>2. PICK m : PutsIn(m)
    BY <1>1, <1>4, <2>1 DEF PagerForms, Offers, Calculates, Sent, Listens, Gets
  <2>3. u = To /\ m \in Kills /\ Instr(VM_TID).op = "send" /\ m \in Instr(VM_TID).what /\ ~Answered
    BY <1>4, <2>0, <2>2 DEF PutsIn, Answered
  <2> QED
    BY <1>1, <2>0, <2>3, KillWritten DEF PagerOK, FaultKinds
<1> QED
  BY <1>2, <1>3, <1>4

-----------------------------------------------------------------------------
(* What happens while the pager is not on the CPU.                         *)
LEMMA StepOnCpu ==
    ASSUME NEW t \in Threads, Step(t)
    PROVE  current = t
<1>1. ASSUME NEW o, Executes(t, o) PROVE current = t
  BY <1>1 DEF Executes, InUser
<1>2. ASSUME NEW k, Resumed(t, k) PROVE current = t
  BY <1>2 DEF Resumed
<1>3. CASE Returns(t)
  BY <1>2, <1>3 DEF Returns, SysSendReturns, SendReturns, SysRecvReturns, RecvReturns, RecvReturnsIrq
<1>4. CASE FaultPath(t) \/ FaultEnds(t)
  BY <1>2, <1>4 DEF FaultPath, FaultSent, FaultReceives, FaultAnswered, FaultEnds, FaultKills
<1> QED
  BY <1>1, <1>3, <1>4 DEF Step, Works, DoSend, DoRecv, DoSpawn, DoGrant, DoRegister, DoLocal, DoTouch,
     DoMap, DoDrain, DoAsk, DoEdit, DoExit

Elsewhere ==
    /\ current # VM_TID \/ UNCHANGED <<ipcCalls, resume>>
    /\ \/ at'[VM_TID] = at[VM_TID] /\ client'[VM_TID] = client[VM_TID] /\ prog'[VM_TID] = prog[VM_TID]
       \/ at'[VM_TID] = Entry("main") /\ resume'[VM_TID] = "none"
    /\ \A c \in Threads :
          resume[c] \in FaultKinds /\ resume'[c] \in FaultKinds => Instr(c)' = Instr(c)

LEMMA StepElsewhere ==
    ASSUME SysInv, NEW t \in Threads \ {VM_TID}, Step(t)
    PROVE  Elsewhere
<1> USE DEF SysInv, PlacesOK, UsersOK, CallsOK
<1>0. /\ current # VM_TID /\ VM_TID \in Threads /\ t \in Threads
      /\ "none" \notin FaultKinds
  BY StepOnCpu, Numbers DEF FaultKinds
<1>1. Effect(t)
  BY StepEffect
<1> DEFINE Pager == \/ at'[VM_TID] = at[VM_TID] /\ client'[VM_TID] = client[VM_TID]
                       /\ prog'[VM_TID] = prog[VM_TID]
                    \/ at'[VM_TID] = Entry("main") /\ resume'[VM_TID] = "none"
           Unmoved == \A c \in Threads :
                        resume[c] \in FaultKinds /\ resume'[c] \in FaultKinds => Instr(c)' = Instr(c)
<1>2. ASSUME NEW r, NEW m, Goes(t, r, m) PROVE Pager /\ Unmoved
  <2>1. UNCHANGED prog /\ resume'[t] = "none" /\ \A u \in Threads \ {t} : at'[u] = at[u] /\ client'[u] = client[u]
    BY <1>2 DEF Goes, Moves, Remembers
  <2>2. \A u \in Threads \ {t} : Instr(u)' = Instr(u)
    BY <2>1, SameInstr
  <2> QED
    BY <1>0, <2>1, <2>2
<1>3. CASE Stops(t)
  <2>1. \A u \in Threads : Instr(u)' = Instr(u)
    BY <1>3, SameInstr DEF Stops
  <2> QED
    BY <1>0, <1>3, <2>1 DEF Stops, Elsewhere
<1>4. ASSUME NEW c \in Threads, NEW p, Starts(t, c, p) PROVE Pager /\ Unmoved
  <2>1. /\ resume'[c] = "none" /\ c # t /\ at'[c] = Entry("main") /\ Instr(t).op = "spawn"
        /\ \A u \in Threads \ {c} : resume'[u] = resume[u]
        /\ \A u \in Threads \ {c, t} : at'[u] = at[u] /\ client'[u] = client[u] /\ prog'[u] = prog[u]
    BY <1>4 DEF Starts
  <2>2. \A u \in Threads \ {c, t} : Instr(u)' = Instr(u)
    BY <2>1, SameInstr
  <2>3. resume[t] \notin FaultKinds
    BY <1>0, <2>1 DEF BlockedOK, FaultKinds, WaitsIn
  <2>4. Pager
    <3>1. CASE c = VM_TID
      BY <2>1, <3>1
    <3>2. CASE c # VM_TID
      BY <1>0, <2>1, <3>2
    <3> QED
      BY <3>1, <3>2
  <2>5. ASSUME NEW u \in Threads, resume[u] \in FaultKinds, resume'[u] \in FaultKinds
        PROVE  Instr(u)' = Instr(u)
    <3>1. u # t /\ u # c
      BY <1>0, <2>1, <2>3, <2>5
    <3> QED
      BY <2>2, <3>1
  <2> QED
    BY <2>4, <2>5
<1>5. CASE Ends(t)
  <2>1. /\ resume'[t] = "none"
        /\ \A u \in Threads \ {t} : at'[u] = at[u] /\ client'[u] = client[u] /\ prog'[u] = prog[u]
    BY <1>5 DEF Ends
  <2>2. \A u \in Threads \ {t} : Instr(u)' = Instr(u)
    BY <2>1, SameInstr
  <2> QED
    BY <1>0, <2>1, <2>2 DEF Elsewhere
<1> QED
  BY <1>0, <1>1, <1>2, <1>3, <1>4, <1>5 DEF Effect, Elsewhere

LEMMA ApartElsewhere ==
    ASSUME SysInv, [SystemNext]_svars, ~Step(VM_TID)
    PROVE  Elsewhere
<1>1. ASSUME NEW t \in Threads, Step(t) PROVE Elsewhere
  BY <1>1, StepElsewhere
<1>2. CASE UNCHANGED <<at, client, prog, ipcCalls, resume>>
  <2>1. \A u \in Threads : Instr(u)' = Instr(u)
    BY <1>2, SameInstr
  <2> QED
    BY <1>2, <2>1 DEF Elsewhere
<1>3. CASE StartInit
  <2>1. /\ current # VM_TID /\ Root # VM_TID /\ UNCHANGED <<at, client>>
        /\ prog'[VM_TID] = prog[VM_TID]
    BY <1>3, Numbers DEF StartInit, Idle, VM_TID, Root, SysInv, PlacesOK
  <2>2. \A u \in Threads : resume[u] = "none"
    <3>1. \A u \in Threads : tstate[u] = "UNUSED"
      BY <1>3, SpawnPasses, Numbers DEF StartInit, SysInv, MailOK
    <3> QED
      BY <3>1 DEF SysInv, LivesOK, BlockedOK, Free
  <2> QED
    BY <2>1, <2>2 DEF Elsewhere, FaultKinds
<1>4. CASE \/ IdleTick \/ Preempt
           \/ \E term \in Keyed, line \in Commands : Type(term, line)
  <2>1. UNCHANGED <<at, client, prog>>
    BY <1>4 DEF IdleTick, Preempt, Type, userVars
  <2>2. TimerInterrupt \/ \E irq \in IrqLines : HwInterrupt(irq)
    <3>1. \A term \in Keyed : IrqOf(term) \in IrqLines
      BY SystemAssumption, ProgramsAssumption
    <3> QED
      BY <1>4, <3>1 DEF IdleTick, Preempt, Type
  <2>3. UNCHANGED <<ipcCalls, resume>>
    BY <2>2 DEF TimerInterrupt, TimerTick, HwInterrupt, Notify, Interrupt, NoCall, ipcCalls, ipcVars
  <2> QED
    BY <1>2, <2>1, <2>3
<1>5. CASE UNCHANGED svars
  BY <1>2, <1>5 DEF svars, kvars, vars, ipcVars, trapVars, userVars, ipcCalls
<1> QED
  BY <1>1, <1>3, <1>4, <1>5 DEF SystemNext, Runs

\* Nobody but the pager ends a fault it has taken.
LEMMA TakenElsewhere ==
    ASSUME SysInv, RolesOK, Undisturbed(Terminals), FaultWaits, Staged, [KNext]_kvars, Elsewhere,
           NEW c \in Threads, Taken(c),
           ~ /\ ipc_state[VM_TID] = "SENDING" /\ ipc_peer[VM_TID] = c
             /\ ipc_state'[VM_TID] # "SENDING"
    PROVE  Taken(c)' /\ Instr(c)' = Instr(c)
<1>1. c \notin Terminals /\ tstate[c] \notin Free /\ resume[c] \in FaultKinds
  BY TakenIs
<1>2. Taken(c)'
  <2>1. CASE UNCHANGED <<ipcCalls, resume>>
    BY <2>1 DEF ipcCalls, Taken
  <2>2. CASE current # VM_TID
    <3>1. Faulting(c)
      BY DEF Taken, Faulting
    <3>2. g_pager_tid = VM_TID
      BY <3>1 DEF FaultWaits, RolesOK, Roles
    <3> QED
      BY <1>1, <2>2, <3>2, TakenStays DEF SysInv
  <2> QED
    BY <2>1, <2>2 DEF Elsewhere
<1>3. resume'[c] \in FaultKinds
  BY <1>2 DEF Taken, FaultKinds
<1> QED
  BY <1>1, <1>2, <1>3 DEF Elsewhere

\* The pager's fields: nobody else's step, or it is reset, or what it
\* offers is taken, or what it awaits comes.
PagerSame ==
    /\ resume'[VM_TID] = resume[VM_TID]
    /\ at'[VM_TID] = at[VM_TID] /\ client'[VM_TID] = client[VM_TID]
    /\ Instr(VM_TID)' = Instr(VM_TID) /\ To' = To

LEMMA PagerElsewhere ==
    ASSUME SysInv, Staged', [KNext]_kvars, Elsewhere
    PROVE  \/ ~HasFault' /\ ~Handling' /\ ipc_state'[VM_TID] # "SENDING"
           \/ /\ PagerSame
              /\ \/ Kept(VM_TID)
                 \/ /\ ipc_state[VM_TID] = "SENDING" /\ ipc_state'[VM_TID] = "NONE"
                    /\ ipc_peer'[VM_TID] = ipc_peer[VM_TID]
                 \/ /\ ipc_state[VM_TID] = "RECEIVING" /\ ipc_state'[VM_TID] = "NONE"
                    /\ ipc_from'[VM_TID] \in Threads
                    /\ ipc_buf'[VM_TID] = FaultMsg => resume'[ipc_from'[VM_TID]] = "fault"
<1> USE DEF SysInv, CallsOK
<1>0. VM_TID \in Threads /\ Entry("main").block = "main"
  BY Numbers DEF Entry
<1>1. CASE at'[VM_TID] = Entry("main") /\ resume'[VM_TID] = "none"
  BY <1>0, <1>1 DEF HasFault, Handling, Staged
<1>2. CASE /\ at'[VM_TID] = at[VM_TID] /\ client'[VM_TID] = client[VM_TID]
           /\ prog'[VM_TID] = prog[VM_TID]
  <2>1. Instr(VM_TID)' = Instr(VM_TID) /\ To' = To
    BY <1>2, SameInstr DEF To
  <2>2. CASE UNCHANGED <<ipcCalls, resume>>
    BY <1>2, <2>1, <2>2 DEF PagerSame, Kept, ipcCalls
  <2>3. CASE current # VM_TID
    <3>1. CASE FreshCall(VM_TID)
      <4>1. prog[VM_TID] = "none" /\ resume'[VM_TID] = "none"
        BY <1>0, <3>1 DEF FreshCall, LivesOK
      <4>2. at'[VM_TID] = Entry("main")
        BY <1>0, <1>2, <4>1 DEF PlacesOK
      <4> QED
        BY <1>1, <4>1, <4>2
    <3>2. CASE ~FreshCall(VM_TID)
      BY <1>0, <1>2, <2>1, <2>3, <3>2, FieldsStay DEF PagerSame, Kept, MailOK
    <3> QED
      BY <3>1, <3>2
  <2> QED
    BY <2>2, <2>3 DEF Elsewhere
<1> QED
  BY <1>1, <1>2 DEF Elsewhere

LEMMA TakesElsewhere ==
    ASSUME SysInv, RolesOK, Undisturbed(Terminals), FaultWaits, Staged, Staged', [KNext]_kvars,
           Elsewhere, PagerOK
    PROVE  TakesFaults'
<1> SUFFICES ASSUME HasFault' PROVE (ipc_from[VM_TID] \in Threads /\ Taken(ipc_from[VM_TID]))'
  BY DEF TakesFaults
<1>0. VM_TID \in Threads
  BY Numbers
<1>1. PagerSame
  BY PagerElsewhere
<1>2. at[VM_TID].block = "loop" /\ resume[VM_TID] = "recv"
  BY <1>1 DEF HasFault, PagerSame
<1>3. ipc_state[VM_TID] # "SENDING"
  BY <1>0, <1>2 DEF Staged
<1>4. CASE Kept(VM_TID)
  <2>1. HasFault
    BY <1>2, <1>4 DEF HasFault, Kept
  <2>2. ipc_from[VM_TID] \in Threads /\ Taken(ipc_from[VM_TID])
    BY <2>1 DEF PagerOK, TakesFaults
  <2>3. PICK c : c = ipc_from[VM_TID] /\ c = ipc_from'[VM_TID]
    BY <1>4 DEF Kept
  <2>4. c \in Threads /\ Taken(c)
    BY <2>2, <2>3
  <2>5. Taken(c)'
    BY <1>3, <2>4, TakenElsewhere
  <2> QED
    BY <2>3, <2>4, <2>5 DEF Taken
<1>5. CASE /\ ipc_from'[VM_TID] \in Threads
           /\ ipc_buf'[VM_TID] = FaultMsg => resume'[ipc_from'[VM_TID]] = "fault"
  BY <1>5 DEF HasFault, Taken
<1> QED
  BY <1>1, <1>3, <1>4, <1>5, PagerElsewhere

LEMMA ServesElsewhere ==
    ASSUME SysInv, RolesOK, Undisturbed(Terminals), FaultWaits, Staged, Staged', [KNext]_kvars,
           Elsewhere, PagerOK
    PROVE  ServesFaults'
<1> SUFFICES ASSUME Handling'
             PROVE  (/\ client[VM_TID] \in Threads /\ Taken(client[VM_TID])
                     /\ Instr(client[VM_TID]).what = at[VM_TID].block)'
  BY DEF ServesFaults
<1>0. VM_TID \in Threads
  BY Numbers
<1>1. PagerSame
  BY PagerElsewhere
<1>2. Handling
  <2>1. SUFFICES ASSUME Answered PROVE Answered'
    BY <1>1 DEF Handling, PagerSame
  <2>2. ipc_state'[VM_TID] = "NONE"
    BY <2>1, PagerElsewhere DEF Answered, Kept
  <2> QED
    BY <1>1, <2>1, <2>2 DEF Answered, PagerSame
<1>3. PICK c : c = client[VM_TID] /\ c = client'[VM_TID]
  BY <1>1 DEF PagerSame
<1>4. c \in Threads /\ Taken(c) /\ Instr(c).what = at[VM_TID].block
  BY <1>2, <1>3 DEF PagerOK, ServesFaults
<1>5. ~ /\ ipc_state[VM_TID] = "SENDING" /\ ipc_peer[VM_TID] = c
        /\ ipc_state'[VM_TID] # "SENDING"
  <2> SUFFICES ASSUME ipc_state[VM_TID] = "SENDING", ipc_peer[VM_TID] = c,
                      ipc_state'[VM_TID] # "SENDING"
               PROVE  FALSE
    OBVIOUS
  <2>1. Instr(VM_TID).op = "send" /\ c = To
    BY DEF PagerOK, SendsAsWritten
  <2>2. c \notin Terminals /\ c # VM_TID
    BY <1>4, TakenIs
  <2>3. resume[VM_TID] = "send"
    <3>1. resume[VM_TID] # "fault_send"
      BY <1>0, Faulters DEF FaultKinds
    <3> QED
      BY <1>0, <3>1 DEF Staged
  <2>4. prog[VM_TID] # "none"
    BY <1>0, <2>3 DEF SysInv, BlockedOK
  <2>5. Instr(VM_TID).arg = Client
    <3>1. PagerInstr(at[VM_TID].block, at[VM_TID].pc, Instr(VM_TID))
      BY <2>4, PagerHere
    <3>2. at[VM_TID].block # "main"
      BY <1>2 DEF Handling
    <3>3. Instr(VM_TID).arg # CON_TID
      BY <2>1, <2>2 DEF To, Terminals, CON_TID, Client
    <3> QED
      BY <2>1, <3>1, <3>2, <3>3 DEF PagerInstr
  <2>6. ipc_state'[VM_TID] = "NONE"
    BY <1>1, PagerElsewhere DEF Kept
  <2>7. Answered'
    BY <1>1, <2>1, <2>3, <2>5, <2>6 DEF Answered, PagerSame
  <2> QED
    BY <2>7 DEF Handling
<1>6. Taken(c)' /\ Instr(c)' = Instr(c)
  BY <1>4, <1>5, TakenElsewhere
<1> QED
  BY <1>1, <1>3, <1>4, <1>6 DEF PagerSame, Taken

LEMMA WritesElsewhere ==
    ASSUME SysInv, Staged', [KNext]_kvars, Elsewhere, PagerOK
    PROVE  SendsAsWritten'
<1> SUFFICES ASSUME ipc_state'[VM_TID] = "SENDING"
             PROVE  (/\ Instr(VM_TID).op = "send" /\ ipc_buf[VM_TID] \in Instr(VM_TID).what
                     /\ ipc_peer[VM_TID] = To)'
  BY DEF SendsAsWritten
<1>1. PagerSame /\ Kept(VM_TID)
  BY PagerElsewhere
<1> QED
  BY <1>1 DEF PagerSame, Kept, PagerOK, SendsAsWritten

LEMMA JudgesElsewhere ==
    ASSUME SysInv, SysInv', RolesOK, Undisturbed(Terminals), FaultWaits, Staged, [KNext]_kvars,
           Elsewhere, PagerOK, VerdictOK
    PROVE  VerdictOK'
<1> SUFFICES ASSUME NEW u \in Threads, resume'[u] = "kill" \/ InHand(u)'
             PROVE  Instr(u)'.what = "wild"
  BY DEF VerdictOK
<1>1. resume'[u] \in FaultKinds
  BY DEF InHand, FaultKinds
<1>2. u \notin Terminals /\ VM_TID \in Threads
  BY <1>1, FaultersNext, Numbers DEF FaultersOK
<1>3. ASSUME resume[u] \in FaultKinds, Instr(u).what = "wild" PROVE Instr(u)'.what = "wild"
  BY <1>1, <1>3 DEF Elsewhere
<1>4. CASE resume[u] = "kill" \/ InHand(u)
  BY <1>3, <1>4 DEF VerdictOK, InHand, FaultKinds
<1>5. CASE ~(resume[u] = "kill" \/ InHand(u)) /\ resume'[u] = "kill"
  <2>1. /\ resume[u] = "fault" /\ g_pager_tid \in Threads
        /\ ipc_state[g_pager_tid] = "SENDING" /\ ipc_peer[g_pager_tid] = u
        /\ ipc_buf[g_pager_tid] \in Kills
    BY <1>2, <1>5, KillComes DEF SysInv, InHand
  <2>2. g_pager_tid = VM_TID
    BY <2>1, Numbers DEF RolesOK, Roles, Nobody, Threads
  <2>3. /\ Instr(VM_TID).op = "send" /\ ipc_buf[VM_TID] \in Instr(VM_TID).what
        /\ u = To /\ ~Answered
    BY <2>1, <2>2 DEF PagerOK, SendsAsWritten, Answered
  <2>4. prog[VM_TID] # "none"
    BY <1>2, <2>1, <2>2 DEF Staged, SysInv, BlockedOK
  <2>5. resume[u] \in FaultKinds
    BY <2>1 DEF FaultKinds
  <2>6. Instr(u).what = "wild"
    BY <2>1, <2>2, <2>3, <2>4, <2>5, KillWritten DEF PagerOK
  <2> QED
    BY <1>3, <2>5, <2>6
<1>6. CASE ~(resume[u] = "kill" \/ InHand(u)) /\ InHand(u)'
  <2>1. CASE UNCHANGED <<ipcCalls, resume>>
    BY <1>6, <2>1 DEF InHand, ipcCalls
  <2>2. CASE current # VM_TID
    <3>1. g_pager_tid \in {Nobody, VM_TID}
      BY DEF RolesOK, Roles
    <3>2. resume[u] = "fault_recv" /\ ipc_state[u] # "RECEIVING" /\ ipc_buf'[u] = ipc_buf[u]
      BY <1>6, <2>2, <3>1, AnswerStays DEF SysInv, InHand
    <3> QED
      BY <1>6, <3>2 DEF InHand
  <2> QED
    BY <2>1, <2>2 DEF Elsewhere
<1> QED
  BY <1>4, <1>5, <1>6

-----------------------------------------------------------------------------
LEMMA MailsKept ==
    ASSUME SysInv, MailsOK, [SystemNext]_svars
    PROVE  MailsOK'
<1>1. ASSUME NEW ms, ms \subseteq Mails \cup {FaultMsg}, Carries(ms) PROVE MailsOK'
  BY <1>1 DEF Carries, MailsOK
<1>2. ASSUME NEW t \in Threads, Step(t) PROVE MailsOK'
  <2>1. Effect(t)
    BY <1>2, StepEffect
  <2>2. prog[t] # "none"
    BY <2>1 DEF Effect, Goes, Stops, Starts, Ends
  <2>3. Instr(t) \in Instructions
    BY <2>2, Here DEF SysInv, Allowed
  <2>4. Instr(t).op = "send" => Instr(t).what \subseteq Mails
    BY <2>3, CallArgs
  <2>5. {Reply("READLINE", line) : line \in Commands} \subseteq Mails
    BY MailsSent
  <2>6. Words(t) \subseteq Mails \cup {FaultMsg}
    BY <2>4, <2>5 DEF Words
  <2> QED
    BY <1>1, <2>1, <2>6 DEF Effect
<1>3. CASE UNCHANGED ipc_buf
  BY <1>3 DEF MailsOK
<1>4. CASE StartInit
  <2>1. Carries({})
    BY <1>4, SpawnPasses, Numbers DEF StartInit, SysInv, MailOK
  <2> QED
    BY <1>1, <2>1
<1>5. CASE \/ IdleTick \/ Preempt
           \/ \E term \in Keyed, line \in Commands : Type(term, line)
  <2>1. TimerInterrupt \/ \E irq \in IrqLines : HwInterrupt(irq)
    <3>1. \A term \in Keyed : IrqOf(term) \in IrqLines
      BY SystemAssumption, ProgramsAssumption
    <3> QED
      BY <1>5, <3>1 DEF IdleTick, Preempt, Type
  <2> QED
    BY <1>3, <2>1, InterruptPasses DEF SysInv
<1>6. CASE UNCHANGED svars
  BY <1>3, <1>6 DEF svars, kvars, vars, ipcVars
<1> QED
  BY <1>2, <1>4, <1>5, <1>6 DEF SystemNext, Runs

\* Only the page of the heap is ever mapped.
MappedOK == mapped \subseteq {"heap"}

LEMMA MappedKept ==
    ASSUME SysInv, ServesFaults, MappedOK, [SystemNext]_svars
    PROVE  MappedOK'
<1>1. ASSUME NEW t \in Threads, DoMap(t) PROVE MappedOK'
  <2>1. prog[t] # "none" /\ prog[t] \in DOMAIN Program /\ Instr(t) \in Allowed(prog[t])
        /\ Instr(t).op = "map"
    BY <1>1, Awake, Here DEF DoMap, Executes, SysInv
  <2>2. t = VM_TID
    BY <2>1, CallsOf, Numbering DEF Allowed, SysInv
  <2>3. at[VM_TID].block = "heap"
    BY <2>1, <2>2, PagerHere DEF PagerInstr
  <2>4. Instr(client[VM_TID]).what = "heap"
    BY <2>1, <2>2, <2>3 DEF ServesFaults, Handling, Answered
  <2> QED
    BY <1>1, <2>2, <2>4 DEF DoMap, MappedOK
<1>2. ASSUME NEW t \in Threads, Step(t), ~DoMap(t) PROVE UNCHANGED mapped
  BY <1>2 DEF Step, Works, DoSend, DoRecv, DoSpawn, DoGrant, DoRegister, DoLocal, DoTouch, DoDrain, DoAsk,
     DoEdit, DoExit, Returns, FaultPath, FaultEnds, Gone, Others, userVars
<1>3. StartInit \/ IdleTick \/ Preempt \/ UNCHANGED svars
      \/ (\E term \in Keyed, line \in Commands : Type(term, line))
      => UNCHANGED mapped
  BY DEF StartInit, Others, IdleTick, Preempt, Type, svars, userVars
<1> QED
  BY <1>1, <1>2, <1>3 DEF MappedOK, SystemNext, Runs

\* rogue does not get past its access.
RogueOK == \A t \in Threads : prog[t] = "rogue" => at[t].block = "main" /\ at[t].pc <= 3

LEMMA RogueHere ==
    ASSUME SysInv, RogueOK, NEW t \in Threads, prog[t] = "rogue"
    PROVE  /\ at[t] \in Places /\ at[t].pc \in {1, 2, 3} /\ at[t].block = "main"
           /\ Code(t) = rogue.main /\ Instr(t).orelse = "rest"
           /\ Instr(t).op = "touch" <=> at[t].pc = 3
           /\ at[t].pc = 3 => Instr(t).what = "wild"
           /\ Instr(t).op # "spawn"
<1>1. PlaceOf("rogue", at[t]) /\ Instr(t) \in Allowed("rogue") /\ at[t].block = "main" /\ at[t].pc <= 3
  BY Here, Names DEF SysInv, RogueOK
<1>2. Code(t) = rogue.main /\ at[t].pc \in DOMAIN rogue.main
  BY <1>1, Names DEF PlaceOf, Code
<1>3. at[t].pc \in {1, 2, 3}
  <2>1. at[t].pc \in DOMAIN Code(t) /\ DOMAIN Code(t) = 1 .. Len(Code(t)) /\ Len(Code(t)) = 6
    BY <1>2, Here, RogueCode DEF SysInv
  <2> QED
    BY <1>1, <2>1
<1>4. Instr(t).op \in Calls["rogue"]
  BY <1>1 DEF Allowed
<1>5. Instr(t).op # "spawn"
  BY <1>4 DEF Calls
<1> QED
  BY <1>1, <1>2, <1>3, <1>5, RogueCode DEF PlaceOf, Instr

LEMMA RogueTouches ==
    ASSUME SysInv, MappedOK, NEW t \in Threads, Instr(t).op = "touch", Instr(t).what = "wild", Step(t)
    PROVE  UNCHANGED <<prog, at>> \/ Ends(t)
<1>1. ASSUME NEW o, Executes(t, o) PROVE o = "touch"
  BY <1>1 DEF Executes
<1>2. ~Returns(t)
  <2>1. resume[t] \in {"none"} \cup FaultKinds
    <3>1. resume[t] \notin {"send", "recv"}
      BY DEF SysInv, BlockedOK, WaitsIn
    <3> QED
      BY <3>1 DEF SysInv, CallsOK, FaultKinds
  <2> QED
    BY <2>1 DEF Returns, SysSendReturns, SendReturns, SysRecvReturns, RecvReturns, RecvReturnsIrq,
       Resumed, FaultKinds
<1>3. DoTouch(t) \/ FaultPath(t) \/ FaultEnds(t)
  <2>0. \A o \in {"send", "recv", "spawn", "grant", "grantio", "irq", "pager", "io", "local", "map",
                  "drain", "ask", "edit", "exit"} : ~Executes(t, o)
    BY <1>1
  <2>1. ~DoSend(t) /\ ~DoRecv(t) /\ ~DoSpawn(t)
    BY <2>0 DEF DoSend, DoRecv, DoSpawn
  <2>2. ~DoGrant(t) /\ ~DoRegister(t) /\ ~DoLocal(t)
    BY <2>0 DEF DoGrant, DoRegister, DoLocal
  <2>3. ~DoMap(t) /\ ~DoDrain(t) /\ ~DoAsk(t)
    BY <2>0 DEF DoMap, DoDrain, DoAsk
  <2>4. ~DoEdit(t) /\ ~DoExit(t)
    BY <2>0 DEF DoEdit, DoExit
  <2> QED
    BY <1>2, <2>1, <2>2, <2>3, <2>4 DEF Step, Works
<1>4. CASE DoTouch(t)
  BY <1>4 DEF DoTouch, MappedOK, userVars
<1>5. CASE FaultPath(t)
  BY <1>5 DEF FaultPath, userVars
<1>6. CASE FaultEnds(t)
  <2>1. Effect(t)
    BY StepEffect
  <2>2. prog' = [prog EXCEPT ![t] = "none"] /\ prog \in [Threads -> DOMAIN Program \cup {"none"}]
    BY <1>6 DEF FaultEnds, Gone, SysInv, PlacesOK
  <2>3. prog'[t] = "none"
    BY <2>2
  <2>4. ASSUME NEW r, NEW m, Goes(t, r, m) PROVE FALSE
    BY <2>3, <2>4 DEF Goes
  <2>5. ASSUME NEW c \in Threads, NEW p, Starts(t, c, p) PROVE FALSE
    BY <2>5 DEF Starts
  <2>6. ~Stops(t)
    BY <2>3 DEF Stops
  <2> QED
    BY <2>1, <2>4, <2>5, <2>6 DEF Effect
<1> QED
  BY <1>3, <1>4, <1>5, <1>6

LEMMA RogueKept ==
    ASSUME SysInv, MappedOK, RogueOK, [SystemNext]_svars
    PROVE  RogueOK'
<1> USE DEF SysInv, PlacesOK
<1>1. CASE UNCHANGED <<prog, at>>
  BY <1>1 DEF RogueOK
<1>2. CASE StartInit
  <2>1. \A u \in Threads : prog'[u] = "rogue" => prog[u] = "rogue"
    BY <1>2, Numbers DEF StartInit
  <2> QED
    BY <1>2, <2>1 DEF StartInit, RogueOK
<1>3. ASSUME NEW t \in Threads, Step(t) PROVE RogueOK'
  <2>1. Effect(t)
    BY <1>3, StepEffect
  <2>2. ASSUME NEW r, NEW m, Goes(t, r, m) PROVE RogueOK'
    <3>1. UNCHANGED prog /\ \A u \in Threads \ {t} : at'[u] = at[u]
      BY <2>2 DEF Goes, Moves
    <3>2. CASE UNCHANGED <<prog, at>>
      BY <1>1, <3>2
    <3>3. CASE prog[t] # "rogue"
      BY <3>1, <3>3 DEF RogueOK
    <3>4. CASE prog[t] = "rogue" /\ ~UNCHANGED <<prog, at>>
      <4>1. at[t].pc \in {1, 2}
        <5>1. ~Ends(t)
          BY <2>2, <3>1, <3>4 DEF Ends
        <5> QED
          BY <1>3, <3>4, <5>1, RogueHere, RogueTouches
      <4>2. at[t] \in Places /\ at[t].block = "main" /\ Instr(t).orelse = "rest" /\ Len(Code(t)) = 6
        BY <3>4, RogueHere, RogueCode
      <4>3. After(t, r, m) = [at[t] EXCEPT !.pc = @ + 1]
        BY <4>1, <4>2 DEF After
      <4>4. After(t, r, m).block = "main" /\ After(t, r, m).pc <= 3
        BY <4>1, <4>2, <4>3 DEF Places
      <4>5. at'[t] = After(t, r, m)
        BY <2>2 DEF Goes, Moves
      <4> QED
        BY <3>1, <4>4, <4>5 DEF RogueOK
    <3> QED
      BY <3>2, <3>3, <3>4
  <2>3. CASE Stops(t)
    BY <1>1, <2>3 DEF Stops
  <2>4. ASSUME NEW c \in Threads, NEW p, Starts(t, c, p) PROVE RogueOK'
    <3>1. /\ Instr(t).op = "spawn" /\ c # t /\ at'[c] = Entry("main")
          /\ \A u \in Threads \ {c} : prog'[u] = prog[u]
          /\ \A u \in Threads \ {c, t} : at'[u] = at[u]
      BY <2>4 DEF Starts
    <3>2. prog[t] # "rogue"
      BY <3>1, RogueHere
    <3>3. Entry("main").block = "main" /\ Entry("main").pc <= 3
      BY DEF Entry
    <3> QED
      BY <3>1, <3>2, <3>3 DEF RogueOK
  <2>5. CASE Ends(t)
    <3>1. prog'[t] = "none" /\ \A u \in Threads \ {t} : prog'[u] = prog[u] /\ at'[u] = at[u]
      BY <2>5 DEF Ends
    <3> QED
      BY <3>1 DEF RogueOK
  <2> QED
    BY <2>1, <2>2, <2>3, <2>4, <2>5 DEF Effect
<1>4. IdleTick \/ Preempt \/ UNCHANGED svars
      \/ (\E term \in Keyed, line \in Commands : Type(term, line))
      => UNCHANGED <<prog, at>>
  BY DEF IdleTick, Preempt, Type, svars, userVars
<1> QED
  BY <1>1, <1>2, <1>3, <1>4 DEF SystemNext, Runs

-----------------------------------------------------------------------------
(* A fault on its way through the kernel, the pager and back.              *)
FaultInv ==
    /\ SysInv
    /\ RolesOK /\ Undisturbed(Terminals) /\ FaultWaits /\ Staged /\ MailsOK
    /\ PagerOK /\ VerdictOK /\ MappedOK /\ RogueOK

LEMMA FaultInvInit == ASSUME SystemInit PROVE FaultInv
<1>1. SysInv
  BY SysInvInit
<1>2. \A t \in Threads : prog[t] = "none" /\ resume[t] = "none" /\ ipc_state[t] = "NONE" /\ ipc_buf[t] = NoMsg
  BY DEF SystemInit, KInit, Init
<1>3. VM_TID \in Threads /\ Entry("main").block = "main"
  BY Numbers DEF Entry
<1>4. RolesOK /\ Undisturbed(Terminals)
  BY <1>2 DEF SystemInit, KInit, Init, RolesOK, Roles, Faulting, Undisturbed
<1>5. FaultWaits /\ Staged /\ MailsOK
  BY <1>2 DEF SystemInit, KInit, Init, FaultWaits, Staged, MailsOK, Faulting
<1>6. PagerOK
  BY <1>2, <1>3 DEF SystemInit, PagerOK, TakesFaults, HasFault, ServesFaults, Handling, SendsAsWritten
<1>7. VerdictOK /\ MappedOK /\ RogueOK
  BY <1>2 DEF SystemInit, VerdictOK, InHand, MappedOK, RogueOK
<1> QED
  BY <1>1, <1>4, <1>5, <1>6, <1>7 DEF FaultInv

LEMMA FaultInvKept == ASSUME FaultInv, [SystemNext]_svars PROVE FaultInv'
<1> USE DEF FaultInv
<1>1. SysInv' /\ [KNext]_kvars
  BY SysInvKept, SystemIsKernel
<1>2. CallsOK /\ CpuOK /\ MailOK
  BY DEF SysInv
<1>3. RolesOK'
  BY <1>1, RolesKept
<1>4. Undisturbed(Terminals)'
  BY <1>1, <1>2, UndisturbedStep DEF RolesOK
<1>5. FaultWaits'
  BY <1>1, <1>2, <1>3, FaultWaitsStep DEF RolesOK
<1>6. Staged'
  BY <1>1, <1>2, StagedKept DEF MailOK
<1>7. MailsOK' /\ MappedOK' /\ RogueOK'
  BY MailsKept, MappedKept, RogueKept DEF PagerOK
<1>8. PagerOK' /\ VerdictOK'
  <2>1. CASE Step(VM_TID)
    <3>1. PagerForms /\ UNCHANGED prog
      BY <2>1, PagerStep
    <3>2. prog[VM_TID] # "none"
      <4>1. Effect(VM_TID)
        BY <2>1, StepEffect, Numbers
      <4> QED
        BY <4>1 DEF Effect, Goes, Stops, Starts, Ends
    <3> QED
      BY <3>1, <3>2, PagerServes, PagerWrites, PagerJudges DEF PagerOK
  <2>2. CASE ~Step(VM_TID)
    <3>1. Elsewhere
      BY <2>2, ApartElsewhere
    <3> QED
      BY <1>1, <1>6, <3>1, TakesElsewhere, ServesElsewhere, WritesElsewhere, JudgesElsewhere DEF PagerOK
  <2> QED
    BY <2>1, <2>2
<1> QED
  BY <1>1, <1>3, <1>4, <1>5, <1>6, <1>7, <1>8

LEMMA FaultInvContains == ASSUME FaultInv PROVE RogueContained
<1> SUFFICES ASSUME NEW t \in Threads
             PROVE  /\ prog[t] = "rogue" => at[t].pc <= 3
                    /\ resume[t] = "kill" => prog[t] = "rogue"
  BY RogueCode DEF RogueContained
<1>1. prog[t] = "rogue" => at[t].pc <= 3
  BY DEF FaultInv, RogueOK
<1>2. ASSUME resume[t] = "kill" PROVE prog[t] = "rogue"
  <2>1. Instr(t).what = "wild"
    BY <1>2 DEF FaultInv, VerdictOK
  <2>2. Instr(t).what = IF prog[t] = "rogue" THEN "wild" ELSE "heap"
    BY <1>2, Faulters DEF FaultInv, FaultKinds
  <2> QED
    BY <2>1, <2>2
<1> QED
  BY <1>1, <1>2

(* A wild access is rogue's last step, and nobody else is killed, in every *)
(* interleaving of the programs and the kernel.                            *)
THEOREM SystemRogueContained == SystemSpec => []RogueContained
<1>1. SystemSpec => []FaultInv
  BY FaultInvInit, FaultInvKept, PTL DEF SystemSpec
<1> QED
  BY <1>1, FaultInvContains, PTL

-----------------------------------------------------------------------------
\* What only the type invariant says.
LinesOK ==
    /\ \A term \in Terminals : Len(device[term]) + Len(ring[term]) <= TypeAhead
    /\ composed \in [DOMAIN Program -> Threads \cup {Nobody}]
    /\ preempted \in 0 .. Preemptions

LEMMA Lengths ==
    ASSUME NEW S, NEW x \in Seq(S), NEW y \in Seq(S), NEW e \in S
    PROVE  /\ Len(x) \in Nat /\ Len(y) \in Nat
           /\ Len(x \o y) = Len(x) + Len(y)
           /\ Len(Append(x, e)) = Len(x) + 1
OBVIOUS

LEMMA TailLength ==
    ASSUME NEW S, NEW x \in Seq(S), x # << >>
    PROVE  Len(Tail(x)) \in Nat /\ Len(Tail(x)) <= Len(x)
OBVIOUS

LEMMA LinesOKKept ==
    ASSUME SysInv, LinesOK, [SystemNext]_svars
    PROVE  LinesOK'
<1> DEFINE Waiting == \A term \in Terminals : Len(device[term]) + Len(ring[term]) <= TypeAhead
<1>0. /\ device \in [Terminals -> Seq(Commands)] /\ ring \in [Terminals -> Seq(Commands)]
      /\ TypeAhead \in Nat /\ Preemptions \in Nat
  BY SystemAssumption DEF SysInv, UsersOK
<1>1. CASE UNCHANGED <<device, ring, composed, preempted>>
  BY <1>1 DEF LinesOK
<1>2. ASSUME NEW t \in Threads, Step(t)
      PROVE  Waiting' /\ composed' \in [DOMAIN Program -> Threads \cup {Nobody}]
  <2>1. composed' \in [DOMAIN Program -> Threads \cup {Nobody}]
    BY <1>2 DEF Step, Composes, LinesOK
  <2>2. CASE UNCHANGED <<device, ring>>
    BY <2>1, <2>2 DEF LinesOK
  <2>3. CASE DoDrain(t)
    <3>1. t \in Terminals
      BY <2>3, Awake, TerminalsEdit DEF DoDrain, Executes, SysInv
    <3>2. ring[t] \in Seq(Commands) /\ device[t] \in Seq(Commands)
      BY <1>0, <3>1
    <3>3. /\ Len(ring[t] \o device[t]) = Len(ring[t]) + Len(device[t])
          /\ Len(ring[t]) \in Nat /\ Len(device[t]) \in Nat
      BY <3>2, Cat, Lengths
    <3>5. Len(<< >>) = 0
      OBVIOUS
    <3>7. ASSUME NEW x, x = << >> PROVE Len(x) = 0
      BY <3>5, <3>7
    <3>4. /\ ring'[t] = ring[t] \o device[t] /\ device'[t] = << >>
          /\ \A u \in Terminals \ {t} : ring'[u] = ring[u] /\ device'[u] = device[u]
      BY <1>0, <2>3, <3>1 DEF DoDrain
    <3>6. Len(device'[t]) + Len(ring'[t]) = Len(device[t]) + Len(ring[t])
      <4>1. Len(device'[t]) = 0
        BY <3>4, <3>7
      <4>2. Len(ring'[t]) = Len(ring[t]) + Len(device[t])
        BY <3>3, <3>4
      <4> DEFINE a == Len(device'[t])
                 b == Len(ring[t])
                 c == Len(device[t])
                 d == Len(ring'[t])
      <4>3. a = 0 /\ b \in Nat /\ c \in Nat /\ d = b + c
        BY <3>3, <4>1, <4>2
      <4> HIDE DEF a, b, c, d
      <4>4. a + d = c + b
        BY ONLY <4>3
      <4> QED
        BY ONLY <4>4 DEF a, b, c, d
    <3> QED
      BY <2>1, <3>1, <3>4, <3>6 DEF LinesOK
  <2>4. CASE DoEdit(t)
    <3>1. t \in Terminals
      BY <2>4, Awake, TerminalsEdit DEF DoEdit, Executes, SysInv
    <3>2. ring[t] \in Seq(Commands) /\ device[t] \in Seq(Commands)
      BY <1>0, <3>1
    <3>3. ring[t] # << >> => Len(Tail(ring[t])) <= Len(ring[t]) /\ Len(Tail(ring[t])) \in Nat
      BY <3>2, TailLength
    <3>4. UNCHANGED device /\ (UNCHANGED ring \/ (ring[t] # << >> /\ ring' = [ring EXCEPT ![t] = Tail(@)]))
      BY <2>4 DEF DoEdit
    <3>5. ring'[t] = ring[t] \/ (ring[t] # << >> /\ ring'[t] = Tail(ring[t]))
      BY <1>0, <3>1, <3>4
    <3>6. \A u \in Terminals \ {t} : ring'[u] = ring[u]
      BY <1>0, <3>4
    <3>7. Len(ring[t]) \in Nat /\ Len(device[t]) \in Nat
      BY <3>2
    <3>8. Len(ring'[t]) \in Nat /\ Len(ring'[t]) <= Len(ring[t])
      <4> DEFINE old == ring[t]
                 new == ring'[t]
      <4>1. (new = old \/ (old # << >> /\ new = Tail(old))) /\ Len(old) \in Nat
        BY <3>5, <3>7
      <4>2. old # << >> => Len(Tail(old)) <= Len(old) /\ Len(Tail(old)) \in Nat
        BY <3>3
      <4> HIDE DEF old, new
      <4>3. Len(new) \in Nat /\ Len(new) <= Len(old)
        BY <4>1, <4>2
      <4> QED
        BY <4>3 DEF old, new
    <3>9. Len(device'[t]) + Len(ring'[t]) <= TypeAhead
      BY <1>0, <3>1, <3>4, <3>7, <3>8 DEF LinesOK
    <3> QED
      BY <2>1, <3>1, <3>4, <3>6, <3>9 DEF LinesOK
  <2> QED
    BY <1>2, <2>2, <2>3, <2>4 DEF Step, Works, DoSend, DoRecv, DoSpawn, DoGrant, DoRegister, DoLocal, DoTouch,
       DoMap, DoAsk, DoExit, Returns, FaultPath, FaultEnds, Gone, Others, userVars
<1>3. CASE StartInit /\ UNCHANGED preempted
  BY <1>1, <1>3 DEF StartInit, Others
<1>4. CASE IdleTick \/ UNCHANGED svars
  BY <1>1, <1>4 DEF IdleTick, svars, userVars
<1>5. CASE Preempt
  BY <1>0, <1>5 DEF Preempt, userVars, LinesOK
<1>6. ASSUME NEW term \in Keyed, NEW line \in Commands, Type(term, line) PROVE LinesOK'
  <2>1. term \in Terminals
    BY SystemAssumption
  <2>2. device[term] \in Seq(Commands) /\ ring[term] \in Seq(Commands)
    BY <1>0, <2>1
  <2>3. /\ Len(Append(device[term], line)) = Len(device[term]) + 1
        /\ Len(device[term]) \in Nat /\ Len(ring[term]) \in Nat
    BY <2>2, Lengths
  <2>4. device'[term] = Append(device[term], line) /\ UNCHANGED <<ring, composed, preempted>>
        /\ Len(device[term]) + Len(ring[term]) < TypeAhead
        /\ \A u \in Terminals \ {term} : device'[u] = device[u]
    BY <1>0, <1>6, <2>1 DEF Type
  <2>5. Len(device'[term]) + Len(ring'[term]) <= TypeAhead
    BY <1>0, <2>3, <2>4
  <2> QED
    BY <2>4, <2>5 DEF LinesOK
<1> QED
  BY <1>2, <1>3, <1>4, <1>5, <1>6 DEF SystemNext, Runs, LinesOK

(* The programs' state keeps its types: every thread is at an instruction  *)
(* of its program, and no more is typed ahead than the terminals hold.     *)
THEOREM SystemTypeCorrect == SystemSpec => []SystemTypeOK
<1>1. SystemInit => LinesOK
  BY SystemAssumption DEF SystemInit, LinesOK
<1>2. ASSUME SysInv, MappedOK, LinesOK PROVE SystemTypeOK
  <2>1. \A t \in Threads : prog[t] # "none" => /\ at[t].block \in DOMAIN Program[prog[t]]
                                               /\ at[t].pc \in DOMAIN Code(t)
    BY <1>2 DEF SysInv, PlacesOK, PlaceOf, Code
  <2> QED
    BY <1>2, <2>1 DEF SystemTypeOK, SysInv, PlacesOK, UsersOK, MappedOK, LinesOK
<1> QED
  BY <1>1, <1>2, FaultInvInit, FaultInvKept, LinesOKKept, PTL DEF SystemSpec, FaultInv

=============================================================================
