------------------------------- MODULE Paging --------------------------------
(***************************************************************************)
(* The page tables of arch/x86_64/mm/paging.c over the frame allocator,    *)
(* with everything that calls them: the loader (map_zeroed() in proc.c)    *)
(* and the system calls SYS_MAP and SYS_MAP_PHYS; and the TLB, which the   *)
(* CPU fills when it likes.                                                *)
(*                                                                         *)
(* There is one address space.  A page is named by the four indices of its *)
(* address.  Physical memory is identity-mapped, so a table is reached by  *)
(* its frame: so far as loader.S maps it, which is the first gigabyte.     *)
(* Every frame the allocator has is taken to lie there, as it does on the  *)
(* machine the Makefile starts; next_table() does not look where it lies.  *)
(***************************************************************************)
EXTENDS Frames

CONSTANTS
    Entries,             \* entries of a table (512 in the code)
    Pml4, Pdpt, Pd,      \* the frames of the tables loader.S builds
    Rootfs,              \* the lists of pages the loader may have to map
    MapPages,            \* pages programs ask for with SYS_MAP
    DeviceMaps,          \* <<page, frame>> pairs root maps with SYS_MAP_PHYS
    Unmaps               \* pages given to vmm_unmap(), which has no caller yet

Index == 0 .. Entries - 1
Pages == Index \X Index \X Index \X Index

\* The gigabyte that loader.S maps.
KernelPages == {va \in Pages : va[1] = 0 /\ va[2] = 0}

\* The boot tables are part of the kernel image, which kernel.ld puts at
\* 1 MB; the devices that root maps lie below it (the VGA text buffer).
ASSUME PagingAssumption ==
    /\ Entries \in Nat \ {0}
    /\ {Pml4, Pdpt, Pd} \subseteq 1 .. ReservedFrames - 1
    /\ Pml4 # Pdpt /\ Pml4 # Pd /\ Pdpt # Pd
    /\ Rootfs \subseteq Seq(Pages \ KernelPages)
    /\ MapPages \subseteq Pages
    /\ DeviceMaps \subseteq Pages \X ((0 .. ReservedFrames - 1) \ {Pml4, Pdpt, Pd})
    /\ Unmaps \subseteq Pages

VARIABLES
    tables,              \* frame of a table |-> its entries
    tlb,                 \* page |-> the frame the CPU remembers, or Unmapped
    todo,                \* pages map_zeroed() still has to map
    panicked,            \* the kernel has faulted
    answer               \* what the last system call returned

pagingVars == <<tables, tlb, todo, panicked, answer>>
memVars    == <<frameVars, pagingVars>>

Unmapped == -1
Identity == -2           \* translated by a large page of loader.S

\* Entries by kind; PTE_PRESENT is clear in Absent, PTE_PS is set in Large.
Entry(kind, f) == [kind |-> kind, frame |-> f]
Absent   == Entry("absent", 0)
Large    == Entry("large", 0)
Table(f) == Entry("table", f)
Page(f)  == Entry("page", f)

AnyEntry == {Absent, Large} \cup {Table(f) : f \in Frames} \cup {Page(f) : f \in Frames}

Only(i, e) == [j \in Index |-> IF j = i THEN e ELSE Absent]

\* 512 large pages below one PML4 and one PDPT entry.
BootTables ==
    [f \in {Pml4, Pdpt, Pd} |->
        CASE f = Pml4 -> Only(0, Table(Pdpt))
          [] f = Pdpt -> Only(0, Table(Pd))
          [] f = Pd   -> [j \in Index |-> Large]]
-----------------------------------------------------------------------------
(* What the CPU finds: the entry where the walk from CR3 ends.             *)
Below(e, i) == IF e.kind = "table" THEN tables[e.frame][i] ELSE e

Leaf(va) == Below(Below(Below(Below(Table(Pml4), va[1]), va[2]), va[3]), va[4])

Translate(va) ==
    CASE Leaf(va).kind = "page"   -> Leaf(va).frame
      [] Leaf(va).kind = "large"  -> Identity
      [] Leaf(va).kind = "absent" -> Unmapped
-----------------------------------------------------------------------------
(* A walk of the kernel: the allocator, the tables, and the frame of the   *)
(* table it has come to, or Nowhere.                                       *)
Walk(p, ts, at) == [pmm |-> p, tables |-> ts, at |-> at]
Nowhere == -1

\* Mutant: the frame of a new table is not cleared.
NewTable_Dirty == [j \in Index |-> Page(0)]

NewTable == [j \in Index |-> Absent]

WithEntry(ts, t, i, e) == [ts EXCEPT ![t] = [@ EXCEPT ![i] = e]]

\* A new table below entry i of table t.
Linked(ts, t, i, f) ==
    [u \in DOMAIN ts \cup {f} |->
        IF u = f THEN NewTable ELSE WithEntry(ts, t, i, Table(f))[u]]

\* Mutant: the allocation of the table is forgotten.
Grown_Unpaid(w, i) ==
    Walk(w.pmm, Linked(w.tables, w.at, i, Allocated(w.pmm)), Allocated(w.pmm))

Grown(w, i) ==
    Walk(AfterAlloc(w.pmm), Linked(w.tables, w.at, i, Allocated(w.pmm)), Allocated(w.pmm))

\* next_table(); a large page is not split.
next_table(w, i, create) ==
    IF w.at = Nowhere THEN w
    ELSE LET e == w.tables[w.at][i] IN
         CASE e.kind = "table" -> Walk(w.pmm, w.tables, e.frame)
           [] e.kind = "absent" /\ create /\ Allocated(w.pmm) # OutOfMemory -> Grown(w, i)
           [] OTHER -> Walk(w.pmm, w.tables, Nowhere)

\* The table that holds the entry of va.
PageTable(p, va, create) ==
    next_table(next_table(next_table(
        Walk(p, tables, Pml4), va[1], create), va[2], create), va[3], create)

\* Mutant: the page is not flushed from the TLB.
Flushed_Not(va) == tlb

Flushed(va) == [tlb EXCEPT ![va] = Unmapped]

\* Mutant: the frame is given back when the map succeeded.
vmm_map_GivesBack(p, va, f, ok) ==
    LET w == PageTable(p, va, TRUE) IN
    /\ ok = (w.at # Nowhere)
    /\ pmm' = IF ok THEN MarkFree(w.pmm, f) ELSE w.pmm
    /\ tables' = IF ok THEN WithEntry(w.tables, w.at, va[4], Page(f)) ELSE w.tables
    /\ tlb' = IF ok THEN Flushed(va) ELSE tlb

\* vmm_map() with the allocator in state p; ok is its return value.
vmm_map(p, va, f, ok) ==
    LET w == PageTable(p, va, TRUE) IN
    /\ ok = (w.at # Nowhere)
    /\ pmm' = w.pmm
    /\ tables' = IF ok THEN WithEntry(w.tables, w.at, va[4], Page(f)) ELSE w.tables
    /\ tlb' = IF ok THEN Flushed(va) ELSE tlb

vmm_unmap(va) ==
    LET w == PageTable(pmm, va, FALSE) IN
    /\ w.at # Nowhere
    /\ tables' = WithEntry(tables, w.at, va[4], Absent)
    /\ tlb' = Flushed(va)
-----------------------------------------------------------------------------
(* map_zeroed(), one page.  It looks at neither result: without memory it  *)
(* maps frame 0, and when there is no table it writes through an unmapped  *)
(* address, which is a fault of the kernel.                                *)
MapZeroed ==
    /\ phase = "up"
    /\ todo # << >>
    /\ ~panicked
    /\ todo' = Tail(todo)
    /\ \E ok \in BOOLEAN :
        /\ vmm_map(AfterAlloc(pmm), Head(todo), Allocated(pmm), ok)
        /\ panicked' = ~ok
    /\ UNCHANGED <<initVars, got, answer>>

\* User programs run.
Running == phase = "up" /\ todo = << >> /\ ~panicked

\* SYS_MAP without a frame left.
SysMapRefused(va) ==
    /\ Running
    /\ Allocated(pmm) = OutOfMemory
    /\ answer' = "failed"
    /\ UNCHANGED <<frameVars, tables, tlb, todo, panicked>>

\* A frame for which there is no table is not given back.
SysMap(va) ==
    /\ Running
    /\ Allocated(pmm) # OutOfMemory
    /\ \E ok \in BOOLEAN :
        /\ vmm_map(AfterAlloc(pmm), va, Allocated(pmm), ok)
        /\ answer' = IF ok THEN "ok" ELSE "failed"
    /\ UNCHANGED <<initVars, got, todo, panicked>>

SysMapPhys(va, f) ==
    /\ Running
    /\ \E ok \in BOOLEAN :
        /\ vmm_map(pmm, va, f, ok)
        /\ answer' = IF ok THEN "ok" ELSE "failed"
    /\ UNCHANGED <<initVars, got, todo, panicked>>

Unmap(va) ==
    /\ Running
    /\ vmm_unmap(va)
    /\ UNCHANGED <<frameVars, todo, panicked, answer>>

\* The CPU remembers a page it has used.
Touch(va) ==
    /\ ~panicked
    /\ Leaf(va).kind = "page"
    /\ tlb' = [tlb EXCEPT ![va] = Translate(va)]
    /\ UNCHANGED <<frameVars, tables, todo, panicked, answer>>

MInit ==
    /\ FInit
    /\ tables = BootTables
    /\ tlb = [va \in Pages |-> Unmapped]
    /\ todo \in Rootfs
    /\ panicked = FALSE
    /\ answer = "none"

MNext ==
    \/ pmm_init /\ UNCHANGED pagingVars
    \/ MapZeroed
    \/ \E va \in MapPages : SysMapRefused(va) \/ SysMap(va)
    \/ \E d \in DeviceMaps : SysMapPhys(d[1], d[2])
    \/ \E va \in Unmaps : Unmap(va)
    \/ \E va \in Pages : Touch(va)

MSpec == MInit /\ [][MNext]_memVars
-----------------------------------------------------------------------------
PagingTypeOK ==
    /\ FramesTypeOK
    /\ DOMAIN tables \subseteq Frames
    /\ \A t \in DOMAIN tables : tables[t] \in [Index -> AnyEntry]
    /\ tlb \in [Pages -> Frames \cup {Unmapped}]
    /\ panicked \in BOOLEAN
    /\ answer \in {"none", "ok", "failed"}

Devices == {d[2] : d \in DeviceMaps}

\* The places that refer to something, and what they refer to.
Slots == UNION {{t} \X Index : t \in DOMAIN tables}
At(s) == tables[s[1]][s[2]]

(* The tables are a tree of frames that are in use, and no page a program  *)
(* can reach is one of them: a table has one parent, whatever allocations  *)
(* failed half-way.                                                        *)
TablesPrivate ==
    /\ phase = "up" => DOMAIN tables \subseteq pmm.used
    /\ \A s \in Slots : At(s).kind = "page" => At(s).frame \notin DOMAIN tables
    /\ \A s, u \in Slots : At(s).kind = "table" /\ At(s) = At(u) => s = u

(* Two pages never share a frame, whatever has failed before: no failed    *)
(* allocation or walk makes vmm_map() give a frame twice.  Excepted are    *)
(* devices, which root maps by their address, and the frame 0 that         *)
(* map_zeroed() maps, perhaps several times, when memory runs out: it      *)
(* does not look at the result of the allocation (proc.c:45).              *)
PagesPrivate ==
    \A s, u \in Slots :
        At(s).kind = "page" /\ At(s) = At(u) /\ At(s).frame \notin Devices \cup {OutOfMemory}
            => s = u

(* What the CPU remembers is what the tables say ("TLB maintenance"): an   *)
(* entry is flushed whenever it is replaced or removed.                    *)
TlbCoherent == \A va \in Pages : tlb[va] \in {Unmapped, Translate(va)}

Memory == INSTANCE AddressSpace WITH
    Named <- Devices,
    Stock <- Managed,
    open  <- phase = "up",
    space <- [va \in Pages |-> Translate(va)],
    pool  <- IF phase = "up" THEN Frames \ pmm.used ELSE {}

(* Each call changes the translation of the page it names and of no other, *)
(* gives a fresh page a frame nobody has, fails only for want of memory or *)
(* to keep the kernel's mapping, and then changes no translation.          *)
ImplementsAddressSpace == Memory!Spec
=============================================================================
