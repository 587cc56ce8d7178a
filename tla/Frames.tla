------------------------------- MODULE Frames --------------------------------
(***************************************************************************)
(* The physical frame allocator of kernel/vm.c: a bitmap of the frames, a  *)
(* count of the free ones and a search cursor.                             *)
(*                                                                         *)
(* pmm_init() starts with every frame in use, frees the frames of every    *)
(* region the firmware reports, then reserves everything below the end of  *)
(* its own bitmap.  Its two loops are steps here, one per frame.           *)
(***************************************************************************)
EXTENDS Integers, Sequences, FiniteSets

CONSTANTS
    TotalFrames,         \* ram_top >> PAGE_SHIFT
    Regions,             \* the regions of available RAM, in frames
    ReservedFrames       \* frames below the end of the bitmap

Region == [start : Nat, stop : 0 .. TotalFrames]

\* The kernel image lies above address 0 and inside RAM, and ram_top is the
\* highest end of a region.
ASSUME FramesAssumption ==
    /\ TotalFrames \in Nat
    /\ ReservedFrames \in 1 .. TotalFrames
    /\ Regions \in Seq(Region)

Frames == 0 .. TotalFrames - 1

OutOfMemory == 0         \* what pmm_alloc_frame() returns then
NoAnswer    == -1

VARIABLES
    phase,               \* where pmm_init() is: "free", "reserve", "up"
    region,              \* loop variables of pmm_init()
    frame,
    pmm,                 \* used: the bitmap; free: free_frames; hint: alloc_hint
    got                  \* what the last pmm_alloc_frame() returned

initVars  == <<phase, region, frame>>
frameVars == <<initVars, pmm, got>>
-----------------------------------------------------------------------------
\* Mutant: a frame of two regions is counted twice.
MarkFree_Unchecked(p, f) ==
    IF f < TotalFrames
    THEN [used |-> p.used \ {f}, free |-> p.free + 1, hint |-> p.hint] ELSE p

MarkFree(p, f) ==
    IF f < TotalFrames /\ f \in p.used
    THEN [used |-> p.used \ {f}, free |-> p.free + 1, hint |-> p.hint] ELSE p

MarkUsed(p, f) ==
    IF f < TotalFrames /\ f \notin p.used
    THEN [used |-> p.used \cup {f}, free |-> p.free - 1, hint |-> p.hint] ELSE p

FirstFrameOf(r) == IF r <= Len(Regions) THEN Regions[r].start ELSE 0

\* for f = start .. stop-1: mark_free(f), for each region.
FreeFrame ==
    /\ phase = "free"
    /\ region <= Len(Regions)
    /\ frame < Regions[region].stop
    /\ pmm' = MarkFree(pmm, frame)
    /\ frame' = frame + 1
    /\ UNCHANGED <<phase, region, got>>

NextRegion ==
    /\ phase = "free"
    /\ region <= Len(Regions)
    /\ frame >= Regions[region].stop
    /\ region' = region + 1
    /\ frame' = FirstFrameOf(region + 1)
    /\ UNCHANGED <<phase, pmm, got>>

RegionsDone ==
    /\ phase = "free"
    /\ region > Len(Regions)
    /\ phase' = "reserve"
    /\ frame' = 0
    /\ UNCHANGED <<region, pmm, got>>

\* Mutant: the last reserved frame, with the end of the bitmap, is left free.
BelowReserved_Short(f) == f < ReservedFrames - 1

BelowReserved(f) == f < ReservedFrames

ReserveFrame ==
    /\ phase = "reserve"
    /\ BelowReserved(frame)
    /\ pmm' = MarkUsed(pmm, frame)
    /\ frame' = frame + 1
    /\ UNCHANGED <<phase, region, got>>

ReserveDone ==
    /\ phase = "reserve"
    /\ ~BelowReserved(frame)
    /\ pmm' = [used |-> pmm.used, free |-> pmm.free, hint |-> ReservedFrames]
    /\ phase' = "up"
    /\ UNCHANGED <<region, frame, got>>

pmm_init == FreeFrame \/ NextRegion \/ RegionsDone \/ ReserveFrame \/ ReserveDone
-----------------------------------------------------------------------------
Probe(p, i) == (p.hint + i) % TotalFrames

\* The probes that would find a free frame.
Hits(p) == {i \in 0 .. TotalFrames - 1 : Probe(p, i) \notin p.used}

\* pmm_alloc_frame(): the next free frame from the cursor, or 0.
Allocated(p) ==
    IF Hits(p) = {} THEN OutOfMemory
    ELSE Probe(p, CHOOSE i \in Hits(p) : \A j \in Hits(p) : i <= j)

AfterAlloc(p) ==
    IF Hits(p) = {} THEN p
    ELSE [used |-> p.used \cup {Allocated(p)},
          free |-> p.free - 1,
          hint |-> Allocated(p) + 1]

Alloc ==
    /\ phase = "up"
    /\ got' = Allocated(pmm)
    /\ pmm' = AfterAlloc(pmm)
    /\ UNCHANGED initVars

\* The frames firmware reports and nothing reserves.
Reported(f) == \E r \in DOMAIN Regions : f \in Regions[r].start .. Regions[r].stop - 1
Managed == {f \in Frames : Reported(f) /\ f >= ReservedFrames}

\* pmm_free_frame() of a frame that was handed out.
Free(f) ==
    /\ phase = "up"
    /\ f \in Managed \cap pmm.used
    /\ pmm' = MarkFree(pmm, f)
    /\ got' = NoAnswer
    /\ UNCHANGED initVars

FInit ==
    /\ phase = "free"
    /\ region = 1
    /\ frame = FirstFrameOf(1)
    /\ pmm = [used |-> Frames, free |-> 0, hint |-> 0]
    /\ got = NoAnswer

FNext == pmm_init \/ Alloc \/ \E f \in Frames : Free(f)

FSpec == FInit /\ [][FNext]_frameVars
-----------------------------------------------------------------------------
FramesTypeOK ==
    /\ phase \in {"free", "reserve", "up"}
    /\ region \in 1 .. Len(Regions) + 1
    /\ frame \in Nat
    /\ pmm \in [used : SUBSET Frames, free : Int, hint : 0 .. TotalFrames]
    /\ got \in Frames \cup {NoAnswer}

(* free_frames, which SYS_MEMINFO reports, is the number of clear bits,    *)
(* whatever overlaps the firmware reports and however the cursor wrapped.  *)
CountExact == pmm.free = Cardinality(Frames \ pmm.used)

(* Low memory, the kernel image and the bitmap are never up for grabs, nor *)
(* is memory the firmware did not report; frame 0 is among them, so 0 can  *)
(* stand for failure.                                                      *)
ReservedKept == phase = "up" => Frames \ pmm.used \subseteq Managed \ {OutOfMemory}

\* Until pmm_init() has finished nobody sees the pool.
Pool == INSTANCE FramePool WITH
    Stock <- Managed,
    open  <- phase = "up",
    avail <- IF phase = "up" THEN Frames \ pmm.used ELSE {}

(* pmm_init() opens with exactly the managed frames; pmm_alloc_frame()     *)
(* hands out a frame nobody has, and fails only when there is none.        *)
ImplementsPool == Pool!Spec
=============================================================================
