----------------------------- MODULE PagingProofs -----------------------------
(***************************************************************************)
(* Proofs about memory, for every amount of it, every list of regions,     *)
(* every size of the kernel and of a table and every program.  First the   *)
(* frame allocator; then the page tables: four levels of tables form a     *)
(* tree, so that a page has one entry and an entry one page.               *)
(***************************************************************************)
EXTENDS Paging, FiniteSetTheorems, SeqProofs

-----------------------------------------------------------------------------
(* The physical frame allocator.                                           *)
\* The frames a region of the list holds, up to a bound.
InRegion(f, r) == f \in Regions[r].start .. Regions[r].stop - 1

\* What the loop over the regions has visited.
Visited(f) ==
    \/ \E r \in 1 .. region - 1 : InRegion(f, r)
    \/ region <= Len(Regions) /\ f \in Regions[region].start .. frame - 1

\* How far pmm_init() has come is exactly what is free.
Progress ==
    /\ phase = "free" =>
          /\ \A f \in Frames : f \notin pmm.used <=> Visited(f)
          /\ region <= Len(Regions) =>
                frame = Regions[region].start
                \/ frame \in Regions[region].start .. Regions[region].stop
    /\ phase = "reserve" =>
          /\ frame <= ReservedFrames
          /\ \A f \in Frames : f \notin pmm.used <=> Reported(f) /\ f >= frame
    /\ phase = "up" => Frames \ pmm.used \subseteq Managed

FInv == FramesTypeOK /\ CountExact /\ Progress

-----------------------------------------------------------------------------
Pmm == [used : SUBSET Frames, free : Int, hint : 0 .. TotalFrames]

LEMMA FramesFinite ==
    ASSUME NEW S \in SUBSET Frames
    PROVE  IsFiniteSet(S) /\ Cardinality(S) \in Nat
<1>1. IsFiniteSet(Frames)
  BY FS_Interval, FramesAssumption DEF Frames
<1> QED
  BY <1>1, FS_Subset, FS_CardinalityType

\* A frame that becomes free is counted once.
LEMMA MarkFreeExact ==
    ASSUME NEW p \in Pmm, NEW f \in Nat, p.free = Cardinality(Frames \ p.used)
    PROVE  /\ MarkFree(p, f) \in Pmm
           /\ MarkFree(p, f).free = Cardinality(Frames \ MarkFree(p, f).used)
           /\ f \in Frames => MarkFree(p, f).used = p.used \ {f}
           /\ f \notin Frames => MarkFree(p, f) = p
           /\ MarkFree(p, f).hint = p.hint
<1>1. CASE f \in Frames /\ f \in p.used
  <2> DEFINE q == MarkFree(p, f)
  <2>1. q = [used |-> p.used \ {f}, free |-> p.free + 1, hint |-> p.hint]
    BY <1>1, FramesAssumption DEF MarkFree, Frames
  <2>2. q \in Pmm /\ q.used = p.used \ {f} /\ q.free = p.free + 1 /\ q.hint = p.hint
    BY <2>1 DEF Pmm
  <2>3. Frames \ q.used = (Frames \ p.used) \cup {f}
    BY <2>2, <1>1
  <2>4. Cardinality((Frames \ p.used) \cup {f}) = Cardinality(Frames \ p.used) + 1
    BY <1>1, FramesFinite, FS_AddElement
  <2> QED
    BY <1>1, <2>2, <2>3, <2>4
<1>2. CASE ~(f \in Frames /\ f \in p.used)
  <2>1. MarkFree(p, f) = p
    BY <1>2, FramesAssumption DEF MarkFree, Frames
  <2> QED
    BY <1>2, <2>1
<1> QED
  BY <1>1, <1>2

\* A frame that is taken is counted once.
LEMMA MarkUsedExact ==
    ASSUME NEW p \in Pmm, NEW f \in Nat, p.free = Cardinality(Frames \ p.used)
    PROVE  /\ MarkUsed(p, f) \in Pmm
           /\ MarkUsed(p, f).free = Cardinality(Frames \ MarkUsed(p, f).used)
           /\ f \in Frames => MarkUsed(p, f).used = p.used \cup {f}
           /\ f \notin Frames => MarkUsed(p, f) = p
           /\ MarkUsed(p, f).hint = p.hint
<1>1. CASE f \in Frames /\ f \notin p.used
  <2> DEFINE q == MarkUsed(p, f)
  <2>1. q = [used |-> p.used \cup {f}, free |-> p.free - 1, hint |-> p.hint]
    BY <1>1, FramesAssumption DEF MarkUsed, Frames
  <2>2. q \in Pmm /\ q.used = p.used \cup {f} /\ q.free = p.free - 1 /\ q.hint = p.hint
    BY <2>1, <1>1 DEF Pmm
  <2>3. Frames \ q.used = (Frames \ p.used) \ {f}
    BY <2>2
  <2>4. Cardinality((Frames \ p.used) \ {f}) = Cardinality(Frames \ p.used) - 1
    BY <1>1, FramesFinite, FS_RemoveElement
  <2> QED
    BY <1>1, <2>2, <2>3, <2>4
<1>2. CASE ~(f \in Frames /\ f \notin p.used)
  <2>1. MarkUsed(p, f) = p
    BY <1>2, FramesAssumption DEF MarkUsed, Frames
  <2> QED
    BY <1>2, <2>1
<1> QED
  BY <1>1, <1>2

\* The search visits every frame: some probe meets it, wherever it starts.
LEMMA ProbeReaches ==
    ASSUME NEW p \in Pmm, NEW f \in Frames
    PROVE  \E i \in 0 .. TotalFrames - 1 : Probe(p, i) = f
<1>0. p.hint \in 0 .. TotalFrames /\ TotalFrames \in Nat \ {0} /\ f \in 0 .. TotalFrames - 1
  BY FramesAssumption DEF Pmm, Frames
<1>1. CASE f >= p.hint
  <2>1. f - p.hint \in 0 .. TotalFrames - 1
    BY <1>0, <1>1
  <2>2. (p.hint + (f - p.hint)) % TotalFrames = f
    BY <1>0, <1>1, SMT
  <2> QED
    BY <2>1, <2>2 DEF Probe
<1>2. CASE f < p.hint
  <2>1. f + TotalFrames - p.hint \in 0 .. TotalFrames - 1
    BY <1>0, <1>2
  <2>2. p.hint + (f + TotalFrames - p.hint) = f + TotalFrames
    BY <1>0
  <2>3. (f + TotalFrames) % TotalFrames = f
    BY <1>0, SMT
  <2> QED
    BY <2>1, <2>2, <2>3 DEF Probe
<1> QED
  BY <1>0, <1>1, <1>2

LEMMA ProbeType ==
    ASSUME NEW p \in Pmm, NEW i \in 0 .. TotalFrames - 1
    PROVE  Probe(p, i) \in Frames
<1>1. p.hint + i \in Nat /\ TotalFrames \in Nat \ {0}
  BY FramesAssumption DEF Pmm
<1>2. (p.hint + i) % TotalFrames \in 0 .. TotalFrames - 1
  BY <1>1, SMT
<1> QED
  BY <1>2 DEF Probe, Frames

\* A request is answered with a free frame, or refused when there is none.
LEMMA AllocExact ==
    ASSUME NEW p \in Pmm
    PROVE  \/ /\ Frames \subseteq p.used
              /\ Allocated(p) = OutOfMemory
              /\ AfterAlloc(p) = p
           \/ /\ Allocated(p) \in Frames \ p.used
              /\ AfterAlloc(p) = [used |-> p.used \cup {Allocated(p)},
                                  free |-> p.free - 1,
                                  hint |-> Allocated(p) + 1]
<1>1. CASE Hits(p) = {}
  <2>1. Frames \subseteq p.used
    BY <1>1, ProbeReaches DEF Hits
  <2> QED
    BY <1>1, <2>1 DEF Allocated, AfterAlloc
<1>2. CASE Hits(p) # {}
  <2> DEFINE least == CHOOSE i \in Hits(p) : \A j \in Hits(p) : i <= j
  <2>1. \E i \in Hits(p) : \A j \in Hits(p) : i <= j
    <3>1. Hits(p) \in SUBSET Nat
      BY FramesAssumption DEF Hits
    <3> QED
      BY <3>1, <1>2, LeastMember
  <2>2. least \in Hits(p)
    BY <2>1
  <2>3. Allocated(p) = Probe(p, least)
    BY <1>2 DEF Allocated
  <2>4. Allocated(p) \in Frames \ p.used
    BY <2>2, <2>3, ProbeType DEF Hits
  <2> QED
    BY <1>2, <2>4 DEF AfterAlloc
<1> QED
  BY <1>1, <1>2
-----------------------------------------------------------------------------
LEMMA RegionFacts ==
    ASSUME NEW r \in 1 .. Len(Regions)
    PROVE  Regions[r].start \in Nat /\ Regions[r].stop \in 0 .. TotalFrames
<1>1. Regions[r] \in Region
  BY FramesAssumption
<1> QED
  BY <1>1 DEF Region

LEMMA RegionsLen == Len(Regions) \in Nat /\ DOMAIN Regions = 1 .. Len(Regions)
BY FramesAssumption

LEMMA FirstFrameType == ASSUME NEW r \in Nat \ {0} PROVE FirstFrameOf(r) \in Nat
BY RegionFacts, RegionsLen DEF FirstFrameOf

LEMMA FInitInv == FInit => FInv
<1> SUFFICES ASSUME FInit PROVE FInv
  OBVIOUS
<1>1. pmm.used = Frames /\ pmm.free = 0 /\ pmm.hint = 0 /\ pmm \in Pmm
  BY FramesAssumption DEF FInit, Pmm
<1>2. FramesTypeOK
  BY <1>1, FirstFrameType, RegionsLen DEF FInit, FramesTypeOK, Pmm
<1>3. CountExact
  <2>1. Frames \ pmm.used = {}
    BY <1>1
  <2> QED
    BY <2>1, <1>1, FS_EmptySet DEF CountExact
<1>4. Progress
  <2>1. \A f \in Frames : ~Visited(f)
    <3>1. 1 .. region - 1 = {}
      BY DEF FInit
    <3>2. region <= Len(Regions) => frame = Regions[region].start /\ frame \in Nat
      BY RegionFacts, RegionsLen DEF FInit, FirstFrameOf
    <3> QED
      BY <3>1, <3>2 DEF Visited
  <2>2. region <= Len(Regions) => frame = Regions[region].start
    BY DEF FInit, FirstFrameOf
  <2> QED
    BY <1>1, <2>1, <2>2 DEF Progress, FInit
<1> QED
  BY <1>2, <1>3, <1>4 DEF FInv

\* The loop frees one more frame of the region at hand.
LEMMA FreeFrameInv == FInv /\ FreeFrame => FInv'
<1> SUFFICES ASSUME FInv, FreeFrame PROVE FInv'
  OBVIOUS
<1> USE DEF FInv
<1>1. region \in 1 .. Len(Regions) /\ frame \in Nat /\ frame < Regions[region].stop
      /\ frame >= Regions[region].start
  BY RegionFacts, RegionsLen DEF FreeFrame, FramesTypeOK, Progress
<1>2. frame \in Frames
  <2>1. Regions[region].stop \in 0 .. TotalFrames
    BY <1>1, RegionFacts
  <2> QED
    BY <1>1, <2>1, FramesAssumption DEF Frames
<1>3. pmm' \in Pmm /\ CountExact' /\ pmm'.used = pmm.used \ {frame}
  BY <1>2, MarkFreeExact, <1>1 DEF FreeFrame, FramesTypeOK, Pmm, CountExact
<1>4. FramesTypeOK'
  BY <1>3, <1>1 DEF FreeFrame, FramesTypeOK, Pmm
<1>5. \A f \in Frames : Visited(f)' <=> Visited(f) \/ f = frame
  <2>1. \A f \in Frames : f \in Regions[region].start .. frame' - 1
                          <=> f \in Regions[region].start .. frame - 1 \/ f = frame
    <3>1. Regions[region].start \in Nat /\ frame' = frame + 1
      BY <1>1, RegionFacts DEF FreeFrame
    <3> QED
      BY <3>1, <1>1 DEF Frames
  <2>2. region' = region
    BY DEF FreeFrame
  <2> QED
    BY <2>1, <2>2, <1>1 DEF Visited, InRegion
<1>6. \A f \in Frames : f \notin pmm'.used <=> Visited(f)'
  BY <1>3, <1>5, <1>2 DEF Progress, FreeFrame
<1>7. frame' \in Regions[region'].start .. Regions[region'].stop
  BY <1>1, RegionFacts DEF FreeFrame
<1> QED
  BY <1>3, <1>4, <1>6, <1>7 DEF Progress, FreeFrame

\* A region is finished: all of it has been visited.
LEMMA NextRegionInv == FInv /\ NextRegion => FInv'
<1> SUFFICES ASSUME FInv, NextRegion PROVE FInv'
  OBVIOUS
<1> USE DEF FInv
<1>1. region \in 1 .. Len(Regions) /\ frame \in Nat /\ frame >= Regions[region].stop
  BY RegionsLen DEF NextRegion, FramesTypeOK
<1>2. region' = region + 1 /\ region' \in 1 .. Len(Regions) + 1
  BY <1>1, RegionsLen DEF NextRegion
<1>3. frame' \in Nat /\ (region' <= Len(Regions) => frame' = Regions[region'].start)
  BY <1>2, FirstFrameType DEF NextRegion, FirstFrameOf
<1>4. FramesTypeOK' /\ CountExact'
  BY <1>2, <1>3 DEF NextRegion, FramesTypeOK, CountExact
<1>5. \A f \in Frames : Visited(f)' <=> Visited(f)
  <2>1. \A f \in Frames : f \in Regions[region].start .. frame - 1 <=> InRegion(f, region)
    BY <1>1, RegionFacts DEF Progress, NextRegion, InRegion, Frames
  <2>2. 1 .. region' - 1 = (1 .. region - 1) \cup {region}
    BY <1>1, <1>2, RegionsLen
  <2>3. \A f \in Frames : ~ (region' <= Len(Regions) /\ f \in Regions[region'].start .. frame' - 1)
    <3>1. CASE region' <= Len(Regions)
      BY <3>1, <1>3, <1>2, RegionFacts
    <3> QED
      BY <3>1
  <2>4. \A f \in Frames : Visited(f)' <=> \E r \in 1 .. region' - 1 : InRegion(f, r)
    BY <2>3 DEF Visited, InRegion
  <2>5. \A f \in Frames : Visited(f) <=> (\E r \in 1 .. region - 1 : InRegion(f, r)) \/ InRegion(f, region)
    BY <2>1, <1>1 DEF Visited
  <2> QED
    BY <2>2, <2>4, <2>5
<1> QED
  BY <1>3, <1>4, <1>5 DEF Progress, NextRegion

LEMMA RegionsDoneInv == FInv /\ RegionsDone => FInv'
<1> SUFFICES ASSUME FInv, RegionsDone PROVE FInv'
  OBVIOUS
<1> USE DEF FInv
<1>1. FramesTypeOK' /\ CountExact'
  BY DEF RegionsDone, FramesTypeOK, CountExact
<1>2. region = Len(Regions) + 1
  BY RegionsLen DEF RegionsDone, FramesTypeOK
<1>3. \A f \in Frames : Visited(f) <=> Reported(f)
  BY <1>2, RegionsLen DEF Visited, Reported, InRegion
<1>4. \A f \in Frames : f >= 0
  BY DEF Frames
<1> QED
  BY <1>1, <1>3, <1>4, FramesAssumption DEF Progress, RegionsDone

LEMMA ReserveFrameInv == FInv /\ ReserveFrame => FInv'
<1> SUFFICES ASSUME FInv, ReserveFrame PROVE FInv'
  OBVIOUS
<1> USE DEF FInv
<1>1. frame \in Frames /\ frame \in Nat
  BY FramesAssumption DEF ReserveFrame, BelowReserved, FramesTypeOK, Frames
<1>2. pmm' \in Pmm /\ CountExact' /\ pmm'.used = pmm.used \cup {frame}
  BY <1>1, MarkUsedExact DEF ReserveFrame, FramesTypeOK, Pmm, CountExact
<1>3. FramesTypeOK'
  BY <1>2, <1>1 DEF ReserveFrame, FramesTypeOK, Pmm
<1>4. \A f \in Frames : f >= frame' <=> f >= frame /\ f # frame
  BY <1>1 DEF ReserveFrame, Frames
<1>5. \A f \in Frames : f \notin pmm'.used <=> Reported(f) /\ f >= frame'
  BY <1>2, <1>4 DEF Progress, ReserveFrame
<1>6. frame' <= ReservedFrames
  BY <1>1, FramesAssumption DEF ReserveFrame, BelowReserved
<1> QED
  BY <1>2, <1>3, <1>5, <1>6 DEF Progress, ReserveFrame

\* pmm_init() ends with exactly the managed frames free.
LEMMA ReserveDoneOpens == FInv /\ ReserveDone => FInv' /\ Frames \ pmm'.used = Managed
<1> SUFFICES ASSUME FInv, ReserveDone PROVE FInv' /\ Frames \ pmm'.used = Managed
  OBVIOUS
<1> USE DEF FInv
<1>1. pmm \in Pmm
  BY DEF FramesTypeOK, Pmm
<1>2. pmm' \in Pmm /\ pmm'.used = pmm.used /\ pmm'.free = pmm.free
  BY <1>1, FramesAssumption DEF ReserveDone, Pmm
<1>3. FramesTypeOK' /\ CountExact'
  BY <1>2 DEF ReserveDone, FramesTypeOK, Pmm, CountExact
<1>4. frame = ReservedFrames
  BY FramesAssumption DEF ReserveDone, BelowReserved, FramesTypeOK, Progress
<1>5. Frames \ pmm'.used = Managed
  BY <1>2, <1>4 DEF Progress, ReserveDone, Managed
<1> QED
  BY <1>3, <1>5 DEF Progress, ReserveDone

LEMMA AllocInv == FInv /\ Alloc => FInv'
<1> SUFFICES ASSUME FInv, Alloc PROVE FInv'
  OBVIOUS
<1> USE DEF FInv
<1>1. pmm \in Pmm
  BY DEF FramesTypeOK, Pmm
<1>2. CASE Allocated(pmm) = OutOfMemory /\ AfterAlloc(pmm) = pmm
  BY <1>2, FramesAssumption DEF Alloc, initVars, FramesTypeOK, CountExact, Progress, Visited,
     InRegion, Frames, OutOfMemory
<1>3. CASE /\ Allocated(pmm) \in Frames \ pmm.used
           /\ AfterAlloc(pmm) = [used |-> pmm.used \cup {Allocated(pmm)},
                                  free |-> pmm.free - 1, hint |-> Allocated(pmm) + 1]
  <2> DEFINE f == Allocated(pmm)
  <2>1. pmm' = [used |-> pmm.used \cup {f}, free |-> pmm.free - 1, hint |-> f + 1] /\ got' = f
    BY <1>3 DEF Alloc
  <2> HIDE DEF f
  <2>2. f \in Frames \ pmm.used
    BY <1>3 DEF f
  <2>3. f + 1 \in 0 .. TotalFrames
    BY <2>2, FramesAssumption DEF Frames
  <2>4. pmm' \in Pmm /\ pmm'.used = pmm.used \cup {f} /\ pmm'.free = pmm.free - 1
    BY <1>1, <2>1, <2>2, <2>3 DEF Pmm
  <2>5. Frames \ pmm'.used = (Frames \ pmm.used) \ {f}
    BY <2>4
  <2>6. Cardinality((Frames \ pmm.used) \ {f}) = Cardinality(Frames \ pmm.used) - 1
    BY <2>2, FramesFinite, FS_RemoveElement
  <2>7. CountExact'
    BY <2>4, <2>5, <2>6 DEF CountExact
  <2>8. FramesTypeOK'
    BY <2>1, <2>2, <2>4 DEF Alloc, initVars, FramesTypeOK, Pmm
  <2> QED
    BY <2>5, <2>7, <2>8 DEF Alloc, initVars, Progress
<1> QED
  BY <1>1, <1>2, <1>3, AllocExact

LEMMA FreeInv == ASSUME NEW f \in Frames PROVE FInv /\ Free(f) => FInv'
<1> SUFFICES ASSUME FInv, Free(f) PROVE FInv'
  OBVIOUS
<1> USE DEF FInv
<1>1. f \in Nat
  BY DEF Frames
<1>2. pmm' \in Pmm /\ CountExact' /\ pmm'.used = pmm.used \ {f}
  BY <1>1, MarkFreeExact DEF Free, FramesTypeOK, Pmm, CountExact
<1>3. FramesTypeOK'
  BY <1>2 DEF Free, initVars, FramesTypeOK, Pmm
<1> QED
  BY <1>2, <1>3 DEF Free, initVars, Progress

LEMMA FInvAlways == FSpec => []FInv
<1>1. FInv /\ [FNext]_frameVars => FInv'
  <2> SUFFICES ASSUME FInv, [FNext]_frameVars PROVE FInv'
    OBVIOUS
  <2>1. CASE pmm_init
    BY <2>1, FreeFrameInv, NextRegionInv, RegionsDoneInv, ReserveFrameInv, ReserveDoneOpens DEF pmm_init
  <2>2. CASE Alloc
    BY <2>2, AllocInv
  <2>3. CASE \E f \in Frames : Free(f)
    BY <2>3, FreeInv
  <2>4. CASE UNCHANGED frameVars
    BY <2>4 DEF frameVars, initVars, FInv, FramesTypeOK, CountExact, Progress, Visited, InRegion
  <2> QED
    BY <2>1, <2>2, <2>3, <2>4 DEF FNext
<1> QED
  BY <1>1, FInitInv, PTL DEF FSpec
-----------------------------------------------------------------------------
(* Loop variables, bitmap, count, cursor and results of vm.c keep their    *)
(* types; in particular the cursor stays within the bitmap.                *)
THEOREM FramesTypeCorrect == FSpec => []FramesTypeOK
<1>1. FInv => FramesTypeOK
  BY DEF FInv
<1> QED
  BY <1>1, FInvAlways, PTL

(* free_frames is the number of clear bits, for every list of regions the  *)
(* firmware may report and every history of requests and returns.          *)
THEOREM FramesCountExact == FSpec => []CountExact
<1>1. FInv => CountExact
  BY DEF FInv
<1> QED
  BY <1>1, FInvAlways, PTL

(* No frame below the end of the bitmap, frame 0 included, and no frame    *)
(* that was not reported is ever free once pmm_init() has returned.        *)
THEOREM FramesReservedKept == FSpec => []ReservedKept
<1>1. FInv => ReservedKept
  BY FramesAssumption DEF FInv, Progress, ReservedKept, Managed, OutOfMemory, Frames
<1> QED
  BY <1>1, FInvAlways, PTL

(* The allocator of vm.c implements the abstract pool: it gives out frames *)
(* nobody has, and refuses only when there is none.                        *)
THEOREM FramesImplementPool == FSpec => ImplementsPool
<1>1. FInit => Pool!Init
  BY DEF FInit, Pool!Init, NoAnswer, Pool!NoAnswer
<1>2. FInv /\ [FNext]_frameVars => [Pool!Next]_Pool!poolVars
  <2> SUFFICES ASSUME FInv, [FNext]_frameVars PROVE [Pool!Next]_Pool!poolVars
    OBVIOUS
  <2>1. CASE FreeFrame \/ NextRegion \/ RegionsDone \/ ReserveFrame
    BY <2>1 DEF FreeFrame, NextRegion, RegionsDone, ReserveFrame, Pool!poolVars
  <2>2. CASE ReserveDone
    <3>1. Frames \ pmm'.used = Managed
      BY <2>2, ReserveDoneOpens
    <3>2. Pool!Open
      BY <2>2, <3>1 DEF ReserveDone, Pool!Open
    <3> QED
      BY <3>2 DEF Pool!Next
  <2>3. CASE Alloc
    <3>1. pmm \in Pmm
      BY DEF FInv, FramesTypeOK, Pmm
    <3>2. CASE Frames \subseteq pmm.used /\ Allocated(pmm) = OutOfMemory /\ AfterAlloc(pmm) = pmm
      <4>1. Pool!Refuse
        BY <2>3, <3>2 DEF Alloc, initVars, Pool!Refuse, OutOfMemory, Pool!NoFrame
      <4> QED
        BY <4>1 DEF Pool!Next
    <3>3. CASE Allocated(pmm) \in Frames \ pmm.used /\ AfterAlloc(pmm).used = pmm.used \cup {Allocated(pmm)}
      <4>1. Allocated(pmm) # OutOfMemory
        BY <2>3, <3>3, FramesAssumption DEF FInv, Progress, Alloc, Managed, OutOfMemory, Frames
      <4>2. phase = "up" /\ phase' = "up" /\ got' = Allocated(pmm)
            /\ Frames \ pmm'.used = (Frames \ pmm.used) \ {got'}
        BY <2>3, <3>3 DEF Alloc, initVars
      <4>3. Pool!Give
        BY <4>1, <4>2, <3>3 DEF Pool!Give, OutOfMemory, Pool!NoFrame
      <4> QED
        BY <4>3 DEF Pool!Next
    <3> QED
      BY <3>1, <3>2, <3>3, AllocExact
  <2>4. CASE \E f \in Frames : Free(f)
    <3>1. PICK f \in Frames : Free(f)
      BY <2>4
    <3>2. f \in Nat /\ pmm \in Pmm /\ pmm.free = Cardinality(Frames \ pmm.used)
      BY DEF FInv, FramesTypeOK, Pmm, CountExact, Frames
    <3>3. pmm'.used = pmm.used \ {f}
      BY <3>1, <3>2, MarkFreeExact DEF Free
    <3>4. Frames \ pmm'.used = (Frames \ pmm.used) \cup {f}
      BY <3>3
    <3>5. Pool!TakeBack(f) /\ f \in Managed
      BY <3>1, <3>4 DEF Free, initVars, Pool!TakeBack, NoAnswer, Pool!NoAnswer
    <3> QED
      BY <3>5 DEF Pool!Next
  <2>5. CASE UNCHANGED frameVars
    BY <2>5 DEF frameVars, initVars, Pool!poolVars
  <2> QED
    BY <2>1, <2>2, <2>3, <2>4, <2>5 DEF FNext, pmm_init
<1> QED
  BY <1>1, <1>2, FInvAlways, PTL DEF FSpec, ImplementsPool, Pool!Spec

-----------------------------------------------------------------------------
(* The walk over any set of tables, level by level.                        *)
StepTo(ts, e, i) == IF e.kind = "table" THEN ts[e.frame][i] ELSE e

Path1(ts, va) == StepTo(ts, Table(Pml4), va[1])
Path2(ts, va) == StepTo(ts, Path1(ts, va), va[2])
Path3(ts, va) == StepTo(ts, Path2(ts, va), va[3])
LeafOf(ts, va) == StepTo(ts, Path3(ts, va), va[4])

LEMMA LeafIs == \A va : Leaf(va) = LeafOf(tables, va) /\ Leaf(va)' = LeafOf(tables', va)
BY DEF Leaf, Below, LeafOf, Path3, Path2, Path1, StepTo, Table, Entry

-----------------------------------------------------------------------------
(* The tree.  `lev' is the level of each table, 1 for the root.            *)
BootFrames == {Pml4, Pdpt, Pd}

\* Entries of which there may be only one.
Owned(e) ==
    e.kind = "table" \/ (e.kind = "page" /\ e.frame \notin Devices \cup {OutOfMemory})

Typed(ts) == DOMAIN ts \subseteq Frames /\ \A t \in DOMAIN ts : ts[t] \in [Index -> AnyEntry]

\* What loader.S built stays.
KernelKept(ts) ==
    /\ BootFrames \subseteq DOMAIN ts
    /\ ts[Pml4][0] = Table(Pdpt)
    /\ ts[Pdpt][0] = Table(Pd)
    /\ \A j \in Index : ts[Pd][j] = Large

Levels(ts, lev) ==
    /\ lev \in [DOMAIN ts -> 1 .. 4]
    /\ lev[Pml4] = 1
    /\ \A t \in DOMAIN ts, i \in Index :
        /\ ts[t][i].kind = "table" =>
              ts[t][i].frame \in DOMAIN ts /\ lev[ts[t][i].frame] = lev[t] + 1
        /\ ts[t][i].kind = "page" => lev[t] = 4 /\ ts[t][i].frame \notin DOMAIN ts
        /\ ts[t][i].kind = "large" => t = Pd

Single(ts) ==
    \A t, u \in DOMAIN ts, i, j \in Index :
        ts[t][i] = ts[u][j] /\ Owned(ts[t][i]) => t = u /\ i = j

TreeOK(ts, lev) == Typed(ts) /\ KernelKept(ts) /\ Levels(ts, lev) /\ Single(ts)

LEMMA EntryKinds ==
    ASSUME NEW e \in AnyEntry
    PROVE  /\ e.kind \in {"absent", "large", "table", "page"}
           /\ e.kind = "absent" => e = Absent
           /\ e.kind = "large" => e = Large
           /\ e.kind = "table" => e = Table(e.frame)
           /\ e.kind = "page" => e = Page(e.frame)
BY DEF AnyEntry, Absent, Large, Table, Page, Entry

LEMMA EntryFields ==
    /\ Absent.kind = "absent" /\ Large.kind = "large"
    /\ \A f : Table(f).kind = "table" /\ Table(f).frame = f
    /\ \A f : Page(f).kind = "page" /\ Page(f).frame = f
BY DEF Absent, Large, Table, Page, Entry

LEMMA EntryTypes ==
    Absent \in AnyEntry /\ \A f \in Frames : Table(f) \in AnyEntry /\ Page(f) \in AnyEntry
BY DEF AnyEntry

\* The frames the map refers to.
Mapped(ts) == {f \in Frames : \E t \in DOMAIN ts, i \in Index : ts[t][i] = Page(f)}

-----------------------------------------------------------------------------
(* A new table (next_table() with create).                                 *)
IsLinked(ts, new, t, i, f) ==
    /\ DOMAIN new = DOMAIN ts \cup {f}
    /\ \A j \in Index : new[f][j] = Absent
    /\ new[t][i] = Table(f)
    /\ \A u \in DOMAIN ts, j \in Index : u # t \/ j # i => new[u][j] = ts[u][j]
    /\ new[f] = NewTable
    /\ \A u \in DOMAIN ts : new[u] = IF u = t THEN [ts[u] EXCEPT ![i] = Table(f)] ELSE ts[u]

LEMMA LinkedEntries ==
    ASSUME NEW ts, NEW t \in DOMAIN ts, NEW i \in Index, NEW f, f \notin DOMAIN ts, Typed(ts)
    PROVE  IsLinked(ts, Linked(ts, t, i, f), t, i, f)
BY DEF Linked, WithEntry, NewTable, Typed, IsLinked

LEMMA LinkKeepsTree ==
    ASSUME NEW ts, NEW lev, TreeOK(ts, lev),
           NEW t \in DOMAIN ts, lev[t] <= 3, NEW i \in Index, ts[t][i] = Absent,
           NEW f \in Frames \ (DOMAIN ts \cup Mapped(ts))
    PROVE  TreeOK(Linked(ts, t, i, f),
                  [u \in DOMAIN ts \cup {f} |-> IF u = f THEN lev[t] + 1 ELSE lev[u]])
<1> DEFINE new == Linked(ts, t, i, f)
           up == [u \in DOMAIN ts \cup {f} |-> IF u = f THEN lev[t] + 1 ELSE lev[u]]
<1> USE DEF TreeOK
<1>1. IsLinked(ts, new, t, i, f)
  BY LinkedEntries
<1> USE DEF IsLinked
<1>2. /\ DOMAIN up = DOMAIN ts \cup {f} /\ up[f] = lev[t] + 1
      /\ \A u \in DOMAIN ts : up[u] = lev[u]
  OBVIOUS
<1> HIDE DEF new, up
<1>3. Typed(new)
  BY <1>1, EntryTypes DEF Typed, NewTable
<1>4. KernelKept(new)
  <2>1. Absent # Large /\ Absent # Table(Pdpt) /\ Absent # Table(Pd)
    BY EntryFields
  <2>2. 0 \in Index
    BY PagingAssumption DEF Index
  <2>3. t # Pd /\ (t = Pml4 => i # 0) /\ (t = Pdpt => i # 0)
    BY <2>1 DEF KernelKept
  <2> QED
    BY <1>1, <2>2, <2>3 DEF KernelKept, BootFrames
<1>5. Levels(new, up)
  <2>1. up \in [DOMAIN new -> 1 .. 4]
    <3>1. lev[t] + 1 \in 1 .. 4 /\ \A u \in DOMAIN ts : lev[u] \in 1 .. 4
      BY DEF Levels
    <3> QED
      BY <1>1, <3>1 DEF up
  <2>2. up[Pml4] = 1
    BY <1>2 DEF Levels, KernelKept, BootFrames
  <2>3. ASSUME NEW u \in DOMAIN ts, NEW j \in Index, u # t \/ j # i
        PROVE  /\ new[u][j].kind = "table" =>
                    new[u][j].frame \in DOMAIN new /\ up[new[u][j].frame] = up[u] + 1
               /\ new[u][j].kind = "page" => up[u] = 4 /\ new[u][j].frame \notin DOMAIN new
               /\ new[u][j].kind = "large" => u = Pd
    <3>1. new[u][j] = ts[u][j] /\ ts[u][j] \in AnyEntry
      BY <1>1, <2>3 DEF Typed
    <3>2. ts[u][j].kind = "page" => ts[u][j].frame # f
      BY <3>1, EntryKinds DEF Mapped
    <3> QED
      BY <1>1, <1>2, <3>1, <3>2 DEF Levels
  <2>4. \A j \in Index : new[f][j].kind = "absent"
    BY <1>1, EntryFields
  <2>5. new[t][i].kind = "table" /\ new[t][i].frame = f
    BY <1>1, EntryFields
  <2> QED
    BY <1>1, <1>2, <2>1, <2>2, <2>3, <2>4, <2>5 DEF Levels
<1>6. Single(new)
  <2>1. \A u \in DOMAIN ts, j \in Index : ts[u][j] # Table(f)
    BY EntryFields DEF Levels
  <2>2. \A j \in Index : ~Owned(new[f][j])
    BY <1>1, EntryFields DEF Owned
  <2> QED
    BY <1>1, <2>1, <2>2 DEF Single
<1> QED
  BY <1>3, <1>4, <1>5, <1>6 DEF new, up

(* A new table stands where nothing was, and nothing is below it: the walk *)
(* ends for every page as before.  e and n are where the two walks have    *)
(* come to, about to look into a table of level k.                         *)
Follows(ts, lev, t, f, e, n, k) ==
    \/ n = e /\ (e.kind = "table" => e.frame \in DOMAIN ts /\ lev[e.frame] = k)
    \/ e = Absent /\ n = Table(f) /\ lev[t] = k - 1

LEMMA LinkStep ==
    ASSUME NEW ts, NEW lev, TreeOK(ts, lev), NEW t \in DOMAIN ts, NEW i \in Index,
           ts[t][i] = Absent, NEW f \in Frames \ DOMAIN ts,
           NEW new, IsLinked(ts, new, t, i, f),
           NEW k \in Nat, NEW e, NEW n, NEW j \in Index, Follows(ts, lev, t, f, e, n, k)
    PROVE  Follows(ts, lev, t, f, StepTo(ts, e, j), StepTo(new, n, j), k + 1)
<1> USE DEF StepTo, Follows
<1>1. CASE e = Absent /\ n = Table(f)
  BY <1>1, EntryFields DEF IsLinked
<1>2. CASE n = e /\ e.kind # "table"
  BY <1>2
<1>3. CASE n = e /\ e.kind = "table" /\ e.frame \in DOMAIN ts /\ lev[e.frame] = k
  <2>1. CASE e.frame = t /\ j = i
    BY <1>3, <2>1 DEF IsLinked
  <2>2. CASE ~(e.frame = t /\ j = i)
    BY <1>3, <2>2 DEF IsLinked, TreeOK, Levels
  <2> QED
    BY <2>1, <2>2
<1> QED
  BY <1>1, <1>2, <1>3

LEMMA LinkKeepsWalks ==
    ASSUME NEW ts, NEW lev, TreeOK(ts, lev), NEW t \in DOMAIN ts, NEW i \in Index,
           ts[t][i] = Absent, lev[t] <= 3, NEW f \in Frames \ DOMAIN ts,
           NEW new, IsLinked(ts, new, t, i, f), NEW va \in Pages
    PROVE  /\ LeafOf(new, va) = LeafOf(ts, va)
           /\ \A u : Path1(ts, va) = Table(u) => Path1(new, va) = Table(u)
           /\ \A u : Path2(ts, va) = Table(u) => Path2(new, va) = Table(u)
           /\ \A u : Path3(ts, va) = Table(u) => Path3(new, va) = Table(u)
<1>1. va[1] \in Index /\ va[2] \in Index /\ va[3] \in Index /\ va[4] \in Index
  BY DEF Pages
<1>2. Follows(ts, lev, t, f, Table(Pml4), Table(Pml4), 1)
  BY EntryFields DEF Follows, TreeOK, Levels, KernelKept, BootFrames
<1>3. Follows(ts, lev, t, f, Path1(ts, va), Path1(new, va), 2)
  BY <1>1, <1>2, LinkStep DEF Path1
<1>4. Follows(ts, lev, t, f, Path2(ts, va), Path2(new, va), 3)
  BY <1>1, <1>3, LinkStep DEF Path2
<1>5. Follows(ts, lev, t, f, Path3(ts, va), Path3(new, va), 4)
  BY <1>1, <1>4, LinkStep DEF Path3
<1>6. Follows(ts, lev, t, f, LeafOf(ts, va), LeafOf(new, va), 5)
  BY <1>1, <1>5, LinkStep DEF LeafOf
<1>7. \A u : Table(u) # Absent
  BY EntryFields
<1> QED
  BY <1>3, <1>4, <1>5, <1>6, <1>7 DEF Follows, TreeOK, Levels
-----------------------------------------------------------------------------
(* One entry, one page: the way to a table is unique.                      *)
LEMMA TablesBelow ==
    ASSUME NEW ts, NEW lev, TreeOK(ts, lev), NEW va \in Pages
    PROVE  /\ Path1(ts, va).kind = "table" =>
                  Path1(ts, va).frame \in DOMAIN ts /\ lev[Path1(ts, va).frame] = 2
           /\ Path2(ts, va).kind = "table" =>
                  Path2(ts, va).frame \in DOMAIN ts /\ lev[Path2(ts, va).frame] = 3
           /\ Path3(ts, va).kind = "table" =>
                  Path3(ts, va).frame \in DOMAIN ts /\ lev[Path3(ts, va).frame] = 4
           /\ LeafOf(ts, va).kind # "table"
           /\ Path1(ts, va) \in AnyEntry /\ Path2(ts, va) \in AnyEntry
           /\ Path3(ts, va) \in AnyEntry /\ LeafOf(ts, va) \in AnyEntry
<1> USE DEF TreeOK, Levels, Typed, StepTo
<1>1. va[1] \in Index /\ va[2] \in Index /\ va[3] \in Index /\ va[4] \in Index
  BY DEF Pages
<1>2. Pml4 \in DOMAIN ts /\ Path1(ts, va) = ts[Pml4][va[1]] /\ lev[Pml4] = 1
  BY EntryFields DEF Path1, KernelKept, BootFrames
<1> DEFINE Ok(e, k) ==
      e \in AnyEntry /\ (e.kind = "table" => e.frame \in DOMAIN ts /\ lev[e.frame] = k)
<1>3. Ok(Path1(ts, va), 2)
  BY <1>1, <1>2
<1>4. Ok(Path2(ts, va), 3)
  BY <1>1, <1>3 DEF Path2
<1>5. Ok(Path3(ts, va), 4)
  BY <1>1, <1>4 DEF Path3
<1>6. Ok(LeafOf(ts, va), 5)
  BY <1>1, <1>5 DEF LeafOf
<1> QED
  BY <1>3, <1>4, <1>5, <1>6

LEMMA PathUnique ==
    ASSUME NEW ts, NEW lev, TreeOK(ts, lev), NEW va \in Pages, NEW vb \in Pages, NEW t
    PROVE  /\ Path1(ts, va) = Table(t) /\ Path1(ts, vb) = Table(t) => va[1] = vb[1]
           /\ Path2(ts, va) = Table(t) /\ Path2(ts, vb) = Table(t) =>
                  va[1] = vb[1] /\ va[2] = vb[2]
           /\ Path3(ts, va) = Table(t) /\ Path3(ts, vb) = Table(t) =>
                  va[1] = vb[1] /\ va[2] = vb[2] /\ va[3] = vb[3]
<1> DEFINE Index3(v) == v[1] \in Index /\ v[2] \in Index /\ v[3] \in Index
<1>1. Index3(va) /\ Index3(vb)
  BY DEF Pages
<1>2. ASSUME NEW e \in AnyEntry, NEW d \in AnyEntry, NEW i \in Index, NEW j \in Index, NEW u,
             e.kind = "table" => e.frame \in DOMAIN ts,
             d.kind = "table" => d.frame \in DOMAIN ts,
             StepTo(ts, e, i) = Table(u), StepTo(ts, d, j) = Table(u)
      PROVE  e = d /\ e.kind = "table" /\ i = j
  <2>2. e.kind = "table" /\ d.kind = "table"
    BY <1>2, EntryFields DEF StepTo
  <2>3. ts[e.frame][i] = Table(u) /\ ts[d.frame][j] = Table(u)
    BY <1>2, <2>2 DEF StepTo
  <2>4. e.frame = d.frame /\ i = j
    BY <1>2, <2>2, <2>3, EntryFields DEF TreeOK, Single, Owned
  <2> QED
    BY <2>2, <2>4, EntryKinds
<1>3. ASSUME NEW u, Path1(ts, va) = Table(u), Path1(ts, vb) = Table(u) PROVE va[1] = vb[1]
  <2>1. Table(Pml4) \in AnyEntry /\ Table(Pml4).frame \in DOMAIN ts
    BY EntryTypes, EntryFields DEF TreeOK, Typed, KernelKept, BootFrames
  <2> QED
    BY <1>1, <1>2, <1>3, <2>1 DEF Path1
<1>4. ASSUME NEW u, Path2(ts, va) = Table(u), Path2(ts, vb) = Table(u)
      PROVE  va[1] = vb[1] /\ va[2] = vb[2]
  <2>1. Path1(ts, va) = Path1(ts, vb) /\ Path1(ts, va).kind = "table" /\ va[2] = vb[2]
    BY <1>1, <1>2, <1>4, TablesBelow DEF Path2
  <2>2. Path1(ts, va) = Table(Path1(ts, va).frame)
    BY <2>1, TablesBelow, EntryKinds
  <2> QED
    BY <1>3, <2>1, <2>2
<1>5. ASSUME NEW u, Path3(ts, va) = Table(u), Path3(ts, vb) = Table(u)
      PROVE  va[1] = vb[1] /\ va[2] = vb[2] /\ va[3] = vb[3]
  <2>1. Path2(ts, va) = Path2(ts, vb) /\ Path2(ts, va).kind = "table" /\ va[3] = vb[3]
    BY <1>1, <1>2, <1>5, TablesBelow DEF Path3
  <2>2. Path2(ts, va) = Table(Path2(ts, va).frame)
    BY <2>1, TablesBelow, EntryKinds
  <2> QED
    BY <1>4, <2>1, <2>2
<1> QED
  BY <1>3, <1>4, <1>5

\* The pages of the kernel end in its large pages, and no other page does.
LEMMA KernelWalk ==
    ASSUME NEW ts, NEW lev, TreeOK(ts, lev), NEW va \in Pages
    PROVE  /\ va \in KernelPages <=> Path2(ts, va) = Table(Pd)
           /\ va \in KernelPages => Path3(ts, va) = Large
           /\ Path2(ts, va).kind # "table" => Path3(ts, va) = Path2(ts, va)
<1>1. /\ va[1] \in Index /\ va[2] \in Index /\ va[3] \in Index /\ va[4] \in Index
      /\ 0 \in Index /\ <<0, 0, 0, 0>> \in Pages
  BY PagingAssumption DEF Pages, Index
<1>2. ASSUME NEW v \in Pages, v[1] = 0, v[2] = 0 PROVE Path2(ts, v) = Table(Pd)
  BY <1>2, EntryFields DEF Path1, Path2, StepTo, TreeOK, KernelKept
<1>3. Path2(ts, va) = Table(Pd) => va[1] = 0 /\ va[2] = 0
  <2>1. Path2(ts, <<0, 0, 0, 0>>) = Table(Pd)
    BY <1>1, <1>2
  <2> QED
    BY <1>1, <2>1, PathUnique
<1>4. Path2(ts, va) = Table(Pd) => Path3(ts, va) = Large
  BY <1>1, EntryFields DEF Path3, StepTo, TreeOK, KernelKept
<1>5. va \in KernelPages <=> va[1] = 0 /\ va[2] = 0
  BY DEF KernelPages
<1>6. Path2(ts, va).kind # "table" => Path3(ts, va) = Path2(ts, va)
  BY DEF Path3, StepTo
<1> QED
  BY <1>2, <1>3, <1>4, <1>5, <1>6
-----------------------------------------------------------------------------
(* An entry of a last-level table is set: vmm_map(), vmm_unmap().          *)
IsSet(ts, new, t, i, e) ==
    /\ DOMAIN new = DOMAIN ts
    /\ new[t][i] = e
    /\ \A u \in DOMAIN ts, j \in Index : u # t \/ j # i => new[u][j] = ts[u][j]
    /\ \A u \in DOMAIN ts : new[u] = IF u = t THEN [ts[u] EXCEPT ![i] = e] ELSE ts[u]

LEMMA SetEntries ==
    ASSUME NEW ts, NEW t \in DOMAIN ts, NEW i \in Index, NEW e, Typed(ts)
    PROVE  IsSet(ts, WithEntry(ts, t, i, e), t, i, e)
BY DEF WithEntry, Typed, IsSet

LEMMA SetKeepsTree ==
    ASSUME NEW ts, NEW lev, TreeOK(ts, lev),
           NEW t \in DOMAIN ts, NEW i \in Index, lev[t] = 4,
           NEW e \in AnyEntry, e.kind \in {"absent", "page"},
           e.kind = "page" => e.frame \notin DOMAIN ts,
           Owned(e) => \A u \in DOMAIN ts, j \in Index : ts[u][j] # e,
           NEW new, IsSet(ts, new, t, i, e)
    PROVE  TreeOK(new, lev)
<1> USE DEF TreeOK, IsSet
<1>1. Typed(new)
  BY DEF Typed
<1>2. KernelKept(new)
  <2>1. 0 \in Index
    BY PagingAssumption DEF Index
  <2>2. t # Pml4 /\ t # Pdpt /\ t # Pd
    <3>1. lev[Pdpt] = 2
      BY <2>1, EntryFields DEF Levels, KernelKept, BootFrames
    <3>2. lev[Pd] = 3
      BY <2>1, <3>1, EntryFields DEF Levels, KernelKept, BootFrames
    <3> QED
      BY <3>1, <3>2 DEF Levels
  <2> QED
    BY <2>1, <2>2 DEF KernelKept, BootFrames
<1>3. Levels(new, lev)
  <2>1. ASSUME NEW u \in DOMAIN ts, NEW j \in Index
        PROVE  /\ new[u][j].kind = "table" =>
                    new[u][j].frame \in DOMAIN new /\ lev[new[u][j].frame] = lev[u] + 1
               /\ new[u][j].kind = "page" => lev[u] = 4 /\ new[u][j].frame \notin DOMAIN new
               /\ new[u][j].kind = "large" => u = Pd
    <3>1. CASE u = t /\ j = i
      BY <3>1
    <3>2. CASE u # t \/ j # i
      BY <3>2 DEF Levels
    <3> QED
      BY <3>1, <3>2
  <2> QED
    BY <2>1 DEF Levels
<1>4. Single(new)
  BY DEF Single
<1> QED
  BY <1>1, <1>2, <1>3, <1>4

\* The entry of one page is set, and no other page ends there.
LEMMA SetLeaf ==
    ASSUME NEW ts, NEW lev, TreeOK(ts, lev),
           NEW t \in DOMAIN ts, lev[t] = 4,
           NEW va \in Pages, Path3(ts, va) = Table(t), NEW e, e.kind # "table",
           NEW new, IsSet(ts, new, t, va[4], e)
    PROVE  /\ LeafOf(new, va) = e
           /\ \A vb \in Pages \ {va} : LeafOf(new, vb) = LeafOf(ts, vb)
<1>1. \A v \in Pages : v[1] \in Index /\ v[2] \in Index /\ v[3] \in Index /\ v[4] \in Index
  BY DEF Pages
<1>2. ASSUME NEW d, NEW j \in Index, d.kind = "table" => d.frame \in DOMAIN ts /\ lev[d.frame] # 4
      PROVE  StepTo(new, d, j) = StepTo(ts, d, j)
  BY <1>2 DEF StepTo, IsSet
<1>3. ASSUME NEW v \in Pages
      PROVE  Path3(new, v) = Path3(ts, v)
  <2>1. Path1(new, v) = Path1(ts, v)
    BY <1>1, <1>2, EntryFields DEF Path1, TreeOK, KernelKept, BootFrames, Levels
  <2>2. Path2(new, v) = Path2(ts, v)
    BY <1>1, <1>2, <2>1, TablesBelow DEF Path2
  <2>3. Path2(ts, v).kind = "table" =>
            Path2(ts, v).frame \in DOMAIN ts /\ lev[Path2(ts, v).frame] # 4
    BY TablesBelow
  <2> QED
    BY <1>1, <1>2, <2>2, <2>3 DEF Path3
<1>4. LeafOf(new, va) = e
  BY <1>1, <1>3, EntryFields DEF LeafOf, StepTo, IsSet
<1>5. ASSUME NEW vb \in Pages \ {va} PROVE LeafOf(new, vb) = LeafOf(ts, vb)
  <2>1. CASE Path3(ts, vb).kind # "table"
    BY <1>3, <2>1 DEF LeafOf, StepTo
  <2>2. CASE Path3(ts, vb).kind = "table" /\ Path3(ts, vb).frame # t
    BY <1>1, <1>3, <2>2, TablesBelow DEF LeafOf, StepTo, IsSet
  <2>3. CASE Path3(ts, vb).kind = "table" /\ Path3(ts, vb).frame = t
    <3>1. Path3(ts, vb) = Table(t)
      BY <2>3, TablesBelow, EntryKinds
    <3>2. va[1] = vb[1] /\ va[2] = vb[2] /\ va[3] = vb[3]
      BY <3>1, PathUnique
    <3>3. va[4] # vb[4]
      BY <3>2 DEF Pages
    <3> QED
      BY <1>1, <1>3, <2>3, <3>3 DEF LeafOf, StepTo, IsSet
  <2> QED
    BY <2>1, <2>2, <2>3
<1> QED
  BY <1>4, <1>5
-----------------------------------------------------------------------------
(* The allocator under the walk.                                           *)
PoolOK(p) ==
    /\ p \in Pmm
    /\ p.free = Cardinality(Frames \ p.used)
    /\ Frames \ p.used \subseteq Managed

\* Tables and pages lie in frames that are in use, and a table in no frame
\* that root could map by address.
Holds(p, ts) ==
    /\ DOMAIN ts \subseteq p.used /\ DOMAIN ts \subseteq BootFrames \cup Managed
    /\ Mapped(ts) \subseteq p.used

\* q is p after at most n more allocations.
Grows(p, q, n) == p.used \subseteq q.used /\ Cardinality(q.used \ p.used) <= n

LEMMA AllocKeepsPool ==
    ASSUME NEW p, PoolOK(p)
    PROVE  /\ PoolOK(AfterAlloc(p))
           /\ Allocated(p) = OutOfMemory => Frames \subseteq p.used /\ AfterAlloc(p) = p
           /\ Allocated(p) # OutOfMemory =>
                 /\ Allocated(p) \in Frames \ p.used
                 /\ AfterAlloc(p).used = p.used \cup {Allocated(p)}
<1> USE DEF PoolOK
<1>1. OutOfMemory \in p.used
  BY FramesAssumption DEF Managed, OutOfMemory, Frames
<1>2. CASE Frames \subseteq p.used /\ Allocated(p) = OutOfMemory /\ AfterAlloc(p) = p
  BY <1>2
<1>3. CASE /\ Allocated(p) \in Frames \ p.used
           /\ AfterAlloc(p) = [used |-> p.used \cup {Allocated(p)},
                               free |-> p.free - 1, hint |-> Allocated(p) + 1]
  <2> DEFINE f == Allocated(p)
             q == AfterAlloc(p)
  <2>1. f \in Frames \ p.used /\ q = [used |-> p.used \cup {f}, free |-> p.free - 1, hint |-> f + 1]
    BY <1>3
  <2> HIDE DEF f, q
  <2>2. f + 1 \in 0 .. TotalFrames
    BY <2>1, FramesAssumption DEF Frames
  <2>3. q \in Pmm /\ q.used = p.used \cup {f} /\ q.free = p.free - 1
    BY <2>1, <2>2 DEF Pmm
  <2>4. Frames \ q.used = (Frames \ p.used) \ {f}
    BY <2>3
  <2>5. Cardinality((Frames \ p.used) \ {f}) = Cardinality(Frames \ p.used) - 1
    BY <2>1, FramesFinite, FS_RemoveElement
  <2>6. PoolOK(q)
    BY <2>3, <2>4, <2>5
  <2> QED
    BY <1>1, <2>1, <2>3, <2>6 DEF f, q
<1> QED
  BY <1>2, <1>3, AllocExact

LEMMA GrowsRefl == ASSUME NEW p PROVE Grows(p, p, 0)
<1>1. p.used \ p.used = {}
  OBVIOUS
<1> QED
  BY <1>1, FS_EmptySet DEF Grows

LEMMA GrowsSame ==
    ASSUME NEW p \in Pmm, NEW q \in Pmm, NEW n \in Nat, Grows(p, q, n)
    PROVE  Grows(p, q, n + 1)
<1>1. Cardinality(q.used \ p.used) \in Nat
  BY FramesFinite DEF Pmm
<1> QED
  BY <1>1 DEF Grows

LEMMA GrowsMore ==
    ASSUME NEW p \in Pmm, NEW q \in Pmm, NEW n \in Nat, Grows(p, q, n),
           NEW r, NEW f \in Frames \ q.used, r.used = q.used \cup {f}
    PROVE  Grows(p, r, n + 1)
<1> DEFINE old == q.used \ p.used
<1>1. IsFiniteSet(old) /\ Cardinality(old) \in Nat /\ Cardinality(old) <= n
  BY FramesFinite DEF Pmm, Grows
<1>2. r.used \ p.used = old \cup {f} /\ f \notin old /\ p.used \subseteq r.used
  BY DEF Grows
<1> HIDE DEF old
<1>3. Cardinality(old \cup {f}) = Cardinality(old) + 1
  BY <1>1, <1>2, FS_AddElement
<1>4. Cardinality(r.used \ p.used) = Cardinality(old) + 1
  BY <1>2, <1>3
<1>5. Cardinality(r.used \ p.used) <= n + 1
  BY <1>1, <1>4
<1> QED
  BY <1>2, <1>5 DEF Grows
-----------------------------------------------------------------------------
(* The walk of vmm_map() and vmm_unmap().  It builds at most a table per   *)
(* level, from free frames, and changes no translation.                    *)
WalkOK(p, ts, w, lev, n) ==
    /\ TreeOK(w.tables, lev)
    /\ PoolOK(w.pmm)
    /\ Holds(w.pmm, w.tables)
    /\ Grows(p, w.pmm, n)
    /\ Mapped(w.tables) \subseteq Mapped(ts)
    /\ DOMAIN w.tables \cap p.used \subseteq DOMAIN ts
    /\ \A va \in Pages : LeafOf(w.tables, va) = LeafOf(ts, va)

\* Walks that reached a table in ts reach it in new.
WalksKept(ts, new) ==
    \A va \in Pages :
        /\ \A u : Path1(ts, va) = Table(u) => Path1(new, va) = Table(u)
        /\ \A u : Path2(ts, va) = Table(u) => Path2(new, va) = Table(u)
        /\ \A u : Path3(ts, va) = Table(u) => Path3(new, va) = Table(u)

\* One level down from the table at a level above the last.
LEMMA NextTable ==
    ASSUME NEW p \in Pmm, NEW ts, NEW w, NEW lev, NEW n \in Nat, WalkOK(p, ts, w, lev, n),
           w = Walk(w.pmm, w.tables, w.at),
           w.at \in DOMAIN w.tables, lev[w.at] <= 3, NEW i \in Index, NEW create \in BOOLEAN,
           NEW x, x = next_table(w, i, create)
    PROVE  /\ \E l : WalkOK(p, ts, x, l, n + 1)
                     /\ (x.at # Nowhere => x.at \in DOMAIN x.tables /\ l[x.at] = lev[w.at] + 1)
           /\ WalksKept(w.tables, x.tables)
           /\ x = Walk(x.pmm, x.tables, x.at)
           /\ x.at # Nowhere => StepTo(x.tables, Table(w.at), i) = Table(x.at)
           /\ x.at = Nowhere =>
                 /\ w.at = Pd \/ ~create \/ (Frames \subseteq x.pmm.used)
                 /\ x.pmm = w.pmm
<1> DEFINE e == w.tables[w.at][i]
<1>0. DOMAIN w.tables \subseteq Frames /\ w.at \in DOMAIN w.tables
  BY DEF WalkOK, TreeOK, Typed
<1> USE DEF WalkOK
<1>1. w.at # Nowhere /\ e \in AnyEntry /\ e.kind # "page" /\ (e.kind = "large" => w.at = Pd)
  <2>1. w.at \in Nat
    <3>1. w.at \in Frames
      BY ONLY <1>0
    <3>2. Frames \subseteq Nat
      BY ONLY FramesAssumption DEF Frames
    <3> QED
      BY ONLY <3>1, <3>2
  <2> QED
    BY <2>1 DEF TreeOK, Typed, Levels, Nowhere
<1>2. CASE e.kind = "table"
  <2>1. x = Walk(w.pmm, w.tables, e.frame)
    BY <1>1, <1>2 DEF next_table
  <2>2. x.pmm = w.pmm /\ x.tables = w.tables /\ x.at = e.frame
    BY <2>1 DEF Walk
  <2>3. WalksKept(w.tables, x.tables)
    BY <2>2 DEF WalksKept
  <2>4. e.frame \in DOMAIN w.tables /\ lev[e.frame] = lev[w.at] + 1 /\ e.frame # Nowhere
    BY <1>2 DEF TreeOK, Levels, Typed, Frames, Nowhere
  <2>5. Grows(p, x.pmm, n + 1)
    BY <2>2, GrowsSame DEF PoolOK
  <2>6. WalkOK(p, ts, x, lev, n + 1)
    BY <2>2, <2>5
  <2>7. StepTo(x.tables, Table(w.at), i) = Table(x.at)
    BY <1>1, <1>2, <2>2, EntryFields, EntryKinds DEF StepTo
  <2>8. x = Walk(x.pmm, x.tables, x.at)
    BY <2>1, <2>2
  <2> QED
    BY <2>2, <2>3, <2>4, <2>6, <2>7, <2>8
<1>3. CASE e.kind = "absent" /\ create /\ Allocated(w.pmm) # OutOfMemory
  <2> DEFINE f == Allocated(w.pmm)
             l == [u \in DOMAIN w.tables \cup {f} |-> IF u = f THEN lev[w.at] + 1 ELSE lev[u]]
  <2>1. x = Grown(w, i) /\ e = Absent
    BY <1>1, <1>3, EntryKinds DEF next_table
  <2>2. /\ x = Walk(AfterAlloc(w.pmm), Linked(w.tables, w.at, i, f), f)
        /\ x.pmm = AfterAlloc(w.pmm) /\ x.tables = Linked(w.tables, w.at, i, f) /\ x.at = f
    BY <2>1 DEF Grown, Walk
  <2>3. /\ f \in Frames \ w.pmm.used /\ PoolOK(x.pmm) /\ x.pmm.used = w.pmm.used \cup {f}
    BY <1>3, <2>2, AllocKeepsPool
  <2> HIDE DEF f
  <2>4. f \in Frames \ (DOMAIN w.tables \cup Mapped(w.tables)) /\ f # Nowhere
    BY <2>3 DEF Holds, Nowhere, Frames
  <2>5. IsLinked(w.tables, x.tables, w.at, i, f)
    BY <2>2, <2>4, LinkedEntries DEF TreeOK
  <2>6. TreeOK(x.tables, l)
    BY <2>1, <2>2, <2>4, LinkKeepsTree
  <2>7. \A va \in Pages : LeafOf(x.tables, va) = LeafOf(w.tables, va)
    BY <2>1, <2>4, <2>5, LinkKeepsWalks
  <2>8. WalksKept(w.tables, x.tables)
    BY <2>1, <2>4, <2>5, LinkKeepsWalks DEF WalksKept
  <2>9. Mapped(x.tables) \subseteq Mapped(w.tables)
    <3> SUFFICES ASSUME NEW g \in Frames, NEW u \in DOMAIN x.tables, NEW j \in Index,
                        x.tables[u][j] = Page(g)
                 PROVE  g \in Mapped(w.tables)
      BY DEF Mapped
    <3>1. Page(g) # Absent /\ Page(g) # Table(f)
      BY EntryFields
    <3>2. u \in DOMAIN w.tables /\ w.tables[u][j] = Page(g)
      BY <2>5, <3>1 DEF IsLinked
    <3> QED
      BY <3>2 DEF Mapped
  <2>10. DOMAIN x.tables = DOMAIN w.tables \cup {f}
    BY <2>5 DEF IsLinked
  <2>11. Holds(x.pmm, x.tables)
    BY <2>3, <2>9, <2>10 DEF Holds, PoolOK
  <2>12. Grows(p, x.pmm, n + 1)
    BY <2>3, GrowsMore DEF PoolOK
  <2>13. DOMAIN x.tables \cap p.used \subseteq DOMAIN ts
    BY <2>3, <2>10 DEF Grows
  <2>14. WalkOK(p, ts, x, l, n + 1)
    BY <2>3, <2>6, <2>7, <2>9, <2>11, <2>12, <2>13
  <2>15. x.at \in DOMAIN x.tables /\ l[x.at] = lev[w.at] + 1
    BY <2>2, <2>10
  <2>16. StepTo(x.tables, Table(w.at), i) = Table(x.at)
    BY <2>2, <2>5, EntryFields DEF StepTo, IsLinked
  <2>17. x = Walk(x.pmm, x.tables, x.at)
    BY <2>2
  <2> HIDE DEF l
  <2> QED
    BY <2>2, <2>4, <2>8, <2>14, <2>15, <2>16, <2>17
<1>4. CASE ~(e.kind = "table") /\ ~(e.kind = "absent" /\ create /\ Allocated(w.pmm) # OutOfMemory)
  <2>1. x = Walk(w.pmm, w.tables, Nowhere)
    BY <1>1, <1>4 DEF next_table
  <2>2. x.pmm = w.pmm /\ x.tables = w.tables /\ x.at = Nowhere
    BY <2>1 DEF Walk
  <2>3. WalksKept(w.tables, x.tables)
    BY <2>2 DEF WalksKept
  <2>4. Grows(p, x.pmm, n + 1)
    BY <2>2, GrowsSame DEF PoolOK
  <2>5. WalkOK(p, ts, x, lev, n + 1)
    BY <2>2, <2>4
  <2>6. e.kind \in {"absent", "large"}
    BY <1>1, <1>4, EntryKinds
  <2>7. w.at = Pd \/ ~create \/ (Frames \subseteq x.pmm.used)
    BY <1>1, <1>4, <2>2, <2>6, AllocKeepsPool
  <2>8. x = Walk(x.pmm, x.tables, x.at)
    BY <2>1, <2>2
  <2> QED
    BY <2>2, <2>3, <2>5, <2>7, <2>8
<1> QED
  BY <1>2, <1>3, <1>4

LEMMA BootLevels ==
    ASSUME NEW ts, NEW lev, TreeOK(ts, lev)
    PROVE  lev[Pml4] = 1 /\ lev[Pdpt] = 2 /\ lev[Pd] = 3
<1> USE DEF TreeOK, Levels, KernelKept, BootFrames
<1>1. 0 \in Index
  BY PagingAssumption DEF Index
<1>2. lev[Pdpt] = 2
  BY <1>1, EntryFields
<1> QED
  BY <1>1, <1>2, EntryFields

\* The three levels above the last table.
LEMMA PageTableOK ==
    ASSUME NEW p \in Pmm, NEW lev, TreeOK(tables, lev), PoolOK(p), Holds(p, tables),
           NEW va \in Pages, NEW create \in BOOLEAN, NEW w, w = PageTable(p, va, create)
    PROVE  \E l :
              /\ WalkOK(p, tables, w, l, 3)
              /\ w.at # Nowhere =>
                    /\ w.at \in DOMAIN w.tables /\ l[w.at] = 4
                    /\ Path3(w.tables, va) = Table(w.at)
              /\ w.at = Nowhere =>
                    /\ va \in KernelPages \/ ~create \/ (Frames \subseteq w.pmm.used)
                    /\ Grows(p, w.pmm, 2)
<1> DEFINE w0 == Walk(p, tables, Pml4)
           w1 == next_table(w0, va[1], create)
           w2 == next_table(w1, va[2], create)
           w3 == next_table(w2, va[3], create)
           Shape(x) == x = Walk(x.pmm, x.tables, x.at)
           Failed(x) == ~create \/ (Frames \subseteq x.pmm.used)
           On(x, l, k) == x.at # Nowhere => x.at \in DOMAIN x.tables /\ l[x.at] = k
<1>1. va[1] \in Index /\ va[2] \in Index /\ va[3] \in Index /\ va[4] \in Index
  BY DEF Pages
<1>2. w = w3
  BY DEF PageTable
<1>3. Shape(w0) /\ w0.at = Pml4 /\ w0.tables = tables /\ w0.pmm = p /\ w0.at # Nowhere
  <2>1. Pml4 # Nowhere
    BY PagingAssumption DEF Nowhere
  <2> QED
    BY <2>1 DEF Walk
<1>4. WalkOK(p, tables, w0, lev, 0) /\ w0.at \in DOMAIN w0.tables /\ lev[w0.at] = 1
  BY <1>3, GrowsRefl, BootLevels DEF WalkOK, TreeOK, KernelKept, BootFrames
<1> HIDE DEF w0
<1>5. ASSUME NEW x, Shape(x), x.at = Nowhere, NEW i PROVE next_table(x, i, create) = x
  BY <1>5 DEF next_table
\* Level 1 to 2.
<1>6. PICK l1 : WalkOK(p, tables, w1, l1, 1) /\ On(w1, l1, 2)
  BY <1>1, <1>3, <1>4, NextTable
<1>7. /\ Shape(w1)
      /\ w1.at # Nowhere => Path1(w1.tables, va) = Table(w1.at)
      /\ w1.at = Nowhere => Failed(w1) /\ Grows(p, w1.pmm, 0)
  <2>1. w0.at # Pd
    BY <1>3, PagingAssumption
  <2>2. w0 = Walk(w0.pmm, w0.tables, w0.at) /\ lev[w0.at] <= 3 /\ 0 \in Nat /\ w1 = next_table(w0, va[1], create)
    BY <1>3, <1>4
  <2> HIDE DEF w1
  <2>3. /\ w1 = Walk(w1.pmm, w1.tables, w1.at)
        /\ w1.at # Nowhere => StepTo(w1.tables, Table(w0.at), va[1]) = Table(w1.at)
        /\ w1.at = Nowhere => (w0.at = Pd \/ ~create \/ (Frames \subseteq w1.pmm.used)) /\ w1.pmm = w0.pmm
    BY <1>1, <1>4, <2>2, NextTable
  <2>4. Path1(w1.tables, va) = StepTo(w1.tables, Table(w0.at), va[1])
    BY <1>3 DEF Path1
  <2>5. Grows(p, w0.pmm, 0)
    BY <1>4 DEF WalkOK
  <2> QED
    BY <2>1, <2>3, <2>4, <2>5
<1> HIDE DEF w1
\* Level 2 to 3.
<1>8. \E l : WalkOK(p, tables, w2, l, 2) /\ On(w2, l, 3)
  <2>1. CASE w1.at = Nowhere
    <3>1. w2 = w1
      BY <1>5, <1>7, <2>1
    <3>2. WalkOK(p, tables, w2, l1, 2)
      BY <1>6, <3>1, GrowsSame DEF WalkOK, PoolOK
    <3> QED
      BY <2>1, <3>1, <3>2
  <2>2. CASE w1.at # Nowhere
    BY <1>1, <1>6, <1>7, <2>2, NextTable
  <2> QED
    BY <2>1, <2>2
<1>9. PICK l2 : WalkOK(p, tables, w2, l2, 2) /\ On(w2, l2, 3)
  BY <1>8
<1>10. /\ Shape(w2)
       /\ w2.at # Nowhere => Path2(w2.tables, va) = Table(w2.at)
       /\ w2.at = Nowhere => Failed(w2) /\ Grows(p, w2.pmm, 1)
  <2>1. CASE w1.at = Nowhere
    <3>1. w2 = w1
      BY <1>5, <1>7, <2>1
    <3> QED
      BY <1>6, <1>7, <2>1, <3>1, GrowsSame DEF WalkOK, PoolOK
  <2>2. CASE w1.at # Nowhere
    <3>1. w1.at # Pd
      BY <1>6, <2>2, BootLevels DEF WalkOK
    <3>2. /\ WalksKept(w1.tables, w2.tables) /\ Shape(w2)
          /\ w2.at # Nowhere => StepTo(w2.tables, Table(w1.at), va[2]) = Table(w2.at)
          /\ w2.at = Nowhere => Failed(w2) /\ w2.pmm = w1.pmm
      BY <1>1, <1>6, <1>7, <2>2, <3>1, NextTable
    <3>3. Path1(w2.tables, va) = Table(w1.at)
      BY <1>7, <2>2, <3>2 DEF WalksKept
    <3> QED
      BY <1>6, <3>2, <3>3 DEF Path2, WalkOK
  <2> QED
    BY <2>1, <2>2
<1> HIDE DEF w2
\* Level 3 to 4.
<1>11. \E l : WalkOK(p, tables, w3, l, 3) /\ On(w3, l, 4)
  <2>1. CASE w2.at = Nowhere
    <3>1. w3 = w2
      BY <1>5, <1>10, <2>1
    <3>2. WalkOK(p, tables, w3, l2, 3)
      BY <1>9, <3>1, GrowsSame DEF WalkOK, PoolOK
    <3> QED
      BY <2>1, <3>1, <3>2
  <2>2. CASE w2.at # Nowhere
    BY <1>1, <1>9, <1>10, <2>2, NextTable
  <2> QED
    BY <2>1, <2>2
<1>12. /\ w3.at # Nowhere => Path3(w3.tables, va) = Table(w3.at)
       /\ w3.at = Nowhere => (va \in KernelPages \/ Failed(w3)) /\ Grows(p, w3.pmm, 2)
  <2>1. CASE w2.at = Nowhere
    <3>1. w3 = w2
      BY <1>5, <1>10, <2>1
    <3> QED
      BY <1>9, <1>10, <2>1, <3>1, GrowsSame DEF WalkOK, PoolOK
  <2>2. CASE w2.at # Nowhere
    <3>1. w2.at = Pd => va \in KernelPages
      BY <1>9, <1>10, <2>2, KernelWalk DEF WalkOK
    <3>2. /\ WalksKept(w2.tables, w3.tables)
          /\ w3.at # Nowhere => StepTo(w3.tables, Table(w2.at), va[3]) = Table(w3.at)
          /\ w3.at = Nowhere => (w2.at = Pd \/ Failed(w3)) /\ w3.pmm = w2.pmm
      BY <1>1, <1>9, <1>10, <2>2, NextTable
    <3>3. Path2(w3.tables, va) = Table(w2.at)
      BY <1>10, <2>2, <3>2 DEF WalksKept
    <3> QED
      BY <1>9, <3>1, <3>2, <3>3 DEF Path3, WalkOK
  <2> QED
    BY <2>1, <2>2
<1> HIDE DEF w3
<1> QED
  BY <1>2, <1>11, <1>12

LEMMA LookUp ==
    ASSUME NEW va \in Pages, NEW w, w = PageTable(pmm, va, FALSE)
    PROVE  w.pmm = pmm /\ w.tables = tables
<1>1. ASSUME NEW x, x.pmm = pmm, x.tables = tables, NEW i, NEW y, y = next_table(x, i, FALSE)
      PROVE  y.pmm = pmm /\ y.tables = tables
  BY <1>1 DEF next_table, Walk
<1> DEFINE w0 == Walk(pmm, tables, Pml4)
           w1 == next_table(w0, va[1], FALSE)
           w2 == next_table(w1, va[2], FALSE)
           w3 == next_table(w2, va[3], FALSE)
<1>2. w = w3
  BY DEF PageTable
<1>3. w0.pmm = pmm /\ w0.tables = tables
  BY DEF Walk
<1> HIDE DEF w0
<1>4. w1.pmm = pmm /\ w1.tables = tables
  BY <1>1, <1>3
<1> HIDE DEF w1
<1>5. w2.pmm = pmm /\ w2.tables = tables
  BY <1>1, <1>4
<1> HIDE DEF w2
<1>6. w3.pmm = pmm /\ w3.tables = tables
  BY <1>1, <1>5
<1> QED
  BY <1>2, <1>6

LEMMA SetMaps ==
    ASSUME NEW ts, NEW t \in DOMAIN ts, NEW i \in Index, NEW e, NEW new, IsSet(ts, new, t, i, e)
    PROVE  \A g \in Mapped(new) : g \in Mapped(ts) \/ e = Page(g)
BY DEF Mapped, IsSet

-----------------------------------------------------------------------------
(* vmm_map(): p is the allocator as the caller leaves it, f the frame.     *)
LEMMA MapOK ==
    ASSUME NEW lev, TreeOK(tables, lev), NEW p, PoolOK(p), Holds(p, tables),
           NEW va \in Pages, NEW f \in Frames \cap p.used, f \notin DOMAIN tables,
           f \notin Devices \cup {OutOfMemory} => f \notin Mapped(tables),
           NEW ok \in BOOLEAN, vmm_map(p, va, f, ok)
    PROVE  /\ \E l : TreeOK(tables', l)
           /\ PoolOK(pmm') /\ Holds(pmm', tables') /\ Grows(p, pmm', 3)
           /\ ok => /\ va \notin KernelPages
                    /\ LeafOf(tables', va) = Page(f)
                    /\ \A vb \in Pages \ {va} : LeafOf(tables', vb) = LeafOf(tables, vb)
                    /\ tlb' = Flushed(va)
           /\ ~ok => /\ va \in KernelPages \/ (Frames \subseteq pmm'.used)
                     /\ Grows(p, pmm', 2)
                     /\ \A vb \in Pages : LeafOf(tables', vb) = LeafOf(tables, vb)
                     /\ tlb' = tlb
<1> DEFINE w == PageTable(p, va, TRUE)
<1>1. /\ ok <=> w.at # Nowhere
      /\ pmm' = w.pmm
      /\ tables' = IF ok THEN WithEntry(w.tables, w.at, va[4], Page(f)) ELSE w.tables
      /\ tlb' = IF ok THEN Flushed(va) ELSE tlb
  BY DEF vmm_map
<1>2. PICK l : /\ WalkOK(p, tables, w, l, 3)
               /\ w.at # Nowhere =>
                     /\ w.at \in DOMAIN w.tables /\ l[w.at] = 4
                     /\ Path3(w.tables, va) = Table(w.at)
               /\ w.at = Nowhere =>
                     /\ va \in KernelPages \/ (Frames \subseteq w.pmm.used)
                     /\ Grows(p, w.pmm, 2)
  BY PageTableOK DEF PoolOK
<1> HIDE DEF w
<1> USE DEF WalkOK
<1>3. CASE ~ok
  BY <1>1, <1>2, <1>3
<1>4. CASE ok
  <2>1. w.at \in DOMAIN w.tables /\ l[w.at] = 4 /\ Path3(w.tables, va) = Table(w.at)
    BY <1>1, <1>2, <1>4
  <2>2. va[4] \in Index
    BY DEF Pages
  <2>3. IsSet(w.tables, tables', w.at, va[4], Page(f))
    BY <1>1, <1>2, <1>4, <2>1, <2>2, SetEntries DEF TreeOK
  <2>4. f \notin DOMAIN w.tables
    BY <1>2
  <2>5. Owned(Page(f)) => \A u \in DOMAIN w.tables, j \in Index : w.tables[u][j] # Page(f)
    BY <1>2, EntryFields DEF Owned, Mapped
  <2>6. TreeOK(tables', l)
    BY <1>2, <2>1, <2>2, <2>3, <2>4, <2>5, SetKeepsTree, EntryFields, EntryTypes
  <2>7. Holds(pmm', tables')
    <3>1. \A g \in Mapped(tables') : g \in Mapped(w.tables) \/ g = f
      BY <2>1, <2>2, <2>3, SetMaps, EntryFields
    <3> QED
      BY <1>1, <1>2, <2>3, <3>1 DEF Holds, IsSet, Grows
  <2>8. /\ LeafOf(tables', va) = Page(f)
        /\ \A vb \in Pages \ {va} : LeafOf(tables', vb) = LeafOf(w.tables, vb)
    BY <1>2, <2>1, <2>3, SetLeaf, EntryFields
  <2>9. va \notin KernelPages
    BY <1>2, <2>1, KernelWalk, EntryFields
  <2> QED
    BY <1>1, <1>2, <1>4, <2>6, <2>7, <2>8, <2>9
<1> QED
  BY <1>3, <1>4

LEMMA UnmapOK ==
    ASSUME NEW lev, TreeOK(tables, lev), PoolOK(pmm), Holds(pmm, tables),
           NEW va \in Pages, vmm_unmap(va), UNCHANGED pmm
    PROVE  /\ \E l : TreeOK(tables', l)
           /\ Holds(pmm', tables')
           /\ va \notin KernelPages
           /\ LeafOf(tables', va) = Absent
           /\ \A vb \in Pages \ {va} : LeafOf(tables', vb) = LeafOf(tables, vb)
<1> DEFINE w == PageTable(pmm, va, FALSE)
<1>1. /\ w.at # Nowhere
      /\ tables' = WithEntry(tables, w.at, va[4], Absent)
  BY DEF vmm_unmap
<1>2. w.pmm = pmm /\ w.tables = tables
  BY LookUp
<1>3. PICK l : /\ WalkOK(pmm, tables, w, l, 3)
               /\ w.at \in DOMAIN w.tables /\ l[w.at] = 4
               /\ Path3(w.tables, va) = Table(w.at)
  BY <1>1, PageTableOK DEF PoolOK
<1> HIDE DEF w
<1>4. TreeOK(tables, l) /\ w.at \in DOMAIN tables /\ Path3(tables, va) = Table(w.at)
  BY <1>2, <1>3 DEF WalkOK
<1>5. va[4] \in Index
  BY DEF Pages
<1>6. IsSet(tables, tables', w.at, va[4], Absent)
  BY <1>1, <1>4, <1>5, SetEntries DEF TreeOK
<1>7. TreeOK(tables', l)
  BY <1>3, <1>4, <1>5, <1>6, SetKeepsTree, EntryFields, EntryTypes DEF Owned
<1>8. Holds(pmm', tables')
  <2>1. \A g \in Mapped(tables') : g \in Mapped(tables)
    BY <1>4, <1>5, <1>6, SetMaps, EntryFields
  <2> QED
    BY <1>6, <2>1 DEF Holds, IsSet
<1>9. /\ LeafOf(tables', va) = Absent
      /\ \A vb \in Pages \ {va} : LeafOf(tables', vb) = LeafOf(tables, vb)
  BY <1>3, <1>4, <1>6, SetLeaf, EntryFields
<1>10. va \notin KernelPages
  BY <1>4, KernelWalk, EntryFields
<1> QED
  BY <1>7, <1>8, <1>9, <1>10
-----------------------------------------------------------------------------
(* The inductive invariant.  TablesPrivate alone is not inductive: that a  *)
(* new table disturbs no other needs the levels, and that it is nobody's   *)
(* page needs every page in a used frame.                                  *)
TreeInv ==
    /\ \E lev : TreeOK(tables, lev)
    /\ IF phase = "up" THEN Holds(pmm, tables) ELSE tables = BootTables

TlbInv == tlb \in [Pages -> Frames \cup {Unmapped}] /\ TlbCoherent

CallerInv ==
    /\ todo \in Seq(Pages \ KernelPages)
    /\ panicked \in BOOLEAN
    /\ answer \in {"none", "ok", "failed"}

PagingInv == FInv /\ TreeInv /\ TlbInv /\ CallerInv

LEMMA TranslateFollows ==
    \A va : LeafOf(tables', va) = LeafOf(tables, va) => Translate(va)' = Translate(va)
BY LeafIs DEF Translate

LEMMA TranslatePage ==
    \A va, f : /\ LeafOf(tables, va) = Page(f) => Translate(va) = f
               /\ LeafOf(tables', va) = Page(f) => Translate(va)' = f
               /\ LeafOf(tables', va) = Absent => Translate(va)' = Unmapped
BY LeafIs, EntryFields DEF Translate

LEMMA PoolIsOK == ASSUME FInv, phase = "up" PROVE PoolOK(pmm)
BY DEF FInv, FramesTypeOK, CountExact, Progress, PoolOK, Pmm

\* The allocator is up and only it has moved.
LEMMA PoolKeepsFInv ==
    ASSUME FInv, phase = "up", UNCHANGED <<initVars, got>>, PoolOK(pmm')
    PROVE  FInv'
<1> USE DEF FInv, PoolOK, initVars
<1>1. FramesTypeOK'
  BY DEF FramesTypeOK, Pmm
<1>2. CountExact'
  BY DEF CountExact
<1>3. Progress'
  BY DEF Progress
<1> QED
  BY <1>1, <1>2, <1>3

\* What a call of vmm_map() does to the translations.
MapEffect(va, f, ok) ==
    /\ ok => /\ va \notin KernelPages
             /\ Translate(va)' = f
             /\ \A vb \in Pages \ {va} : Translate(vb)' = Translate(vb)
    /\ ~ok => \A vb \in Pages : Translate(vb)' = Translate(vb)

LEMMA MapKeepsInv ==
    ASSUME PagingInv, phase = "up", UNCHANGED <<initVars, got>>,
           NEW p, PoolOK(p), Holds(p, tables),
           NEW va \in Pages, NEW f \in Frames \cap p.used, f \notin DOMAIN tables,
           f \notin Devices \cup {OutOfMemory} => f \notin Mapped(tables),
           NEW ok \in BOOLEAN, vmm_map(p, va, f, ok)
    PROVE  /\ FInv' /\ TreeInv' /\ TlbInv'
           /\ MapEffect(va, f, ok)
           /\ Grows(p, pmm', 3)
           /\ ~ok => (va \in KernelPages \/ (Frames \subseteq pmm'.used)) /\ Grows(p, pmm', 2)
<1> USE DEF PagingInv
<1>1. PICK lev : TreeOK(tables, lev)
  BY DEF TreeInv
<1>2. /\ \E l : TreeOK(tables', l)
      /\ PoolOK(pmm') /\ Holds(pmm', tables') /\ Grows(p, pmm', 3)
      /\ ok => /\ va \notin KernelPages
               /\ LeafOf(tables', va) = Page(f)
               /\ \A vb \in Pages \ {va} : LeafOf(tables', vb) = LeafOf(tables, vb)
               /\ tlb' = Flushed(va)
      /\ ~ok => /\ va \in KernelPages \/ (Frames \subseteq pmm'.used)
                /\ Grows(p, pmm', 2)
                /\ \A vb \in Pages : LeafOf(tables', vb) = LeafOf(tables, vb)
                /\ tlb' = tlb
  BY <1>1, MapOK
<1>3. FInv'
  BY <1>2, PoolKeepsFInv
<1>4. TreeInv'
  BY <1>2 DEF TreeInv, initVars
<1>5. MapEffect(va, f, ok)
  BY <1>2, TranslateFollows, TranslatePage DEF MapEffect
<1>6. TlbInv'
  <2>1. CASE ok
    BY <1>2, <1>5, <2>1 DEF TlbInv, TlbCoherent, MapEffect, Flushed
  <2>2. CASE ~ok
    BY <1>2, <1>5, <2>2 DEF TlbInv, TlbCoherent, MapEffect
  <2> QED
    BY <2>1, <2>2
<1> QED
  BY <1>2, <1>3, <1>4, <1>5, <1>6

\* The page's own frame counts too.
LEMMA GrowsFrom ==
    ASSUME NEW p \in Pmm, NEW q \in Pmm, NEW r \in Pmm, NEW n \in Nat,
           q.used = p.used \/ (\E f \in Frames \ p.used : q.used = p.used \cup {f}),
           Grows(q, r, n)
    PROVE  Grows(p, r, n + 1)
<1> DEFINE new == r.used \ q.used
<1>1. IsFiniteSet(new) /\ Cardinality(new) \in Nat /\ Cardinality(new) <= n
  BY FramesFinite DEF Pmm, Grows
<1>2. CASE q.used = p.used
  BY <1>1, <1>2 DEF Grows
<1>3. ASSUME NEW f \in Frames \ p.used, q.used = p.used \cup {f} PROVE Grows(p, r, n + 1)
  <2>1. r.used \ p.used = new \cup {f} /\ f \notin new /\ p.used \subseteq r.used
    BY <1>3 DEF Grows
  <2> HIDE DEF new
  <2>2. Cardinality(new \cup {f}) = Cardinality(new) + 1
    BY <1>1, <2>1, FS_AddElement
  <2>3. Cardinality(r.used \ p.used) = Cardinality(new) + 1
    BY <2>1, <2>2
  <2>4. Cardinality(r.used \ p.used) <= n + 1
    BY <1>1, <2>3
  <2> QED
    BY <2>1, <2>4 DEF Grows
<1> QED
  BY <1>2, <1>3

\* A fresh frame is mapped (map_zeroed(), SYS_MAP).
LEMMA MapFreshKeepsInv ==
    ASSUME PagingInv, phase = "up", UNCHANGED <<initVars, got>>,
           NEW va \in Pages, NEW ok \in BOOLEAN,
           vmm_map(AfterAlloc(pmm), va, Allocated(pmm), ok)
    PROVE  /\ FInv' /\ TreeInv' /\ TlbInv'
           /\ MapEffect(va, Allocated(pmm), ok)
           /\ Grows(pmm, pmm', 4)
           /\ Allocated(pmm) \in pmm'.used
           /\ Allocated(pmm) = OutOfMemory => (Frames \subseteq pmm.used)
           /\ Allocated(pmm) # OutOfMemory => Allocated(pmm) \in Frames \ pmm.used
           /\ ~ok /\ va \notin KernelPages => Frames \subseteq pmm'.used /\ Grows(pmm, pmm', 3)
<1> DEFINE p == AfterAlloc(pmm)
           f == Allocated(pmm)
<1>1. /\ PoolOK(pmm) /\ PoolOK(p) /\ Holds(pmm, tables)
      /\ f = OutOfMemory => Frames \subseteq pmm.used /\ p = pmm
      /\ f # OutOfMemory => f \in Frames \ pmm.used /\ p.used = pmm.used \cup {f}
  BY PoolIsOK, AllocKeepsPool DEF PagingInv, TreeInv
<1>2. vmm_map(p, va, f, ok)
  OBVIOUS
<1> HIDE DEF p, f
<1>3. /\ OutOfMemory \in Frames /\ OutOfMemory \notin DOMAIN tables
  <2>1. OutOfMemory \in Frames /\ OutOfMemory \notin Managed /\ OutOfMemory \notin BootFrames
    BY FramesAssumption, PagingAssumption DEF OutOfMemory, Frames, Managed, BootFrames
  <2> QED
    BY <1>1, <2>1 DEF Holds
<1>4. /\ f \in Frames \cap p.used /\ f \notin DOMAIN tables
      /\ f \notin Devices \cup {OutOfMemory} => f \notin Mapped(tables)
  BY <1>1, <1>3 DEF Holds
<1>5. Holds(p, tables)
  BY <1>1 DEF Holds
<1>6. /\ FInv' /\ TreeInv' /\ TlbInv'
      /\ MapEffect(va, f, ok)
      /\ Grows(p, pmm', 3)
      /\ ~ok => (va \in KernelPages \/ (Frames \subseteq pmm'.used)) /\ Grows(p, pmm', 2)
  BY <1>1, <1>2, <1>4, <1>5, MapKeepsInv
<1>7. pmm \in Pmm /\ p \in Pmm /\ pmm' \in Pmm
  BY <1>1, <1>6 DEF PoolOK, FInv, FramesTypeOK, Pmm
<1>8. p.used = pmm.used \/ (\E g \in Frames \ pmm.used : p.used = pmm.used \cup {g})
  BY <1>1
<1>9. Grows(pmm, pmm', 4) /\ (~ok => Grows(pmm, pmm', 3))
  BY <1>6, <1>7, <1>8, GrowsFrom
<1>10. f \in pmm'.used
  BY <1>4, <1>6 DEF Grows
<1> QED
  BY <1>1, <1>6, <1>9, <1>10 DEF f
-----------------------------------------------------------------------------
LEMMA BootTree ==
    /\ \E lev : TreeOK(BootTables, lev)
    /\ DOMAIN BootTables = BootFrames
    /\ Mapped(BootTables) = {}
    /\ \A va \in Pages : LeafOf(BootTables, va) = IF va \in KernelPages THEN Large ELSE Absent
<1> DEFINE ts == BootTables
           lev == [f \in BootFrames |-> CASE f = Pml4 -> 1 [] f = Pdpt -> 2 [] f = Pd -> 3]
<1>1. /\ DOMAIN ts = BootFrames
      /\ ts[Pml4] = Only(0, Table(Pdpt)) /\ ts[Pdpt] = Only(0, Table(Pd))
      /\ ts[Pd] = [j \in Index |-> Large]
  BY PagingAssumption DEF BootTables, BootFrames
<1>2. /\ DOMAIN lev = BootFrames /\ lev[Pml4] = 1 /\ lev[Pdpt] = 2 /\ lev[Pd] = 3
  BY PagingAssumption DEF BootFrames
<1> HIDE DEF ts, lev
<1>3. 0 \in Index /\ BootFrames \subseteq Frames
  BY PagingAssumption, FramesAssumption DEF Index, BootFrames, Frames
<1>4. /\ ts[Pml4][0] = Table(Pdpt) /\ \A j \in Index \ {0} : ts[Pml4][j] = Absent
      /\ ts[Pdpt][0] = Table(Pd) /\ \A j \in Index \ {0} : ts[Pdpt][j] = Absent
      /\ \A j \in Index : ts[Pd][j] = Large
  BY <1>1, <1>3 DEF Only
<1>5. Typed(ts)
  BY <1>1, <1>3, EntryTypes DEF Typed, Only, BootFrames, AnyEntry
<1>6. KernelKept(ts)
  BY <1>1, <1>4 DEF KernelKept
<1>7. Levels(ts, lev)
  <2>1. lev \in [DOMAIN ts -> 1 .. 4]
    BY <1>1, <1>2 DEF BootFrames, lev
  <2> QED
    BY <1>1, <1>2, <1>4, <2>1, EntryFields DEF Levels, BootFrames
<1>8. Single(ts)
  <2>1. /\ ~Owned(Absent) /\ ~Owned(Large)
        /\ Table(Pdpt) # Table(Pd)
    BY EntryFields, PagingAssumption DEF Owned
  <2> QED
    BY <1>1, <1>4, <2>1 DEF Single, BootFrames
<1>9. Mapped(ts) = {}
  BY <1>1, <1>4, EntryFields DEF Mapped, BootFrames
<1>10. ASSUME NEW va \in Pages
       PROVE  LeafOf(ts, va) = IF va \in KernelPages THEN Large ELSE Absent
  <2>1. va[1] \in Index /\ va[2] \in Index /\ va[3] \in Index /\ va[4] \in Index
    BY DEF Pages
  <2>2. va \in KernelPages <=> va[1] = 0 /\ va[2] = 0
    BY DEF KernelPages
  <2>3. /\ \A f, i : StepTo(ts, Table(f), i) = ts[f][i]
        /\ \A i : StepTo(ts, Absent, i) = Absent /\ StepTo(ts, Large, i) = Large
    BY EntryFields DEF StepTo
  <2>4. Path1(ts, va) = IF va[1] = 0 THEN Table(Pdpt) ELSE Absent
    BY <1>4, <2>1, <2>3 DEF Path1
  <2>5. Path2(ts, va) = IF va \in KernelPages THEN Table(Pd) ELSE Absent
    BY <1>4, <2>1, <2>2, <2>3, <2>4 DEF Path2
  <2>6. Path3(ts, va) = IF va \in KernelPages THEN Large ELSE Absent
    BY <1>4, <2>1, <2>3, <2>5 DEF Path3
  <2> QED
    BY <2>3, <2>6 DEF LeafOf
<1> QED
  BY <1>1, <1>5, <1>6, <1>7, <1>8, <1>9, <1>10 DEF TreeOK, ts

LEMMA PagingInitInv == MInit => PagingInv
<1> SUFFICES ASSUME MInit PROVE PagingInv
  OBVIOUS
<1>1. FInv
  BY FInitInv DEF MInit
<1>2. TreeInv
  BY BootTree DEF MInit, FInit, TreeInv
<1>3. TlbInv
  BY DEF MInit, TlbInv, TlbCoherent
<1>4. CallerInv
  BY PagingAssumption DEF MInit, CallerInv
<1> QED
  BY <1>1, <1>2, <1>3, <1>4 DEF PagingInv

LEMMA SameTables ==
    ASSUME UNCHANGED tables
    PROVE  \A va : Translate(va)' = Translate(va)
BY LeafIs DEF Translate

\* pmm_init() reserves the boot tables with the rest of the kernel image.
LEMMA InitKeepsInv == ASSUME PagingInv, pmm_init, UNCHANGED pagingVars PROVE PagingInv'
<1> USE DEF PagingInv
<1>1. FInv'
  BY FreeFrameInv, NextRegionInv, RegionsDoneInv, ReserveFrameInv, ReserveDoneOpens DEF pmm_init
<1>2. TreeInv'
  <2>1. phase # "up" /\ tables = BootTables /\ tables' = tables
    BY DEF TreeInv, pmm_init, FreeFrame, NextRegion, RegionsDone, ReserveFrame, ReserveDone,
           pagingVars
  <2>2. phase' = "up" => BootFrames \subseteq pmm'.used
    <3>1. BootFrames \subseteq Frames /\ \A f \in BootFrames : f < ReservedFrames
      BY PagingAssumption, FramesAssumption DEF BootFrames, Frames
    <3>2. phase' = "up" => Frames \ pmm'.used \subseteq Managed
      BY <1>1 DEF FInv, Progress
    <3>3. \A f \in Managed : f >= ReservedFrames /\ f \in Nat
      BY DEF Managed, Frames
    <3> QED
      BY <3>1, <3>2, <3>3, FramesAssumption DEF Frames
  <2> QED
    BY <2>1, <2>2, BootTree DEF TreeInv, Holds
<1>3. TlbInv' /\ CallerInv'
  BY SameTables DEF TlbInv, CallerInv, pagingVars, TlbCoherent
<1> QED
  BY <1>1, <1>2, <1>3

LEMMA TodoPages ==
    ASSUME CallerInv, todo # << >>
    PROVE  Head(todo) \in Pages \ KernelPages /\ Tail(todo) \in Seq(Pages \ KernelPages)
BY DEF CallerInv

LEMMA DeviceFrames ==
    ASSUME NEW d \in DeviceMaps, FInv, phase = "up", Holds(pmm, tables)
    PROVE  /\ d[1] \in Pages /\ d[2] \in Devices
           /\ d[2] \in Frames \cap pmm.used /\ d[2] \notin DOMAIN tables
<1>1. d[1] \in Pages /\ d[2] \in (0 .. ReservedFrames - 1) \ BootFrames /\ d[2] \in Devices
  BY PagingAssumption DEF Devices, BootFrames
<1>2. d[2] \in Frames /\ d[2] \notin Managed
  BY <1>1, FramesAssumption DEF Frames, Managed
<1>3. Frames \ pmm.used \subseteq Managed
  BY DEF FInv, Progress
<1> QED
  BY <1>1, <1>2, <1>3 DEF Holds

LEMMA TouchKeepsTlb ==
    ASSUME PagingInv, NEW va \in Pages, Touch(va)
    PROVE  TlbInv'
<1>1. PICK lev : TreeOK(tables, lev)
  BY DEF PagingInv, TreeInv
<1>2. Leaf(va) = LeafOf(tables, va) /\ LeafOf(tables, va) \in AnyEntry /\ Leaf(va).kind = "page"
  BY <1>1, LeafIs, TablesBelow DEF Touch
<1>3. Translate(va) \in Frames
  BY <1>2, EntryFields DEF Translate, AnyEntry, Absent, Large
<1> QED
  BY <1>3, SameTables DEF PagingInv, TlbInv, TlbCoherent, Touch

LEMMA PagingStep == ASSUME PagingInv, [MNext]_memVars PROVE PagingInv'
<1> USE DEF PagingInv
<1>1. CASE UNCHANGED memVars
  BY <1>1, SameTables DEF memVars, frameVars, initVars, pagingVars, FInv, FramesTypeOK, CountExact,
     Progress, Visited, InRegion, TreeInv, TlbInv, TlbCoherent, CallerInv
<1>2. CASE pmm_init /\ UNCHANGED pagingVars
  BY <1>2, InitKeepsInv
<1>3. CASE MapZeroed
  <2>1. PICK ok \in BOOLEAN : /\ vmm_map(AfterAlloc(pmm), Head(todo), Allocated(pmm), ok)
                              /\ panicked' = ~ok
    BY <1>3 DEF MapZeroed
  <2>2. Head(todo) \in Pages /\ Tail(todo) \in Seq(Pages \ KernelPages)
    BY <1>3, TodoPages DEF MapZeroed
  <2>3. FInv' /\ TreeInv' /\ TlbInv'
    BY <1>3, <2>1, <2>2, MapFreshKeepsInv DEF MapZeroed
  <2> QED
    BY <1>3, <2>1, <2>2, <2>3 DEF MapZeroed, CallerInv
<1>4. ASSUME NEW va \in MapPages, SysMapRefused(va) PROVE PagingInv'
  BY <1>4, SameTables DEF SysMapRefused, frameVars, initVars, FInv, FramesTypeOK, CountExact,
     Progress, Visited, InRegion, TreeInv, TlbInv, TlbCoherent, CallerInv
<1>5. ASSUME NEW va \in MapPages, SysMap(va) PROVE PagingInv'
  <2>1. PICK ok \in BOOLEAN : /\ vmm_map(AfterAlloc(pmm), va, Allocated(pmm), ok)
                              /\ answer' = IF ok THEN "ok" ELSE "failed"
    BY <1>5 DEF SysMap
  <2>2. va \in Pages
    BY PagingAssumption
  <2>3. FInv' /\ TreeInv' /\ TlbInv'
    BY <1>5, <2>1, <2>2, MapFreshKeepsInv DEF SysMap, Running
  <2> QED
    BY <1>5, <2>1, <2>3 DEF SysMap, CallerInv
<1>6. ASSUME NEW d \in DeviceMaps, SysMapPhys(d[1], d[2]) PROVE PagingInv'
  <2>1. PICK ok \in BOOLEAN : /\ vmm_map(pmm, d[1], d[2], ok)
                              /\ answer' = IF ok THEN "ok" ELSE "failed"
    BY <1>6 DEF SysMapPhys
  <2>2. phase = "up" /\ Holds(pmm, tables) /\ PoolOK(pmm)
    BY <1>6, PoolIsOK DEF SysMapPhys, Running, TreeInv
  <2>3. FInv' /\ TreeInv' /\ TlbInv'
    BY <1>6, <2>1, <2>2, DeviceFrames, MapKeepsInv DEF SysMapPhys
  <2> QED
    BY <1>6, <2>1, <2>3 DEF SysMapPhys, CallerInv
<1>7. ASSUME NEW va \in Unmaps, Unmap(va) PROVE PagingInv'
  <2>1. va \in Pages /\ vmm_unmap(va) /\ phase = "up" /\ UNCHANGED frameVars
    BY <1>7, PagingAssumption DEF Unmap, Running
  <2>2. UNCHANGED pmm /\ UNCHANGED phase
    BY <2>1 DEF frameVars, initVars
  <2>3. PICK lev : TreeOK(tables, lev)
    BY DEF TreeInv
  <2>4. Holds(pmm, tables) /\ PoolOK(pmm)
    BY <2>1, PoolIsOK DEF TreeInv
  <2>5. /\ \E l : TreeOK(tables', l)
        /\ Holds(pmm', tables')
        /\ \A vb \in Pages \ {va} : LeafOf(tables', vb) = LeafOf(tables, vb)
    BY <2>1, <2>2, <2>3, <2>4, UnmapOK
  <2>6. FInv'
    BY <2>1 DEF frameVars, initVars, FInv, FramesTypeOK, CountExact, Progress, Visited, InRegion
  <2>7. TreeInv'
    BY <2>1, <2>2, <2>5 DEF TreeInv
  <2>8. TlbInv'
    BY <2>1, <2>5, TranslateFollows DEF TlbInv, TlbCoherent, vmm_unmap, Flushed
  <2> QED
    BY <1>7, <2>6, <2>7, <2>8 DEF Unmap, CallerInv
<1>8. ASSUME NEW va \in Pages, Touch(va) PROVE PagingInv'
  <2>1. TlbInv'
    BY <1>8, TouchKeepsTlb
  <2> QED
    BY <1>8, <2>1 DEF Touch, frameVars, initVars, FInv, FramesTypeOK, CountExact, Progress,
       Visited, InRegion, TreeInv, CallerInv
<1> QED
  BY <1>1, <1>2, <1>3, <1>4, <1>5, <1>6, <1>7, <1>8 DEF MNext

LEMMA PagingInvAlways == MSpec => []PagingInv
BY PagingInitInv, PagingStep, PTL DEF MSpec
-----------------------------------------------------------------------------
(* Results.                                                                *)

\* Every variable of the paging code stays in its range.
THEOREM PagingTypeCorrect == MSpec => []PagingTypeOK
<1>1. PagingInv => PagingTypeOK
  BY DEF PagingInv, FInv, TreeInv, TreeOK, Typed, TlbInv, CallerInv, PagingTypeOK
<1> QED
  BY <1>1, PagingInvAlways, PTL

\* free_frames stays the number of clear bits whatever next_table() allocates
\* on the way, also when it fails half-way.
THEOREM PagingCountExact == MSpec => []CountExact
<1>1. PagingInv => CountExact
  BY DEF PagingInv, FInv
<1> QED
  BY <1>1, PagingInvAlways, PTL

LEMMA SlotFacts ==
    \A s \in Slots : s[1] \in DOMAIN tables /\ s[2] \in Index /\ s = <<s[1], s[2]>>
BY DEF Slots

\* The page tables are a tree of frames in use, and none of them is a page of
\* a program: next_table() never links a table twice, and vmm_map() is never
\* given a table to map.
THEOREM PagingTablesPrivate == MSpec => []TablesPrivate
<1>1. PagingInv => TablesPrivate
  <2> SUFFICES ASSUME PagingInv PROVE TablesPrivate
    OBVIOUS
  <2>1. PICK lev : TreeOK(tables, lev)
    BY DEF PagingInv, TreeInv
  <2>2. phase = "up" => DOMAIN tables \subseteq pmm.used
    BY DEF PagingInv, TreeInv, Holds
  <2>3. \A s \in Slots : At(s).kind = "page" => At(s).frame \notin DOMAIN tables
    BY <2>1, SlotFacts DEF TreeOK, Levels, At
  <2>4. ASSUME NEW s \in Slots, NEW u \in Slots, At(s).kind = "table", At(s) = At(u)
        PROVE  s = u
    <3>1. s[1] = u[1] /\ s[2] = u[2]
      BY <2>1, <2>4, SlotFacts DEF TreeOK, Single, Owned, At
    <3> QED
      BY <3>1, SlotFacts
  <2> QED
    BY <2>2, <2>3, <2>4 DEF TablesPrivate
<1> QED
  BY <1>1, PagingInvAlways, PTL

\* A frame is mapped at one page: no two calls of vmm_map() are given the same
\* frame, devices and the loader's frame 0 excepted.
THEOREM PagingPagesPrivate == MSpec => []PagesPrivate
<1>1. PagingInv => PagesPrivate
  <2> SUFFICES ASSUME PagingInv, NEW s \in Slots, NEW u \in Slots, At(s).kind = "page",
                      At(s) = At(u), At(s).frame \notin Devices \cup {OutOfMemory}
               PROVE  s = u
    BY DEF PagesPrivate
  <2>1. PICK lev : TreeOK(tables, lev)
    BY DEF PagingInv, TreeInv
  <2>2. s[1] = u[1] /\ s[2] = u[2]
    BY <2>1, SlotFacts DEF TreeOK, Single, Owned, At
  <2> QED
    BY <2>2, SlotFacts
<1> QED
  BY <1>1, PagingInvAlways, PTL

\* The CPU never uses a translation that vmm_map() or vmm_unmap() replaced.
THEOREM PagingTlbCoherent == MSpec => []TlbCoherent
<1>1. PagingInv => TlbCoherent
  BY DEF PagingInv, TlbInv
<1> QED
  BY <1>1, PagingInvAlways, PTL

-----------------------------------------------------------------------------
(* The refinement: each operation is a step of the abstract memory or      *)
(* leaves it alone.                                                        *)
Space == [va \in Pages |-> Translate(va)]
PoolOf == IF phase = "up" THEN Frames \ pmm.used ELSE {}

LEMMA SpaceSame == ASSUME \A va \in Pages : Translate(va)' = Translate(va) PROVE UNCHANGED Space
BY DEF Space

LEMMA SpaceSet ==
    ASSUME NEW va \in Pages, NEW f, Translate(va)' = f,
           \A vb \in Pages \ {va} : Translate(vb)' = Translate(vb)
    PROVE  Space' = [Space EXCEPT ![va] = f]
BY DEF Space

LEMMA PoolTakes ==
    ASSUME PagingInv, phase = "up", UNCHANGED phase, NEW n \in Nat, Grows(pmm, pmm', n),
           pmm' \in Pmm
    PROVE  /\ PoolOf = Frames \ pmm.used /\ PoolOf' = Frames \ pmm'.used
           /\ PoolOf' \subseteq PoolOf
           /\ Cardinality(PoolOf \ PoolOf') <= n
<1>1. pmm \in Pmm
  BY DEF PagingInv, FInv, FramesTypeOK, Pmm
<1>2. /\ PoolOf = Frames \ pmm.used /\ PoolOf' = Frames \ pmm'.used
      /\ PoolOf' \subseteq PoolOf
  BY DEF PoolOf, Grows
<1>3. PoolOf \ PoolOf' = pmm'.used \ pmm.used
  BY <1>1, <1>2 DEF Pmm
<1> QED
  BY <1>2, <1>3 DEF Grows

\* Where all frames are in use in the end, few were free before.
LEMMA FewLeft ==
    ASSUME PagingInv, phase = "up", UNCHANGED phase, NEW n \in Nat, Grows(pmm, pmm', n),
           pmm' \in Pmm, Frames \subseteq pmm'.used
    PROVE  Cardinality(PoolOf) <= n
<1>1. PoolOf' = {} /\ Cardinality(PoolOf \ PoolOf') <= n
  BY PoolTakes
<1>2. PoolOf \ PoolOf' = PoolOf
  BY <1>1
<1> QED
  BY <1>1, <1>2

LEMMA MemoryNames ==
    /\ Memory!Init <=> /\ (phase = "up") = FALSE
                       /\ Space = [va \in Pages |->
                              IF va \in KernelPages THEN Identity ELSE Unmapped]
                       /\ PoolOf = {}
    /\ \A n : Memory!Takes(n) <=>
          PoolOf' \subseteq PoolOf /\ Cardinality(PoolOf \ PoolOf') <= n
    /\ \A va, f : Memory!SetPage(va, f) <=>
          va \notin KernelPages /\ Space' = [Space EXCEPT ![va] = f]
    /\ (UNCHANGED Memory!spaceVars) <=>
          (phase = "up")' = (phase = "up") /\ Space' = Space /\ PoolOf' = PoolOf
BY DEF Memory!Init, Memory!Takes, Memory!SetPage, Memory!spaceVars, Space, PoolOf,
       Memory!Identity, Memory!Unmapped, Identity, Unmapped, Memory!Cardinality, Cardinality

\* An operation that leaves the allocator and the translations alone.
LEMMA Stutters ==
    ASSUME UNCHANGED <<phase, pmm>>, \A va \in Pages : Translate(va)' = Translate(va)
    PROVE  UNCHANGED Memory!spaceVars
<1>1. UNCHANGED Space /\ UNCHANGED PoolOf
  BY SpaceSame DEF PoolOf
<1> QED
  BY <1>1, MemoryNames

\* A fresh frame is placed at va, or nothing is.
LEMMA MapFreshImplements ==
    ASSUME PagingInv, phase = "up", UNCHANGED <<initVars, got>>,
           NEW va \in Pages, NEW ok \in BOOLEAN,
           vmm_map(AfterAlloc(pmm), va, Allocated(pmm), ok)
    PROVE  Memory!Fresh(va) \/ Memory!PlaceZero(va) \/ Memory!Fail(va)
<1> DEFINE f == Allocated(pmm)
<1>1. /\ FInv'
      /\ MapEffect(va, f, ok)
      /\ Grows(pmm, pmm', 4)
      /\ f \in pmm'.used
      /\ f = OutOfMemory => (Frames \subseteq pmm.used)
      /\ f # OutOfMemory => f \in Frames \ pmm.used
      /\ ~ok /\ va \notin KernelPages => Frames \subseteq pmm'.used /\ Grows(pmm, pmm', 3)
  BY MapFreshKeepsInv
<1> HIDE DEF f
<1>2. UNCHANGED phase /\ pmm' \in Pmm
  BY <1>1 DEF initVars, FInv, FramesTypeOK, Pmm
<1>3. /\ PoolOf = Frames \ pmm.used /\ PoolOf' = Frames \ pmm'.used
      /\ PoolOf' \subseteq PoolOf /\ Cardinality(PoolOf \ PoolOf') <= 4
  BY <1>1, <1>2, PoolTakes
<1>4. (phase = "up")' = (phase = "up") /\ Memory!Takes(4)
  BY <1>2, <1>3, MemoryNames
<1>5. CASE ok
  <2>1. Memory!SetPage(va, f)
    BY <1>1, <1>5, SpaceSet, MemoryNames DEF MapEffect
  <2>2. CASE f # OutOfMemory
    BY <1>1, <1>3, <1>4, <2>1, <2>2 DEF Memory!Fresh, Memory!Enough
  <2>3. CASE f = OutOfMemory
    <3>1. PoolOf = {} /\ PoolOf' = {}
      BY <1>1, <1>3, <2>3
    <3>2. Cardinality(PoolOf \ PoolOf') <= 3
      BY <3>1, FS_EmptySet
    <3>3. Memory!Takes(3)
      BY <1>3, <3>2, MemoryNames
    <3>4. Memory!SetPage(va, 0)
      BY <2>1, <2>3 DEF OutOfMemory
    <3>5. Memory!Place(va, 0)
      BY <1>4, <3>3, <3>4 DEF Memory!Place, Memory!Enough
    <3> QED
      BY <3>1, <3>5 DEF Memory!PlaceZero, Memory!Zero, PoolOf
  <2> QED
    BY <2>2, <2>3
<1>6. CASE ~ok
  <2>1. UNCHANGED Space
    BY <1>1, <1>6, SpaceSame DEF MapEffect
  <2>2. va \notin KernelPages => Cardinality(PoolOf) < 4
    <3> SUFFICES ASSUME va \notin KernelPages PROVE Cardinality(PoolOf) < 4
      OBVIOUS
    <3>1. Cardinality(PoolOf) <= 3
      BY <1>1, <1>2, <1>6, FewLeft
    <3>2. Cardinality(PoolOf) \in Nat
      BY <1>3, FramesFinite
    <3> QED
      BY <3>1, <3>2
  <2> QED
    BY <1>4, <2>1, <2>2, MemoryNames DEF Memory!Fail, Memory!Enough, Space, PoolOf,
       Memory!Cardinality, Cardinality
<1> QED
  BY <1>5, <1>6

\* SYS_MAP_PHYS places the frame it is given, or nothing.
LEMMA SysMapPhysImplements ==
    ASSUME PagingInv, NEW d \in DeviceMaps, SysMapPhys(d[1], d[2])
    PROVE  Memory!Place(d[1], d[2]) \/ Memory!Fail(d[1])
<1> DEFINE va == d[1]
           f  == d[2]
<1>1. PICK ok \in BOOLEAN : vmm_map(pmm, va, f, ok)
  BY DEF SysMapPhys
<1>2. phase = "up" /\ Holds(pmm, tables) /\ PoolOK(pmm) /\ UNCHANGED <<initVars, got>>
  BY PoolIsOK DEF SysMapPhys, Running, PagingInv, TreeInv
<1>3. va \in Pages /\ f \in Devices /\ f \in Frames \cap pmm.used /\ f \notin DOMAIN tables
  BY <1>2, DeviceFrames DEF PagingInv
<1> HIDE DEF va, f
<1>4. /\ FInv'
      /\ MapEffect(va, f, ok)
      /\ Grows(pmm, pmm', 3)
      /\ ~ok => (va \in KernelPages \/ (Frames \subseteq pmm'.used)) /\ Grows(pmm, pmm', 2)
  BY <1>1, <1>2, <1>3, MapKeepsInv
<1>5. UNCHANGED phase /\ pmm' \in Pmm
  BY <1>2, <1>4 DEF initVars, FInv, FramesTypeOK, Pmm
<1>6. /\ PoolOf = Frames \ pmm.used /\ PoolOf' = Frames \ pmm'.used
      /\ PoolOf' \subseteq PoolOf /\ Cardinality(PoolOf \ PoolOf') <= 3
  BY <1>2, <1>4, <1>5, PoolTakes
<1>7. Cardinality(PoolOf \ PoolOf') <= 4
  BY <1>6, FramesFinite
<1>8. (phase = "up")' = (phase = "up") /\ Memory!Takes(3) /\ Memory!Takes(4)
  BY <1>5, <1>6, <1>7, MemoryNames
<1>9. CASE ok
  <2>1. Memory!SetPage(va, f)
    BY <1>3, <1>4, <1>9, SpaceSet, MemoryNames DEF MapEffect
  <2> QED
    BY <1>2, <1>8, <2>1 DEF Memory!Place, Memory!Enough, va, f
<1>10. CASE ~ok
  <2>1. UNCHANGED Space
    BY <1>4, <1>10, SpaceSame DEF MapEffect
  <2>2. va \notin KernelPages => Cardinality(PoolOf) < 4
    <3> SUFFICES ASSUME va \notin KernelPages PROVE Cardinality(PoolOf) < 4
      OBVIOUS
    <3>1. Cardinality(PoolOf) <= 2
      BY <1>2, <1>4, <1>5, <1>10, FewLeft
    <3>2. Cardinality(PoolOf) \in Nat
      BY <1>6, FramesFinite
    <3> QED
      BY <3>1, <3>2
  <2> QED
    BY <1>2, <1>8, <2>1, <2>2, MemoryNames DEF Memory!Fail, Memory!Enough, Space, PoolOf, va,
       Memory!Cardinality, Cardinality
<1> QED
  BY <1>9, <1>10

LEMMA UnmapImplements ==
    ASSUME PagingInv, NEW va \in Unmaps, Unmap(va)
    PROVE  Memory!Remove(va)
<1>1. /\ va \in Pages /\ vmm_unmap(va) /\ phase = "up" /\ UNCHANGED <<phase, pmm>>
  BY PagingAssumption DEF Unmap, Running, frameVars, initVars
<1>2. PICK lev : TreeOK(tables, lev)
  BY DEF PagingInv, TreeInv
<1>3. Holds(pmm, tables) /\ PoolOK(pmm)
  BY <1>1, PoolIsOK DEF PagingInv, TreeInv
<1>4. /\ va \notin KernelPages
      /\ LeafOf(tables', va) = Absent
      /\ \A vb \in Pages \ {va} : LeafOf(tables', vb) = LeafOf(tables, vb)
  BY <1>1, <1>2, <1>3, UnmapOK
<1>5. Memory!SetPage(va, Unmapped)
  BY <1>1, <1>4, TranslateFollows, TranslatePage, SpaceSet, MemoryNames
<1>6. UNCHANGED PoolOf
  BY <1>1 DEF PoolOf
<1> QED
  BY <1>1, <1>5, <1>6 DEF Memory!Remove, Memory!Unmapped, Unmapped, PoolOf

\* vmm_map(), vmm_unmap() and the calls above them implement the abstract
\* memory for every memory size and every program: a call changes the
\* translation of its own page only, a fresh page gets a frame nobody has, and
\* a call fails only when fewer than four frames are left or to keep the
\* kernel's mapping.
THEOREM PagingImplementsMemory == MSpec => ImplementsAddressSpace
<1>1. MInit => Memory!Init
  <2> SUFFICES ASSUME MInit PROVE Memory!Init
    OBVIOUS
  <2>1. phase = "free" /\ tables = BootTables
    BY DEF MInit, FInit
  <2>2. \A va \in Pages : Translate(va) = IF va \in KernelPages THEN Identity ELSE Unmapped
    BY <2>1, BootTree, LeafIs, EntryFields DEF Translate
  <2>3. Space = [va \in Pages |-> IF va \in KernelPages THEN Identity ELSE Unmapped]
    BY <2>2 DEF Space
  <2>4. PoolOf = {}
    BY <2>1 DEF PoolOf
  <2> QED
    BY <2>1, <2>3, <2>4, MemoryNames
<1>2. PagingInv /\ [MNext]_memVars => [Memory!Next]_Memory!spaceVars
  <2> SUFFICES ASSUME PagingInv, [MNext]_memVars PROVE [Memory!Next]_Memory!spaceVars
    OBVIOUS
  <2>1. CASE UNCHANGED memVars
    BY <2>1, SameTables, Stutters DEF memVars, frameVars, initVars, pagingVars
  <2>2. CASE pmm_init /\ UNCHANGED pagingVars
    <3>1. UNCHANGED Space
      BY <2>2, SameTables, SpaceSame DEF pagingVars
    <3>2. CASE ReserveDone
      <4>1. phase # "up" /\ phase' = "up" /\ Frames \ pmm'.used = Managed
        BY <3>2, ReserveDoneOpens DEF PagingInv, ReserveDone
      <4>2. Memory!Open
        BY <3>1, <4>1 DEF Memory!Open, Space
      <4> QED
        BY <4>2 DEF Memory!Next
    <3>3. CASE FreeFrame \/ NextRegion \/ RegionsDone \/ ReserveFrame
      <4>1. phase # "up" /\ phase' # "up"
        BY <3>3 DEF FreeFrame, NextRegion, RegionsDone, ReserveFrame
      <4>2. UNCHANGED PoolOf
        BY <4>1 DEF PoolOf
      <4> QED
        BY <3>1, <4>1, <4>2, MemoryNames
    <3> QED
      BY <2>2, <3>2, <3>3 DEF pmm_init
  <2>3. CASE MapZeroed
    <3>1. Head(todo) \in Pages /\ phase = "up" /\ UNCHANGED <<initVars, got>>
      BY <2>3, TodoPages DEF MapZeroed, PagingInv
    <3>2. PICK ok \in BOOLEAN : vmm_map(AfterAlloc(pmm), Head(todo), Allocated(pmm), ok)
      BY <2>3 DEF MapZeroed
    <3> QED
      BY <3>1, <3>2, MapFreshImplements DEF Memory!Next
  <2>4. ASSUME NEW va \in MapPages, SysMapRefused(va) PROVE UNCHANGED Memory!spaceVars
    BY <2>4, SameTables, Stutters DEF SysMapRefused, frameVars, initVars
  <2>5. ASSUME NEW va \in MapPages, SysMap(va) PROVE Memory!Next
    <3>1. va \in Pages /\ phase = "up" /\ UNCHANGED <<initVars, got>>
      BY <2>5, PagingAssumption DEF SysMap, Running
    <3>2. PICK ok \in BOOLEAN : vmm_map(AfterAlloc(pmm), va, Allocated(pmm), ok)
      BY <2>5 DEF SysMap
    <3> QED
      BY <3>1, <3>2, MapFreshImplements DEF Memory!Next
  <2>6. ASSUME NEW d \in DeviceMaps, SysMapPhys(d[1], d[2]) PROVE Memory!Next
    <3>1. d[1] \in Pages /\ d[2] \in Devices
      BY PagingAssumption DEF Devices
    <3> QED
      BY <2>6, <3>1, SysMapPhysImplements DEF Memory!Next
  <2>7. ASSUME NEW va \in Unmaps, Unmap(va) PROVE Memory!Next
    <3>1. va \in Pages
      BY PagingAssumption
    <3> QED
      BY <2>7, <3>1, UnmapImplements DEF Memory!Next
  <2>8. ASSUME NEW va \in Pages, Touch(va) PROVE UNCHANGED Memory!spaceVars
    BY <2>8, SameTables, Stutters DEF Touch, frameVars, initVars
  <2> QED
    BY <2>1, <2>2, <2>3, <2>4, <2>5, <2>6, <2>7, <2>8 DEF MNext
<1> QED
  BY <1>1, <1>2, PagingInvAlways, PTL DEF MSpec, ImplementsAddressSpace, Memory!Spec
=============================================================================
