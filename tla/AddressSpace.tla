---------------------------- MODULE AddressSpace -----------------------------
(***************************************************************************)
(* What the memory system promises to its callers: one address space, in   *)
(* which each call changes at most the page it names, a fresh page gets a  *)
(* frame taken from the free ones, and the kernel's own mapping stays.     *)
(***************************************************************************)
EXTENDS Integers, FiniteSets

CONSTANTS
    Pages,               \* the pages of the address space
    KernelPages,         \* pages of the kernel's identity mapping
    Named,               \* frames callers ask for by address: devices
    Stock                \* frames the machine can give away

Unmapped == -1
Identity == -2           \* translated by the kernel's own mapping
Zero     == 0            \* the frame a failed allocation stands for

\* A page and three levels of tables below the root: no call needs more.
Enough == 4

VARIABLES
    open,                \* the allocator is initialised
    space,               \* page |-> frame, Unmapped or Identity
    pool                 \* free frames

spaceVars == <<open, space, pool>>

Init ==
    /\ open = FALSE
    /\ space = [va \in Pages |-> IF va \in KernelPages THEN Identity ELSE Unmapped]
    /\ pool = {}

Open == ~open /\ open' = TRUE /\ pool' = Stock /\ UNCHANGED space

\* Tables may be built along the way.
Takes(limit) ==
    /\ pool' \subseteq pool
    /\ Cardinality(pool \ pool') <= limit

SetPage(va, f) ==
    /\ va \notin KernelPages
    /\ space' = [space EXCEPT ![va] = f]

Fresh(va) ==
    /\ open
    /\ \E f \in pool : SetPage(va, f) /\ f \notin pool'
    /\ Takes(Enough)
    /\ UNCHANGED open

Place(va, f) ==
    /\ open
    /\ SetPage(va, f)
    /\ Takes(Enough - 1)
    /\ UNCHANGED open

\* The loader does not look at what the allocator returns.
PlaceZero(va) == pool = {} /\ Place(va, Zero)

\* Refused only for want of memory, or to keep the kernel's mapping.
Fail(va) ==
    /\ open
    /\ va \in KernelPages \/ Cardinality(pool) < Enough
    /\ Takes(Enough)
    /\ UNCHANGED <<open, space>>

Remove(va) ==
    /\ open
    /\ SetPage(va, Unmapped)
    /\ UNCHANGED <<open, pool>>

Next ==
    \/ Open
    \/ \E va \in Pages :
        \/ Fresh(va) \/ PlaceZero(va) \/ Fail(va) \/ Remove(va)
        \/ \E f \in Named : Place(va, f)

Spec == Init /\ [][Next]_spaceVars
=============================================================================
