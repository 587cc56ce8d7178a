------------------------------ MODULE FramePool ------------------------------
(***************************************************************************)
(* What the physical frame allocator promises: once it is open, a request  *)
(* gets some frame of the stock that nobody else has, and is refused only  *)
(* when there is none.                                                     *)
(***************************************************************************)
EXTENDS Integers

CONSTANT Stock           \* the frames the machine can give away

NoFrame  == 0            \* a request was refused
NoAnswer == -1           \* the last step was no request

VARIABLES
    open,                \* the allocator is initialised
    avail,               \* frames nobody holds
    got                  \* the answer to the last request

poolVars == <<open, avail, got>>

Init == open = FALSE /\ avail = {} /\ got = NoAnswer

Open ==
    /\ ~open
    /\ open' = TRUE
    /\ avail' = Stock
    /\ UNCHANGED got

Refuse ==
    /\ open
    /\ avail = {}
    /\ got' = NoFrame
    /\ UNCHANGED <<open, avail>>

Give ==
    /\ open
    /\ got' \in avail \ {NoFrame}
    /\ avail' = avail \ {got'}
    /\ UNCHANGED open

TakeBack(f) ==
    /\ open
    /\ f \in Stock \ avail
    /\ avail' = avail \cup {f}
    /\ got' = NoAnswer
    /\ UNCHANGED open

Next == Open \/ Refuse \/ Give \/ \E f \in Stock : TakeBack(f)

Spec == Init /\ [][Next]_poolVars
=============================================================================
