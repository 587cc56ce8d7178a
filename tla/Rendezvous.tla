------------------------------ MODULE Rendezvous ------------------------------
(***************************************************************************)
(* What synchronous IPC promises its callers: no scheduler, no staging     *)
(* buffer, no wake-up.  A thread is in user code or inside one call; a     *)
(* message passes from exactly one sender to exactly one receiver, at one  *)
(* instant, as soon as the two match; interrupt notifications are counted  *)
(* and each one ends exactly one receive.                                  *)
(***************************************************************************)
EXTENDS Integers

CONSTANTS Tids,          \* thread identifiers
          Message,       \* message contents
          NoMsg,         \* "nothing received"
          Any,           \* IPC_ANY
          Irq            \* IPC_IRQ_SENDER

VARIABLES
    phase,               \* where each thread stands
    result,              \* the call that has just returned: [tid, rax, msg]
    pending              \* notifications not yet delivered to it

vars == <<phase, result, pending>>

Absent     == [at |-> "absent"]
User       == [at |-> "user"]
Sent       == [at |-> "sent"]         \* message taken, call not yet returned
Notified   == [at |-> "notified"]     \* woken by a notification
Sending(d, m)   == [at |-> "sending", to |-> d, msg |-> m]
Receiving(src)  == [at |-> "receiving", src |-> src]
Got(s, m)       == [at |-> "got", from |-> s, msg |-> m]

NoResult == [tid |-> Any, rax |-> 0, msg |-> NoMsg]

AwaitsFrom(r, s) == phase[r] \in {Receiving(Any), Receiving(s)}
Offers(s, r)     == phase[s].at = "sending" /\ phase[s].to = r
Returns(t, r, m) == result' = [tid |-> t, rax |-> r, msg |-> m]
NoReturn         == result' = NoResult
-----------------------------------------------------------------------------
Init ==
    /\ phase = [t \in Tids |-> Absent]
    /\ result = NoResult
    /\ pending = [t \in Tids |-> 0]

\* A thread starts with a clean slate, or leaves from user code.
Arrive(t) ==
    /\ phase[t] = Absent
    /\ phase' = [phase EXCEPT ![t] = User]
    /\ NoReturn
    /\ pending' = [pending EXCEPT ![t] = 0]

Leave(t) ==
    /\ phase[t] = User
    /\ phase' = [phase EXCEPT ![t] = Absent]
    /\ NoReturn
    /\ UNCHANGED pending

\* Sending to nobody fails.
Refused(s) ==
    /\ phase[s] = User
    /\ \E d \in Tids \cup {Any} : d \notin Tids \/ phase[d] = Absent
    /\ Returns(s, -1, NoMsg)
    /\ UNCHANGED <<phase, pending>>

\* The receiver is already there: the message crosses and send returns.
SendMeets(s, r, m) ==
    /\ phase[s] = User
    /\ AwaitsFrom(r, s)
    /\ phase' = [phase EXCEPT ![r] = Got(s, m)]
    /\ Returns(s, 0, NoMsg)
    /\ UNCHANGED pending

\* It is not: the sender waits.  Never while the receiver waits for it.
SendWaits(s, r, m) ==
    /\ phase[s] = User
    /\ phase[r] # Absent
    /\ ~AwaitsFrom(r, s)
    /\ phase' = [phase EXCEPT ![s] = Sending(r, m)]
    /\ NoReturn
    /\ UNCHANGED pending

\* Notifications come first.
RecvNotified(r) ==
    /\ phase[r] = User
    /\ pending[r] > 0
    /\ pending' = [pending EXCEPT ![r] = @ - 1]
    /\ Returns(r, Irq, NoMsg)
    /\ UNCHANGED phase

\* A matching sender is waiting: take its message, free it.
RecvMeets(r, s, src) ==
    /\ phase[r] = User
    /\ pending[r] = 0
    /\ Offers(s, r)
    /\ src \in {Any, s}
    /\ phase' = [phase EXCEPT ![s] = Sent]
    /\ Returns(r, s, phase[s].msg)
    /\ UNCHANGED pending

\* None is: the receiver waits.  Never while a sender waits for it, and
\* never on top of a notification.
RecvWaits(r, src) ==
    /\ phase[r] = User
    /\ pending[r] = 0
    /\ \A s \in Tids : Offers(s, r) => src \notin {Any, s}
    /\ phase' = [phase EXCEPT ![r] = Receiving(src)]
    /\ NoReturn
    /\ UNCHANGED pending

Notify(t) ==
    /\ phase[t] # Absent
    /\ pending' = [pending EXCEPT ![t] = @ + 1]
    /\ phase' = [phase EXCEPT ![t] = IF @.at = "receiving" THEN Notified ELSE @]
    /\ NoReturn

\* A call whose rendezvous has happened returns what the rendezvous gave.
ReturnSent(t) ==
    /\ phase[t] = Sent
    /\ phase' = [phase EXCEPT ![t] = User]
    /\ Returns(t, 0, NoMsg)
    /\ UNCHANGED pending

ReturnGot(t) ==
    /\ phase[t].at = "got"
    /\ phase' = [phase EXCEPT ![t] = User]
    /\ Returns(t, phase[t].from, phase[t].msg)
    /\ UNCHANGED pending

ReturnNotified(t) ==
    /\ phase[t] = Notified
    /\ phase' = [phase EXCEPT ![t] = User]
    /\ pending' = [pending EXCEPT ![t] = @ - 1]
    /\ Returns(t, Irq, NoMsg)

\* The CPU goes elsewhere.
Elsewhere == NoReturn /\ UNCHANGED <<phase, pending>>

Next ==
    \/ Elsewhere
    \/ \E t \in Tids :
        \/ Arrive(t) \/ Leave(t) \/ Refused(t) \/ RecvNotified(t) \/ Notify(t)
        \/ ReturnSent(t) \/ ReturnGot(t) \/ ReturnNotified(t)
        \/ \E src \in Tids \cup {Any} : RecvWaits(t, src)
    \/ \E s, r \in Tids :
        \/ \E m \in Message : SendMeets(s, r, m) \/ SendWaits(s, r, m)
        \/ \E src \in Tids \cup {Any} : RecvMeets(r, s, src)

Spec == Init /\ [][Next]_vars
=============================================================================
