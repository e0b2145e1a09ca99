----------------------------- MODULE CashLedger -----------------------------
(***************************************************************************)
(* What the hosted side promises about cash registers, whatever the        *)
(* network, the devices and their retries do: each branch has at most one  *)
(* open register, a session is opened once and closed for good, and the    *)
(* verdict on a device's mutation is reached once, in the same step as its *)
(* effect, and never revised.  CashRegisterSync implements it.             *)
(***************************************************************************)
EXTENDS Naturals

CONSTANTS Mutation, Branch, HostedId

VARIABLES session,   \* session[h] = [st, br]
          verdict    \* verdict[m] = [kind, sid]

Init ==
    /\ \E b \in Branch : session = [h \in HostedId |-> [st |-> "none", br |-> b]]
    /\ verdict = [m \in Mutation |-> [kind |-> "none", sid |-> 0]]

Free(b) == \A h \in HostedId : ~(session[h].st = "open" /\ session[h].br = b)

Opened(h, b) ==
    /\ session[h].st = "none"
    /\ Free(b)
    /\ session' = [session EXCEPT ![h] = [st |-> "open", br |-> b]]

Closed(h) ==
    /\ session[h].st = "open"
    /\ session' = [session EXCEPT ![h].st = "closed"]

Decide(m, kind, h) ==
    /\ verdict[m].kind = "none"
    /\ verdict' = [verdict EXCEPT ![m] = [kind |-> kind, sid |-> h]]

\* A web user opens or closes a register.
WebStep(h) ==
    /\ Closed(h) \/ \E b \in Branch : Opened(h, b)
    /\ UNCHANGED verdict

\* A device's mutation takes effect, finds its work done, or is refused
\* because the register is open already.
Take(m, h) ==
    /\ Closed(h) \/ \E b \in Branch : Opened(h, b)
    /\ Decide(m, "applied", h)

FindDone(m, h) ==
    /\ session[h].st = "closed"
    /\ Decide(m, "applied", h)
    /\ UNCHANGED session

Refuse(m, h) ==
    /\ session[h].st = "open"
    /\ Decide(m, "conflict", h)
    /\ UNCHANGED session

Next ==
    \E h \in HostedId :
        \/ WebStep(h)
        \/ \E m \in Mutation : Take(m, h) \/ FindDone(m, h) \/ Refuse(m, h)

Spec == Init /\ [][Next]_<<session, verdict>>
=============================================================================
