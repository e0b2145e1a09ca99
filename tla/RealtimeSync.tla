---------------------------- MODULE RealtimeSync ----------------------------
(***************************************************************************)
(* How a Desktop learns of hosted cash changes at once: a WebSocket client *)
(* (web/src/sync/desktopRealtimeCore.ts), the hosted hub that announces    *)
(* changes (api/src/sync/desktop-realtime.ts), and the reconciliations     *)
(* both they and a timer ask for (desktopCashRegister.ts, DesktopSync.tsx).*)
(* What a reconciliation does is CashRegisterSync; here only when it reads *)
(* the hosted state matters.                                               *)
(***************************************************************************)
EXTENDS Naturals, Sequences, FiniteSets

CONSTANTS
    Socket,       \* identities of connections, used again once both ends are done
    NoSocket,
    MaxPub,       \* bound: committed changes not announced yet
    MaxDown,      \* bound: messages on their way to a client, for new changes
    MaxFaults,    \* bound: faults other than going offline
    Ticks         \* whether the timer of DesktopSync runs in this instance

ASSUME SocketAssumption == NoSocket \notin Socket
ASSUME BoundAssumption == {MaxPub, MaxDown, MaxFaults} \subseteq Nat /\ Ticks \in BOOLEAN

VARIABLES
    online,       \* navigator.onLine
    client,       \* the client object's variables
    cs,           \* cs[i]: the client's end of connection i
    own,          \* connections whose listeners belong to the present client object
    conn,         \* conn[i]: the server's end
    check,        \* check[i]: the server's authentication of it
    subscribers,
    up,           \* authentication messages in flight
    down,         \* down[i]: messages in flight to the client
    link,         \* connections whose network path works
    run,          \* the running reconciliation: before or after its pull
    queued,       \* reconciliationQueued
    timing,       \* DesktopSync's run
    pub,          \* changes committed and not announced
    unseen,       \* a committed change no reconciliation has pulled
    failed,       \* history: one that failed may have been its announcement's
    faults

clientVars == <<online, client, cs, own>>
hubVars    == <<conn, check, subscribers>>
netVars    == <<up, down, link>>
runVars    == <<run, queued, timing>>
changeVars == <<pub, unseen, failed>>
vars == <<clientVars, hubVars, netVars, runVars, changeVars, faults>>

-----------------------------------------------------------------------------
Client == [stopped : BOOLEAN,
           connecting : {"no", "current", "stale"},  \* awaits credentials, and of which generation
           socket : Socket \cup {NoSocket},
           timer : BOOLEAN,
           reconciling : BOOLEAN, again : BOOLEAN]

NewClient == [stopped |-> TRUE, connecting |-> "no", socket |-> NoSocket,
              timer |-> FALSE, reconciling |-> FALSE, again |-> FALSE]

Init ==
    /\ online \in BOOLEAN
    /\ client = NewClient
    /\ cs = [i \in Socket |-> [st |-> "free", auth |-> FALSE]]
    /\ own = {}
    /\ conn = [i \in Socket |-> "none"]
    /\ check = [i \in Socket |-> "none"]
    /\ subscribers = {}
    /\ up = {}
    /\ down = [i \in Socket |-> <<>>]
    /\ link = {}
    /\ run = "idle" /\ queued = FALSE /\ timing = "idle"
    /\ pub = 0 /\ unseen = FALSE /\ failed = FALSE
    /\ faults = 0

Fault == faults < MaxFaults /\ faults' = faults + 1

-----------------------------------------------------------------------------
(* The client object, as functions of its variables. *)

\* connect: the guards; past them it awaits credentials.
Connect(c, isOnline) ==
    IF ~c.stopped /\ c.connecting = "no" /\ c.socket = NoSocket /\ isOnline
    THEN [c EXCEPT !.connecting = "current"] ELSE c

\* Mutant: a timer is set only by the attempt of the present generation.
RescheduleCurrentOnly(c, isOnline) ==
    IF ~c.stopped /\ c.socket = NoSocket /\ isOnline /\ c.connecting # "stale"
    THEN [c EXCEPT !.timer = TRUE] ELSE c

ScheduleReconnect(c, isOnline) ==
    IF ~c.stopped /\ c.socket = NoSocket /\ isOnline
    THEN [c EXCEPT !.timer = TRUE] ELSE c

\* generation++: an attempt in progress becomes one of the past.
Outdated(connecting) == IF connecting = "current" THEN "stale" ELSE connecting

Closing(i) == IF i = NoSocket THEN cs ELSE [cs EXCEPT ![i] = [@ EXCEPT !.st = "closing"]]

Start ==
    /\ client.stopped
    /\ client' = Connect([client EXCEPT !.stopped = FALSE,
                                        !.connecting = Outdated(@)], online)
    /\ UNCHANGED <<online, cs, own, hubVars, netVars, runVars, changeVars, faults>>

\* desktopRealtime.ts drops a stopped client and starts a new one.
StartNew ==
    /\ client.stopped
    /\ client' = Connect([NewClient EXCEPT !.stopped = FALSE], online)
    /\ own' = {}
    /\ UNCHANGED <<online, cs, hubVars, netVars, runVars, changeVars, faults>>

\* Mutant: stop forgets the attempt in progress.
StopHalfway ==
    /\ ~client.stopped
    /\ client' = [client EXCEPT !.stopped = TRUE, !.timer = FALSE, !.socket = NoSocket]
    /\ cs' = Closing(client.socket)
    /\ UNCHANGED <<online, own, hubVars, netVars, runVars, changeVars, faults>>

Stop ==
    /\ ~client.stopped
    /\ client' = [client EXCEPT !.stopped = TRUE, !.connecting = Outdated(@),
                                !.timer = FALSE, !.socket = NoSocket]
    /\ cs' = Closing(client.socket)
    /\ UNCHANGED <<online, own, hubVars, netVars, runVars, changeVars, faults>>

GoOnline ==
    /\ ~online
    /\ online' = TRUE
    /\ client' = IF client.stopped THEN client
                 ELSE Connect([client EXCEPT !.timer = FALSE], TRUE)
    /\ UNCHANGED <<cs, own, hubVars, netVars, runVars, changeVars, faults>>

GoOffline ==
    /\ online
    /\ online' = FALSE
    /\ IF client.stopped
       THEN UNCHANGED <<client, cs>>
       ELSE /\ client' = [client EXCEPT !.timer = FALSE, !.socket = NoSocket]
            /\ cs' = Closing(client.socket)
    /\ UNCHANGED <<own, hubVars, netVars, runVars, changeVars, faults>>

TimerFires ==
    /\ client.timer
    /\ client' = Connect([client EXCEPT !.timer = FALSE], online)
    /\ UNCHANGED <<online, cs, own, hubVars, netVars, runVars, changeVars, faults>>

\* An identity is free once neither end nor an authentication uses it.
Free(i) == cs[i].st = "free" /\ conn[i] \in {"none", "closed"} /\ check[i] = "none"

\* Credentials arrive and the attempt is still wanted.
Dial(i) ==
    /\ client.connecting = "current"
    /\ Free(i)
    /\ client' = [client EXCEPT !.connecting = "no", !.socket = i]
    /\ cs' = [cs EXCEPT ![i] = [st |-> "connecting", auth |-> FALSE]]
    /\ own' = own \cup {i}
    /\ conn' = [conn EXCEPT ![i] = "none"]
    /\ down' = [down EXCEPT ![i] = <<>>]
    /\ up' = up \ {i}
    /\ link' = link \cup {i}
    /\ UNCHANGED <<online, check, subscribers, runVars, changeVars, faults>>

\* None arrive, or for an attempt of the past.
GiveUpDialling ==
    /\ \/ client.connecting = "stale" /\ UNCHANGED faults
       \/ client.connecting = "current" /\ ~online /\ UNCHANGED faults
       \/ client.connecting = "current" /\ Fault
    /\ client' = [ScheduleReconnect(client, online) EXCEPT !.connecting = "no"]
    /\ UNCHANGED <<online, cs, own, hubVars, netVars, runVars, changeVars>>

\* Mutant: only a connection that was authenticated is made again.
ClientEndsQuietly(i) ==
    /\ cs[i].st # "free"
    /\ cs[i].st = "closing" \/ i \notin link \/ conn[i] = "closed" \/ ~online
    /\ cs' = [cs EXCEPT ![i] = [st |-> "free", auth |-> FALSE]]
    /\ client' = LET c == IF client.socket = i THEN [client EXCEPT !.socket = NoSocket]
                          ELSE client
                 IN  IF i \in own /\ cs[i].auth THEN ScheduleReconnect(c, online) ELSE c
    /\ down' = [down EXCEPT ![i] = <<>>]
    /\ up' = up \ {i}
    /\ UNCHANGED <<online, own, link, hubVars, runVars, changeVars, faults>>

\* The browser is done with connection i: its close event, possibly after an
\* error event that only closes it.
ClientEnds(i) ==
    /\ cs[i].st # "free"
    /\ cs[i].st = "closing" \/ i \notin link \/ conn[i] = "closed" \/ ~online
    /\ cs' = [cs EXCEPT ![i] = [st |-> "free", auth |-> FALSE]]
    /\ client' = LET c == IF client.socket = i THEN [client EXCEPT !.socket = NoSocket]
                          ELSE client
                 IN  IF i \in own THEN ScheduleReconnect(c, online) ELSE client
    /\ down' = [down EXCEPT ![i] = <<>>]
    /\ up' = up \ {i}
    /\ UNCHANGED <<online, own, link, hubVars, runVars, changeVars, faults>>

-----------------------------------------------------------------------------
(* The hub and the network. *)

Reaches(i) == i \in link /\ cs[i].st \in {"connecting", "open"}

Accept(i) ==
    /\ cs[i].st = "connecting" /\ i \in link
    /\ conn[i] = "none"
    /\ conn' = [conn EXCEPT ![i] = "open"]
    /\ check' = [check EXCEPT ![i] = "waiting"]
    /\ UNCHANGED <<subscribers, clientVars, netVars, runVars, changeVars, faults>>

\* The open event: the client sends its signed identity.
ClientOpens(i) ==
    /\ cs[i].st = "connecting" /\ i \in link
    /\ conn[i] # "none"
    /\ cs' = [cs EXCEPT ![i] = [@ EXCEPT !.st = "open"]]
    /\ up' = up \cup {i}
    /\ UNCHANGED <<online, client, own, down, link, hubVars, runVars, changeVars, faults>>

AuthMessage(i) ==
    /\ i \in up /\ i \in link
    /\ conn[i] = "open" /\ check[i] = "waiting"
    /\ up' = up \ {i}
    /\ check' = [check EXCEPT ![i] = "checking"]
    /\ UNCHANGED <<conn, subscribers, down, link, clientVars, runVars, changeVars, faults>>

\* Mutant: the connection is not looked at again after the database was asked.
AuthenticatedLate(i) ==
    /\ check[i] = "checking"
    /\ check' = [check EXCEPT ![i] = "none"]
    /\ subscribers' = subscribers \cup {i}
    /\ down' = IF Reaches(i) THEN [down EXCEPT ![i] = Append(@, "ready")] ELSE down
    /\ UNCHANGED <<conn, up, link, clientVars, runVars, changeVars, faults>>

\* The control database answers.  "closed || readyState !== 1" returns.
Authenticated(i) ==
    /\ check[i] = "checking"
    /\ check' = [check EXCEPT ![i] = "none"]
    /\ IF conn[i] = "open"
       THEN /\ subscribers' = subscribers \cup {i}
            /\ down' = IF Reaches(i) THEN [down EXCEPT ![i] = Append(@, "ready")] ELSE down
       ELSE UNCHANGED <<subscribers, down>>
    /\ UNCHANGED <<conn, up, link, clientVars, runVars, changeVars, faults>>

\* The device is revoked, its licence inactive, its proof invalid.
Refuse(i) ==
    /\ check[i] = "checking"
    /\ Fault
    /\ check' = [check EXCEPT ![i] = "none"]
    /\ conn' = [conn EXCEPT ![i] = IF @ = "open" THEN "closing" ELSE @]
    /\ UNCHANGED <<subscribers, clientVars, netVars, runVars, changeVars>>

\* Eight seconds have passed and the device is not authenticated.
AuthTimeout(i) ==
    /\ conn[i] = "open" /\ check[i] # "none"
    /\ \/ ~Reaches(i) /\ UNCHANGED faults
       \/ Fault
    /\ conn' = [conn EXCEPT ![i] = "closing"]
    /\ check' = [check EXCEPT ![i] = IF @ = "waiting" THEN "none" ELSE @]
    /\ UNCHANGED <<subscribers, clientVars, netVars, runVars, changeVars>>

\* The close event of the server's end: closed by either side, or terminated
\* because a heartbeat was not answered.
ServerEnds(i) ==
    /\ \/ conn[i] = "closing"
       \/ conn[i] = "open" /\ i \in link /\ cs[i].st \in {"closing", "free"}
       \/ conn[i] = "open" /\ i \notin link /\ i \in subscribers
    /\ conn' = [conn EXCEPT ![i] = "closed"]
    /\ check' = [check EXCEPT ![i] = IF @ = "waiting" THEN "none" ELSE @]
    /\ subscribers' = subscribers \ {i}
    /\ UNCHANGED <<clientVars, netVars, runVars, changeVars, faults>>

\* The path breaks and nobody is told.
Break(i) ==
    /\ i \in link
    /\ cs[i].st # "free"
    /\ Fault
    /\ link' = link \ {i}
    /\ down' = [down EXCEPT ![i] = <<>>]
    /\ up' = up \ {i}
    /\ UNCHANGED <<hubVars, clientVars, runVars, changeVars>>

\* Subscriptions and announcements live in the memory of the hosted API.
Restart ==
    /\ Fault
    /\ conn' = [i \in Socket |-> IF conn[i] = "none" THEN "none" ELSE "closed"]
    /\ check' = [i \in Socket |-> "none"]
    /\ subscribers' = {}
    /\ pub' = 0
    /\ UNCHANGED <<unseen, failed, clientVars, netVars, runVars>>

-----------------------------------------------------------------------------
(* Changes: committed, announced, reconciled. *)

Commit ==
    /\ pub < MaxPub
    /\ \A i \in Socket : Len(down[i]) < MaxDown
    /\ pub' = pub + 1
    /\ unseen' = TRUE
    /\ failed' = FALSE
    /\ UNCHANGED <<clientVars, hubVars, netVars, runVars, faults>>

\* publishCashRegisterChanged, after the commit has returned.
Publish ==
    /\ pub > 0
    /\ pub' = pub - 1
    /\ down' = [i \in Socket |->
                  IF i \in subscribers /\ conn[i] = "open" /\ Reaches(i)
                  THEN Append(down[i], "changed") ELSE down[i]]
    /\ subscribers' = {i \in subscribers : conn[i] = "open"}
    /\ UNCHANGED <<conn, check, up, link, unseen, failed, clientVars, runVars, faults>>

\* reconcileDesktopCashRegister: one runs, and at most one more waits.
RequestRun ==
    IF run = "idle" THEN run' = "before" /\ queued' = FALSE
    ELSE queued' = TRUE /\ UNCHANGED run

\* Mutant: an event during a reconciliation is dropped.
TriggerOnce ==
    IF client.reconciling
    THEN UNCHANGED <<client, run, queued>>
    ELSE client' = [client EXCEPT !.reconciling = TRUE] /\ RequestRun

\* triggerReconciliation
Trigger ==
    IF client.reconciling
    THEN client' = [client EXCEPT !.again = TRUE] /\ UNCHANGED <<run, queued>>
    ELSE client' = [client EXCEPT !.reconciling = TRUE, !.again = FALSE] /\ RequestRun

Receive(i) ==
    /\ cs[i].st = "open"
    /\ down[i] # <<>>
    /\ down' = [down EXCEPT ![i] = Tail(@)]
    /\ \/ Head(down[i]) = "ready" /\ Trigger /\ cs' = [cs EXCEPT ![i] = [@ EXCEPT !.auth = TRUE]]
       \/ Head(down[i]) = "changed" /\ cs[i].auth /\ Trigger /\ UNCHANGED cs
       \/ Head(down[i]) = "changed" /\ ~cs[i].auth /\ UNCHANGED <<client, run, queued, cs>>
    /\ UNCHANGED <<online, own, hubVars, up, link, timing, changeVars, faults>>

Pull ==
    /\ run = "before"
    /\ online
    /\ run' = "after"
    /\ unseen' = FALSE
    /\ failed' = FALSE
    /\ UNCHANGED <<queued, timing, pub, clientVars, hubVars, netVars, faults>>

\* A reconciliation ends, before its pull if it fails, and everyone who waits
\* for it goes on: it is repeated if it was asked for meanwhile.
RunEnds ==
    /\ run # "idle"
    /\ failed' = IF run = "before" THEN unseen ELSE failed
    /\ IF queued
       THEN run' = "before" /\ queued' = FALSE /\ UNCHANGED <<client, timing>>
       ELSE /\ timing' = IF timing = "cash" THEN "others" ELSE timing
            /\ queued' = FALSE
            /\ IF client.reconciling /\ client.again /\ ~client.stopped
               THEN run' = "before" /\ client' = [client EXCEPT !.again = FALSE]
               ELSE run' = "idle" /\ client' = [client EXCEPT !.reconciling = FALSE]
    /\ UNCHANGED <<online, cs, own, pub, unseen, hubVars, netVars, faults>>

\* DesktopSync: every 15 seconds, and when the network returns.
TimerTick ==
    /\ Ticks
    /\ timing = "idle"
    /\ timing' = "cash"
    /\ RequestRun
    /\ UNCHANGED <<clientVars, hubVars, netVars, changeVars, faults>>

\* Mutant: the other reconciliations end without resetting running.
OthersHang ==
    /\ timing = "others"
    /\ UNCHANGED vars

OthersEnd ==
    /\ timing = "others"
    /\ timing' = "idle"
    /\ UNCHANGED <<run, queued, clientVars, hubVars, netVars, changeVars, faults>>

-----------------------------------------------------------------------------
ClientStep == Start \/ StartNew \/ Stop \/ GoOnline \/ GoOffline \/ TimerFires \/ GiveUpDialling

SocketStep(i) ==
    \/ Dial(i) \/ ClientEnds(i) \/ ClientOpens(i) \/ Receive(i)
    \/ Accept(i) \/ AuthMessage(i) \/ Authenticated(i) \/ Refuse(i)
    \/ AuthTimeout(i) \/ ServerEnds(i) \/ Break(i)

RunStep == Commit \/ Publish \/ Pull \/ RunEnds \/ TimerTick \/ OthersEnd

Next == ClientStep \/ RunStep \/ Restart \/ \E i \in Socket : SocketStep(i)

Spec == Init /\ [][Next]_vars

-----------------------------------------------------------------------------
(* What makes it correct. *)

\* Every variable has its type.
TypeOK ==
    /\ online \in BOOLEAN
    /\ client \in Client
    /\ cs \in [Socket -> [st : {"free", "connecting", "open", "closing"}, auth : BOOLEAN]]
    /\ own \subseteq Socket
    /\ conn \in [Socket -> {"none", "open", "closing", "closed"}]
    /\ check \in [Socket -> {"none", "waiting", "checking"}]
    /\ subscribers \subseteq Socket
    /\ up \subseteq Socket /\ link \subseteq Socket
    /\ down \in [Socket -> Seq({"ready", "changed"})]
    /\ run \in {"idle", "before", "after"}
    /\ queued \in BOOLEAN
    /\ timing \in {"idle", "cash", "others"}
    /\ pub \in Nat /\ faults \in Nat
    /\ unseen \in BOOLEAN /\ failed \in BOOLEAN

\* Both ends are up, and the hub knows the present connection of the client.
Live(i) ==
    /\ client.socket = i
    /\ cs[i].st = "open" /\ conn[i] = "open"
    /\ i \in link /\ i \in subscribers

\* The client will pull once more: a message for it is on its way, or a
\* reconciliation has yet to read the hosted state.
Announced(i) ==
    \/ pub > 0
    \/ down[i] # <<>>
    \/ run = "before"
    \/ queued
    \/ client.reconciling /\ client.again

\* While a client is connected no committed change slips between connecting,
\* announcements and reconciliations in progress, unless the reconciliation
\* meant for it fails (the timer then makes up for it).
NoChangeMissed == \A i \in Socket : Live(i) /\ unseen /\ ~failed => Announced(i)

\* There is at most one connection in use, the one the client knows, and a
\* stopped client has none, whatever was awaited when it stopped.
NoStrayConnection ==
    \A i \in Socket : cs[i].st \in {"connecting", "open"} =>
        client.socket = i /\ ~client.stopped

\* The hub's subscriptions are connections whose close event is still to come:
\* an authentication that outlives its connection leaves nothing behind.
HubForgets == \A i \in subscribers : conn[i] \in {"open", "closing"}

\* Neither end keeps a connection that is over (createDesktopRealtimeClient,
\* registerDesktopRealtime).
NothingLeftBehind == NoStrayConnection /\ HubForgets

-----------------------------------------------------------------------------
(* Fairness.  Timers fire and handlers run; a browser reports the end of a *)
(* connection unless it is silent: one that waits for an answer runs into  *)
(* TCP's time limit, an authenticated one only listens.                    *)

Noticed(i) == ClientEnds(i) /\ (cs[i].st = "closing" \/ ~cs[i].auth \/ i \in link)

Connects(i) ==
    \/ ClientOpens(i) \/ Receive(i) \/ Accept(i) \/ AuthMessage(i) \/ Authenticated(i)
    \/ AuthTimeout(i) \/ ServerEnds(i) \/ Noticed(i)

ConnectFairness ==
    /\ WF_vars(TimerFires)
    /\ WF_vars(GiveUpDialling)
    /\ WF_vars(\E i \in Socket : Dial(i))
    /\ \A i \in Socket : WF_vars(Connects(i))

\* DesktopSync's timer runs for ever, and reconciliations sometimes succeed.
TimerFairness ==
    /\ WF_vars(TimerTick)
    /\ WF_vars(OthersEnd)
    /\ WF_vars(RunEnds)
    /\ SF_vars(Pull)

LiveSpec == Spec /\ ConnectFairness /\ TimerFairness

\* Once faults stop, a started client that stays online is connected and
\* authenticated in the end: no sequence of starts, stops, late credentials
\* and close events leaves it without a timer, an attempt or a connection.
EventuallyConnected ==
    ~client.stopped /\ online ~>
        client.stopped \/ ~online \/ \E i \in Socket : client.socket = i /\ cs[i].auth

\* Whatever happens to the socket, a change is pulled in the end.
EventuallyPulled == unseen ~> ~unseen \/ ~online
=============================================================================
