--------------------------- MODULE RealtimeProofs ---------------------------
(***************************************************************************)
(* Safety of RealtimeSync for any number of connections and any bounds.    *)
(***************************************************************************)
EXTENDS RealtimeSync, SequenceTheorems, TLAPS

InUse(i) == cs[i].st \in {"connecting", "open"}

\* A stopped client waits for nothing that could bring it back, and its
\* connection is one in use.
ClientInv ==
    /\ client.stopped => /\ client.socket = NoSocket
                         /\ client.connecting # "current"
    /\ client.connecting = "current" => client.socket = NoSocket
    /\ client.socket # NoSocket => InUse(client.socket)
    /\ \A i \in Socket : InUse(i) => i \in own

\* The client has spoken on a connection before the server examines it.
Spoken ==
    \A i \in Socket :
        i \in up \/ check[i] = "checking" \/ i \in subscribers => cs[i].st # "connecting"

\* Nothing is sent on a connection before it is subscribed.
Silent ==
    \A i \in Socket :
        conn[i] = "none" \/ check[i] # "none" =>
            /\ i \notin subscribers
            /\ InUse(i) => down[i] = <<>> /\ ~cs[i].auth

\* "ready" comes first.
ReadyFirst ==
    \A i \in Socket :
        Live(i) /\ ~cs[i].auth => down[i] # <<>> /\ Head(down[i]) = "ready"

\* Whoever waits, waits for a reconciliation that runs.
Waiting == client.reconciling \/ queued => run # "idle"

IInv ==
    /\ TypeOK
    /\ ClientInv
    /\ NoStrayConnection
    /\ HubForgets
    /\ Spoken
    /\ Silent
    /\ ReadyFirst
    /\ Waiting
    /\ NoChangeMissed

-----------------------------------------------------------------------------
(* The helpers: types they keep, and what they leave alone. *)

CsType == [Socket -> [st : {"free", "connecting", "open", "closing"}, auth : BOOLEAN]]

\* Closing touches one connection, and of it only its state.
LEMMA ClosingFacts ==
    ASSUME TypeOK, NEW i \in Socket \cup {NoSocket}
    PROVE  /\ Closing(i) \in CsType
           /\ \A j \in Socket : /\ Closing(i)[j].auth = cs[j].auth
                                /\ Closing(i)[j].st = IF j = i THEN "closing" ELSE cs[j].st
<1>1. CASE i = NoSocket
  BY <1>1, SocketAssumption DEF TypeOK, Closing, CsType
<1>2. CASE i # NoSocket
  BY <1>2 DEF TypeOK, Closing, CsType
<1>q. QED BY <1>1, <1>2

\* connect() keeps a client a client.
LEMMA ConnectType ==
    ASSUME NEW c \in Client, NEW b \in BOOLEAN
    PROVE  Connect(c, b) \in Client
BY DEF Connect, Client

\* scheduleReconnect() sets the timer or nothing.
LEMMA ScheduleType ==
    ASSUME NEW c \in Client, NEW b \in BOOLEAN
    PROVE  /\ ScheduleReconnect(c, b) \in Client
           /\ \/ ScheduleReconnect(c, b) = c
              \/ ScheduleReconnect(c, b) = [c EXCEPT !.timer = TRUE]
BY DEF ScheduleReconnect, Client

\* A message put in a queue of messages.
LEMMA AppendFacts ==
    ASSUME NEW S, NEW s \in Seq(S), NEW e \in S
    PROVE  /\ Append(s, e) \in Seq(S)
           /\ Append(s, e) # <<>>
           /\ s = <<>> => Head(Append(s, e)) = e
           /\ s # <<>> => Head(Append(s, e)) = Head(s)
OBVIOUS

\* A message taken out of one.
LEMMA TailType ==
    ASSUME NEW S, NEW s \in Seq(S), s # <<>>
    PROVE  Tail(s) \in Seq(S)
OBVIOUS

\* After a trigger a reconciliation will read the hosted state.
LEMMA TriggerFacts ==
    ASSUME TypeOK, Waiting, Trigger
    PROVE  /\ client' \in Client
           /\ client'.reconciling /\ run' # "idle"
           /\ client'.socket = client.socket /\ client'.stopped = client.stopped
           /\ client'.connecting = client.connecting
           /\ run' \in {"idle", "before", "after"} /\ queued' \in BOOLEAN
           /\ client'.again \/ run' = "before" \/ queued'
           /\ client.again /\ client.reconciling => client'.again
           /\ run = "before" => run' = "before"
BY Zenon DEF TypeOK, Waiting, Trigger, RequestRun, Client

-----------------------------------------------------------------------------
(* One lemma for each action. *)

\* start() on the same object.
LEMMA StartStep ==
    ASSUME IInv, Start PROVE IInv'
<1>1. TypeOK'
  BY Zenon DEF IInv, Start, TypeOK, Client, Connect, Outdated, hubVars, netVars, runVars, changeVars
<1>2. ClientInv'
  BY DEF IInv, Start, ClientInv, InUse, Connect
<1>3. NoStrayConnection'
  BY DEF IInv, Start, NoStrayConnection
<1>4. ReadyFirst'
  BY DEF IInv, Start, ReadyFirst, Live, Connect, hubVars, netVars
<1>5. Waiting'
  BY DEF IInv, Start, Waiting, Connect, runVars
<1>6. NoChangeMissed'
  BY DEF IInv, Start, NoChangeMissed, Live, Announced, Connect, hubVars, netVars, runVars,
     changeVars
<1>7. HubForgets' /\ Spoken' /\ Silent'
  BY DEF IInv, Start, HubForgets, Spoken, Silent, InUse, hubVars, netVars
<1>q. QED BY <1>1, <1>2, <1>3, <1>4, <1>5, <1>6, <1>7 DEF IInv

\* A new client object.
LEMMA StartNewStep ==
    ASSUME IInv, StartNew PROVE IInv'
<1>1. TypeOK'
  BY Zenon DEF IInv, StartNew, TypeOK, Client, Connect, NewClient, hubVars, netVars, runVars,
     changeVars
<1>2. ClientInv'
  BY DEF IInv, StartNew, ClientInv, InUse, NoStrayConnection, Connect, NewClient
<1>3. NoStrayConnection'
  BY DEF IInv, StartNew, NoStrayConnection
<1>4. ReadyFirst'
  BY DEF IInv, StartNew, ReadyFirst, Live, ClientInv, Connect, NewClient, hubVars, netVars
<1>5. Waiting'
  BY DEF IInv, StartNew, Waiting, Connect, NewClient, runVars
<1>6. NoChangeMissed'
  BY SocketAssumption DEF IInv, StartNew, NoChangeMissed, Live, Connect, NewClient
<1>7. HubForgets' /\ Spoken' /\ Silent'
  BY DEF IInv, StartNew, HubForgets, Spoken, Silent, InUse, hubVars, netVars
<1>q. QED BY <1>1, <1>2, <1>3, <1>4, <1>5, <1>6, <1>7 DEF IInv

\* stop().
LEMMA StopStep ==
    ASSUME IInv, Stop PROVE IInv'
<1>1. TypeOK'
  BY Zenon DEF IInv, Stop, TypeOK, Client, Outdated, Closing, hubVars, netVars, runVars, changeVars
<1>2. ClientInv'
  BY DEF IInv, Stop, ClientInv, InUse, Outdated, Closing
<1>3. NoStrayConnection'
  BY SocketAssumption DEF IInv, Stop, NoStrayConnection, TypeOK, Closing
<1>4. Spoken'
  BY DEF IInv, Stop, Spoken, Closing, hubVars, netVars
<1>5. Silent'
  BY DEF IInv, Stop, Silent, InUse, Closing, hubVars, netVars
<1>6. ReadyFirst'
  BY SocketAssumption DEF IInv, Stop, ReadyFirst, Live
<1>7. Waiting'
  BY DEF IInv, Stop, Waiting, runVars
<1>8. NoChangeMissed'
  BY SocketAssumption DEF IInv, Stop, NoChangeMissed, Live
<1>9. HubForgets'
  BY DEF IInv, Stop, HubForgets, hubVars
<1>q. QED BY <1>1, <1>2, <1>3, <1>4, <1>5, <1>6, <1>7, <1>8, <1>9 DEF IInv

\* The network returns.
LEMMA GoOnlineStep ==
    ASSUME IInv, GoOnline PROVE IInv'
<1>1. TypeOK'
  BY DEF IInv, GoOnline, TypeOK, Client, Connect, hubVars, netVars, runVars, changeVars
<1>2. ClientInv'
  BY DEF IInv, GoOnline, ClientInv, InUse, Connect
<1>3. NoStrayConnection'
  BY DEF IInv, GoOnline, NoStrayConnection, Connect
<1>4. ReadyFirst'
  BY DEF IInv, GoOnline, ReadyFirst, Live, Connect, hubVars, netVars
<1>5. Waiting'
  BY DEF IInv, GoOnline, Waiting, Connect, runVars
<1>6. NoChangeMissed'
  BY DEF IInv, GoOnline, NoChangeMissed, Live, Announced, Connect, hubVars, netVars, runVars,
     changeVars
<1>7. HubForgets' /\ Spoken' /\ Silent'
  BY DEF IInv, GoOnline, HubForgets, Spoken, Silent, InUse, hubVars, netVars
<1>q. QED BY <1>1, <1>2, <1>3, <1>4, <1>5, <1>6, <1>7 DEF IInv

\* The network goes.
LEMMA GoOfflineStep ==
    ASSUME IInv, GoOffline PROVE IInv'
<1>1. TypeOK'
  <2>1. client' \in Client
    BY Zenon DEF IInv, TypeOK, GoOffline, Client
  <2>2. cs' \in CsType
    <3>1. client.socket \in Socket \cup {NoSocket} /\ cs \in CsType
      BY DEF IInv, TypeOK, Client, CsType
    <3>2. Closing(client.socket) \in CsType
      BY <3>1, ClosingFacts DEF IInv
    <3>q. QED BY <3>1, <3>2 DEF GoOffline
  <2>q. QED
    BY <2>1, <2>2 DEF IInv, TypeOK, GoOffline, CsType, hubVars, netVars, runVars, changeVars
<1>2. ClientInv'
  BY Zenon DEF IInv, GoOffline, ClientInv, InUse, NoStrayConnection, TypeOK, Client, Closing,
     netVars
<1>3. NoStrayConnection'
  BY SocketAssumption DEF IInv, GoOffline, NoStrayConnection, ClientInv, TypeOK, Closing
<1>4. Spoken'
  BY SocketAssumption DEF IInv, GoOffline, Spoken, HubForgets, TypeOK, Closing, hubVars,
     netVars, runVars, changeVars
<1>5. Silent' /\ ReadyFirst' /\ NoChangeMissed'
  <2>1. CASE client.stopped
    BY <2>1 DEF IInv, GoOffline, Silent, ReadyFirst, NoChangeMissed, Live, Announced, InUse,
                hubVars, netVars, runVars, changeVars
  <2>2. CASE ~client.stopped
    <3>1. client'.socket = NoSocket
      BY <2>2 DEF IInv, GoOffline, TypeOK, Client
    <3>2. ReadyFirst' /\ NoChangeMissed'
      BY <3>1, SocketAssumption DEF ReadyFirst, NoChangeMissed, Live
    <3>3. Silent'
      <4>1. client.socket \in Socket \cup {NoSocket} /\ TypeOK
        BY DEF IInv, TypeOK, Client
      <4>2. \A j \in Socket : /\ cs'[j].auth = cs[j].auth
                              /\ cs'[j].st \in {"closing", cs[j].st}
        BY <2>2, <4>1, ClosingFacts DEF GoOffline
      <4>q. QED BY <4>2 DEF IInv, GoOffline, Silent, InUse, hubVars, netVars
    <3>q. QED BY <3>2, <3>3
  <2>q. QED BY <2>1, <2>2
<1>6. Waiting'
  BY DEF IInv, GoOffline, Waiting, TypeOK, Client, Closing, hubVars, netVars, runVars
<1>7. HubForgets'
  BY DEF IInv, GoOffline, HubForgets, hubVars
<1>q. QED BY <1>1, <1>2, <1>3, <1>4, <1>5, <1>6, <1>7 DEF IInv

\* The reconnect timer.
LEMMA TimerFiresStep ==
    ASSUME IInv, TimerFires PROVE IInv'
<1>1. TypeOK'
  BY Zenon DEF IInv, TimerFires, TypeOK, Client, Connect, hubVars, netVars, runVars, changeVars
<1>2. ClientInv'
  BY DEF IInv, TimerFires, ClientInv, InUse, Connect
<1>3. NoStrayConnection'
  BY DEF IInv, TimerFires, NoStrayConnection, Connect
<1>4. ReadyFirst'
  BY DEF IInv, TimerFires, ReadyFirst, Live, Connect, hubVars, netVars
<1>5. Waiting'
  BY DEF IInv, TimerFires, Waiting, Connect, runVars
<1>6. NoChangeMissed'
  BY DEF IInv, TimerFires, NoChangeMissed, Live, Announced, Connect, hubVars, netVars, runVars,
     changeVars
<1>7. HubForgets' /\ Spoken' /\ Silent'
  BY DEF IInv, TimerFires, HubForgets, Spoken, Silent, InUse, hubVars, netVars
<1>q. QED BY <1>1, <1>2, <1>3, <1>4, <1>5, <1>6, <1>7 DEF IInv

\* No connection is made.
LEMMA GiveUpDiallingStep ==
    ASSUME IInv, GiveUpDialling PROVE IInv'
<1>1. TypeOK'
  <2>1. ScheduleReconnect(client, online) \in Client BY ScheduleType DEF IInv, TypeOK
  <2>2. client' \in Client BY <2>1 DEF GiveUpDialling, Client
  <2>3. faults' \in Nat BY DEF IInv, TypeOK, GiveUpDialling, Fault
  <2>q. QED BY <2>2, <2>3 DEF IInv, TypeOK, GiveUpDialling, hubVars, netVars, runVars, changeVars
<1>2. ClientInv'
  BY DEF IInv, GiveUpDialling, ClientInv, InUse, ScheduleReconnect
<1>3. NoStrayConnection'
  BY DEF IInv, GiveUpDialling, NoStrayConnection, ScheduleReconnect
<1>4. ReadyFirst'
  BY DEF IInv, GiveUpDialling, ReadyFirst, Live, ScheduleReconnect, hubVars, netVars
<1>5. Waiting'
  BY DEF IInv, GiveUpDialling, Waiting, ScheduleReconnect, runVars
<1>6. NoChangeMissed'
  BY DEF IInv, GiveUpDialling, NoChangeMissed, Live, Announced, ScheduleReconnect, hubVars,
     netVars, runVars, changeVars
<1>7. HubForgets' /\ Spoken' /\ Silent'
  BY DEF IInv, GiveUpDialling, HubForgets, Spoken, Silent, InUse, hubVars, netVars
<1>q. QED BY <1>1, <1>2, <1>3, <1>4, <1>5, <1>6, <1>7 DEF IInv

\* A connection is made.
LEMMA DialStep ==
    ASSUME IInv, NEW i \in Socket, Dial(i) PROVE IInv'
<1>1. TypeOK'
  <2>1. down' \in [Socket -> Seq({"ready", "changed"})] BY DEF IInv, TypeOK, Dial
  <2>2. client' \in Client BY DEF IInv, TypeOK, Dial, Client
  <2>q. QED BY <2>1, <2>2 DEF IInv, TypeOK, Dial, runVars, changeVars
<1>2. ClientInv'
  BY DEF IInv, Dial, ClientInv, InUse, TypeOK
<1>3. NoStrayConnection'
  BY SocketAssumption DEF IInv, Dial, NoStrayConnection, ClientInv
<1>4. HubForgets'
  BY DEF IInv, Dial, HubForgets, Free
<1>5. Spoken'
  BY DEF IInv, Dial, Spoken, HubForgets, Free
<1>6. Silent'
  BY DEF IInv, Dial, Silent, HubForgets, InUse, Spoken, TypeOK, Reaches, Free
<1>7. ReadyFirst'
  BY DEF IInv, Dial, ReadyFirst, Live, TypeOK
<1>8. Waiting'
  BY DEF IInv, Dial, Waiting, runVars
<1>9. NoChangeMissed'
  BY DEF IInv, Dial, NoChangeMissed, Live, TypeOK
<1>q. QED BY <1>1, <1>2, <1>3, <1>4, <1>5, <1>6, <1>7, <1>8, <1>9 DEF IInv

\* The client's close event.
LEMMA ClientEndsStep ==
    ASSUME IInv, NEW i \in Socket, ClientEnds(i) PROVE IInv'
<1>1. TypeOK'
  <2>1. down' \in [Socket -> Seq({"ready", "changed"})] BY DEF IInv, TypeOK, ClientEnds
  <2>2. client' \in Client
    <3> DEFINE c == IF client.socket = i THEN [client EXCEPT !.socket = NoSocket] ELSE client
    <3>1. c \in Client /\ client \in Client /\ online \in BOOLEAN BY DEF IInv, TypeOK, Client
    <3>2. ScheduleReconnect(c, online) \in Client BY <3>1, ScheduleType
    <3>q. QED BY <3>1, <3>2 DEF ClientEnds
  <2>q. QED BY <2>1, <2>2 DEF IInv, TypeOK, ClientEnds, hubVars, runVars, changeVars
<1>2. ClientInv'
  BY DEF IInv, ClientEnds, ClientInv, InUse, ScheduleReconnect
<1>3. NoStrayConnection'
  BY DEF IInv, ClientEnds, NoStrayConnection, TypeOK, ScheduleReconnect
<1>4. Spoken'
  BY DEF IInv, ClientEnds, Spoken, hubVars
<1>5. Silent'
  BY DEF IInv, ClientEnds, Silent, InUse, hubVars
<1>6. ReadyFirst'
  BY SocketAssumption DEF IInv, ClientEnds, ReadyFirst, Live, ClientInv, ScheduleReconnect,
     hubVars
<1>7. Waiting'
  BY DEF IInv, ClientEnds, Waiting, ScheduleReconnect, runVars
<1>8. NoChangeMissed'
  BY SocketAssumption DEF IInv, ClientEnds, NoChangeMissed, Live, Announced, ClientInv,
     ScheduleReconnect, hubVars, runVars, changeVars
<1>9. HubForgets'
  BY DEF IInv, ClientEnds, HubForgets, hubVars
<1>q. QED BY <1>1, <1>2, <1>3, <1>4, <1>5, <1>6, <1>7, <1>8, <1>9 DEF IInv

\* The open event; the client speaks first.
LEMMA ClientOpensStep ==
    ASSUME IInv, NEW i \in Socket, ClientOpens(i) PROVE IInv'
<1>1. TypeOK'
  <2>1. cs' \in CsType
    BY DEF IInv, TypeOK, ClientOpens, CsType
  <2>2. up' \subseteq Socket
    BY DEF IInv, TypeOK, ClientOpens
  <2>q. QED BY <2>1, <2>2 DEF IInv, TypeOK, ClientOpens, CsType, hubVars, runVars, changeVars
<1>2. ClientInv'
  BY DEF IInv, ClientOpens, ClientInv, InUse
<1>3. NoStrayConnection'
  BY DEF IInv, ClientOpens, NoStrayConnection
<1>4. Spoken'
  BY DEF IInv, ClientOpens, Spoken, TypeOK, hubVars
<1>5. Silent'
  BY DEF IInv, ClientOpens, Silent, InUse, Reaches, hubVars
<1>6. ReadyFirst'
  BY DEF IInv, ClientOpens, ReadyFirst, Live, Spoken, hubVars
<1>7. NoChangeMissed'
  BY DEF IInv, ClientOpens, NoChangeMissed, Live, Announced, Spoken, hubVars, runVars,
     changeVars
<1>8. HubForgets' /\ Waiting'
  BY DEF IInv, ClientOpens, HubForgets, Waiting, hubVars, runVars
<1>q. QED BY <1>1, <1>2, <1>3, <1>4, <1>5, <1>6, <1>7, <1>8 DEF IInv

\* A message: "ready" authenticates, "changed" counts only after it.
LEMMA ReceiveStep ==
    ASSUME IInv, NEW i \in Socket, Receive(i) PROVE IInv'
<1>1. /\ TypeOK /\ Waiting
      /\ Head(down[i]) = "ready" \/ cs[i].auth => Trigger
      /\ ~(Head(down[i]) = "ready" \/ cs[i].auth) => UNCHANGED <<client, run, queued>>
  BY DEF IInv, Receive
<1>2. /\ client' \in Client /\ run' \in {"idle", "before", "after"} /\ queued' \in BOOLEAN
      /\ client'.socket = client.socket /\ client'.stopped = client.stopped
      /\ client'.connecting = client.connecting
  BY <1>1, TriggerFacts DEF TypeOK
<1>3. TypeOK'
  <2>1. down' \in [Socket -> Seq({"ready", "changed"})]
    BY <1>1, TailType DEF TypeOK, Receive
  <2>2. cs' \in CsType
    BY <1>1, Zenon DEF TypeOK, Receive, CsType
  <2>q. QED BY <1>1, <1>2, <2>1, <2>2 DEF TypeOK, Receive, CsType, hubVars, changeVars
<1>4. \A j \in Socket : /\ cs'[j].st = cs[j].st
                        /\ j # i => cs'[j] = cs[j] /\ down'[j] = down[j]
                        /\ cs[j].auth => cs'[j].auth
  BY <1>1 DEF TypeOK, Receive
<1>5. ClientInv'
  BY <1>2, <1>4 DEF IInv, TypeOK, Client, ClientInv, InUse, Receive
<1>6. Live(i) => cs'[i].auth
  BY <1>1 DEF IInv, TypeOK, ReadyFirst, Receive
<1>7. \A j \in Socket : Live(j)' => Live(j)
  BY <1>2, <1>4 DEF Live, Receive, hubVars
<1>8. ReadyFirst'
  BY <1>4, <1>6, <1>7 DEF IInv, ReadyFirst
<1>9. NoChangeMissed'
  <2> SUFFICES ASSUME NEW j \in Socket, Live(j)', unseen', ~failed' PROVE Announced(j)'
    BY DEF NoChangeMissed
  <2>1. Live(j) /\ Announced(j)
    BY <1>7 DEF IInv, NoChangeMissed, Receive, changeVars
  <2>2. CASE Trigger
    BY <2>2, <1>1, TriggerFacts DEF Announced, Waiting
  <2>3. CASE ~Trigger
    <3>1. Head(down[i]) # "ready" /\ ~cs[i].auth /\ UNCHANGED <<client, run, queued>>
      BY <1>1, <2>3
    <3>2. i # j
      BY <3>1, <2>1 DEF IInv, ReadyFirst
    <3>q. QED BY <3>1, <3>2, <2>1, <1>4 DEF Announced, Receive, changeVars
  <2>q. QED BY <2>2, <2>3
<1>10. Waiting'
  BY <1>1, TriggerFacts DEF Waiting
<1>11. NoStrayConnection'
  BY SocketAssumption, Zenon DEF IInv, Receive, NoStrayConnection, ClientInv, InUse, TypeOK, Client,
     Trigger, RequestRun
<1>12. Spoken'
  BY Zenon DEF IInv, Receive, Spoken, HubForgets, TypeOK, Trigger, RequestRun, hubVars
<1>13. Silent'
  BY DEF IInv, Receive, Silent, InUse, TypeOK, hubVars
<1>14. HubForgets'
  BY DEF IInv, Receive, HubForgets, hubVars
<1>q. QED BY <1>3, <1>5, <1>8, <1>9, <1>10, <1>11, <1>12, <1>13, <1>14 DEF IInv

\* The hub accepts a connection.
LEMMA AcceptStep ==
    ASSUME IInv, NEW i \in Socket, Accept(i) PROVE IInv'
<1>1. TypeOK'
  BY DEF IInv, Accept, TypeOK, clientVars, netVars, runVars, changeVars
<1>2. HubForgets'
  BY DEF IInv, Accept, HubForgets
<1>3. Spoken'
  BY DEF IInv, Accept, Spoken, clientVars, netVars
<1>4. Silent'
  BY DEF IInv, Accept, Silent, InUse, Reaches, clientVars, netVars
<1>5. ReadyFirst'
  BY DEF IInv, Accept, ReadyFirst, Live, clientVars, netVars
<1>6. NoChangeMissed'
  BY DEF IInv, Accept, NoChangeMissed, Live, Announced, clientVars, netVars, runVars, changeVars
<1>7. ClientInv' /\ NoStrayConnection' /\ Waiting'
  BY DEF IInv, Accept, ClientInv, InUse, NoStrayConnection, Waiting, clientVars, runVars
<1>q. QED BY <1>1, <1>2, <1>3, <1>4, <1>5, <1>6, <1>7 DEF IInv

\* The first message reaches the hub.
LEMMA AuthMessageStep ==
    ASSUME IInv, NEW i \in Socket, AuthMessage(i) PROVE IInv'
<1>1. TypeOK'
  BY DEF IInv, AuthMessage, TypeOK, clientVars, runVars, changeVars
<1>2. Spoken'
  BY DEF IInv, AuthMessage, Spoken, clientVars
<1>3. Silent'
  BY DEF IInv, AuthMessage, Silent, InUse, Reaches, clientVars
<1>4. ReadyFirst' /\ Waiting' /\ NoChangeMissed'
  BY DEF IInv, AuthMessage, ReadyFirst, Live, Waiting, NoChangeMissed, Announced, clientVars,
     runVars, changeVars
<1>5. ClientInv' /\ NoStrayConnection' /\ HubForgets'
  BY DEF IInv, AuthMessage, ClientInv, InUse, NoStrayConnection, HubForgets, clientVars,
     runVars, changeVars
<1>q. QED BY <1>1, <1>2, <1>3, <1>4, <1>5 DEF IInv

\* The subscription, and the first message the client gets.
LEMMA AuthenticatedStep ==
    ASSUME IInv, NEW i \in Socket, Authenticated(i) PROVE IInv'
<1>1. TypeOK'
  <2>1. down' \in [Socket -> Seq({"ready", "changed"})]
    <3>1. down[i] \in Seq({"ready", "changed"}) /\ down \in [Socket -> Seq({"ready", "changed"})]
      BY DEF IInv, TypeOK
    <3>2. Append(down[i], "ready") \in Seq({"ready", "changed"})
      BY <3>1, AppendFacts
    <3>q. QED BY <3>1, <3>2 DEF Authenticated
  <2>q. QED BY <2>1 DEF IInv, TypeOK, Authenticated, clientVars, runVars, changeVars
<1>2. HubForgets'
  BY DEF IInv, Authenticated, HubForgets
<1>3. Spoken'
  BY DEF IInv, Authenticated, Spoken, clientVars
<1>4. Silent'
  BY DEF IInv, Authenticated, Silent, InUse, TypeOK, clientVars
<1>5. ReadyFirst'
  BY DEF IInv, Authenticated, ReadyFirst, Live, Silent, InUse, TypeOK, Reaches, clientVars
<1>6. NoChangeMissed'
  BY DEF IInv, Authenticated, NoChangeMissed, Live, Announced, TypeOK, Reaches, clientVars,
     runVars, changeVars
<1>7. ClientInv' /\ NoStrayConnection' /\ Waiting'
  BY DEF IInv, Authenticated, ClientInv, InUse, NoStrayConnection, Waiting, clientVars, runVars
<1>q. QED BY <1>1, <1>2, <1>3, <1>4, <1>5, <1>6, <1>7 DEF IInv

\* The device is refused.
LEMMA RefuseStep ==
    ASSUME IInv, NEW i \in Socket, Refuse(i) PROVE IInv'
<1>1. TypeOK'
  BY DEF IInv, Refuse, TypeOK, Fault, clientVars, netVars, runVars, changeVars
<1>2. HubForgets'
  BY DEF IInv, Refuse, HubForgets
<1>3. Spoken'
  BY DEF IInv, Refuse, Spoken, clientVars, netVars
<1>4. Silent'
  BY DEF IInv, Refuse, Silent, InUse, clientVars, netVars
<1>5. ReadyFirst'
  BY DEF IInv, Refuse, ReadyFirst, Live, clientVars, netVars
<1>6. NoChangeMissed'
  BY DEF IInv, Refuse, NoChangeMissed, Live, Announced, clientVars, netVars, runVars, changeVars
<1>7. ClientInv' /\ NoStrayConnection' /\ Waiting'
  BY DEF IInv, Refuse, ClientInv, InUse, NoStrayConnection, Waiting, clientVars, runVars
<1>q. QED BY <1>1, <1>2, <1>3, <1>4, <1>5, <1>6, <1>7 DEF IInv

\* The eight seconds are over.
LEMMA AuthTimeoutStep ==
    ASSUME IInv, NEW i \in Socket, AuthTimeout(i) PROVE IInv'
<1>1. TypeOK'
  BY DEF IInv, AuthTimeout, TypeOK, Fault, clientVars, netVars, runVars, changeVars
<1>2. HubForgets'
  BY DEF IInv, AuthTimeout, HubForgets
<1>3. Spoken'
  BY DEF IInv, AuthTimeout, Spoken, clientVars, netVars
<1>4. Silent'
  BY DEF IInv, AuthTimeout, Silent, InUse, clientVars, netVars
<1>5. ReadyFirst'
  BY DEF IInv, AuthTimeout, ReadyFirst, Live, clientVars, netVars
<1>6. NoChangeMissed'
  BY DEF IInv, AuthTimeout, NoChangeMissed, Live, Announced, clientVars, netVars, runVars,
     changeVars
<1>7. ClientInv' /\ NoStrayConnection' /\ Waiting'
  BY DEF IInv, AuthTimeout, ClientInv, InUse, NoStrayConnection, Waiting, clientVars, runVars
<1>q. QED BY <1>1, <1>2, <1>3, <1>4, <1>5, <1>6, <1>7 DEF IInv

\* The hub's close event.
LEMMA ServerEndsStep ==
    ASSUME IInv, NEW i \in Socket, ServerEnds(i) PROVE IInv'
<1>1. TypeOK'
  BY DEF IInv, ServerEnds, TypeOK, clientVars, netVars, runVars, changeVars
<1>2. HubForgets'
  BY DEF IInv, ServerEnds, HubForgets
<1>3. Spoken'
  BY DEF IInv, ServerEnds, Spoken, clientVars, netVars
<1>4. Silent'
  BY DEF IInv, ServerEnds, Silent, InUse, Reaches, clientVars, netVars
<1>5. ReadyFirst'
  BY DEF IInv, ServerEnds, ReadyFirst, Live, clientVars, netVars
<1>6. NoChangeMissed'
  BY DEF IInv, ServerEnds, NoChangeMissed, Live, Announced, clientVars, netVars, runVars,
     changeVars
<1>7. ClientInv' /\ NoStrayConnection' /\ Waiting'
  BY DEF IInv, ServerEnds, ClientInv, InUse, NoStrayConnection, Waiting, clientVars, runVars
<1>q. QED BY <1>1, <1>2, <1>3, <1>4, <1>5, <1>6, <1>7 DEF IInv

\* The path breaks.
LEMMA BreakStep ==
    ASSUME IInv, NEW i \in Socket, Break(i) PROVE IInv'
<1>1. TypeOK'
  BY DEF IInv, Break, TypeOK, Fault, clientVars, hubVars, runVars, changeVars
<1>2. Spoken'
  BY DEF IInv, Break, Spoken, clientVars, hubVars
<1>3. Silent'
  BY DEF IInv, Break, Silent, InUse, clientVars, hubVars
<1>4. ReadyFirst'
  BY DEF IInv, Break, ReadyFirst, Live, clientVars, hubVars
<1>5. NoChangeMissed'
  BY DEF IInv, Break, NoChangeMissed, Live, Announced, clientVars, hubVars, runVars, changeVars
<1>6. ClientInv' /\ NoStrayConnection' /\ HubForgets' /\ Waiting'
  BY DEF IInv, Break, ClientInv, InUse, NoStrayConnection, HubForgets, Waiting, clientVars,
     hubVars, runVars
<1>q. QED BY <1>1, <1>2, <1>3, <1>4, <1>5, <1>6 DEF IInv

\* The hosted API restarts.
LEMMA RestartStep ==
    ASSUME IInv, Restart PROVE IInv'
<1>1. TypeOK'
  BY DEF IInv, Restart, TypeOK, Fault, clientVars, netVars, runVars
<1>2. HubForgets'
  BY DEF IInv, Restart, HubForgets
<1>3. Spoken'
  BY DEF IInv, Restart, Spoken, clientVars, netVars
<1>4. Silent'
  BY DEF IInv, Restart, Silent, InUse, clientVars, netVars
<1>5. ReadyFirst'
  BY DEF IInv, Restart, ReadyFirst, Live
<1>6. NoChangeMissed'
  BY DEF IInv, Restart, NoChangeMissed, Live
<1>7. ClientInv' /\ NoStrayConnection' /\ Waiting'
  BY DEF IInv, Restart, ClientInv, InUse, NoStrayConnection, Waiting, clientVars, runVars
<1>q. QED BY <1>1, <1>2, <1>3, <1>4, <1>5, <1>6, <1>7 DEF IInv

\* A change is committed: from here on it must be announced.
LEMMA CommitStep ==
    ASSUME IInv, Commit PROVE IInv'
<1>1. TypeOK'
  <2>1. pub' \in Nat
    BY DEF IInv, TypeOK, Commit
  <2>2. unseen' \in BOOLEAN /\ failed' \in BOOLEAN
    BY DEF Commit
  <2>3. UNCHANGED <<clientVars, hubVars, netVars, runVars, faults>>
    BY DEF Commit
  <2>q. QED
    BY <2>1, <2>2, <2>3 DEF IInv, TypeOK, clientVars, hubVars, netVars, runVars
<1>2. NoChangeMissed'
  BY DEF IInv, Commit, NoChangeMissed, Announced, TypeOK
<1>3. Spoken' /\ Silent' /\ ReadyFirst' /\ Waiting'
  BY DEF IInv, Commit, InUse, Spoken, Silent, ReadyFirst, Live, Waiting, clientVars, hubVars,
     netVars, runVars
<1>4. ClientInv' /\ NoStrayConnection' /\ HubForgets'
  BY DEF IInv, Commit, ClientInv, InUse, NoStrayConnection, HubForgets, clientVars, hubVars,
     netVars, runVars
<1>q. QED BY <1>1, <1>2, <1>3, <1>4 DEF IInv

\* Whoever is connected has a message now.
LEMMA PublishStep ==
    ASSUME IInv, Publish PROVE IInv'
<1>1. TypeOK'
  BY DEF IInv, Publish, TypeOK, clientVars, runVars
<1>2. HubForgets'
  BY DEF IInv, Publish, HubForgets
<1>3. Spoken'
  BY DEF IInv, Publish, Spoken, clientVars
<1>4. Silent'
  BY DEF IInv, Publish, Silent, InUse, clientVars
<1>5. ReadyFirst'
  <2>1. /\ down \in [Socket -> Seq({"ready", "changed"})]
        /\ \A j \in Socket : \/ down'[j] = down[j]
                              \/ down'[j] = Append(down[j], "changed")
    BY DEF IInv, TypeOK, Publish
  <2>2. \A j \in Socket : down[j] # <<>> =>
          down'[j] # <<>> /\ Head(down'[j]) = Head(down[j])
    BY <2>1, AppendFacts
  <2>3. \A j \in Socket : Live(j)' => Live(j)
    BY DEF Live, Publish, clientVars
  <2>q. QED BY <2>2, <2>3 DEF IInv, ReadyFirst, Publish, clientVars
<1>6. NoChangeMissed'
  <2> SUFFICES ASSUME NEW i \in Socket, Live(i)', unseen', ~failed' PROVE Announced(i)'
    BY DEF NoChangeMissed
  <2>1. i \in subscribers /\ conn[i] = "open" /\ Reaches(i)
    BY DEF IInv, TypeOK, Publish, Live, Reaches, clientVars
  <2>2. down'[i] = Append(down[i], "changed")
    BY <2>1 DEF Publish
  <2>3. down'[i] # <<>>
    <3>1. down[i] \in Seq({"ready", "changed"})
      BY DEF IInv, TypeOK
    <3>q. QED BY <2>2, <3>1, AppendFacts
  <2>q. QED BY <2>3 DEF Announced
<1>7. ClientInv' /\ NoStrayConnection' /\ Waiting'
  BY DEF IInv, Publish, ClientInv, InUse, NoStrayConnection, Waiting, clientVars, runVars
<1>q. QED BY <1>1, <1>2, <1>3, <1>4, <1>5, <1>6, <1>7 DEF IInv

\* The change is seen.
LEMMA PullStep ==
    ASSUME IInv, Pull PROVE IInv'
<1>1. TypeOK'
  BY Zenon DEF IInv, Pull, TypeOK, Client, clientVars, hubVars, netVars
<1>2. Waiting'
  BY DEF IInv, Pull, Waiting
<1>3. NoChangeMissed'
  BY DEF IInv, Pull, NoChangeMissed
<1>4. Spoken' /\ Silent' /\ ReadyFirst'
  BY DEF IInv, Pull, InUse, Spoken, Silent, ReadyFirst, Live, clientVars, hubVars, netVars
<1>5. ClientInv' /\ NoStrayConnection' /\ HubForgets'
  BY DEF IInv, Pull, ClientInv, InUse, NoStrayConnection, HubForgets, clientVars, hubVars,
     netVars
<1>q. QED BY <1>1, <1>2, <1>3, <1>4, <1>5 DEF IInv

\* A reconciliation ends: who waits starts another.
LEMMA RunEndsStep ==
    ASSUME IInv, RunEnds PROVE IInv'
<1>1. TypeOK'
  <2>1. client' \in Client
    BY Zenon DEF IInv, TypeOK, Client, RunEnds
  <2>q. QED BY <2>1 DEF IInv, TypeOK, RunEnds, hubVars, netVars
<1>2. ClientInv'
  <2>1. /\ client'.socket = client.socket /\ client'.stopped = client.stopped
        /\ client'.connecting = client.connecting
    BY DEF IInv, TypeOK, Client, RunEnds
  <2>q. QED BY <2>1 DEF IInv, ClientInv, InUse, RunEnds
<1>3. NoStrayConnection'
  BY Zenon DEF IInv, RunEnds, NoStrayConnection, ClientInv, InUse, TypeOK, Client
<1>4. ReadyFirst'
  <2>1. client'.socket = client.socket
    BY DEF IInv, TypeOK, Client, RunEnds
  <2>q. QED BY <2>1 DEF IInv, ReadyFirst, Live, RunEnds, hubVars, netVars
<1>5. Waiting'
  BY DEF IInv, RunEnds, Waiting, TypeOK, Client
<1>6. NoChangeMissed'
  <2> SUFFICES ASSUME NEW i \in Socket, Live(i)', unseen', ~failed' PROVE Announced(i)'
    BY DEF NoChangeMissed
  <2>1. client'.socket = client.socket /\ client'.stopped = client.stopped
    BY DEF IInv, TypeOK, Client, RunEnds
  <2>2. Live(i) /\ unseen /\ ~failed /\ run = "after"
    BY <2>1 DEF IInv, TypeOK, Live, RunEnds, hubVars, netVars
  <2>3. Announced(i)
    BY <2>2 DEF IInv, NoChangeMissed
  <2>4. ~client.stopped
    BY <2>2, SocketAssumption DEF IInv, ClientInv, Live
  <2>q. QED BY <2>2, <2>3, <2>4 DEF Announced, RunEnds, netVars
<1>7. HubForgets' /\ Spoken' /\ Silent'
  BY DEF IInv, RunEnds, HubForgets, Spoken, Silent, InUse, hubVars, netVars
<1>q. QED BY <1>1, <1>2, <1>3, <1>4, <1>5, <1>6, <1>7 DEF IInv

\* DesktopSync's timer.
LEMMA TimerTickStep ==
    ASSUME IInv, TimerTick PROVE IInv'
<1>1. TypeOK'
  BY Zenon DEF IInv, TimerTick, TypeOK, Client, RequestRun, clientVars, hubVars, netVars, changeVars
<1>2. Waiting'
  BY DEF IInv, TimerTick, Waiting, RequestRun
<1>3. NoChangeMissed'
  BY DEF IInv, TimerTick, NoChangeMissed, Announced, RequestRun
<1>4. Spoken' /\ Silent' /\ ReadyFirst'
  BY DEF IInv, TimerTick, InUse, Spoken, Silent, ReadyFirst, Live, clientVars, hubVars, netVars
<1>5. ClientInv' /\ NoStrayConnection' /\ HubForgets'
  BY DEF IInv, TimerTick, ClientInv, InUse, NoStrayConnection, HubForgets, clientVars, hubVars,
     netVars
<1>q. QED BY <1>1, <1>2, <1>3, <1>4, <1>5 DEF IInv

\* DesktopSync is done.
LEMMA OthersEndStep ==
    ASSUME IInv, OthersEnd PROVE IInv'
<1>1. TypeOK'
  BY DEF IInv, OthersEnd, TypeOK, clientVars, hubVars, netVars, changeVars
<1>2. Silent' /\ ReadyFirst' /\ Waiting' /\ NoChangeMissed'
  BY DEF IInv, OthersEnd, InUse, Silent, ReadyFirst, Live, Waiting, NoChangeMissed, Announced,
     clientVars, hubVars, netVars, changeVars
<1>3. ClientInv' /\ NoStrayConnection' /\ HubForgets' /\ Spoken'
  BY DEF IInv, OthersEnd, ClientInv, InUse, NoStrayConnection, HubForgets, Spoken, clientVars,
     hubVars, netVars, changeVars
<1>q. QED BY <1>1, <1>2, <1>3 DEF IInv

-----------------------------------------------------------------------------
(* The theorems. *)

\* The invariant holds initially.
LEMMA InitInv == Init => IInv
<1> SUFFICES ASSUME Init PROVE IInv
  OBVIOUS
<1>1. client.stopped /\ client.socket = NoSocket /\ client.connecting = "no"
      /\ ~client.reconciling
  BY DEF Init, NewClient
<1>2. TypeOK
  <2>1. client \in Client
    BY DEF Init, NewClient, Client
  <2>2. down \in [Socket -> Seq({"ready", "changed"})]
    BY DEF Init
  <2>q. QED BY <2>1, <2>2 DEF Init, TypeOK
<1>3. ClientInv /\ NoStrayConnection /\ HubForgets /\ Spoken /\ Silent
  BY <1>1 DEF Init, ClientInv, InUse, NoStrayConnection, HubForgets, Spoken, Silent
<1>4. ReadyFirst /\ Waiting /\ NoChangeMissed
  BY <1>1, SocketAssumption DEF Init, ReadyFirst, Live, Waiting, NoChangeMissed
<1>q. QED BY <1>2, <1>3, <1>4 DEF IInv

\* What leaves every variable alone leaves the invariant alone.
LEMMA StutterInv == ASSUME IInv, UNCHANGED vars PROVE IInv'
<1>1. TypeOK'
  BY DEF IInv, TypeOK, vars, clientVars, hubVars, netVars, runVars, changeVars
<1>2. ClientInv' /\ NoStrayConnection' /\ HubForgets' /\ Spoken' /\ Silent'
  BY DEF IInv, ClientInv, InUse, NoStrayConnection, HubForgets, Spoken, Silent, vars,
         clientVars, hubVars, netVars
<1>3. ReadyFirst' /\ Waiting' /\ NoChangeMissed'
  BY DEF IInv, ReadyFirst, Waiting, NoChangeMissed, Live, Announced, vars,
         clientVars, hubVars, netVars, runVars, changeVars
<1>q. QED BY <1>1, <1>2, <1>3 DEF IInv

\* Every step of the system preserves the invariant.
LEMMA NextInv == ASSUME IInv, [Next]_vars PROVE IInv'
<1>1. CASE ClientStep
  BY <1>1, StartStep, StartNewStep, StopStep, GoOnlineStep, GoOfflineStep, TimerFiresStep,
     GiveUpDiallingStep DEF ClientStep
<1>2. CASE RunStep
  BY <1>2, CommitStep, PublishStep, PullStep, RunEndsStep, TimerTickStep, OthersEndStep
     DEF RunStep
<1>3. CASE Restart
  BY <1>3, RestartStep
<1>4. ASSUME NEW i \in Socket, SocketStep(i) PROVE IInv'
  BY <1>4, DialStep, ClientEndsStep, ClientOpensStep, ReceiveStep, AcceptStep,
     AuthMessageStep, AuthenticatedStep, RefuseStep, AuthTimeoutStep, ServerEndsStep,
     BreakStep DEF SocketStep
<1>5. CASE UNCHANGED vars
  BY <1>5, StutterInv
<1>q. QED BY <1>1, <1>2, <1>3, <1>4, <1>5 DEF Next

\* The invariant holds in every reachable state.
THEOREM RealtimeInvariant == Spec => []IInv
BY InitInv, NextInv, PTL DEF Spec

\* Every variable keeps its type.
THEOREM RealtimeTyped == Spec => []TypeOK
<1>1. IInv => TypeOK BY DEF IInv
<1>q. QED BY <1>1, RealtimeInvariant, PTL

\* While connected a Desktop misses no committed change, however connecting,
\* announcements and reconciliations interleave (desktopRealtimeCore.ts 26-36,
\* 58-72; desktopCashRegister.ts 55-61).
THEOREM NoChangeIsMissed == Spec => []NoChangeMissed
<1>1. IInv => NoChangeMissed BY DEF IInv
<1>q. QED BY <1>1, RealtimeInvariant, PTL

\* A client has one connection at most and none once stopped, and the hub keeps
\* no subscription of a connection that has ended (desktopRealtimeCore.ts 47-56,
\* 93-97; desktop-realtime.ts 46-60).
THEOREM NoConnectionIsLeft == Spec => []NothingLeftBehind
<1>1. IInv => NothingLeftBehind BY DEF IInv, NothingLeftBehind
<1>q. QED BY <1>1, RealtimeInvariant, PTL
=============================================================================
