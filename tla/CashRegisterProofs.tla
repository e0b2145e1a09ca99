------------------------- MODULE CashRegisterProofs -------------------------
(* What holds of CashRegisterSync for every number of devices, branches,   *)
(* mutations and sessions and every value of the bounds: types, the safety *)
(* of sessions and verdicts, the refinement of CashLedger, what the cursor *)
(* passes over, and what the queue gives.                                  *)
EXTENDS CashRegisterSync, FiniteSetTheorems, TLAPS

-----------------------------------------------------------------------------
(* Type correctness.                                                       *)

LEMMA KeyFacts ==
    /\ MutId \subseteq RowKey
    /\ \A h \in HostedId : PulledKey(h) \in RowKey /\ PulledKey(h) \notin MutId
    /\ \A g, h \in HostedId : PulledKey(g) = PulledKey(h) => g = h
    /\ None \notin MutId /\ None \notin HostedId
    /\ 1 \in MutId
  BY BoundAssumption DEF RowKey, MutId, HostedId, PulledKey, None

LEMMA IdleType == Idle \in Worker
  BY DEF Idle, Worker, NoOutcome, Outcome, NoCursor, Cursor, None

LEMMA InitType == Init => TypeOK
<1>1. AnyBranch \in Branch
  BY DeviceAssumption DEF AnyBranch
<1>2. ASSUME Init PROVE TypeOK
  BY <1>1, <1>2, IdleType, KeyFacts
     DEF Init, TypeOK, Absent, Unused, Row, Queued, Session, Outcome, Cursor,
         NoCursor, NoOutcome, None
<1> QED BY <1>2

LEMMA UserType ==
    ASSUME TypeOK, NEW d \in Device, User(d)
    PROVE  TypeOK'
<1>1. ASSUME NEW b \in Branch, LocalOpen(d, b) PROVE TypeOK'
  <2>1. [st |-> "open", sync |-> "pending", srv |-> None, br |-> b] \in Row
    BY DEF Row
  <2>2. \A m \in MutId :
           [op |-> "open", row |-> m, srv |-> None, br |-> b, st |-> "pending"] \in Queued
    BY KeyFacts DEF Queued
  <2> QED BY <1>1, <2>1, <2>2, KeyFacts DEF TypeOK, LocalOpen
<1>2. ASSUME NEW b \in Branch, NEW r \in RowKey, LocalClose(d, b, r) PROVE TypeOK'
  <2>1. sessions[d][r] \in Row
    BY DEF TypeOK
  <2>2. [sessions[d][r] EXCEPT !.st = "closed", !.sync = "pending"] \in Row
    BY <2>1 DEF Row
  <2>3. sessions' \in [Device -> [RowKey -> Row]]
    BY <1>2, <2>2 DEF TypeOK, LocalClose
  <2>4. [op |-> "close", row |-> r, srv |-> sessions[d][r].srv, br |-> b, st |-> "pending"]
           \in Queued
    BY <2>1 DEF Queued, Row
  <2>5. outbox' \in [Device -> [MutId -> Queued]]
    BY <1>2, <2>4 DEF TypeOK, LocalClose
  <2> QED BY <1>2, <2>3, <2>5 DEF TypeOK, LocalClose
<1>3. ASSUME NEW m \in MutId, Retry(d, m) PROVE TypeOK'
  <2>0. outbox[d][m] \in Queued
    BY DEF TypeOK
  <2>1. [outbox[d][m] EXCEPT !.st = "pending"] \in Queued
    BY <2>0 DEF Queued
  <2>2. outbox' \in [Device -> [MutId -> Queued]]
    BY <1>3, <2>1 DEF TypeOK, Retry
  <2> QED BY <1>3, <2>2 DEF TypeOK, Retry
<1> QED BY <1>1, <1>2, <1>3 DEF User

\* The hosted transactions keep the hosted tables well typed.
HostedTypeOK ==
    /\ hosted \in [HostedId -> Session]
    /\ outcome \in [Mutation -> Outcome]
    /\ clock \in Nat

LEMMA StampsType ==
    ASSUME clock \in Nat, NEW s \in Nat, NEW t \in Stamps(s)
    PROVE  t \in Nat
  BY DEF Stamps

LEMMA CloseSessionType ==
    ASSUME HostedTypeOK, NEW h \in HostedId, NEW t \in Nat, CloseSession(h, t)
    PROVE  hosted' \in [HostedId -> Session]
<1>1. [hosted[h] EXCEPT !.st = "closed", !.upd = t, !.done = clock] \in Session
  BY DEF HostedTypeOK, Session
<1> QED BY <1>1 DEF HostedTypeOK, CloseSession

\* A push is executed at once, or by its insert some time after the look-ups.
Executes(m, srv, s) == HostedPush(m, srv, s) \/ PushOpen(m, s)

\* The server answers d.
Served(d) ==
    /\ worker[d].pc \in {"await", "insert"}
    /\ worker[d].pc = "await" => HostedPush(Sent(d), worker[d].srv[worker[d].at], worker[d].sent)
    /\ worker[d].pc = "insert" => PushOpen(Sent(d), worker[d].sent)
    /\ worker' = [worker EXCEPT ![d] =
                    [@ EXCEPT !.pc = "reply", !.reply = outcome'[<<d, worker[d].at>>]]]
    /\ UNCHANGED <<sessions, outbox, cursor, strays>>

LEMMA ServedIs ==
    ASSUME NEW d \in Device, ServePush(d) \/ InsertPush(d)
    PROVE  /\ Served(d)
           /\ Executes(<<d, worker[d].at>>, worker[d].srv[worker[d].at], worker[d].sent)
  BY DEF ServePush, InsertPush, Served, Executes, Sent

LEMMA ServedExecutes ==
    ASSUME NEW d \in Device, Served(d)
    PROVE  Executes(<<d, worker[d].at>>, worker[d].srv[worker[d].at], worker[d].sent)
  BY DEF Served, Executes, Sent

LEMMA HostedPushType ==
    ASSUME TypeOK, NEW m \in Mutation, NEW srv \in HostedId \cup {None}, NEW s \in Nat,
           Executes(m, srv, s)
    PROVE  HostedTypeOK'
<1> USE DEF HostedTypeOK, TypeOK
<1>0. Payload(m).br \in Branch
  BY DEF Payload, Mutation, Queued
<1>1. CASE Replay(m)
  BY <1>1 DEF Replay, hostedVars
<1>2. CASE PushOpen(m, s)
  BY <1>0, <1>2, StampsType DEF PushOpen, InsertSession, Session, Outcome
<1>3. CASE PushOpenConflict(m)
  BY <1>3 DEF PushOpenConflict, OpenAt, Outcome
<1>4. CASE PushClose(m, srv, s)
  <2>1. srv \in HostedId
    BY <1>4 DEF PushClose
  <2>2. outcome' \in [Mutation -> Outcome]
    BY <1>4, <2>1 DEF PushClose, Outcome
  <2>3. hosted' \in [HostedId -> Session] /\ clock' \in Nat
    BY <1>4, <2>1, StampsType, CloseSessionType DEF PushClose
  <2> QED BY <2>2, <2>3
<1>5. CASE PushOrphanClose(m, srv)
  BY <1>5 DEF PushOrphanClose, hostedVars
<1> QED BY <1>1, <1>2, <1>3, <1>4, <1>5 DEF Executes, HostedPush

LEMMA WebType == ASSUME TypeOK, Web PROVE TypeOK'
<1>1. ASSUME NEW b \in Branch, WebOpen(b) PROVE TypeOK'
  BY <1>1, StampsType DEF TypeOK, WebOpen, InsertSession, Session
<1>2. ASSUME NEW b \in Branch, WebClose(b) PROVE TypeOK'
  <2>1. PICK h \in OpenAt(b) : \E t \in Stamps(hosted[h].done + 1) : CloseSession(h, t)
    BY <1>2 DEF WebClose
  <2>2. h \in HostedId /\ hosted[h].done + 1 \in Nat
    BY DEF OpenAt, TypeOK, Session
  <2>3. hosted' \in [HostedId -> Session]
    BY <2>1, <2>2, StampsType, CloseSessionType DEF HostedTypeOK, TypeOK
  <2> QED BY <1>2, <2>3 DEF TypeOK, WebClose
<1> QED BY <1>1, <1>2 DEF Web

LEMMA StrayType == ASSUME TypeOK, NEW q \in strays, ServeStray(q) \/ LookStray(q) PROVE TypeOK'
<1>0. q \in Request
  BY DEF TypeOK
<1>1. CASE ServeStray(q)
  <2>1. HostedTypeOK'
    <3>1. CASE Executes(q.mut, q.srv, q.sent)
      BY <1>0, <3>1, HostedPushType DEF Request
    <3>2. CASE UNCHANGED hostedVars
      BY <3>2 DEF hostedVars, TypeOK, HostedTypeOK
    <3> QED BY <1>1, <3>1, <3>2 DEF ServeStray, Executes
  <2> QED BY <1>1, <2>1 DEF ServeStray, TypeOK, HostedTypeOK
<1>2. CASE LookStray(q)
  <2>1. [q EXCEPT !.looked = TRUE] \in Request
    BY <1>0 DEF Request
  <2> QED BY <1>2, <2>1 DEF LookStray, TypeOK
<1> QED BY <1>1, <1>2

-----------------------------------------------------------------------------
(* The reconciler keeps its record and the device's tables well typed.     *)

\* While a push is under way the worker knows its mutation.
Sending(w) == w.pc \in {"await", "insert", "reply"} => w.at \in MutId
TypeInv == TypeOK /\ \A d \in Device : Sending(worker[d])

LEMMA WorkerStep ==
    ASSUME TypeInv, NEW d \in Device, NEW w \in Worker, Sending(w),
           worker' = [worker EXCEPT ![d] = w],
           sessions' \in [Device -> [RowKey -> Row]],
           outbox' \in [Device -> [MutId -> Queued]],
           cursor' \in [Device -> Cursor],
           HostedTypeOK',
           strays' \subseteq Request
    PROVE  TypeInv'
  BY DEF TypeInv, TypeOK, HostedTypeOK

LEMMA LocalStep ==
    ASSUME TypeInv, UNCHANGED worker, TypeOK'
    PROVE  TypeInv'
  BY DEF TypeInv

LEMMA LoadType == ASSUME TypeInv, NEW d \in Device, Load(d) PROVE TypeInv'
<1>1. FirstPending(d) \subseteq MutId
  BY DEF FirstPending, Pending
<1>2. [m \in MutId |-> IF m \in FirstPending(d) THEN outbox[d][m].srv ELSE None]
         \in [MutId -> HostedId \cup {None}]
  BY DEF TypeInv, TypeOK, Queued
<1>3. cursor[d] \in Cursor
  BY DEF TypeInv, TypeOK
<1> DEFINE w == [Idle EXCEPT !.pc = "push", !.batch = FirstPending(d), !.todo = FirstPending(d),
                   !.srv = [m \in MutId |-> IF m \in FirstPending(d)
                                            THEN outbox[d][m].srv ELSE None],
                   !.from = cursor[d]]
<1>4. w \in Worker /\ w.pc = "push"
  BY <1>1, <1>2, <1>3, IdleType DEF Worker
<1>5. worker' = [worker EXCEPT ![d] = w]
  BY DEF Load
<1> QED BY <1>4, <1>5, WorkerStep DEF Load, Sending, TypeInv, TypeOK, HostedTypeOK

LEMMA SendPushType == ASSUME TypeInv, NEW d \in Device, SendPush(d) PROVE TypeInv'
<1>1. PICK m \in Unsent(d) :
        worker' = [worker EXCEPT ![d] = [@ EXCEPT !.pc = "await", !.at = m, !.sent = clock]]
  BY DEF SendPush
<1>2. m \in MutId
  BY DEF Unsent, TypeInv, TypeOK, Worker
<1> DEFINE w == [worker[d] EXCEPT !.pc = "await", !.at = m, !.sent = clock]
<1>3. w \in Worker /\ w.at = m
  BY <1>2 DEF TypeInv, TypeOK, Worker
<1>4. worker' = [worker EXCEPT ![d] = w]
  BY <1>1
<1> QED BY <1>2, <1>3, <1>4, WorkerStep DEF SendPush, Sending, TypeInv, TypeOK, HostedTypeOK

LEMMA ServePushType == ASSUME TypeInv, NEW d \in Device, Served(d) PROVE TypeInv'
<1>1. worker[d] \in Worker /\ worker[d].at \in MutId
  BY DEF Served, TypeInv, TypeOK, Sending
<1>2. HostedTypeOK'
  BY <1>1, ServedExecutes, HostedPushType DEF Served, TypeInv, Mutation, Worker
<1> DEFINE w == [worker[d] EXCEPT !.pc = "reply", !.reply = outcome'[<<d, worker[d].at>>]]
<1>3. outcome'[<<d, worker[d].at>>] \in Outcome
  BY <1>1, <1>2 DEF HostedTypeOK, Mutation
<1>4. w \in Worker /\ w.at = worker[d].at
  BY <1>1, <1>3 DEF Worker
<1>5. worker' = [worker EXCEPT ![d] = w]
  BY DEF Served
<1> QED BY <1>1, <1>2, <1>4, <1>5, WorkerStep DEF Served, Sending, TypeInv, TypeOK

LEMMA LookPushType == ASSUME TypeInv, NEW d \in Device, LookPush(d) PROVE TypeInv'
<1> DEFINE w == [worker[d] EXCEPT !.pc = "insert"]
<1>1. w \in Worker /\ w.at = worker[d].at /\ w.at \in MutId
  BY DEF LookPush, TypeInv, TypeOK, Sending, Worker
<1>2. worker' = [worker EXCEPT ![d] = w]
  BY DEF LookPush
<1> QED BY <1>1, <1>2, WorkerStep DEF LookPush, Sending, TypeInv, TypeOK, HostedTypeOK

LEMMA GiveUpType == ASSUME TypeInv, NEW d \in Device, GiveUp(d) PROVE TypeInv'
<1>1. ASSUME worker[d].pc \in {"await", "insert"}
      PROVE  [mut |-> Sent(d), sent |-> worker[d].sent,
              srv |-> worker[d].srv[worker[d].at],
              looked |-> worker[d].pc = "insert"] \in Request
  BY <1>1 DEF TypeInv, TypeOK, Sending, Worker, Request, Mutation, Sent
<1>2. strays' \subseteq Request
  BY <1>1 DEF GiveUp, TypeInv, TypeOK
<1>3. Sending(Idle)
  BY DEF Sending, Idle
<1> QED BY <1>2, <1>3, IdleType, WorkerStep DEF GiveUp, TypeInv, TypeOK, HostedTypeOK

LEMMA IdleStep ==
    ASSUME TypeInv, NEW d \in Device, worker' = [worker EXCEPT ![d] = Idle],
           UNCHANGED <<sessions, outbox, cursor, hosted, outcome, strays, clock>>
    PROVE  TypeInv'
<1>1. Sending(Idle)
  BY DEF Sending, Idle
<1> QED BY <1>1, IdleType, WorkerStep DEF TypeInv, TypeOK, HostedTypeOK

LEMMA AckType == ASSUME TypeInv, NEW d \in Device, Ack(d) PROVE TypeInv'
<1> DEFINE m == worker[d].at
           r == outbox[d][m].row
           h == worker[d].reply.sid
           srv == [n \in MutId |-> IF n \in Group(d, m) /\ outbox[d][n].op = "close"
                                      /\ worker[d].srv[n] = None
                                   THEN h ELSE worker[d].srv[n]]
           w == [worker[d] EXCEPT !.pc = "push", !.todo = worker[d].todo \ {m}, !.reply = NoOutcome,
                   !.at = None, !.sent = 0, !.srv = srv]
<1>1. m \in MutId /\ worker[d] \in Worker
  BY DEF Ack, TypeInv, TypeOK, Sending
<1>2. r \in RowKey /\ h \in HostedId \cup {None}
  <2>1. outbox[d][m] \in Queued
    BY <1>1 DEF TypeInv, TypeOK
  <2>2. worker[d].reply \in Outcome
    BY <1>1 DEF Worker
  <2> QED BY <2>1, <2>2 DEF Queued, Outcome
<1>3. srv \in [MutId -> HostedId \cup {None}]
  BY <1>1, <1>2 DEF Worker
<1>4. w \in Worker /\ w.pc = "push"
  BY <1>1, <1>3 DEF Worker, NoOutcome, Outcome
<1>5. worker' = [worker EXCEPT ![d] = w]
  BY DEF Ack
<1>6. sessions' \in [Device -> [RowKey -> Row]]
  <2>1. sessions[d][r] \in Row
    BY <1>2 DEF TypeInv, TypeOK
  <2>2. [sessions[d][r] EXCEPT !.srv = h, !.sync = "synced"] \in Row
    BY <1>2, <2>1 DEF Row
  <2> QED BY <1>2, <2>2 DEF TypeInv, TypeOK, Ack
<1>7. outbox' \in [Device -> [MutId -> Queued]]
  <2>1. ASSUME NEW n \in MutId
        PROVE  /\ outbox[d][n] \in Queued
               /\ [outbox[d][n] EXCEPT !.st = "synced"] \in Queued
               /\ [outbox[d][n] EXCEPT !.srv = h] \in Queued
    <3>1. outbox[d][n] \in Queued
      BY DEF TypeInv, TypeOK
    <3> QED BY <1>2, <3>1 DEF Queued
  <2> QED BY <2>1 DEF TypeInv, TypeOK, Ack
<1> QED BY <1>4, <1>5, <1>6, <1>7, WorkerStep DEF Ack, Sending, TypeInv, TypeOK, HostedTypeOK

LEMMA QuarantineType ==
    ASSUME TypeInv, NEW d \in Device, NEW muts, worker[d].at \in MutId, Quarantine(d, muts)
    PROVE  TypeInv'
<1> DEFINE r == outbox[d][worker[d].at].row
           w == [worker[d] EXCEPT !.pc = "push", !.todo = worker[d].todo \ {worker[d].at},
                   !.quarantined = worker[d].quarantined \cup {r}, !.reply = NoOutcome, !.at = None, !.sent = 0]
<1>1. worker[d] \in Worker /\ r \in RowKey
  <2>1. outbox[d][worker[d].at] \in Queued
    BY DEF TypeInv, TypeOK
  <2> QED BY <2>1 DEF TypeInv, TypeOK, Queued
<1>2. w \in Worker /\ w.pc = "push"
  BY <1>1 DEF Worker, NoOutcome, Outcome
<1>3. worker' = [worker EXCEPT ![d] = w]
  BY DEF Quarantine
<1>4. sessions' \in [Device -> [RowKey -> Row]]
  <2>1. sessions[d][r] \in Row
    BY <1>1 DEF TypeInv, TypeOK
  <2>2. [sessions[d][r] EXCEPT !.sync = "conflict"] \in Row
    BY <2>1 DEF Row
  <2> QED BY <1>1, <2>2 DEF TypeInv, TypeOK, Quarantine
<1>5. outbox' \in [Device -> [MutId -> Queued]]
  <2>1. ASSUME NEW n \in MutId
        PROVE  outbox[d][n] \in Queued /\ [outbox[d][n] EXCEPT !.st = "conflict"] \in Queued
    <3>1. outbox[d][n] \in Queued
      BY DEF TypeInv, TypeOK
    <3> QED BY <3>1 DEF Queued
  <2> QED BY <2>1 DEF TypeInv, TypeOK, Quarantine
<1> QED BY <1>2, <1>3, <1>4, <1>5, WorkerStep
        DEF Quarantine, Sending, TypeInv, TypeOK, HostedTypeOK

LEMMA PageType ==
    ASSUME TypeInv, NEW c \in Cursor
    PROVE  /\ Page(c) \subseteq Pulled
           /\ NextCursors(c, Page(c)) \subseteq Cursor
<1>1. ASSUME NEW h \in HostedId, hosted[h].st # "none"
      PROVE  [id |-> h, st |-> hosted[h].st, br |-> hosted[h].br, upd |-> hosted[h].upd]
                \in Pulled
  <2>1. hosted[h] \in Session
    BY DEF TypeInv, TypeOK
  <2> QED BY <1>1, <2>1 DEF Session, Pulled
<1>2. Page(c) \subseteq Pulled
  BY <1>1 DEF Page, Newer
<1>3. \A p \in Pulled : Position(p) \in Cursor
  BY DEF Position, Pulled, Cursor
<1> QED BY <1>2, <1>3 DEF NextCursors

LEMMA PullType == ASSUME TypeInv, NEW d \in Device, Pull(d) PROVE TypeInv'
<1>1. worker[d].from \in Cursor
  BY DEF TypeInv, TypeOK, Worker
<1>2. PICK n \in NextCursors(worker[d].from, Page(worker[d].from)) :
        worker' = [worker EXCEPT ![d] =
                     [Idle EXCEPT !.pc = "apply", !.pulled = Page(worker[d].from),
                                  !.from = worker[d].from, !.next = n]]
  BY DEF Pull
<1> DEFINE w == [Idle EXCEPT !.pc = "apply", !.pulled = Page(worker[d].from),
                             !.from = worker[d].from, !.next = n]
<1>3. w \in Worker /\ w.pc = "apply"
  BY <1>1, PageType, IdleType DEF Worker
<1>4. worker' = [worker EXCEPT ![d] = w]
  BY <1>2
<1> QED BY <1>3, <1>4, WorkerStep DEF Pull, Sending, TypeInv, TypeOK, HostedTypeOK

LEMMA AppliedType ==
    ASSUME TypeOK, NEW d \in Device, NEW rows \in SUBSET Pulled
    PROVE  Applied(d, rows) \in [RowKey -> Row]
<1> SUFFICES ASSUME NEW r \in RowKey PROVE Applied(d, rows)[r] \in Row
  BY DEF Applied
<1>1. sessions[d][r] \in Row
  BY DEF TypeOK
<1>2. CASE \E p \in rows : sessions[d][r].srv = p.id
  <2> DEFINE p == CHOOSE q \in rows : sessions[d][r].srv = q.id
  <2>1. p \in Pulled
    BY <1>2
  <2>2. Applied(d, rows)[r] =
          [sessions[d][r] EXCEPT !.st = p.st, !.sync = "synced",
             !.br = IF p.br = NoBranch THEN @ ELSE p.br]
    BY <1>2 DEF Applied
  <2> HIDE DEF p
  <2> QED BY <1>1, <2>1, <2>2 DEF Row, Pulled
<1>3. CASE ~ (\E p \in rows : sessions[d][r].srv = p.id) /\ Displaced(d, rows, r)
  <2>1. Applied(d, rows)[r] = [sessions[d][r] EXCEPT !.sync = "conflict"]
    BY <1>3 DEF Applied
  <2> QED BY <1>1, <2>1 DEF Row
<1>4. CASE /\ ~ (\E p \in rows : sessions[d][r].srv = p.id) /\ ~Displaced(d, rows, r)
           /\ \E p \in rows : ~Copied(d, p) /\ r = PulledKey(p.id)
  <2> DEFINE p == CHOOSE q \in rows : r = PulledKey(q.id)
  <2>1. p \in Pulled
    BY <1>4
  <2>2. Applied(d, rows)[r] = [st |-> p.st, sync |-> "synced", srv |-> p.id, br |-> p.br]
    BY <1>4 DEF Applied
  <2> HIDE DEF p
  <2> QED BY <2>1, <2>2 DEF Row, Pulled
<1>5. CASE /\ ~ (\E p \in rows : sessions[d][r].srv = p.id) /\ ~Displaced(d, rows, r)
           /\ ~ \E p \in rows : ~Copied(d, p) /\ r = PulledKey(p.id)
  BY <1>1, <1>5 DEF Applied
<1> QED BY <1>2, <1>3, <1>4, <1>5

LEMMA ApplyType == ASSUME TypeInv, NEW d \in Device, Apply(d) PROVE TypeInv'
<1>1. worker[d].next \in Cursor /\ worker[d].pulled \in SUBSET Pulled
  BY DEF TypeInv, TypeOK, Worker
<1>2. sessions' \in [Device -> [RowKey -> Row]]
  BY <1>1, AppliedType DEF Apply, TypeInv, TypeOK
<1>3. Sending(Idle)
  BY DEF Sending, Idle
<1> QED BY <1>1, <1>2, <1>3, IdleType, WorkerStep DEF Apply, TypeInv, TypeOK, HostedTypeOK

LEMMA ReconcileType == ASSUME TypeInv, NEW d \in Device, Reconcile(d) PROVE TypeInv'
<1>1. CASE Conflict(d) \/ Defer(d)
  <2>1. worker[d].at \in MutId
    BY <1>1 DEF Conflict, Defer, TypeInv, Sending
  <2> QED BY <1>1, <2>1, QuarantineType DEF Conflict, Defer
<1>2. CASE FailedPush(d) \/ FailedAck(d) \/ SkipApply(d)
  BY <1>2, IdleStep DEF FailedPush, FailedAck, SkipApply
<1>3. CASE ServePush(d) \/ InsertPush(d)
  BY <1>3, ServedIs, ServePushType
<1> QED BY <1>1, <1>2, <1>3, LoadType, SendPushType, LookPushType, AckType, PullType, ApplyType
        DEF Reconcile

LEMMA StepType == TypeInv /\ [Next]_vars => TypeInv'
<1> SUFFICES ASSUME TypeInv, [Next]_vars PROVE TypeInv'
  OBVIOUS
<1>1. ASSUME NEW d \in Device, User(d) PROVE TypeInv'
  <2>1. UNCHANGED worker
    BY <1>1 DEF User, LocalOpen, LocalClose, Retry
  <2> QED BY <1>1, <2>1, UserType, LocalStep DEF TypeInv
<1>2. ASSUME NEW d \in Device, Reconcile(d) PROVE TypeInv'
  BY <1>2, ReconcileType
<1>3. ASSUME NEW d \in Device, GiveUp(d) PROVE TypeInv'
  BY <1>3, GiveUpType
<1>4. ASSUME NEW q \in strays, ServeStray(q) \/ LookStray(q) PROVE TypeInv'
  BY <1>4, StrayType, LocalStep DEF ServeStray, LookStray, TypeInv
<1>5. CASE Web
  <2>1. UNCHANGED worker
    BY <1>5 DEF Web, WebOpen, WebClose
  <2> QED BY <1>5, <2>1, WebType, LocalStep DEF TypeInv
<1>6. CASE UNCHANGED vars
  BY <1>6 DEF vars, TypeInv, TypeOK
<1> QED BY <1>1, <1>2, <1>3, <1>4, <1>5, <1>6 DEF Next

\* Every variable keeps its type, and a worker that waits for a push knows
\* which mutation it sent.
THEOREM TypeCorrect == Spec => []TypeInv
<1>1. Init => TypeInv
  BY InitType DEF Init, TypeInv, Sending, Idle
<1> QED BY <1>1, StepType, PTL DEF Spec

\* The type invariant the runs check.
THEOREM WellTyped == Spec => []TypeOK
<1>1. TypeInv => TypeOK
  BY DEF TypeInv
<1> QED BY <1>1, TypeCorrect, PTL

-----------------------------------------------------------------------------
(* The inductive invariant behind the safety properties of               *)
(* CashRegisterSync.  Its core: wherever a server id travels (the outbox,  *)
(* the loaded batch, a request on the network) it is the id of the row the *)
(* mutation is about, and that id never changes once the row has one.      *)

Used(m)  == Payload(m).op # "none"
RowOf(m) == sessions[m[1]][Payload(m).row]

\* s, the server id carried for mutation m, is absent or its session's.
Knows(m, s) == s # None => Payload(m).op = "close" /\ s = RowOf(m).srv

OutboxInv ==
    \A m \in Mutation :
        /\ Payload(m).op = "open" => Payload(m).row = m[2]
        /\ Knows(m, Payload(m).srv)

RowInv == \A d \in Device, h \in HostedId : sessions[d][PulledKey(h)].srv \in {None, h}

OutcomeInv ==
    \A m \in Mutation :
        /\ outcome[m].kind # "none" => Used(m)
        /\ outcome[m].kind = "applied" =>
              outcome[m].sid # None /\ hosted[outcome[m].sid].st # "none"
        /\ outcome[m].kind = "conflict" => Payload(m).op = "open"

\* A reply is what the server recorded, or the refusal of an orphan close.
ReplyOK(w, m) ==
    \/ w.reply = outcome[m] /\ w.reply.kind # "none"
    \/ w.reply.kind = "none" /\ Payload(m).op = "close"

WorkerOK(d, w) ==
    /\ \A m \in w.todo : Used(<<d, m>>)
    /\ \A m \in MutId : Knows(<<d, m>>, w.srv[m])
    /\ w.pc \in {"await", "insert", "reply"} => Used(<<d, w.at>>)
    /\ w.pc = "insert" => Payload(<<d, w.at>>).op = "open"
    /\ w.pc = "reply" => ReplyOK(w, <<d, w.at>>)

WorkerInv == \A d \in Device : WorkerOK(d, worker[d])

StrayInv ==
    \A q \in strays :
        /\ Used(q.mut) /\ Knows(q.mut, q.srv)
        /\ q.looked => Payload(q.mut).op = "open"

DeviceInv == OutboxInv /\ RowInv /\ WorkerInv /\ VerdictIsHosted
LedgerInv == OutcomeInv /\ OpenedOnce /\ CloseReachedItsSession /\ OneOpenPerBranch

IInv == TypeInv /\ DeviceInv /\ LedgerInv /\ StrayInv

-----------------------------------------------------------------------------
(* What no step undoes.                                                    *)

\* A used mutation keeps its operation and row, a row its server id.
Keeps ==
    /\ \A m \in Mutation : Used(m) =>
          Payload(m)'.op = Payload(m).op /\ Payload(m)'.row = Payload(m).row
    /\ \A d \in Device, r \in RowKey : sessions[d][r].srv # None =>
          sessions'[d][r].srv = sessions[d][r].srv

LEMMA PayloadType ==
    ASSUME TypeInv, NEW m \in Mutation
    PROVE  /\ Payload(m) \in Queued /\ Payload(m).row \in RowKey
           /\ m[1] \in Device /\ m[2] \in MutId /\ m = <<m[1], m[2]>>
           /\ RowOf(m) \in Row
<1>1. m[1] \in Device /\ m[2] \in MutId /\ m = <<m[1], m[2]>>
  BY DEF Mutation
<1>2. Payload(m) \in Queued /\ Payload(m).row \in RowKey
  BY <1>1 DEF TypeInv, TypeOK, Payload, Queued
<1> QED BY <1>1, <1>2 DEF TypeInv, TypeOK, RowOf

LEMMA KeepsKnows ==
    ASSUME TypeInv, Keeps, NEW m \in Mutation, NEW s, Knows(m, s)
    PROVE  Knows(m, s)'
  BY PayloadType DEF Keeps, Knows, RowOf, Used

\* An unused mutation has no outcome, no row and no server id anywhere.
LEMMA FreshFacts ==
    ASSUME IInv, NEW d \in Device, NEW m \in MutId, ~Used(<<d, m>>)
    PROVE  /\ outcome[<<d, m>>].kind = "none"
           /\ sessions[d][m].srv = None
           /\ worker[d].srv[m] = None
           /\ m \notin worker[d].todo
           /\ worker[d].pc \in {"await", "insert", "reply"} => worker[d].at # m
<1>1. <<d, m>> \in Mutation
  BY DEF Mutation
<1>2. outcome[<<d, m>>].kind = "none"
  BY <1>1 DEF IInv, LedgerInv, OutcomeInv
<1>3. sessions[d][m].srv = None
  <2>1. sessions[d][m].srv # None => outcome[<<d, m>>].kind = "applied"
    <3>1. \A s : [kind |-> "applied", sid |-> s].kind = "applied"
      OBVIOUS
    <3> QED BY <3>1 DEF IInv, DeviceInv, VerdictIsHosted
  <2> QED BY <1>2, <2>1
<1> QED BY <1>2, <1>3 DEF IInv, DeviceInv, WorkerInv, WorkerOK, Knows, Used

\* A device step leaves the hosted side alone: what the ledger invariant says
\* of it only reads what Keeps preserves.
LEMMA DeviceStep ==
    ASSUME IInv, TypeInv', Keeps, UNCHANGED <<hosted, outcome>>, DeviceInv', StrayInv'
    PROVE  IInv'
<1>1. OutcomeInv'
  BY DEF IInv, LedgerInv, OutcomeInv, Keeps, Used
<1>2. \A m \in Mutation : outcome[m].kind # "none" =>
         (AppliedOpen(m)' <=> AppliedOpen(m))
  BY DEF IInv, LedgerInv, OutcomeInv, Keeps, AppliedOpen
<1>3. OpenedOnce'
  <2>1. \A m \in Mutation : AppliedOpen(m)' <=> AppliedOpen(m)
    BY <1>2 DEF AppliedOpen
  <2> QED BY <2>1 DEF IInv, LedgerInv, OpenedOnce
<1>4. CloseReachedItsSession'
  <2> SUFFICES ASSUME NEW d \in Device, NEW m \in MutId,
                      outbox'[d][m].op = "close", outcome[<<d, m>>].kind = "applied"
               PROVE  /\ outcome[<<d, m>>].sid = sessions'[d][outbox'[d][m].row].srv
                      /\ hosted[outcome[<<d, m>>].sid].st = "closed"
    BY DEF CloseReachedItsSession
  <2>1. <<d, m>> \in Mutation /\ Used(<<d, m>>)
    BY DEF IInv, LedgerInv, OutcomeInv, Mutation
  <2>2. outbox[d][m].op = "close" /\ outbox'[d][m].row = outbox[d][m].row
    BY <2>1 DEF Keeps, Payload
  <2>3. /\ outcome[<<d, m>>].sid = sessions[d][outbox[d][m].row].srv
        /\ hosted[outcome[<<d, m>>].sid].st = "closed"
        /\ outcome[<<d, m>>].sid # None
    BY <2>1, <2>2 DEF IInv, LedgerInv, CloseReachedItsSession, OutcomeInv
  <2>4. outbox[d][m].row \in RowKey
    BY <2>1, PayloadType DEF IInv, Payload
  <2> QED BY <2>2, <2>3, <2>4 DEF Keeps
<1>5. OneOpenPerBranch'
  BY DEF IInv, LedgerInv, OneOpenPerBranch, OpenAt
<1> QED BY <1>1, <1>3, <1>4, <1>5 DEF IInv, LedgerInv

-----------------------------------------------------------------------------
(* The cashier's steps.                                                    *)

LEMMA KeepsStrays == ASSUME IInv, Keeps, UNCHANGED strays PROVE StrayInv'
<1> SUFFICES ASSUME NEW q \in strays
             PROVE  /\ Used(q.mut)' /\ Knows(q.mut, q.srv)'
                    /\ q.looked => Payload(q.mut)'.op = "open"
  BY DEF StrayInv
<1>1. q.mut \in Mutation
  BY DEF IInv, TypeInv, TypeOK, Request
<1>2. Used(q.mut) /\ Knows(q.mut, q.srv) /\ (q.looked => Payload(q.mut).op = "open")
  BY DEF IInv, StrayInv
<1> QED BY <1>1, <1>2, KeepsKnows DEF IInv, Keeps, Used

\* What a worker knows survives every step that keeps identities.
LEMMA KeepsWorker ==
    ASSUME IInv, Keeps, UNCHANGED outcome, NEW d \in Device
    PROVE  WorkerOK(d, worker[d])'
           \/ worker'[d] # worker[d]
<1> SUFFICES ASSUME worker'[d] = worker[d] PROVE WorkerOK(d, worker[d])'
  OBVIOUS
<1> DEFINE w == worker[d]
<1>0. WorkerOK(d, w) /\ w \in Worker
  BY DEF IInv, TypeInv, TypeOK, DeviceInv, WorkerInv
<1>1. \A m \in MutId : <<d, m>> \in Mutation
  BY DEF Mutation
<1>2. \A m \in MutId : Used(<<d, m>>) => Used(<<d, m>>)'
  BY <1>1 DEF Keeps, Used
<1>3. \A m \in w.todo : Used(<<d, m>>)'
  BY <1>0, <1>2 DEF WorkerOK, Worker
<1>4. \A m \in MutId : Knows(<<d, m>>, w.srv[m])'
  BY <1>0, <1>1, KeepsKnows DEF WorkerOK, IInv
<1>5. ASSUME w.pc \in {"await", "insert", "reply"}
      PROVE  w.at \in MutId /\ Used(<<d, w.at>>) /\ Used(<<d, w.at>>)'
  BY <1>0, <1>2, <1>5 DEF IInv, TypeInv, Sending, WorkerOK
<1>6. ASSUME w.pc = "reply" PROVE ReplyOK(w, <<d, w.at>>)'
  <2>1. ReplyOK(w, <<d, w.at>>) /\ Used(<<d, w.at>>) /\ <<d, w.at>> \in Mutation
    BY <1>0, <1>1, <1>5, <1>6 DEF WorkerOK
  <2> QED BY <2>1 DEF ReplyOK, Keeps
<1>7. ASSUME w.pc = "insert" PROVE Payload(<<d, w.at>>)'.op = "open"
  BY <1>0, <1>1, <1>5, <1>7 DEF WorkerOK, Keeps
<1> QED BY <1>3, <1>4, <1>5, <1>6, <1>7 DEF WorkerOK

\* A step of the cashier touches one mutation, which it leaves pending, and no
\* server id of any row.
LEMMA CashierStep ==
    ASSUME IInv, TypeInv', UNCHANGED <<worker, hosted, outcome, strays>>,
           \A e \in Device, r \in RowKey : sessions'[e][r].srv = sessions[e][r].srv,
           NEW m \in Mutation,
           \A n \in Mutation \ {m} : Payload(n)' = Payload(n),
           Payload(m)'.st = "pending",
           Used(m) => Payload(m)'.op = Payload(m).op /\ Payload(m)'.row = Payload(m).row,
           Payload(m)'.op = "open" => Payload(m)'.row = m[2],
           Knows(m, Payload(m).srv)'
    PROVE  IInv'
<1>1. Keeps
  BY DEF Keeps
<1>2. OutboxInv'
  <2> SUFFICES ASSUME NEW n \in Mutation, n # m
               PROVE  /\ Payload(n)'.op = "open" => Payload(n)'.row = n[2]
                      /\ Knows(n, Payload(n).srv)'
    BY DEF OutboxInv
  <2>1. Payload(n)' = Payload(n) /\ Payload(n).row \in RowKey /\ n[1] \in Device
    BY PayloadType DEF IInv
  <2> QED BY <2>1 DEF IInv, DeviceInv, OutboxInv, Knows, RowOf
<1>3. RowInv'
  BY KeyFacts DEF IInv, DeviceInv, RowInv
<1>4. WorkerInv'
  BY <1>1, KeepsWorker DEF WorkerInv
<1>5. VerdictIsHosted'
  <2> SUFFICES ASSUME NEW e \in Device, NEW n \in MutId
               PROVE  /\ sessions'[e][n].srv # None =>
                            outcome[<<e, n>>] = [kind |-> "applied", sid |-> sessions'[e][n].srv]
                      /\ outbox'[e][n].op # "none" /\ outbox'[e][n].st = "synced"
                            => outcome[<<e, n>>].kind = "applied"
                      /\ outbox'[e][n].op = "open" /\ outbox'[e][n].st = "conflict"
                            => outcome[<<e, n>>].kind = "conflict"
    BY DEF VerdictIsHosted
  <2>1. outbox'[e][n] = outbox[e][n] \/ outbox'[e][n].st = "pending"
    <3>1. <<e, n>> \in Mutation /\ Payload(<<e, n>>) = outbox[e][n]
          /\ Payload(<<e, n>>)' = outbox'[e][n]
      BY DEF Payload, Mutation
    <3> QED BY <3>1
  <2> QED BY <2>1, KeyFacts DEF IInv, DeviceInv, VerdictIsHosted
<1> QED BY <1>1, <1>2, <1>3, <1>4, <1>5, DeviceStep, KeepsStrays DEF DeviceInv

LEMMA LocalOpenSafe ==
    ASSUME IInv, TypeInv', NEW d \in Device, NEW b \in Branch, LocalOpen(d, b)
    PROVE  IInv'
<1>1. PICK m \in MutId :
        /\ NextMut(d, m)
        /\ sessions' = [sessions EXCEPT ![d][m] =
                          [st |-> "open", sync |-> "pending", srv |-> None, br |-> b]]
        /\ outbox' = [outbox EXCEPT ![d][m] =
                        [op |-> "open", row |-> m, srv |-> None, br |-> b, st |-> "pending"]]
  BY DEF LocalOpen
<1>2. m \in RowKey /\ ~Used(<<d, m>>) /\ <<d, m>> \in Mutation
  BY <1>1, KeyFacts DEF NextMut, Used, Payload, Mutation
<1>3. \A e \in Device, r \in RowKey : sessions'[e][r].srv = sessions[e][r].srv
  BY <1>1, <1>2, FreshFacts DEF IInv, TypeInv, TypeOK
<1>4. \A n \in Mutation \ {<<d, m>>} : Payload(n)' = Payload(n)
  BY <1>1 DEF Mutation, Payload, IInv, TypeInv, TypeOK
<1>5. Payload(<<d, m>>)' = [op |-> "open", row |-> m, srv |-> None, br |-> b, st |-> "pending"]
  BY <1>1 DEF Payload, IInv, TypeInv, TypeOK
<1>6. Knows(<<d, m>>, Payload(<<d, m>>).srv)'
  BY <1>5 DEF Knows
<1> QED BY <1>2, <1>3, <1>4, <1>5, <1>6, CashierStep DEF LocalOpen

LEMMA LocalCloseSafe ==
    ASSUME IInv, TypeInv', NEW d \in Device, NEW b \in Branch, NEW r \in RowKey,
           LocalClose(d, b, r)
    PROVE  IInv'
<1>1. PICK m \in MutId :
        /\ NextMut(d, m)
        /\ sessions' = [sessions EXCEPT ![d][r] =
                          [@ EXCEPT !.st = "closed", !.sync = "pending"]]
        /\ outbox' = [outbox EXCEPT ![d][m] =
                        [op |-> "close", row |-> r, srv |-> sessions[d][r].srv,
                         br |-> b, st |-> "pending"]]
  BY DEF LocalClose
<1>2. ~Used(<<d, m>>) /\ <<d, m>> \in Mutation
  BY <1>1 DEF NextMut, Used, Payload, Mutation
<1>3. \A e \in Device, q \in RowKey : sessions'[e][q].srv = sessions[e][q].srv
  <2>1. sessions[d][r] \in Row
    BY DEF IInv, TypeInv, TypeOK
  <2>2. [sessions[d][r] EXCEPT !.st = "closed", !.sync = "pending"].srv = sessions[d][r].srv
    BY <2>1 DEF Row
  <2> QED BY <1>1, <2>2 DEF IInv, TypeInv, TypeOK
<1>4. \A n \in Mutation \ {<<d, m>>} : Payload(n)' = Payload(n)
  BY <1>1 DEF Mutation, Payload, IInv, TypeInv, TypeOK
<1>5. Payload(<<d, m>>)' = [op |-> "close", row |-> r, srv |-> sessions[d][r].srv,
                            br |-> b, st |-> "pending"]
  BY <1>1 DEF Payload, IInv, TypeInv, TypeOK
<1>6. Knows(<<d, m>>, Payload(<<d, m>>).srv)'
  BY <1>3, <1>5 DEF Knows, RowOf
<1> QED BY <1>2, <1>3, <1>4, <1>5, <1>6, CashierStep DEF LocalClose

LEMMA RetrySafe ==
    ASSUME IInv, TypeInv', NEW d \in Device, NEW m \in MutId, Retry(d, m)
    PROVE  IInv'
<1>1. <<d, m>> \in Mutation /\ Payload(<<d, m>>) \in Queued
  BY PayloadType DEF Mutation, IInv
<1>2. \A n \in Mutation \ {<<d, m>>} : Payload(n)' = Payload(n)
  BY DEF Retry, Mutation, Payload, IInv, TypeInv, TypeOK
<1>3. Payload(<<d, m>>)' = [Payload(<<d, m>>) EXCEPT !.st = "pending"]
  BY DEF Retry, Payload, IInv, TypeInv, TypeOK
<1>4. /\ Payload(<<d, m>>)'.op = Payload(<<d, m>>).op
      /\ Payload(<<d, m>>)'.row = Payload(<<d, m>>).row
      /\ Payload(<<d, m>>)'.srv = Payload(<<d, m>>).srv
      /\ Payload(<<d, m>>)'.st = "pending"
  BY <1>1, <1>3 DEF Queued
<1>5. Knows(<<d, m>>, Payload(<<d, m>>).srv)'
  BY <1>1, <1>4 DEF Knows, RowOf, Retry, IInv, DeviceInv, OutboxInv
<1>6. Payload(<<d, m>>)'.op = "open" => Payload(<<d, m>>)'.row = m
  BY <1>1, <1>4 DEF IInv, DeviceInv, OutboxInv
<1> QED BY <1>1, <1>2, <1>4, <1>5, <1>6, CashierStep DEF Retry

-----------------------------------------------------------------------------
(* The hosted transactions.                                                *)

\* Verdicts are never revised, and sessions only go from open to closed.
Grows ==
    /\ \A m \in Mutation : outcome[m].kind # "none" => outcome'[m] = outcome[m]
    /\ \A h \in HostedId : hosted[h].st # "none" =>
          hosted'[h].st # "none" /\ hosted'[h].web = hosted[h].web
    /\ \A h \in HostedId : hosted[h].st = "closed" => hosted'[h].st = "closed"

\* m gets its verdict in this step, and what that verdict must then be.
New(m) == outcome[m].kind = "none" /\ outcome'[m].kind # "none"
NewOK(m) ==
    /\ Used(m)
    /\ outcome'[m].kind = "applied" =>
          /\ outcome'[m].sid \in HostedId
          /\ hosted'[outcome'[m].sid].st # "none"
          /\ Payload(m).op = "open" =>
                hosted[outcome'[m].sid].st = "none" /\ ~hosted'[outcome'[m].sid].web
          /\ Payload(m).op = "close" =>
                outcome'[m].sid = RowOf(m).srv /\ hosted'[outcome'[m].sid].st = "closed"
    /\ outcome'[m].kind = "conflict" => Payload(m).op = "open"

LEMMA HostedStep ==
    ASSUME IInv, HostedTypeOK', UNCHANGED <<sessions, outbox>>, Grows,
           \A m \in Mutation : New(m) => NewOK(m),
           \A m, n \in Mutation : New(m) /\ New(n) => m = n,
           \A h \in HostedId : hosted[h].st = "none" /\ hosted'[h].st # "none" /\ ~hosted'[h].web
              => \E m \in Mutation : AppliedOpen(m)' /\ outcome'[m].sid = h,
           OneOpenPerBranch'
    PROVE  LedgerInv' /\ VerdictIsHosted'
<1> USE DEF IInv, LedgerInv, DeviceInv
<1>1. ASSUME NEW m \in Mutation
      PROVE  /\ Payload(m)' = Payload(m)
             /\ outcome'[m].kind # "none" => New(m) \/ outcome'[m] = outcome[m]
             /\ outcome[m].kind \in {"none", "applied", "conflict"}
             /\ outcome[m].kind = "applied" => outcome[m].sid \in HostedId
  <2>1. outcome[m] \in Outcome
    BY DEF TypeInv, TypeOK
  <2> QED BY <2>1 DEF Payload, New, Grows, Outcome, OutcomeInv
<1>2. OutcomeInv'
  <2> SUFFICES ASSUME NEW m \in Mutation
               PROVE  /\ outcome'[m].kind # "none" => Used(m)
                      /\ outcome'[m].kind = "applied" =>
                            outcome'[m].sid # None /\ hosted'[outcome'[m].sid].st # "none"
                      /\ outcome'[m].kind = "conflict" => Payload(m).op = "open"
    BY <1>1 DEF OutcomeInv, Used
  <2>1. CASE New(m)
    BY <2>1, KeyFacts DEF NewOK
  <2>2. CASE ~New(m)
    BY <1>1, <2>2 DEF OutcomeInv, Grows
  <2> QED BY <2>1, <2>2
<1>3. \A m \in Mutation : AppliedOpen(m)' => AppliedOpen(m) \/ New(m)
  BY <1>1 DEF AppliedOpen
<1>4. \A m \in Mutation : AppliedOpen(m) => AppliedOpen(m)' /\ outcome'[m] = outcome[m]
  BY <1>1 DEF AppliedOpen, Grows
<1>5. ASSUME NEW m \in Mutation, AppliedOpen(m)
      PROVE  outcome[m].sid \in HostedId /\ hosted[outcome[m].sid].st # "none"
  BY <1>1, <1>5 DEF AppliedOpen, OutcomeInv
<1>6. OpenedOnce'
  <2>1. ASSUME NEW m \in Mutation, NEW n \in Mutation, AppliedOpen(m)', AppliedOpen(n)',
               outcome'[m].sid = outcome'[n].sid
        PROVE  m = n
    <3>1. CASE AppliedOpen(m) /\ AppliedOpen(n)
      BY <1>4, <2>1, <3>1 DEF OpenedOnce
    <3>2. CASE New(m) /\ New(n)
      BY <3>2
    <3>3. CASE AppliedOpen(m) /\ New(n)
      BY <1>1, <1>4, <1>5, <2>1, <3>3 DEF NewOK, AppliedOpen
    <3>4. CASE New(m) /\ AppliedOpen(n)
      BY <1>1, <1>4, <1>5, <2>1, <3>4 DEF NewOK, AppliedOpen
    <3> QED BY <1>3, <2>1, <3>1, <3>2, <3>3, <3>4
  <2>2. ASSUME NEW h \in HostedId, hosted'[h].st # "none", ~hosted'[h].web
        PROVE  \E m \in Mutation : AppliedOpen(m)' /\ outcome'[m].sid = h
    <3>1. CASE hosted[h].st = "none"
      BY <2>2, <3>1
    <3>2. CASE hosted[h].st # "none"
      <4>1. ~hosted[h].web
        BY <2>2, <3>2 DEF Grows
      <4> QED BY <1>4, <3>2, <4>1 DEF OpenedOnce
    <3> QED BY <3>1, <3>2
  <2>3. ASSUME NEW m \in Mutation, AppliedOpen(m)'
        PROVE  ~hosted'[outcome'[m].sid].web
    <3>1. CASE AppliedOpen(m)
      BY <1>4, <1>5, <3>1 DEF OpenedOnce, Grows
    <3>2. CASE New(m)
      BY <1>1, <2>3, <3>2 DEF NewOK, AppliedOpen
    <3> QED BY <1>3, <2>3, <3>1, <3>2
  <2> QED BY <2>1, <2>2, <2>3 DEF OpenedOnce
<1>7. CloseReachedItsSession'
  <2> SUFFICES ASSUME NEW d \in Device, NEW m \in MutId,
                      outbox[d][m].op = "close", outcome'[<<d, m>>].kind = "applied"
               PROVE  /\ outcome'[<<d, m>>].sid = sessions[d][outbox[d][m].row].srv
                      /\ hosted'[outcome'[<<d, m>>].sid].st = "closed"
    BY DEF CloseReachedItsSession
  <2>1. <<d, m>> \in Mutation /\ Payload(<<d, m>>) = outbox[d][m]
        /\ RowOf(<<d, m>>) = sessions[d][outbox[d][m].row]
    BY DEF Mutation, Payload, RowOf
  <2>2. CASE New(<<d, m>>)
    BY <2>1, <2>2 DEF NewOK
  <2>3. CASE ~New(<<d, m>>)
    <3>1. outcome'[<<d, m>>] = outcome[<<d, m>>] /\ outcome[<<d, m>>].sid \in HostedId
      BY <1>1, <2>1, <2>3
    <3> QED BY <3>1 DEF CloseReachedItsSession, Grows
  <2> QED BY <2>2, <2>3
<1>8. VerdictIsHosted'
  <2> SUFFICES ASSUME NEW d \in Device, NEW m \in MutId
               PROVE  /\ sessions[d][m].srv # None =>
                            outcome'[<<d, m>>] = [kind |-> "applied", sid |-> sessions[d][m].srv]
                      /\ outbox[d][m].op # "none" /\ outbox[d][m].st = "synced"
                            => outcome'[<<d, m>>].kind = "applied"
                      /\ outbox[d][m].op = "open" /\ outbox[d][m].st = "conflict"
                            => outcome'[<<d, m>>].kind = "conflict"
    BY DEF VerdictIsHosted
  <2>1. <<d, m>> \in Mutation
    BY DEF Mutation
  <2>2. sessions[d][m].srv # None =>
           /\ outcome[<<d, m>>].kind = "applied"
           /\ outcome[<<d, m>>] = [kind |-> "applied", sid |-> sessions[d][m].srv]
    <3>1. \A s : [kind |-> "applied", sid |-> s].kind = "applied"
      OBVIOUS
    <3> QED BY <3>1 DEF VerdictIsHosted
  <2> QED BY <2>1, <2>2 DEF VerdictIsHosted, Grows
<1> QED BY <1>2, <1>6, <1>7, <1>8

\* A branch that was free may get one open session.
LEMMA InsertKeepsOne ==
    ASSUME IInv, NEW h \in HostedId, NEW b \in Branch, NEW t, NEW web,
           OpenAt(b) = {}, InsertSession(h, b, t, web)
    PROVE  OneOpenPerBranch'
<1> SUFFICES ASSUME NEW c \in Branch, NEW x \in OpenAt(c)', NEW y \in OpenAt(c)'
             PROVE  x = y
  BY DEF OneOpenPerBranch
<1>1. hosted \in [HostedId -> Session]
  BY DEF IInv, TypeInv, TypeOK
<1>2. \A g \in HostedId : hosted'[g] =
         IF g = h THEN [st |-> "open", br |-> b, upd |-> t, done |-> clock, web |-> web]
         ELSE hosted[g]
  BY <1>1 DEF InsertSession
<1>3. \A g \in HostedId : g \in OpenAt(c)' => (g = h /\ c = b) \/ (g \in OpenAt(c) /\ g # h)
  BY <1>2 DEF OpenAt
<1> QED BY <1>3 DEF IInv, LedgerInv, OneOpenPerBranch, OpenAt

LEMMA CloseKeepsOne ==
    ASSUME IInv, NEW h \in HostedId, NEW t, CloseSession(h, t)
    PROVE  /\ OneOpenPerBranch'
           /\ hosted'[h].st = "closed"
           /\ hosted'[h].web = hosted[h].web
           /\ \A g \in HostedId \ {h} : hosted'[g] = hosted[g]
<1>1. hosted \in [HostedId -> Session] /\ hosted[h] \in Session
  BY DEF IInv, TypeInv, TypeOK
<1>2. hosted'[h] = [hosted[h] EXCEPT !.st = "closed", !.upd = t, !.done = clock]
      /\ \A g \in HostedId \ {h} : hosted'[g] = hosted[g]
  BY <1>1 DEF CloseSession
<1>3. hosted'[h].st = "closed" /\ hosted'[h].web = hosted[h].web
  BY <1>1, <1>2 DEF Session
<1>4. \A b \in Branch : OpenAt(b)' \subseteq OpenAt(b)
  BY <1>2, <1>3 DEF OpenAt
<1> QED BY <1>2, <1>3, <1>4 DEF IInv, LedgerInv, OneOpenPerBranch

\* However a push ends, its verdict is the right one.
LEMMA HostedPushSafe ==
    ASSUME IInv, UNCHANGED <<sessions, outbox>>,
           NEW m \in Mutation, NEW srv \in HostedId \cup {None}, NEW s \in Nat,
           Used(m), Knows(m, srv), Executes(m, srv, s),
           HostedPush(m, srv, s) \/ Payload(m).op = "open"
    PROVE  /\ LedgerInv' /\ VerdictIsHosted' /\ Grows
           /\ outcome'[m].kind = "none" => Payload(m).op = "close"
<1>1. HostedTypeOK'
  BY HostedPushType DEF IInv, TypeInv
<1>2. /\ hosted \in [HostedId -> Session] /\ outcome \in [Mutation -> Outcome]
      /\ Payload(m).br \in Branch /\ Payload(m).op \in {"open", "close"}
      /\ outcome[m].kind # "none" => outcome[m].sid \in HostedId \cup {None}
  BY PayloadType DEF IInv, TypeInv, TypeOK, Queued, Used, Outcome
<1>3. CASE Replay(m) \/ PushOrphanClose(m, srv)
  <2>1. UNCHANGED hostedVars
    BY <1>3 DEF Replay, PushOrphanClose
  <2>2. OneOpenPerBranch' /\ Grows
    BY <2>1 DEF hostedVars, Grows, OneOpenPerBranch, OpenAt, IInv, LedgerInv
  <2>3. LedgerInv' /\ VerdictIsHosted'
    BY <1>1, <2>1, <2>2, HostedStep DEF hostedVars, New
  <2> QED BY <1>3, <2>1, <2>2, <2>3 DEF hostedVars, Replay, PushOrphanClose
<1>4. CASE PushOpen(m, s) /\ Payload(m).op = "open"
  <2>1. PICK h \in HostedId, t \in Stamps(s) :
          /\ NextHosted(h)
          /\ InsertSession(h, Payload(m).br, t, FALSE)
          /\ outcome' = [outcome EXCEPT ![m] = [kind |-> "applied", sid |-> h]]
    BY <1>4 DEF PushOpen
  <2>2. OneOpenPerBranch'
    BY <1>2, <1>4, <2>1, InsertKeepsOne DEF PushOpen
  <2>3. /\ hosted'[h].st = "open" /\ ~hosted'[h].web
        /\ \A g \in HostedId \ {h} : hosted'[g] = hosted[g]
        /\ hosted[h].st = "none"
    BY <1>2, <2>1 DEF InsertSession, NextHosted
  <2>4. /\ outcome'[m].kind = "applied" /\ outcome'[m].sid = h
        /\ \A n \in Mutation \ {m} : outcome'[n] = outcome[n]
    BY <1>2, <2>1
  <2>5. Grows
    BY <1>4, <2>3, <2>4 DEF Grows, PushOpen
  <2>6. \A n \in Mutation : New(n) => n = m /\ NewOK(n)
    BY <1>4, <2>3, <2>4 DEF New, NewOK, PushOpen
  <2>7. AppliedOpen(m)'
    BY <1>4, <2>4 DEF AppliedOpen, Payload, PushOpen
  <2> QED BY <1>1, <2>2, <2>3, <2>4, <2>5, <2>6, <2>7, HostedStep
<1>5. CASE PushOpenConflict(m)
  <2>1. PICK h \in OpenAt(Payload(m).br) :
          outcome' = [outcome EXCEPT ![m] = [kind |-> "conflict", sid |-> h]]
    BY <1>5 DEF PushOpenConflict
  <2>2. /\ outcome'[m].kind = "conflict"
        /\ \A n \in Mutation \ {m} : outcome'[n] = outcome[n]
    BY <1>2, <2>1
  <2>3. OneOpenPerBranch' /\ Grows
    BY <1>5, <2>2 DEF PushOpenConflict, Accepted, Grows, OneOpenPerBranch, OpenAt, IInv, LedgerInv
  <2>4. \A n \in Mutation : New(n) => n = m /\ NewOK(n)
    BY <1>5, <2>2 DEF New, NewOK, PushOpenConflict, Accepted
  <2> QED BY <1>1, <1>5, <2>2, <2>3, <2>4, HostedStep DEF PushOpenConflict
<1>6. CASE PushClose(m, srv, s)
  <2>1. srv \in HostedId /\ hosted[srv].st \in {"open", "closed"} /\ srv = RowOf(m).srv
    BY <1>6 DEF PushClose, Knows
  <2>2. /\ outcome'[m].kind = "applied" /\ outcome'[m].sid = srv
        /\ \A n \in Mutation \ {m} : outcome'[n] = outcome[n]
    BY <1>2, <1>6 DEF PushClose
  <2>3. /\ OneOpenPerBranch' /\ hosted'[srv].st = "closed"
        /\ hosted'[srv].web = hosted[srv].web
        /\ \A g \in HostedId \ {srv} : hosted'[g] = hosted[g]
    <3>1. CASE \E t \in Stamps(s) : CloseSession(srv, t)
      BY <2>1, <3>1, CloseKeepsOne
    <3>2. CASE hosted[srv].st = "closed" /\ UNCHANGED hosted
      BY <3>2 DEF IInv, LedgerInv, OneOpenPerBranch, OpenAt
    <3> QED BY <1>6, <3>1, <3>2 DEF PushClose
  <2>4. Grows
    BY <1>6, <2>1, <2>2, <2>3 DEF Grows, PushClose, Accepted
  <2>5. \A n \in Mutation : New(n) => n = m /\ NewOK(n)
    BY <1>6, <2>1, <2>2, <2>3 DEF New, NewOK, PushClose, Accepted
  <2>6. \A h \in HostedId : hosted[h].st = "none" => hosted'[h].st = "none"
    BY <2>1, <2>3
  <2> QED BY <1>1, <1>6, <2>2, <2>3, <2>4, <2>5, <2>6, HostedStep DEF PushClose
<1> QED BY <1>3, <1>4, <1>5, <1>6 DEF Executes, HostedPush

\* What a device relies on does not depend on verdicts still to come.
LEMMA HostedWorker ==
    ASSUME IInv, UNCHANGED <<sessions, outbox>>, Grows, NEW d \in Device,
           worker'[d] = worker[d]
    PROVE  WorkerOK(d, worker[d])'
<1>1. WorkerOK(d, worker[d]) /\ worker[d] \in Worker /\ Sending(worker[d])
  BY DEF IInv, DeviceInv, WorkerInv, TypeInv, TypeOK
<1>2. /\ \A m \in worker[d].todo : Used(<<d, m>>)'
      /\ \A m \in MutId : Knows(<<d, m>>, worker[d].srv[m])'
      /\ worker[d].pc \in {"await", "insert", "reply"} => Used(<<d, worker[d].at>>)'
      /\ worker[d].pc = "insert" => Payload(<<d, worker[d].at>>)'.op = "open"
  BY <1>1 DEF WorkerOK, Used, Knows, RowOf, Payload
<1>3. worker[d].pc = "reply" => ReplyOK(worker[d], <<d, worker[d].at>>)'
  BY <1>1 DEF WorkerOK, Sending, ReplyOK, Grows, Mutation, Payload
<1> QED BY <1>2, <1>3 DEF WorkerOK

LEMMA HostedTables ==
    ASSUME IInv, UNCHANGED <<sessions, outbox>>
    PROVE  OutboxInv' /\ RowInv'
  BY DEF IInv, DeviceInv, OutboxInv, RowInv, Knows, RowOf, Payload

LEMMA ServePushSafe ==
    ASSUME IInv, TypeInv', NEW d \in Device, Served(d)
    PROVE  IInv'
<1> DEFINE m == worker[d].at
<1>1. /\ worker[d] \in Worker /\ worker \in [Device -> Worker]
      /\ m \in MutId /\ <<d, m>> \in Mutation /\ WorkerOK(d, worker[d])
  BY DEF Served, IInv, DeviceInv, WorkerInv, TypeInv, TypeOK, Sending, Mutation
<1>2. Used(<<d, m>>) /\ Knows(<<d, m>>, worker[d].srv[m])
  BY <1>1 DEF Served, WorkerOK
<1>3. worker[d].srv[m] \in HostedId \cup {None} /\ worker[d].sent \in Nat
  BY <1>1 DEF Worker
<1>4. /\ LedgerInv' /\ VerdictIsHosted' /\ Grows
      /\ outcome'[<<d, m>>].kind = "none" => Payload(<<d, m>>).op = "close"
  BY <1>1, <1>2, <1>3, ServedExecutes, HostedPushSafe DEF Served, WorkerOK, Sent
<1>5. \A e \in Device \ {d} : worker'[e] = worker[e]
  BY <1>1 DEF Served
<1>6. worker'[d] = [worker[d] EXCEPT !.pc = "reply", !.reply = outcome'[<<d, m>>]]
  BY <1>1 DEF Served
<1>7. WorkerOK(d, worker[d])'
  <2>1. /\ worker'[d].todo = worker[d].todo /\ worker'[d].srv = worker[d].srv
        /\ worker'[d].pc = "reply" /\ worker'[d].at = m /\ worker'[d].reply = outcome'[<<d, m>>]
    BY <1>1, <1>6 DEF Worker
  <2>2. /\ \A n \in worker[d].todo : Used(<<d, n>>)'
        /\ \A n \in MutId : Knows(<<d, n>>, worker[d].srv[n])'
        /\ Used(<<d, m>>)'
    BY <1>1, <1>2 DEF Served, WorkerOK, Used, Knows, RowOf, Payload
  <2>3. ReplyOK(worker[d], <<d, m>>)'
    BY <1>4, <2>1 DEF Served, ReplyOK, Payload
  <2> QED BY <2>1, <2>2, <2>3 DEF WorkerOK, Knows, RowOf, Payload
<1>8. WorkerInv'
  BY <1>4, <1>5, <1>7, HostedWorker DEF Served, WorkerInv
<1>9. StrayInv'
  BY DEF Served, IInv, StrayInv, Used, Knows, RowOf, Payload
<1> QED BY <1>4, <1>8, <1>9, HostedTables DEF Served, IInv, DeviceInv

LEMMA ServeStraySafe ==
    ASSUME IInv, TypeInv', NEW q \in strays, ServeStray(q)
    PROVE  IInv'
<1>1. /\ q.mut \in Mutation /\ q.srv \in HostedId \cup {None} /\ q.sent \in Nat
      /\ Used(q.mut) /\ Knows(q.mut, q.srv) /\ (q.looked => Payload(q.mut).op = "open")
  BY DEF IInv, TypeInv, TypeOK, Request, StrayInv
<1>2. LedgerInv' /\ VerdictIsHosted' /\ Grows
  <2>1. CASE \/ ~q.looked /\ HostedPush(q.mut, q.srv, q.sent)
             \/ q.looked /\ PushOpen(q.mut, q.sent)
    BY <1>1, <2>1, HostedPushSafe DEF ServeStray, Executes
  <2>2. CASE UNCHANGED hostedVars
    <3>1. UNCHANGED <<sessions, outbox, hosted, outcome, clock>>
      BY <2>2 DEF ServeStray, hostedVars
    <3>2. Grows /\ OneOpenPerBranch' /\ HostedTypeOK'
      BY <3>1 DEF Grows, IInv, LedgerInv, OneOpenPerBranch, OpenAt, TypeInv, TypeOK, HostedTypeOK
    <3>3. \A m \in Mutation : ~New(m)
      <4>1. outcome' = outcome
        BY <3>1
      <4> QED BY <4>1 DEF New
    <3>4. \A h \in HostedId : hosted'[h] = hosted[h]
      BY <3>1
    <3>5. LedgerInv' /\ VerdictIsHosted'
      BY <3>1, <3>2, <3>3, <3>4, HostedStep
    <3> QED BY <3>2, <3>5
  <2> QED BY <2>1, <2>2 DEF ServeStray
<1>3. WorkerInv'
  BY <1>2, HostedWorker DEF ServeStray, WorkerInv
<1>4. StrayInv'
  BY DEF ServeStray, IInv, StrayInv, Used, Knows, RowOf, Payload
<1> QED BY <1>2, <1>3, <1>4, HostedTables DEF ServeStray, IInv, DeviceInv

\* A stray that found nothing goes on to its insert: only an open does.
LEMMA LookStraySafe ==
    ASSUME IInv, TypeInv', NEW q \in strays, LookStray(q)
    PROVE  IInv'
<1>1. UNCHANGED <<sessions, outbox, worker, hosted, outcome>>
  BY DEF LookStray
<1>2. Keeps /\ Grows
  BY <1>1 DEF Keeps, Payload, Grows
<1>3. WorkerInv' /\ VerdictIsHosted'
  BY <1>1, <1>2, HostedWorker DEF WorkerInv, IInv, DeviceInv, VerdictIsHosted
<1>4. StrayInv'
  <2>1. q \in Request /\ Used(q.mut) /\ Knows(q.mut, q.srv) /\ Payload(q.mut).op = "open"
    BY DEF IInv, TypeInv, TypeOK, StrayInv, LookStray, FindsNothing
  <2>2. [q EXCEPT !.looked = TRUE].mut = q.mut /\ [q EXCEPT !.looked = TRUE].srv = q.srv
    BY <2>1 DEF Request
  <2>3. \A p \in strays' : p \in strays \/ p = [q EXCEPT !.looked = TRUE]
    BY DEF LookStray
  <2> QED BY <1>1, <2>1, <2>2, <2>3 DEF IInv, StrayInv, Used, Knows, RowOf, Payload
<1> QED BY <1>1, <1>2, <1>3, <1>4, HostedTables, DeviceStep DEF DeviceInv

LEMMA WebSafe == ASSUME IInv, TypeInv', Web PROVE IInv'
<1>0. hosted \in [HostedId -> Session] /\ HostedTypeOK'
  BY DEF IInv, TypeInv, TypeOK, HostedTypeOK
<1>1. UNCHANGED <<sessions, outbox, worker, outcome, strays>>
  BY DEF Web, WebOpen, WebClose
<1> DEFINE Goal ==
             /\ OneOpenPerBranch' /\ Grows
             /\ \A h \in HostedId :
                   hosted[h].st = "none" /\ hosted'[h].st # "none" => hosted'[h].web
<1>2. Goal
  <2>1. ASSUME NEW b \in Branch, WebOpen(b) PROVE Goal
    <3>1. PICK h \in HostedId, t \in Stamps(1) : NextHosted(h) /\ InsertSession(h, b, t, TRUE)
      BY <2>1 DEF WebOpen
    <3>2. OneOpenPerBranch'
      BY <2>1, <3>1, InsertKeepsOne DEF WebOpen
    <3>3. hosted[h].st = "none" /\ hosted'[h].web /\ \A g \in HostedId \ {h} : hosted'[g] = hosted[g]
      BY <1>0, <3>1 DEF InsertSession, NextHosted
    <3> QED BY <1>1, <3>2, <3>3 DEF Grows
  <2>2. ASSUME NEW b \in Branch, WebClose(b) PROVE Goal
    <3>1. PICK h \in OpenAt(b) : \E t \in Stamps(hosted[h].done + 1) : CloseSession(h, t)
      BY <2>2 DEF WebClose
    <3>2. h \in HostedId /\ hosted[h].st = "open"
      BY DEF OpenAt
    <3>3. /\ OneOpenPerBranch' /\ hosted'[h].st = "closed" /\ hosted'[h].web = hosted[h].web
          /\ \A g \in HostedId \ {h} : hosted'[g] = hosted[g]
      BY <3>1, <3>2, CloseKeepsOne
    <3> QED BY <1>1, <3>2, <3>3 DEF Grows
  <2> QED BY <2>1, <2>2 DEF Web
<1>3. LedgerInv' /\ VerdictIsHosted'
  BY <1>0, <1>1, <1>2, HostedStep DEF New
<1>4. WorkerInv'
  BY <1>1, <1>2, HostedWorker DEF WorkerInv
<1>5. StrayInv'
  BY <1>1 DEF IInv, StrayInv, Used, Knows, RowOf, Payload
<1> QED BY <1>1, <1>3, <1>4, <1>5, HostedTables DEF IInv, DeviceInv

-----------------------------------------------------------------------------
(* The reconciler's steps on the device.                                   *)

\* Steps that change one worker and no table.
LEMMA WorkerOnly ==
    ASSUME IInv, TypeInv', UNCHANGED <<sessions, outbox, hosted, outcome>>,
           NEW d \in Device, \A e \in Device \ {d} : worker'[e] = worker[e],
           WorkerOK(d, worker[d])', StrayInv'
    PROVE  IInv'
<1>1. Keeps /\ Grows
  BY DEF Keeps, Payload, Grows
<1>2. WorkerInv'
  BY <1>1, HostedWorker DEF WorkerInv
<1>3. VerdictIsHosted'
  BY DEF IInv, DeviceInv, VerdictIsHosted
<1> QED BY <1>1, <1>2, <1>3, HostedTables, DeviceStep DEF DeviceInv

LEMMA IdleOK == ASSUME NEW d \in Device, worker'[d] = Idle PROVE WorkerOK(d, worker[d])'
<1>1. /\ Idle.pc = "idle" /\ Idle.todo = {} /\ \A m \in MutId : Idle.srv[m] = None
  BY DEF Idle
<1> QED BY <1>1 DEF WorkerOK, Knows

LEMMA GiveUpSafe ==
    ASSUME IInv, TypeInv', NEW d \in Device, GiveUp(d)
    PROVE  IInv'
<1>1. worker'[d] = Idle /\ \A e \in Device \ {d} : worker'[e] = worker[e]
  BY DEF GiveUp, IInv, TypeInv, TypeOK
<1>2. UNCHANGED <<sessions, outbox, hosted, outcome>>
  BY DEF GiveUp
<1>3. StrayInv'
  <2> SUFFICES ASSUME NEW q \in strays'
               PROVE  /\ Used(q.mut) /\ Knows(q.mut, q.srv)
                      /\ q.looked => Payload(q.mut).op = "open"
    BY <1>2 DEF StrayInv, Used, Knows, RowOf, Payload
  <2>1. CASE q \in strays
    BY <2>1 DEF IInv, StrayInv
  <2>2. CASE q \notin strays
    <3>1. /\ worker[d].pc \in {"await", "insert"} /\ q.looked = (worker[d].pc = "insert")
          /\ q.mut = <<d, worker[d].at>> /\ q.srv = worker[d].srv[worker[d].at]
      BY <2>2 DEF GiveUp, Sent
    <3>2. worker[d].at \in MutId /\ WorkerOK(d, worker[d])
      BY <3>1 DEF IInv, TypeInv, Sending, DeviceInv, WorkerInv
    <3> QED BY <3>1, <3>2 DEF WorkerOK
  <2> QED BY <2>1, <2>2
<1> QED BY <1>1, <1>2, <1>3, IdleOK, WorkerOnly

LEMMA LoadSafe == ASSUME IInv, TypeInv', NEW d \in Device, Load(d) PROVE IInv'
<1>1. \A e \in Device \ {d} : worker'[e] = worker[e]
  BY DEF Load, IInv, TypeInv, TypeOK
<1>2. /\ worker'[d].pc = "push" /\ worker'[d].todo = FirstPending(d)
      /\ worker'[d].srv = [m \in MutId |-> IF m \in FirstPending(d) THEN outbox[d][m].srv ELSE None]
  BY DEF Load, IInv, TypeInv, TypeOK, Idle
<1>3. \A m \in FirstPending(d) : Used(<<d, m>>)
  BY DEF FirstPending, Pending, Used, Payload
<1>4. \A m \in MutId : Knows(<<d, m>>, outbox[d][m].srv)
  BY DEF IInv, DeviceInv, OutboxInv, Mutation, Payload
<1>5. WorkerOK(d, worker[d])'
  BY <1>2, <1>3, <1>4 DEF Load, WorkerOK, Used, Knows, RowOf, Payload
<1>6. UNCHANGED <<sessions, outbox, hosted, outcome, strays>> /\ Keeps
  BY DEF Load, Keeps, Payload
<1> QED BY <1>1, <1>5, <1>6, KeepsStrays, WorkerOnly

LEMMA SendPushSafe == ASSUME IInv, TypeInv', NEW d \in Device, SendPush(d) PROVE IInv'
<1>0. worker[d] \in Worker /\ worker \in [Device -> Worker] /\ WorkerOK(d, worker[d])
  BY DEF IInv, TypeInv, TypeOK, DeviceInv, WorkerInv
<1>1. PICK m \in Unsent(d) :
        worker' = [worker EXCEPT ![d] = [@ EXCEPT !.pc = "await", !.at = m, !.sent = clock]]
  BY DEF SendPush
<1>2. \A e \in Device \ {d} : worker'[e] = worker[e]
  BY <1>1, <1>0
<1>3. /\ worker'[d].pc = "await" /\ worker'[d].at = m
      /\ worker'[d].todo = worker[d].todo /\ worker'[d].srv = worker[d].srv
  BY <1>0, <1>1 DEF Worker
<1>4. Used(<<d, m>>)
  BY <1>0 DEF Unsent, WorkerOK
<1>5. WorkerOK(d, worker[d])'
  BY <1>0, <1>3, <1>4 DEF SendPush, WorkerOK, Used, Knows, RowOf, Payload
<1>6. UNCHANGED <<sessions, outbox, hosted, outcome, strays>> /\ Keeps
  BY DEF SendPush, Keeps, Payload
<1> QED BY <1>2, <1>5, <1>6, KeepsStrays, WorkerOnly

LEMMA LookPushSafe == ASSUME IInv, TypeInv', NEW d \in Device, LookPush(d) PROVE IInv'
<1>0. worker[d] \in Worker /\ worker \in [Device -> Worker] /\ WorkerOK(d, worker[d])
  BY DEF IInv, TypeInv, TypeOK, DeviceInv, WorkerInv
<1>1. \A e \in Device \ {d} : worker'[e] = worker[e]
  BY <1>0 DEF LookPush
<1>2. /\ worker'[d].pc = "insert" /\ worker'[d].at = worker[d].at
      /\ worker'[d].todo = worker[d].todo /\ worker'[d].srv = worker[d].srv
  BY <1>0 DEF LookPush, Worker
<1>3. Used(<<d, worker[d].at>>) /\ Payload(<<d, worker[d].at>>).op = "open"
  BY <1>0 DEF LookPush, WorkerOK, FindsNothing, Sent
<1>4. WorkerOK(d, worker[d])'
  BY <1>0, <1>2, <1>3 DEF LookPush, WorkerOK, Used, Knows, RowOf, Payload
<1>5. UNCHANGED <<sessions, outbox, hosted, outcome, strays>> /\ Keeps
  BY DEF LookPush, Keeps, Payload
<1> QED BY <1>1, <1>4, <1>5, KeepsStrays, WorkerOnly

LEMMA PullSafe == ASSUME IInv, TypeInv', NEW d \in Device, Pull(d) PROVE IInv'
<1>1. \A e \in Device \ {d} : worker'[e] = worker[e]
  BY DEF Pull, IInv, TypeInv, TypeOK
<1>2. worker'[d].pc = "apply" /\ worker'[d].todo = {} /\ \A m \in MutId : worker'[d].srv[m] = None
  BY DEF Pull, IInv, TypeInv, TypeOK, Idle
<1>3. WorkerOK(d, worker[d])'
  BY <1>2 DEF WorkerOK, Knows
<1>4. UNCHANGED <<sessions, outbox, hosted, outcome, strays>> /\ Keeps
  BY DEF Pull, Keeps, Payload
<1> QED BY <1>1, <1>3, <1>4, KeepsStrays, WorkerOnly

LEMMA AbandonSafe ==
    ASSUME IInv, TypeInv', NEW d \in Device, FailedPush(d) \/ FailedAck(d) \/ SkipApply(d)
    PROVE  IInv'
<1>1. worker'[d] = Idle /\ \A e \in Device \ {d} : worker'[e] = worker[e]
  BY DEF FailedPush, FailedAck, SkipApply, IInv, TypeInv, TypeOK
<1>2. UNCHANGED <<sessions, outbox, hosted, outcome, strays>>
  BY DEF FailedPush, FailedAck, SkipApply
<1>3. Keeps
  BY <1>2 DEF Keeps, Payload
<1> QED BY <1>1, <1>2, <1>3, IdleOK, KeepsStrays, WorkerOnly

\* Steps that rewrite the tables of one device.
LEMMA TableStep ==
    ASSUME IInv, TypeInv', Keeps, UNCHANGED <<hosted, outcome, strays>>,
           NEW d \in Device, \A e \in Device \ {d} : worker'[e] = worker[e],
           WorkerOK(d, worker[d])', OutboxInv', RowInv', VerdictIsHosted'
    PROVE  IInv'
<1>1. WorkerInv'
  BY KeepsWorker DEF WorkerInv
<1> QED BY <1>1, KeepsStrays, DeviceStep DEF DeviceInv

LEMMA QuarantineSafe ==
    ASSUME IInv, TypeInv', NEW d \in Device, Conflict(d) \/ Defer(d)
    PROVE  IInv'
<1> DEFINE m == worker[d].at
           r == outbox[d][m].row
           w == worker[d]
<1>0. /\ w \in Worker /\ worker \in [Device -> Worker] /\ WorkerOK(d, w)
      /\ m \in MutId /\ <<d, m>> \in Mutation /\ r \in RowKey
      /\ outbox \in [Device -> [MutId -> Queued]] /\ sessions \in [Device -> [RowKey -> Row]]
  <2>1. m \in MutId
    BY DEF Conflict, Defer, IInv, TypeInv, Sending
  <2> QED BY <2>1 DEF IInv, TypeInv, TypeOK, DeviceInv, WorkerInv, Mutation, Queued
<1>1. PICK muts \in {{m}, {}} :
        /\ Quarantine(d, muts)
        /\ muts = {m} => w.pc = "reply" /\ w.reply.kind = "conflict"
  BY DEF Conflict, Defer
<1>2. \A e \in Device, n \in MutId :
         /\ outbox'[e][n].op = outbox[e][n].op /\ outbox'[e][n].row = outbox[e][n].row
         /\ outbox'[e][n].srv = outbox[e][n].srv
         /\ \/ outbox'[e][n].st = outbox[e][n].st
            \/ e = d /\ n \in muts \cup LateCloses(d, r) /\ outbox'[e][n].st = "conflict"
  <2>1. ASSUME NEW n \in MutId
        PROVE  LET q == [outbox[d][n] EXCEPT !.st = "conflict"]
               IN  /\ q.op = outbox[d][n].op /\ q.row = outbox[d][n].row
                   /\ q.srv = outbox[d][n].srv /\ q.st = "conflict"
    <3>1. outbox[d][n] \in Queued
      BY <1>0
    <3> QED BY <3>1 DEF Queued
  <2> QED BY <1>0, <1>1, <2>1 DEF Quarantine
<1>3. \A e \in Device, q \in RowKey : sessions'[e][q].srv = sessions[e][q].srv
  <2>1. sessions[d][r] \in Row
    BY <1>0
  <2>2. [sessions[d][r] EXCEPT !.sync = "conflict"].srv = sessions[d][r].srv
    BY <2>1 DEF Row
  <2> QED BY <1>0, <1>1, <2>2 DEF Quarantine
<1>4. Keeps
  BY <1>2, <1>3 DEF Keeps, Payload, Mutation
<1>5. OutboxInv'
  <2> SUFFICES ASSUME NEW n \in Mutation
               PROVE  /\ Payload(n)'.op = "open" => Payload(n)'.row = n[2]
                      /\ Knows(n, Payload(n).srv)'
    BY DEF OutboxInv
  <2>1. Payload(n)'.op = Payload(n).op /\ Payload(n)'.row = Payload(n).row
        /\ Payload(n)'.srv = Payload(n).srv /\ Payload(n).row \in RowKey /\ n[1] \in Device
    BY <1>2, PayloadType DEF Payload, IInv
  <2> QED BY <1>3, <2>1 DEF IInv, DeviceInv, OutboxInv, Knows, RowOf
<1>6. RowInv'
  BY <1>3, KeyFacts DEF IInv, DeviceInv, RowInv
<1>7. UNCHANGED <<hosted, outcome, strays>>
  BY <1>1 DEF Quarantine
<1>8. VerdictIsHosted'
  <2> SUFFICES ASSUME NEW e \in Device, NEW n \in MutId
               PROVE  /\ sessions'[e][n].srv # None =>
                            outcome[<<e, n>>] = [kind |-> "applied", sid |-> sessions'[e][n].srv]
                      /\ outbox'[e][n].op # "none" /\ outbox'[e][n].st = "synced"
                            => outcome[<<e, n>>].kind = "applied"
                      /\ outbox'[e][n].op = "open" /\ outbox'[e][n].st = "conflict"
                            => outcome[<<e, n>>].kind = "conflict"
    BY <1>7 DEF VerdictIsHosted
  <2>1. muts = {m} => outcome[<<d, m>>].kind = "conflict"
    BY <1>0, <1>1 DEF WorkerOK, ReplyOK
  <2>2. \A x \in LateCloses(d, r) : outbox[d][x].op = "close"
    BY DEF LateCloses
  <2> QED BY <1>2, <1>3, <2>1, <2>2, KeyFacts DEF IInv, DeviceInv, VerdictIsHosted
<1>9. /\ worker'[d].pc = "push" /\ worker'[d].srv = w.srv /\ worker'[d].todo \subseteq w.todo
      /\ \A e \in Device \ {d} : worker'[e] = worker[e]
  BY <1>0, <1>1 DEF Quarantine, Worker
<1>10. WorkerOK(d, worker[d])'
  <2>1. ASSUME NEW n \in MutId PROVE Knows(<<d, n>>, worker[d].srv[n])'
    <3>1. Knows(<<d, n>>, w.srv[n]) /\ outbox[d][n].row \in RowKey
      BY <1>0 DEF WorkerOK, Queued
    <3> QED BY <1>2, <1>3, <1>9, <3>1 DEF Knows, RowOf, Payload
  <2>2. \A n \in w.todo : Used(<<d, n>>)'
    BY <1>0, <1>2 DEF WorkerOK, Used, Payload, Worker
  <2> QED BY <1>9, <2>1, <2>2 DEF WorkerOK
<1> QED BY <1>4, <1>5, <1>6, <1>7, <1>8, <1>9, <1>10, TableStep

\* Applying a page gives a server id only to the row kept for that session.
LEMMA AppliedIds ==
    ASSUME IInv, NEW d \in Device, NEW rows \in SUBSET Pulled, NEW r \in RowKey
    PROVE  \/ Applied(d, rows)[r].srv = sessions[d][r].srv
           \/ /\ sessions[d][r].srv = None
              /\ Applied(d, rows)[r].srv \in HostedId
              /\ r = PulledKey(Applied(d, rows)[r].srv)
<1>1. sessions[d][r] \in Row
  BY DEF IInv, TypeInv, TypeOK
<1>2. CASE \E p \in rows : sessions[d][r].srv = p.id
  <2> DEFINE p == CHOOSE q \in rows : sessions[d][r].srv = q.id
  <2>1. Applied(d, rows)[r] =
          [sessions[d][r] EXCEPT !.st = p.st, !.sync = "synced",
             !.br = IF p.br = NoBranch THEN @ ELSE p.br]
    BY <1>2 DEF Applied
  <2> HIDE DEF p
  <2> QED BY <1>1, <2>1 DEF Row
<1>3. CASE ~ (\E p \in rows : sessions[d][r].srv = p.id) /\ Displaced(d, rows, r)
  <2>1. Applied(d, rows)[r] = [sessions[d][r] EXCEPT !.sync = "conflict"]
    BY <1>3 DEF Applied
  <2> QED BY <1>1, <2>1 DEF Row
<1>4. CASE /\ ~ (\E p \in rows : sessions[d][r].srv = p.id) /\ ~Displaced(d, rows, r)
           /\ \E p \in rows : ~Copied(d, p) /\ r = PulledKey(p.id)
  <2> DEFINE p == CHOOSE q \in rows : r = PulledKey(q.id)
  <2>1. p \in Pulled /\ p \in rows /\ r = PulledKey(p.id)
    BY <1>4
  <2>2. Applied(d, rows)[r] = [st |-> p.st, sync |-> "synced", srv |-> p.id, br |-> p.br]
    BY <1>4 DEF Applied
  <2> HIDE DEF p
  <2>3. p.id \in HostedId
    BY <2>1 DEF Pulled
  <2>4. sessions[d][r].srv \in {None, p.id}
    BY <2>1, <2>3 DEF IInv, DeviceInv, RowInv
  <2> QED BY <1>4, <2>1, <2>2, <2>3, <2>4
<1>5. CASE /\ ~ (\E p \in rows : sessions[d][r].srv = p.id) /\ ~Displaced(d, rows, r)
           /\ ~ \E p \in rows : ~Copied(d, p) /\ r = PulledKey(p.id)
  BY <1>5 DEF Applied
<1> QED BY <1>2, <1>3, <1>4, <1>5

LEMMA ApplySafe == ASSUME IInv, TypeInv', NEW d \in Device, Apply(d) PROVE IInv'
<1>1. worker[d].pulled \in SUBSET Pulled /\ sessions \in [Device -> [RowKey -> Row]]
  BY DEF IInv, TypeInv, TypeOK, Worker
<1>2. worker'[d] = Idle /\ \A e \in Device \ {d} : worker'[e] = worker[e]
  BY DEF Apply, IInv, TypeInv, TypeOK
<1>3. UNCHANGED <<outbox, hosted, outcome, strays>>
  BY DEF Apply
<1>4. \A e \in Device, r \in RowKey :
         \/ sessions'[e][r].srv = sessions[e][r].srv
         \/ /\ sessions[e][r].srv = None /\ sessions'[e][r].srv \in HostedId
            /\ r = PulledKey(sessions'[e][r].srv)
  BY <1>1, AppliedIds DEF Apply
<1>5. Keeps
  BY <1>3, <1>4 DEF Keeps, Payload
<1>6. OutboxInv'
  BY <1>3, <1>5, KeepsKnows DEF IInv, DeviceInv, OutboxInv, Payload
<1>7. RowInv'
  BY <1>4, KeyFacts DEF IInv, DeviceInv, RowInv
<1>8. VerdictIsHosted'
  <2>1. \A e \in Device, r \in MutId : sessions'[e][r].srv = sessions[e][r].srv
    BY <1>4, KeyFacts
  <2> QED BY <1>3, <2>1 DEF IInv, DeviceInv, VerdictIsHosted
<1> QED BY <1>2, <1>3, <1>5, <1>6, <1>7, <1>8, IdleOK, TableStep

\* The acknowledged id is the row's own, or the first it gets.
LEMMA AckFacts ==
    ASSUME IInv, NEW d \in Device, Ack(d)
    PROVE  LET m == worker[d].at
               r == outbox[d][m].row
               h == worker[d].reply.sid
           IN  /\ worker[d] \in Worker /\ WorkerOK(d, worker[d])
               /\ m \in MutId /\ r \in RowKey /\ h \in HostedId
               /\ outcome[<<d, m>>] = [kind |-> "applied", sid |-> h]
               /\ sessions[d][r].srv \in {None, h}
               /\ r \in MutId => outcome[<<d, r>>] = [kind |-> "applied", sid |-> h]
               /\ \A g \in HostedId : r = PulledKey(g) => h = g
<1> DEFINE m == worker[d].at
           r == outbox[d][m].row
           h == worker[d].reply.sid
<1>1. /\ worker[d] \in Worker /\ WorkerOK(d, worker[d]) /\ m \in MutId
      /\ <<d, m>> \in Mutation /\ outbox[d][m] \in Queued /\ r \in RowKey
      /\ Payload(<<d, m>>) = outbox[d][m]
  <2>1. m \in MutId /\ worker[d] \in Worker
    BY DEF Ack, IInv, TypeInv, TypeOK, Sending
  <2>2. outbox[d][m] \in Queued
    BY <2>1 DEF IInv, TypeInv, TypeOK
  <2> QED BY <2>1, <2>2 DEF IInv, DeviceInv, WorkerInv, Mutation, Payload, Queued
<1>2. worker[d].reply = outcome[<<d, m>>] /\ worker[d].reply \in Outcome
      /\ worker[d].reply.kind = "applied" /\ outbox[d][m].op \in {"open", "close"}
  BY <1>1 DEF Ack, WorkerOK, ReplyOK, Worker, Used, Queued
<1>3. h \in HostedId /\ outcome[<<d, m>>] = [kind |-> "applied", sid |-> h]
  <2>1. h # None
    BY <1>1, <1>2 DEF IInv, LedgerInv, OutcomeInv
  <2> QED BY <1>2, <2>1 DEF Outcome
<1>4. \A n \in MutId : sessions[d][n].srv # None =>
         outcome[<<d, n>>] = [kind |-> "applied", sid |-> sessions[d][n].srv]
  BY DEF IInv, DeviceInv, VerdictIsHosted
<1>5. CASE outbox[d][m].op = "open"
  <2>1. r = m
    BY <1>1, <1>5 DEF IInv, DeviceInv, OutboxInv
  <2>2. sessions[d][r].srv # None => sessions[d][r].srv = h
    <3>1. ASSUME sessions[d][m].srv # None
          PROVE  [kind |-> "applied", sid |-> h].sid = [kind |-> "applied", sid |-> sessions[d][m].srv].sid
      BY <1>1, <1>3, <1>4, <3>1
    <3> QED BY <2>1, <3>1
  <2> QED BY <1>1, <1>3, <2>1, <2>2, KeyFacts
<1>6. CASE outbox[d][m].op = "close"
  <2>1. sessions[d][r].srv = h
    BY <1>1, <1>2, <1>6 DEF IInv, LedgerInv, CloseReachedItsSession
  <2>2. \A g \in HostedId : r = PulledKey(g) => h = g
    BY <1>3, <2>1, KeyFacts DEF IInv, DeviceInv, RowInv
  <2> QED BY <1>1, <1>3, <1>4, <2>1, <2>2, KeyFacts
<1> QED BY <1>2, <1>5, <1>6

LEMMA AckSafe == ASSUME IInv, TypeInv', NEW d \in Device, Ack(d) PROVE IInv'
<1> DEFINE m == worker[d].at
           r == outbox[d][m].row
           h == worker[d].reply.sid
           w == worker[d]
<1>0. /\ w \in Worker /\ WorkerOK(d, w)
      /\ m \in MutId /\ r \in RowKey /\ h \in HostedId
      /\ outcome[<<d, m>>] = [kind |-> "applied", sid |-> h]
      /\ sessions[d][r].srv \in {None, h}
      /\ r \in MutId => outcome[<<d, r>>] = [kind |-> "applied", sid |-> h]
      /\ \A g \in HostedId : r = PulledKey(g) => h = g
  BY AckFacts
<1>1. /\ worker \in [Device -> Worker] /\ outbox \in [Device -> [MutId -> Queued]]
      /\ sessions \in [Device -> [RowKey -> Row]]
  BY DEF IInv, TypeInv, TypeOK
<1> HIDE DEF m, r, h
<1>2. /\ sessions' = [sessions EXCEPT ![d][r] = [sessions[d][r] EXCEPT !.srv = h, !.sync = "synced"]]
      /\ outbox' = [outbox EXCEPT ![d] = [n \in MutId |->
                      IF n = m THEN [outbox[d][n] EXCEPT !.st = "synced"]
                      ELSE IF n \in LateCloses(d, r) /\ outbox[d][n].srv = None
                      THEN [outbox[d][n] EXCEPT !.srv = h]
                      ELSE outbox[d][n]]]
      /\ UNCHANGED <<hosted, outcome, strays>>
  BY <1>1 DEF Ack, m, r, h
<1>3. /\ sessions'[d][r].srv = h
      /\ \A e \in Device, q \in RowKey : <<e, q>> # <<d, r>> =>
            sessions'[e][q] = sessions[e][q]
  <2>1. [sessions[d][r] EXCEPT !.srv = h, !.sync = "synced"].srv = h
    BY <1>0, <1>1 DEF Row
  <2> QED BY <1>0, <1>1, <1>2, <2>1
<1>4. ASSUME NEW n \in MutId
      PROVE  /\ outbox'[d][n].op = outbox[d][n].op /\ outbox'[d][n].row = outbox[d][n].row
             /\ \/ outbox'[d][n].srv = outbox[d][n].srv
                \/ /\ outbox'[d][n].srv = h /\ outbox[d][n].op = "close"
                   /\ outbox[d][n].row = r
             /\ n = m \/ outbox'[d][n].st = outbox[d][n].st
  <2>1. outbox[d][n] \in Queued
    BY <1>1
  <2>2. outbox'[d][n] = IF n = m THEN [outbox[d][n] EXCEPT !.st = "synced"]
                        ELSE IF n \in LateCloses(d, r) /\ outbox[d][n].srv = None
                        THEN [outbox[d][n] EXCEPT !.srv = h]
                        ELSE outbox[d][n]
    BY <1>1, <1>2
  <2>3. n \in LateCloses(d, r) => outbox[d][n].op = "close" /\ outbox[d][n].row = r
    BY DEF LateCloses
  <2> QED BY <2>1, <2>2, <2>3 DEF Queued
<1>5. \A e \in Device \ {d} : outbox'[e] = outbox[e]
  BY <1>1, <1>2
<1>6. Keeps
  BY <1>0, <1>3, <1>4, <1>5 DEF Keeps, Payload, Mutation
<1>7. OutboxInv'
  <2> SUFFICES ASSUME NEW e \in Device, NEW n \in MutId
               PROVE  /\ outbox'[e][n].op = "open" => outbox'[e][n].row = n
                      /\ Knows(<<e, n>>, Payload(<<e, n>>).srv)'
    BY DEF OutboxInv, Mutation, Payload
  <2>1. /\ outbox[e][n].op = "open" => outbox[e][n].row = n
        /\ outbox[e][n].srv # None =>
              outbox[e][n].op = "close" /\ outbox[e][n].srv = sessions[e][outbox[e][n].row].srv
    <3>1. <<e, n>> \in Mutation
      BY DEF Mutation
    <3> QED BY <3>1 DEF IInv, DeviceInv, OutboxInv, Payload, Knows, RowOf
  <2>2. outbox[e][n].row \in RowKey
    BY <1>1 DEF Queued
  <2>3. CASE e # d
    BY <1>3, <1>5, <2>1, <2>2, <2>3 DEF Knows, Payload, RowOf
  <2>4. CASE e = d
    BY <1>0, <1>3, <1>4, <2>1, <2>2, <2>4 DEF Knows, Payload, RowOf
  <2> QED BY <2>3, <2>4
<1>8. RowInv'
  BY <1>0, <1>3, KeyFacts DEF IInv, DeviceInv, RowInv
<1>9. VerdictIsHosted'
  <2> SUFFICES ASSUME NEW e \in Device, NEW n \in MutId
               PROVE  /\ sessions'[e][n].srv # None =>
                            outcome[<<e, n>>] = [kind |-> "applied", sid |-> sessions'[e][n].srv]
                      /\ outbox'[e][n].op # "none" /\ outbox'[e][n].st = "synced"
                            => outcome[<<e, n>>].kind = "applied"
                      /\ outbox'[e][n].op = "open" /\ outbox'[e][n].st = "conflict"
                            => outcome[<<e, n>>].kind = "conflict"
    BY <1>2 DEF VerdictIsHosted
  <2>1. sessions'[e][n].srv # None =>
           outcome[<<e, n>>] = [kind |-> "applied", sid |-> sessions'[e][n].srv]
    BY <1>0, <1>3, KeyFacts DEF IInv, DeviceInv, VerdictIsHosted
  <2>2. CASE e = d /\ n = m
    <3>1. outbox'[d][m].st = "synced"
      BY <1>0, <1>1, <1>2 DEF Queued
    <3> QED BY <1>0, <2>1, <2>2, <3>1
  <2>3. CASE ~ (e = d /\ n = m)
    <3>1. outbox'[e][n].op = outbox[e][n].op /\ outbox'[e][n].st = outbox[e][n].st
      BY <1>4, <1>5, <2>3
    <3> QED BY <2>1, <3>1 DEF IInv, DeviceInv, VerdictIsHosted
  <2> QED BY <2>2, <2>3
<1>10. /\ worker'[d].pc = "push" /\ worker'[d].todo \subseteq w.todo
       /\ worker'[d].srv = [n \in MutId |->
             IF n \in Group(d, m) /\ outbox[d][n].op = "close" /\ w.srv[n] = None
             THEN h ELSE w.srv[n]]
       /\ \A e \in Device \ {d} : worker'[e] = worker[e]
  BY <1>0, <1>1 DEF Ack, Worker, m, r, h
<1>11. WorkerOK(d, worker[d])'
  <2>1. ASSUME NEW n \in MutId PROVE Knows(<<d, n>>, worker[d].srv[n])'
    <3>1. Knows(<<d, n>>, w.srv[n]) /\ outbox[d][n].row \in RowKey
      BY <1>0, <1>1 DEF WorkerOK, Queued
    <3>2. n \in Group(d, m) => outbox[d][n].row = r
      BY DEF Group, r
    <3> QED BY <1>0, <1>3, <1>4, <1>10, <3>1, <3>2 DEF Knows, RowOf, Payload
  <2>2. \A n \in w.todo : Used(<<d, n>>)'
    BY <1>0, <1>4 DEF WorkerOK, Used, Payload, Worker
  <2> QED BY <1>10, <2>1, <2>2 DEF WorkerOK
<1> QED BY <1>2, <1>6, <1>7, <1>8, <1>9, <1>10, <1>11, TableStep

-----------------------------------------------------------------------------
(* The invariant, and what follows from it.                                *)

LEMMA InitInv == ASSUME Init, TypeInv PROVE IInv
<1> USE DEF Init
<1>1. \A m \in Mutation : /\ outcome[m].kind = "none" /\ ~Used(m)
                          /\ Payload(m).op = "none" /\ Payload(m).srv = None
  BY DEF Mutation, Used, Payload, Unused, NoOutcome
<1>2. \A d \in Device, r \in RowKey : sessions[d][r].srv = None
  BY DEF Absent
<1>3. /\ \A h \in HostedId : hosted[h].st = "none"
      /\ \A d \in Device : worker[d] = Idle
      /\ strays = {}
  OBVIOUS
<1>4. OutboxInv /\ RowInv /\ StrayInv /\ OutcomeInv
  BY <1>1, <1>2, <1>3, KeyFacts DEF OutboxInv, RowInv, StrayInv, OutcomeInv, Knows
<1>5. WorkerInv
  BY <1>3 DEF WorkerInv, WorkerOK, Idle, Knows
<1>6. VerdictIsHosted
  BY <1>2, KeyFacts DEF VerdictIsHosted, Unused
<1>7. OpenedOnce /\ OneOpenPerBranch
  BY <1>1, <1>3 DEF OpenedOnce, AppliedOpen, OneOpenPerBranch, OpenAt
<1>8. CloseReachedItsSession
  BY DEF CloseReachedItsSession, Unused
<1> QED BY <1>4, <1>5, <1>6, <1>7, <1>8 DEF IInv, DeviceInv, LedgerInv

LEMMA StutterInv == ASSUME IInv, TypeInv', UNCHANGED vars PROVE IInv'
<1>1. Keeps /\ Grows /\ OneOpenPerBranch'
  BY DEF vars, Keeps, Grows, Payload, IInv, LedgerInv, OneOpenPerBranch, OpenAt
<1>2. WorkerInv' /\ VerdictIsHosted'
  BY <1>1, HostedWorker DEF vars, WorkerInv, IInv, DeviceInv, VerdictIsHosted
<1>3. OutboxInv' /\ RowInv'
  BY HostedTables DEF vars
<1> QED BY <1>1, <1>2, <1>3, KeepsStrays, DeviceStep DEF vars, DeviceInv

LEMMA StepInv == IInv /\ TypeInv' /\ [Next]_vars => IInv'
<1> SUFFICES ASSUME IInv, TypeInv', [Next]_vars PROVE IInv'
  OBVIOUS
<1>1. ASSUME NEW d \in Device, User(d) PROVE IInv'
  BY <1>1, LocalOpenSafe, LocalCloseSafe, RetrySafe DEF User
<1>2. ASSUME NEW d \in Device, Reconcile(d) PROVE IInv'
  <2>1. CASE Load(d) \/ SendPush(d) \/ ServePush(d) \/ LookPush(d) \/ InsertPush(d)
    BY <2>1, LoadSafe, SendPushSafe, ServedIs, ServePushSafe, LookPushSafe
  <2>2. CASE FailedPush(d) \/ Ack(d) \/ FailedAck(d)
    BY <2>2, AckSafe, AbandonSafe
  <2>3. CASE Conflict(d) \/ Defer(d)
    BY <2>3, QuarantineSafe
  <2>4. CASE Pull(d) \/ Apply(d) \/ SkipApply(d)
    BY <2>4, PullSafe, ApplySafe, AbandonSafe
  <2> QED BY <1>2, <2>1, <2>2, <2>3, <2>4 DEF Reconcile
<1>3. ASSUME NEW d \in Device, GiveUp(d) PROVE IInv'
  BY <1>3, GiveUpSafe
<1>4. ASSUME NEW q \in strays, ServeStray(q) \/ LookStray(q) PROVE IInv'
  BY <1>4, ServeStraySafe, LookStraySafe
<1>5. CASE Web
  BY <1>5, WebSafe
<1>6. CASE UNCHANGED vars
  BY <1>6, StutterInv
<1> QED BY <1>1, <1>2, <1>3, <1>4, <1>5, <1>6 DEF Next

\* The inductive invariant holds of every behaviour.
THEOREM Invariance == Spec => []IInv
<1>1. Spec => []TypeInv
  BY TypeCorrect
<1>2. Init /\ TypeInv => IInv
  BY InitInv
<1> QED BY <1>1, <1>2, StepInv, PTL DEF Spec

\* Each open mutation makes at most one hosted session and each device-made
\* session has its one mutation, however often the push is delivered.
THEOREM OpensExactlyOnce == Spec => []OpenedOnce
<1>1. IInv => OpenedOnce
  BY DEF IInv, LedgerInv
<1> QED BY <1>1, Invariance, PTL

\* What a device believes of its mutations is what the server decided.
THEOREM DevicesBelieveTheServer == Spec => []VerdictIsHosted
<1>1. IInv => VerdictIsHosted
  BY DEF IInv, DeviceInv
<1> QED BY <1>1, Invariance, PTL

\* A decided close closed the session of the row the cashier closed.
THEOREM ClosesReachTheirSession == Spec => []CloseReachedItsSession
<1>1. IInv => CloseReachedItsSession
  BY DEF IInv, LedgerInv
<1> QED BY <1>1, Invariance, PTL

-----------------------------------------------------------------------------
(* The hosted tables implement CashLedger, and a pull cursor never goes    *)
(* back, for every value of the constants.                                 *)

ledgerSession == [h \in HostedId |-> [st |-> hosted[h].st, br |-> hosted[h].br]]

LEMMA OpenedStep ==
    ASSUME TypeOK, NEW h \in HostedId, NEW b \in Branch, NEW t, NEW web,
           NextHosted(h), OpenAt(b) = {}, InsertSession(h, b, t, web)
    PROVE  Ledger!Opened(h, b)
<1>1. hosted[h].st = "none" /\ hosted \in [HostedId -> Session]
  BY DEF NextHosted, TypeOK
<1>2. \A g \in HostedId : hosted'[g] =
         IF g = h THEN [st |-> "open", br |-> b, upd |-> t, done |-> clock, web |-> web]
         ELSE hosted[g]
  BY <1>1 DEF InsertSession
<1>3. ledgerSession' = [ledgerSession EXCEPT ![h] = [st |-> "open", br |-> b]]
  <2>1. \A g \in HostedId : [st |-> hosted'[g].st, br |-> hosted'[g].br]
           = IF g = h THEN [st |-> "open", br |-> b] ELSE [st |-> hosted[g].st, br |-> hosted[g].br]
    BY <1>2
  <2> QED BY <2>1 DEF ledgerSession
<1>4. Ledger!Free(b)
  BY DEF Ledger!Free, OpenAt
<1> QED BY <1>1, <1>3, <1>4 DEF Ledger!Opened, ledgerSession

LEMMA ClosedStep ==
    ASSUME TypeOK, NEW h \in HostedId, NEW t, hosted[h].st = "open", CloseSession(h, t)
    PROVE  Ledger!Closed(h)
<1>1. hosted \in [HostedId -> Session] /\ hosted[h] \in Session
  BY DEF TypeOK
<1>2. /\ hosted'[h].st = "closed" /\ hosted'[h].br = hosted[h].br
      /\ \A g \in HostedId \ {h} : hosted'[g] = hosted[g]
  BY <1>1 DEF CloseSession, Session
<1>3. ledgerSession' = [ledgerSession EXCEPT ![h] = [st |-> "closed", br |-> hosted[h].br]]
  BY <1>2 DEF ledgerSession
<1>4. [ledgerSession EXCEPT ![h].st = "closed"]
         = [ledgerSession EXCEPT ![h] = [st |-> "closed", br |-> hosted[h].br]]
  <2>1. [ledgerSession[h] EXCEPT !.st = "closed"] = [st |-> "closed", br |-> hosted[h].br]
    BY DEF ledgerSession
  <2> QED BY <2>1
<1> QED BY <1>3, <1>4 DEF Ledger!Closed, ledgerSession

LEMMA HostedPushRefines ==
    ASSUME TypeOK, NEW m \in Mutation, NEW srv \in HostedId \cup {None}, NEW s \in Nat,
           Executes(m, srv, s)
    PROVE  Ledger!Next \/ UNCHANGED <<ledgerSession, outcome>>
<1>0. Payload(m).br \in Branch /\ outcome \in [Mutation -> Outcome]
  BY DEF TypeOK, Payload, Mutation, Queued
<1>1. CASE Replay(m) \/ PushOrphanClose(m, srv)
  BY <1>1 DEF Replay, PushOrphanClose, hostedVars, ledgerSession
<1>2. CASE PushOpen(m, s)
  <2>0. PICK b \in Branch : b = Payload(m).br
    BY <1>0
  <2>1. PICK h \in HostedId, t \in Stamps(s) :
          /\ NextHosted(h)
          /\ InsertSession(h, b, t, FALSE)
          /\ outcome' = [outcome EXCEPT ![m] = [kind |-> "applied", sid |-> h]]
    BY <1>2, <2>0 DEF PushOpen
  <2>2. Ledger!Opened(h, b)
    BY <1>2, <2>0, <2>1, OpenedStep DEF PushOpen
  <2>3. Ledger!Decide(m, "applied", h)
    BY <1>2, <2>1 DEF PushOpen, Ledger!Decide
  <2> QED BY <1>0, <2>2, <2>3 DEF Ledger!Take, Ledger!Next
<1>3. CASE PushOpenConflict(m)
  <2>1. PICK h \in OpenAt(Payload(m).br) :
          outcome' = [outcome EXCEPT ![m] = [kind |-> "conflict", sid |-> h]]
    BY <1>3 DEF PushOpenConflict
  <2>2. h \in HostedId /\ hosted[h].st = "open"
    BY DEF OpenAt
  <2>3. Ledger!Refuse(m, h)
    BY <1>3, <2>1, <2>2 DEF PushOpenConflict, Accepted, Ledger!Refuse, Ledger!Decide
  <2> QED BY <2>2, <2>3 DEF Ledger!Next
<1>4. CASE PushClose(m, srv, s)
  <2>1. srv \in HostedId
    BY <1>4 DEF PushClose
  <2>2. Ledger!Decide(m, "applied", srv)
    BY <1>4 DEF PushClose, Accepted, Ledger!Decide
  <2>3. CASE hosted[srv].st = "open" /\ \E t \in Stamps(s) : CloseSession(srv, t)
    BY <2>1, <2>2, <2>3, ClosedStep DEF Ledger!Take, Ledger!Next
  <2>4. CASE hosted[srv].st = "closed" /\ UNCHANGED hosted
    BY <2>1, <2>2, <2>4 DEF Ledger!FindDone, Ledger!Next
  <2> QED BY <1>4, <2>3, <2>4 DEF PushClose
<1> QED BY <1>1, <1>2, <1>3, <1>4 DEF Executes, HostedPush

LEMMA WebRefines == ASSUME TypeOK, Web PROVE Ledger!Next
<1>1. ASSUME NEW b \in Branch, WebOpen(b) PROVE Ledger!Next
  <2>1. PICK h \in HostedId, t \in Stamps(1) : NextHosted(h) /\ InsertSession(h, b, t, TRUE)
    BY <1>1 DEF WebOpen
  <2>2. Ledger!Opened(h, b)
    BY <1>1, <2>1, OpenedStep DEF WebOpen
  <2> QED BY <1>1, <2>2 DEF WebOpen, Ledger!WebStep, Ledger!Next
<1>2. ASSUME NEW b \in Branch, WebClose(b) PROVE Ledger!Next
  <2>1. PICK h \in OpenAt(b) : \E t \in Stamps(hosted[h].done + 1) : CloseSession(h, t)
    BY <1>2 DEF WebClose
  <2>2. h \in HostedId /\ hosted[h].st = "open"
    BY DEF OpenAt
  <2>3. Ledger!Closed(h)
    BY <2>1, <2>2, ClosedStep
  <2> QED BY <1>2, <2>2, <2>3 DEF WebClose, Ledger!WebStep, Ledger!Next
<1> QED BY <1>1, <1>2 DEF Web

LEMMA StepRefines ==
    TypeInv /\ [Next]_vars => [Ledger!Next]_<<ledgerSession, outcome>>
<1> SUFFICES ASSUME TypeInv, [Next]_vars
             PROVE  Ledger!Next \/ UNCHANGED <<ledgerSession, outcome>>
  OBVIOUS
<1>0. TypeOK
  BY DEF TypeInv
<1>1. ASSUME NEW d \in Device, ServePush(d) \/ InsertPush(d)
      PROVE  Ledger!Next \/ UNCHANGED <<ledgerSession, outcome>>
  <2>1. /\ <<d, worker[d].at>> \in Mutation /\ worker[d].sent \in Nat
        /\ worker[d].srv[worker[d].at] \in HostedId \cup {None}
    BY <1>1 DEF ServePush, InsertPush, TypeInv, TypeOK, Sending, Worker, Mutation
  <2> QED BY <1>0, <1>1, <2>1, ServedIs, HostedPushRefines
<1>2. ASSUME NEW q \in strays, ServeStray(q)
      PROVE  Ledger!Next \/ UNCHANGED <<ledgerSession, outcome>>
  <2>0. q \in Request
    BY <1>0 DEF TypeOK
  <2>1. CASE Executes(q.mut, q.srv, q.sent)
    BY <1>0, <2>0, <2>1, HostedPushRefines DEF Request
  <2>2. CASE UNCHANGED hostedVars
    BY <2>2 DEF hostedVars, ledgerSession
  <2> QED BY <1>2, <2>1, <2>2 DEF ServeStray, Executes
<1>3. CASE Web
  BY <1>0, <1>3, WebRefines
<1>4. ASSUME UNCHANGED <<hosted, outcome>>
      PROVE  Ledger!Next \/ UNCHANGED <<ledgerSession, outcome>>
  BY <1>4 DEF ledgerSession
<1>5. ASSUME NEW d \in Device, User(d) \/ GiveUp(d) PROVE UNCHANGED <<hosted, outcome>>
  BY <1>5 DEF User, LocalOpen, LocalClose, Retry, GiveUp
<1>6. ASSUME NEW d \in Device,
             Load(d) \/ SendPush(d) \/ LookPush(d) \/ FailedPush(d) \/ Ack(d) \/ FailedAck(d)
               \/ Conflict(d) \/ Defer(d) \/ Pull(d) \/ Apply(d) \/ SkipApply(d)
      PROVE  UNCHANGED <<hosted, outcome>>
  BY <1>6 DEF Load, SendPush, LookPush, FailedPush, Ack, FailedAck, Conflict, Defer, Quarantine,
              Pull, Apply, SkipApply
<1>7. ASSUME NEW q \in strays, LookStray(q) PROVE UNCHANGED <<hosted, outcome>>
  BY <1>7 DEF LookStray
<1>8. CASE UNCHANGED vars
  BY <1>4, <1>8 DEF vars
<1> QED BY <1>1, <1>2, <1>3, <1>4, <1>5, <1>6, <1>7, <1>8 DEF Next, Reconcile

\* Retries, abandoned requests and lost answers never show in the hosted
\* tables: the system implements the ledger.
THEOREM Refinement == Spec => ImplementsLedger
<1>1. Init => Ledger!Init
  <2> SUFFICES ASSUME Init PROVE Ledger!Init
    OBVIOUS
  <2>1. AnyBranch \in Branch
    BY DeviceAssumption DEF AnyBranch
  <2>2. ledgerSession = [h \in HostedId |-> [st |-> "none", br |-> AnyBranch]]
    BY DEF Init, ledgerSession
  <2> QED BY <2>1, <2>2 DEF Init, Ledger!Init, ledgerSession, NoOutcome, None
<1>2. TypeInv /\ [Next]_vars => [Ledger!Next]_<<[h \in HostedId |->
                                   [st |-> hosted[h].st, br |-> hosted[h].br]], outcome>>
  BY StepRefines DEF ledgerSession
<1> QED BY <1>1, <1>2, TypeCorrect, PTL DEF Spec, ImplementsLedger, Ledger!Spec

-----------------------------------------------------------------------------
(* Cursors.  The single-flight worker still holds the cursor it loaded when *)
(* it applies, so the millisecond comparison cannot let an older page in.  *)

CursorOK(d) ==
    /\ worker[d].pc # "idle" => worker[d].from = cursor[d]
    /\ worker[d].pc = "apply" =>
          worker[d].next = worker[d].from \/ After(worker[d].next, worker[d].from)

CursorInv == \A d \in Device : CursorOK(d)

LEMMA NextIsLater ==
    ASSUME NEW c \in Cursor, NEW n \in NextCursors(c, Page(c))
    PROVE  n = c \/ After(n, c)
<1>1. \A p \in Page(c) : After(p, c)
  BY DEF Page, Newer
<1>2. \A p \in Page(c) : After(Position(p), c)
  BY <1>1 DEF Position, After
<1> QED BY <1>2 DEF NextCursors

LEMMA CursorStep ==
    ASSUME TypeInv, CursorInv, [Next]_vars
    PROVE  /\ CursorInv'
           /\ \A d \in Device : cursor'[d] # cursor[d] => After(cursor'[d], cursor[d])
<1> DEFINE Goal ==
             /\ CursorInv'
             /\ \A d \in Device : cursor'[d] # cursor[d] => After(cursor'[d], cursor[d])
<1>0. worker \in [Device -> Worker] /\ cursor \in [Device -> Cursor]
  BY DEF TypeInv, TypeOK
<1>1. ASSUME UNCHANGED <<worker, cursor>> PROVE Goal
  BY <1>1 DEF CursorInv, CursorOK
<1>2. ASSUME NEW d \in Device, UNCHANGED cursor,
             \A e \in Device \ {d} : worker'[e] = worker[e], CursorOK(d)'
      PROVE  Goal
  BY <1>2 DEF CursorInv, CursorOK
<1>3. ASSUME NEW d \in Device, Load(d) PROVE Goal
  <2>1. worker'[d].pc = "push" /\ worker'[d].from = cursor[d] /\ UNCHANGED cursor
        /\ \A e \in Device \ {d} : worker'[e] = worker[e]
    BY <1>0, <1>3 DEF Load, Idle
  <2> QED BY <1>2, <2>1 DEF CursorOK
<1>4. ASSUME NEW d \in Device,
             SendPush(d) \/ ServePush(d) \/ LookPush(d) \/ InsertPush(d)
               \/ Ack(d) \/ Conflict(d) \/ Defer(d)
      PROVE  Goal
  <2>1. /\ UNCHANGED cursor /\ worker[d].pc # "idle"
        /\ \A e \in Device \ {d} : worker'[e] = worker[e]
    BY <1>0, <1>4 DEF SendPush, ServePush, LookPush, InsertPush, Ack, Conflict, Defer,
                          Quarantine
  <2>2. worker'[d].pc # "apply" /\ worker'[d].from = worker[d].from
    <3>1. worker[d] \in Worker
      BY <1>0
    <3>2. CASE SendPush(d)
      BY <1>0, <3>1, <3>2 DEF SendPush, Worker
    <3>3. CASE ServePush(d) \/ LookPush(d) \/ InsertPush(d)
      BY <1>0, <3>1, <3>3 DEF ServePush, LookPush, InsertPush, Worker
    <3>4. CASE Ack(d)
      BY <1>0, <3>1, <3>4 DEF Ack, Worker
    <3>5. CASE Conflict(d) \/ Defer(d)
      <4>1. PICK muts \in {{worker[d].at}, {}} : Quarantine(d, muts)
        BY <3>5 DEF Conflict, Defer
      <4> QED BY <1>0, <3>1, <4>1 DEF Quarantine, Worker
    <3> QED BY <1>4, <3>2, <3>3, <3>4, <3>5
  <2> QED BY <1>2, <2>1, <2>2 DEF CursorInv, CursorOK
<1>5. ASSUME NEW d \in Device, GiveUp(d) \/ FailedPush(d) \/ FailedAck(d) \/ SkipApply(d)
      PROVE  Goal
  <2>1. /\ UNCHANGED cursor /\ worker'[d].pc = "idle"
        /\ \A e \in Device \ {d} : worker'[e] = worker[e]
    BY <1>0, <1>5 DEF GiveUp, FailedPush, FailedAck, SkipApply, Idle
  <2> QED BY <1>2, <2>1 DEF CursorOK
<1>6. ASSUME NEW d \in Device, Pull(d) PROVE Goal
  <2>1. PICK n \in NextCursors(worker[d].from, Page(worker[d].from)) :
          worker' = [worker EXCEPT ![d] =
                       [Idle EXCEPT !.pc = "apply", !.pulled = Page(worker[d].from),
                                    !.from = worker[d].from, !.next = n]]
    BY <1>6 DEF Pull
  <2>2. n = worker[d].from \/ After(n, worker[d].from)
    BY <1>0, NextIsLater DEF Worker
  <2>3. /\ UNCHANGED cursor /\ worker'[d].from = worker[d].from /\ worker'[d].next = n
        /\ worker[d].pc # "idle" /\ \A e \in Device \ {d} : worker'[e] = worker[e]
    BY <1>0, <1>6, <2>1 DEF Pull, Idle
  <2> QED BY <1>2, <2>2, <2>3 DEF CursorInv, CursorOK
<1>7. ASSUME NEW d \in Device, Apply(d) PROVE Goal
  <2>1. /\ worker'[d].pc = "idle" /\ cursor'[d] = worker[d].next
        /\ \A e \in Device \ {d} : worker'[e] = worker[e] /\ cursor'[e] = cursor[e]
    BY <1>0, <1>7 DEF Apply, Idle
  <2>2. worker[d].next = cursor[d] \/ After(worker[d].next, cursor[d])
    BY <1>7 DEF Apply, CursorInv, CursorOK
  <2> QED BY <2>1, <2>2 DEF CursorInv, CursorOK
<1>8. ASSUME NEW d \in Device, User(d) PROVE Goal
  BY <1>1, <1>8 DEF User, LocalOpen, LocalClose, Retry
<1>9. ASSUME NEW q \in strays, ServeStray(q) \/ LookStray(q) PROVE Goal
  BY <1>1, <1>9 DEF ServeStray, LookStray
<1>10. CASE Web \/ UNCHANGED vars
  BY <1>1, <1>10 DEF Web, WebOpen, WebClose, vars
<1> QED BY <1>3, <1>4, <1>5, <1>6, <1>7, <1>8, <1>9, <1>10 DEF Next, Reconcile

\* A device's pull cursor only moves forward in (updated_at, id), although
\* apply-v2 compares whole milliseconds.
THEOREM CursorsAdvance == Spec => CursorAdvances
<1>1. Init => CursorInv
  BY DEF Init, CursorInv, CursorOK, Idle
<1>2. TypeInv /\ CursorInv /\ [Next]_vars => CursorInv'
  BY CursorStep
<1>3. TypeInv /\ CursorInv /\ [Next]_vars =>
         [\A d \in Device : cursor'[d] # cursor[d] => After(cursor'[d], cursor[d])]_cursor
  BY CursorStep
<1> QED BY <1>1, <1>2, <1>3, TypeCorrect, PTL DEF Spec, CursorAdvances

-----------------------------------------------------------------------------
(* What a cursor stands for.  A change that no later transaction overtook  *)
(* is stamped past all positions handed out so far, so a page, once read,  *)
(* stays the whole news of such changes up to its next cursor.             *)

Spot(h) == [upd |-> hosted[h].upd, id |-> h]
UpTo(h, c) == hosted[h].st # "none" /\ ~After(Spot(h), c)

ClockInv ==
    /\ \A h \in HostedId : hosted[h].st # "none" =>
          hosted[h].upd <= hosted[h].done /\ hosted[h].done < clock
    /\ \A d \in Device : /\ cursor[d].upd < clock
                         /\ worker[d].pc = "apply" => worker[d].next.upd < clock

\* A page has all that came since the cursor it was asked for, as it is now
\* or with a change since that is overtaken or that the next cursor does not
\* claim.
PageOK(d) ==
    worker[d].pc = "apply" =>
      /\ \A h \in HostedId : UpTo(h, worker[d].next) /\ ~Overtaken(h) =>
            UpTo(h, cursor[d]) \/ \E p \in worker[d].pulled : p.id = h
      /\ \A p \in worker[d].pulled :
            p.st = hosted[p.id].st \/ Overtaken(p.id) \/ After(Spot(p.id), worker[d].next)

\* The rows kept for pulled sessions have their server id from the start.
CopyOK(d) ==
    \A h \in HostedId :
        sessions[d][PulledKey(h)].st # "none" => sessions[d][PulledKey(h)].srv # None

PullInv == ClockInv /\ NothingSkipped /\ \A d \in Device : PageOK(d) /\ CopyOK(d)

\* A hosted transaction commits now and stamps what it changes with a past or
\* present time.
Commits(h) == hosted'[h].done = clock /\ hosted'[h].upd <= clock

Stamped ==
    \/ UNCHANGED <<clock, hosted>>
    \/ /\ clock' = clock + 1
       /\ \A h \in HostedId : hosted'[h] = hosted[h] \/ Commits(h)

LEMMA StampIsPast ==
    ASSUME clock \in Nat, NEW s \in Nat, NEW t \in Stamps(s)
    PROVE  t \in Nat /\ t <= clock
  BY DEF Stamps

LEMMA CloseStamps ==
    ASSUME TypeOK, NEW h \in HostedId, NEW t \in Nat, t <= clock, CloseSession(h, t)
    PROVE  \A g \in HostedId : hosted'[g] = hosted[g] \/ Commits(g)
<1>1. hosted[h] \in Session
  BY DEF TypeOK
<1>2. /\ [hosted[h] EXCEPT !.st = "closed", !.upd = t, !.done = clock].upd = t
      /\ [hosted[h] EXCEPT !.st = "closed", !.upd = t, !.done = clock].done = clock
  BY <1>1 DEF Session
<1> QED BY <1>2 DEF CloseSession, TypeOK, Commits

LEMMA InsertStamps ==
    ASSUME TypeOK, NEW h \in HostedId, NEW b, NEW t \in Nat, t <= clock, NEW w,
           InsertSession(h, b, t, w)
    PROVE  \A g \in HostedId : hosted'[g] = hosted[g] \/ Commits(g)
  BY DEF InsertSession, TypeOK, Commits

LEMMA HostedPushStamps ==
    ASSUME TypeOK, NEW m \in Mutation, NEW srv \in HostedId \cup {None},
           NEW s \in Nat, Executes(m, srv, s)
    PROVE  Stamped
<1>0. clock \in Nat
  BY DEF TypeOK
<1>1. CASE Replay(m) \/ PushOrphanClose(m, srv)
  BY <1>1 DEF Replay, PushOrphanClose, hostedVars, Stamped
<1>2. CASE PushOpenConflict(m)
  BY <1>2 DEF PushOpenConflict, Stamped
<1>3. CASE PushOpen(m, s)
  <2>1. PICK h \in HostedId, t \in Stamps(s) : InsertSession(h, Payload(m).br, t, FALSE)
    BY <1>3 DEF PushOpen
  <2>2. t \in Nat /\ t <= clock
    BY <1>0, StampIsPast
  <2> QED BY <1>3, <2>1, <2>2, InsertStamps DEF PushOpen, Stamped
<1>4. CASE PushClose(m, srv, s)
  <2>1. srv \in HostedId
    BY <1>4 DEF PushClose
  <2>2. CASE clock' = clock + 1 /\ \E t \in Stamps(s) : CloseSession(srv, t)
    <3>1. PICK t \in Stamps(s) : CloseSession(srv, t)
      BY <2>2
    <3>2. t \in Nat /\ t <= clock
      BY <1>0, StampIsPast
    <3> QED BY <2>1, <2>2, <3>1, <3>2, CloseStamps DEF Stamped
  <2>3. CASE UNCHANGED <<hosted, clock>>
    BY <2>3 DEF Stamped
  <2> QED BY <1>4, <2>2, <2>3 DEF PushClose
<1> QED BY <1>1, <1>2, <1>3, <1>4 DEF Executes, HostedPush

LEMMA WebStamps == ASSUME TypeOK, Web PROVE Stamped
<1>0. clock \in Nat
  BY DEF TypeOK
<1>1. ASSUME NEW b \in Branch, WebOpen(b) PROVE Stamped
  <2>1. PICK h \in HostedId, t \in Stamps(1) : InsertSession(h, b, t, TRUE)
    BY <1>1 DEF WebOpen
  <2>2. t \in Nat /\ t <= clock
    BY <1>0, <2>1, StampIsPast
  <2> QED BY <1>1, <2>1, <2>2, InsertStamps DEF WebOpen, Stamped
<1>2. ASSUME NEW b \in Branch, WebClose(b) PROVE Stamped
  <2>1. PICK h \in OpenAt(b) : \E t \in Stamps(hosted[h].done + 1) : CloseSession(h, t)
    BY <1>2 DEF WebClose
  <2>2. h \in HostedId /\ hosted[h].done + 1 \in Nat
    BY DEF OpenAt, TypeOK, Session
  <2>3. PICK t \in Stamps(hosted[h].done + 1) : CloseSession(h, t)
    BY <2>1
  <2>4. t \in Nat /\ t <= clock
    BY <1>0, <2>2, StampIsPast
  <2> QED BY <1>2, <2>2, <2>3, <2>4, CloseStamps DEF WebClose, Stamped
<1> QED BY <1>1, <1>2 DEF Web

\* A change of the hosted side is overtaken or past every cursor, and nothing
\* else moves.
LEMMA PullHosted ==
    ASSUME TypeInv, TypeInv', PullInv, Stamped, UNCHANGED <<sessions, cursor>>,
           \A d \in Device : worker'[d].pc = "apply" => worker'[d] = worker[d]
    PROVE  PullInv'
<1>1. /\ clock \in Nat /\ hosted \in [HostedId -> Session] /\ cursor \in [Device -> Cursor]
      /\ worker \in [Device -> Worker] /\ hosted' \in [HostedId -> Session]
  BY DEF TypeInv, TypeOK
<1>2. \A d \in Device : cursor[d].upd \in Nat /\ worker[d].next.upd \in Nat
  BY <1>1 DEF Worker, Cursor
<1>3. \A h \in HostedId : /\ hosted[h].upd \in Nat /\ hosted'[h].upd \in Nat
                            /\ hosted[h].done \in Nat /\ hosted'[h].done \in Nat
  BY <1>1 DEF Session
<1>4. \A h \in HostedId : hosted'[h] = hosted[h] \/ Commits(h)
  BY DEF Stamped
<1>5. clock' = clock \/ clock' = clock + 1
  BY DEF Stamped
<1>6. ClockInv'
  <2>1. ASSUME NEW h \in HostedId, hosted'[h].st # "none"
        PROVE  hosted'[h].upd <= hosted'[h].done /\ hosted'[h].done < clock'
    BY <1>1, <1>3, <2>1 DEF PullInv, ClockInv, Stamped, Commits
  <2>2. ASSUME NEW d \in Device
        PROVE  cursor'[d].upd < clock' /\ (worker'[d].pc = "apply" => worker'[d].next.upd < clock')
    BY <1>1, <1>2, <1>5 DEF PullInv, ClockInv
  <2> QED BY <2>1, <2>2 DEF ClockInv
<1>8. \A h \in HostedId, c \in Cursor : c.upd < clock =>
         hosted'[h] = hosted[h] \/ Overtaken(h)' \/ After(Spot(h), c)'
  BY <1>1, <1>3, <1>4 DEF After, Spot, Cursor, Overtaken, Commits
<1>7. \A h \in HostedId, c \in Cursor : c.upd < clock /\ UpTo(h, c)' /\ ~Overtaken(h)' =>
         hosted'[h] = hosted[h] /\ UpTo(h, c) /\ ~Overtaken(h)
  BY <1>8 DEF UpTo, After, Spot, Overtaken
<1>9. NothingSkipped'
  <2> SUFFICES ASSUME NEW d \in Device, NEW h \in HostedId, UpTo(h, cursor[d])', ~Overtaken(h)'
               PROVE  \E r \in RowKey : /\ sessions'[d][r].srv = h
                                        /\ hosted'[h].st = "closed" => sessions'[d][r].st = "closed"
    BY DEF NothingSkipped, UpTo, Spot, Overtaken
  <2>1. hosted'[h] = hosted[h] /\ UpTo(h, cursor[d]) /\ ~Overtaken(h)
    BY <1>1, <1>7 DEF PullInv, ClockInv
  <2> QED BY <2>1 DEF PullInv, NothingSkipped, UpTo, Spot, Overtaken
<1>10. ASSUME NEW d \in Device PROVE PageOK(d)'
  <2> SUFFICES ASSUME worker'[d].pc = "apply" PROVE PageOK(d)'
    BY DEF PageOK
  <2>0. worker'[d] = worker[d] /\ worker[d].next \in Cursor /\ worker[d].next.upd < clock
        /\ worker[d].pulled \subseteq Pulled /\ PageOK(d)
    BY <1>1 DEF PullInv, ClockInv, Worker
  <2>1. ASSUME NEW h \in HostedId, UpTo(h, worker[d].next)', ~Overtaken(h)'
        PROVE  UpTo(h, cursor[d])' \/ \E p \in worker[d].pulled : p.id = h
    <3>1. hosted'[h] = hosted[h] /\ UpTo(h, worker[d].next) /\ ~Overtaken(h)
      BY <1>7, <2>0, <2>1 DEF UpTo
    <3>2. UpTo(h, cursor[d]) \/ \E p \in worker[d].pulled : p.id = h
      BY <2>0, <3>1 DEF PageOK
    <3> QED BY <3>1, <3>2 DEF UpTo, Spot
  <2>2. ASSUME NEW p \in worker[d].pulled
        PROVE  \/ p.st = hosted'[p.id].st
               \/ Overtaken(p.id)'
               \/ After(Spot(p.id), worker[d].next)'
    <3>1. p.id \in HostedId
      BY <2>0 DEF Pulled
    <3>2. p.st = hosted[p.id].st \/ Overtaken(p.id) \/ After(Spot(p.id), worker[d].next)
      BY <2>0 DEF PageOK
    <3>3. \/ hosted'[p.id] = hosted[p.id]
          \/ Overtaken(p.id)'
          \/ After(Spot(p.id), worker[d].next)'
      BY <1>8, <2>0, <3>1 DEF After
    <3> QED BY <2>0, <3>2, <3>3 DEF After, Spot, Overtaken
  <2> QED BY <2>0, <2>1, <2>2 DEF PageOK
<1>11. \A d \in Device : CopyOK(d)'
  BY DEF PullInv, CopyOK
<1> QED BY <1>6, <1>9, <1>10, <1>11 DEF PullInv

\* A local step that gives up no copy and reopens none skips nothing.
LEMMA PullLocal ==
    ASSUME PullInv, UNCHANGED <<hosted, clock, cursor>>,
           \A d \in Device : worker'[d].pc = "apply" => worker'[d] = worker[d],
           \A d \in Device, r \in RowKey : sessions[d][r].srv # None =>
              /\ sessions'[d][r].srv = sessions[d][r].srv
              /\ sessions[d][r].st = "closed" => sessions'[d][r].st = "closed",
           \A d \in Device : CopyOK(d)'
    PROVE  PullInv'
<1>1. ClockInv'
  BY DEF PullInv, ClockInv
<1>2. NothingSkipped'
  <2> SUFFICES ASSUME NEW d \in Device, NEW h \in HostedId, UpTo(h, cursor[d]),
                      ~Overtaken(h)
               PROVE  \E r \in RowKey : /\ sessions'[d][r].srv = h
                                        /\ hosted[h].st = "closed" => sessions'[d][r].st = "closed"
    BY DEF NothingSkipped, UpTo, Spot, Overtaken
  <2>1. PICK r \in RowKey : /\ sessions[d][r].srv = h
                            /\ hosted[h].st = "closed" => sessions[d][r].st = "closed"
    BY DEF PullInv, NothingSkipped, UpTo, Spot, Overtaken
  <2> QED BY <2>1, KeyFacts
<1>3. \A d \in Device : PageOK(d)'
  BY DEF PullInv, PageOK, UpTo, Spot, Overtaken
<1> QED BY <1>1, <1>2, <1>3 DEF PullInv

LEMMA PullQuiet ==
    ASSUME PullInv, UNCHANGED <<sessions, hosted, clock, cursor>>,
           \A d \in Device : worker'[d].pc = "apply" => worker'[d] = worker[d]
    PROVE  PullInv'
<1>1. \A d \in Device : CopyOK(d)'
  BY DEF PullInv, CopyOK
<1> QED BY <1>1, PullLocal

LEMMA PullOpen ==
    ASSUME IInv, PullInv, NEW d \in Device, NEW b \in Branch, LocalOpen(d, b)
    PROVE  PullInv'
<1>1. PICK m \in MutId :
        /\ NextMut(d, m)
        /\ sessions' = [sessions EXCEPT ![d][m] =
                          [st |-> "open", sync |-> "pending", srv |-> None, br |-> b]]
  BY DEF LocalOpen
<1>2. m \in RowKey /\ sessions[d][m].srv = None /\ \A h \in HostedId : PulledKey(h) # m
  BY <1>1, KeyFacts, FreshFacts DEF NextMut, Used, Payload
<1>3. \A e \in Device, r \in RowKey : e # d \/ r # m => sessions'[e][r] = sessions[e][r]
  BY <1>1, <1>2 DEF IInv, TypeInv, TypeOK
<1>4. \A e \in Device, r \in RowKey : sessions[e][r].srv # None => sessions'[e][r] = sessions[e][r]
  BY <1>2, <1>3
<1>5. \A e \in Device : CopyOK(e)'
  BY <1>2, <1>3, KeyFacts DEF CopyOK, PullInv
<1> QED BY <1>4, <1>5, PullLocal DEF LocalOpen

LEMMA PullClose ==
    ASSUME IInv, PullInv, NEW d \in Device, NEW b \in Branch, NEW q \in RowKey,
           LocalClose(d, b, q)
    PROVE  PullInv'
<1>1. /\ sessions' = [sessions EXCEPT ![d][q] =
                        [sessions[d][q] EXCEPT !.st = "closed", !.sync = "pending"]]
      /\ sessions[d][q] \in Row /\ sessions[d][q].st = "open"
  BY DEF LocalClose, IsOpenHere, IInv, TypeInv, TypeOK
<1>2. sessions'[d][q].srv = sessions[d][q].srv /\ sessions'[d][q].st = "closed"
  BY <1>1 DEF IInv, TypeInv, TypeOK, Row
<1>3. \A e \in Device, r \in RowKey : e # d \/ r # q => sessions'[e][r] = sessions[e][r]
  BY <1>1 DEF IInv, TypeInv, TypeOK
<1>4. \A e \in Device : CopyOK(e)'
  BY <1>1, <1>2, <1>3, KeyFacts DEF CopyOK, PullInv
<1> QED BY <1>2, <1>3, <1>4, PullLocal DEF LocalClose

LEMMA PullAck == ASSUME IInv, PullInv, NEW d \in Device, Ack(d) PROVE PullInv'
<1> DEFINE m == worker[d].at
           q == outbox[d][m].row
           h == worker[d].reply.sid
<1>1. /\ worker[d] \in Worker /\ m \in MutId /\ q \in RowKey /\ h \in HostedId
      /\ sessions[d][q].srv \in {None, h} /\ sessions[d][q] \in Row
  BY AckFacts DEF IInv, TypeInv, TypeOK
<1>2. sessions' = [sessions EXCEPT ![d][q] = [sessions[d][q] EXCEPT !.srv = h, !.sync = "synced"]]
  BY <1>1 DEF Ack, IInv, TypeInv, TypeOK
<1>3. /\ UNCHANGED <<hosted, clock, cursor>>
      /\ worker'[d].pc = "push" /\ \A e \in Device \ {d} : worker'[e] = worker[e]
  BY <1>1 DEF Ack, IInv, TypeInv, TypeOK, Worker
<1> HIDE DEF m, q, h
<1>4. sessions'[d][q].srv = h /\ sessions'[d][q].st = sessions[d][q].st
  BY <1>1, <1>2 DEF IInv, TypeInv, TypeOK, Row
<1>5. \A e \in Device, r \in RowKey : e # d \/ r # q => sessions'[e][r] = sessions[e][r]
  BY <1>2 DEF IInv, TypeInv, TypeOK
<1>6. \A e \in Device : CopyOK(e)'
  BY <1>1, <1>4, <1>5, KeyFacts DEF CopyOK, PullInv
<1> QED BY <1>1, <1>3, <1>4, <1>5, <1>6, PullLocal

LEMMA PullQuarantine ==
    ASSUME IInv, PullInv, NEW d \in Device, Conflict(d) \/ Defer(d)
    PROVE  PullInv'
<1> DEFINE q == outbox[d][worker[d].at].row
<1>0. worker[d].at \in MutId /\ worker[d] \in Worker
  BY DEF Conflict, Defer, IInv, TypeInv, TypeOK, Sending
<1>1. q \in RowKey
  <2>1. outbox[d][worker[d].at] \in Queued
    BY <1>0 DEF IInv, TypeInv, TypeOK
  <2> QED BY <2>1 DEF Queued
<1>2. PICK muts \in {{worker[d].at}, {}} : Quarantine(d, muts)
  BY DEF Conflict, Defer
<1>3. /\ sessions' = [sessions EXCEPT ![d][q] = [sessions[d][q] EXCEPT !.sync = "conflict"]]
      /\ UNCHANGED <<hosted, clock, cursor>>
      /\ worker'[d].pc = "push" /\ \A e \in Device \ {d} : worker'[e] = worker[e]
  BY <1>0, <1>1, <1>2 DEF Quarantine, IInv, TypeInv, TypeOK, Worker
<1> HIDE DEF q
<1>4. sessions[d][q] \in Row
  BY <1>1 DEF IInv, TypeInv, TypeOK
<1>5. sessions'[d][q].srv = sessions[d][q].srv /\ sessions'[d][q].st = sessions[d][q].st
  BY <1>1, <1>3, <1>4 DEF IInv, TypeInv, TypeOK, Row
<1>6. \A e \in Device, r \in RowKey : e # d \/ r # q => sessions'[e][r] = sessions[e][r]
  BY <1>3 DEF IInv, TypeInv, TypeOK
<1>7. \A e \in Device : CopyOK(e)'
  BY <1>1, <1>5, <1>6, KeyFacts DEF CopyOK, PullInv
<1> QED BY <1>3, <1>5, <1>6, <1>7, PullLocal

\* The row the pull makes of a hosted session.
RowFor(h) == [id |-> h, st |-> hosted[h].st, br |-> hosted[h].br, upd |-> hosted[h].upd]

LEMMA NewerRows ==
    ASSUME NEW c
    PROVE  /\ \A p \in Newer(c) : p.id \in HostedId /\ p = RowFor(p.id)
                                  /\ hosted[p.id].st # "none" /\ After(p, c)
           /\ \A h \in HostedId : hosted[h].st # "none" /\ After(RowFor(h), c) => RowFor(h) \in Newer(c)
           /\ IsFiniteSet(Newer(c))
<1>1. \A p \in Newer(c) : p.id \in HostedId /\ p = RowFor(p.id)
                          /\ hosted[p.id].st # "none" /\ After(p, c)
  BY DEF Newer, RowFor
<1>2. \A h \in HostedId : hosted[h].st # "none" /\ After(RowFor(h), c) => RowFor(h) \in Newer(c)
  BY DEF Newer, RowFor
<1> DEFINE f == [p \in Newer(c) |-> p.id]
<1>3. f \in Injection(Newer(c), HostedId)
  <2>1. \A p, q \in Newer(c) : f[p] = f[q] => p = q
    BY <1>1
  <2>2. f \in [Newer(c) -> HostedId]
    BY <1>1
  <2> QED BY <2>1, <2>2 DEF Injection, IsInjective
<1>4. IsFiniteSet(HostedId)
  BY FS_Interval, BoundAssumption DEF HostedId
<1>5. IsFiniteSet(Newer(c))
  BY <1>3, <1>4, FS_Injection
<1> QED BY <1>1, <1>2, <1>5

\* A page is full up to its last row: what lies before a row of the page is in
\* the page.
LEMMA PageIsFull ==
    ASSUME TypeInv, NEW c \in Cursor, NEW p \in Page(c), NEW q \in Newer(c), ~After(q, p)
    PROVE  q \in Page(c)
<1> DEFINE P == {x \in Newer(c) : After(p, x)}
           Q == {x \in Newer(c) : After(q, x)}
<1>1. IsFiniteSet(P) /\ IsFiniteSet(Q)
  BY NewerRows, FS_Subset
<1>2. \A x \in Newer(c) : x.upd \in Nat /\ x.id \in Nat
  <2> SUFFICES ASSUME NEW x \in Newer(c) PROVE x.upd \in Nat /\ x.id \in Nat
    OBVIOUS
  <2>1. x.id \in HostedId /\ x = RowFor(x.id)
    BY NewerRows
  <2>2. hosted[x.id] \in Session
    BY <2>1 DEF TypeInv, TypeOK
  <2>3. x.upd = hosted[x.id].upd
    BY <2>1 DEF RowFor
  <2> QED BY <2>1, <2>2, <2>3, BoundAssumption DEF Session, HostedId
<1>3. p \in Newer(c) /\ Cardinality(P) < PullLimit
  BY DEF Page
<1>4. Q \subseteq P
  BY <1>2, <1>3 DEF After
<1>5. Cardinality(Q) <= Cardinality(P)
  BY <1>1, <1>4, FS_Subset
<1>6. Cardinality(Q) \in Nat /\ Cardinality(P) \in Nat /\ PullLimit \in Nat
  BY <1>1, FS_CardinalityType, BoundAssumption
<1>7. Cardinality(Q) < PullLimit
  BY <1>3, <1>5, <1>6
<1> QED BY <1>7 DEF Page

LEMMA PageIsNews ==
    ASSUME TypeInv, NEW c \in Cursor, NEW n \in NextCursors(c, Page(c)),
           NEW h \in HostedId, UpTo(h, n)
    PROVE  UpTo(h, c) \/ \E p \in Page(c) : p.id = h
<1>1. CASE n = c
  BY <1>1
<1>2. CASE n # c /\ ~UpTo(h, c)
  <2>1. PICK p \in Page(c) : n = Position(p)
    BY <1>2 DEF NextCursors
  <2>2. hosted[h].st # "none" /\ After(RowFor(h), c)
    BY <1>2 DEF UpTo, After, Spot, RowFor
  <2>3. RowFor(h) \in Newer(c)
    BY <2>2, NewerRows
  <2>4. ~After(RowFor(h), p)
    BY <2>1 DEF UpTo, After, Spot, RowFor, Position
  <2>5. RowFor(h) \in Page(c)
    BY <2>3, <2>4, PageIsFull
  <2> QED BY <2>5 DEF RowFor
<1> QED BY <1>1, <1>2

LEMMA PullPull ==
    ASSUME TypeInv, CursorInv, PullInv, NEW d \in Device, Pull(d)
    PROVE  PullInv'
<1> DEFINE c == cursor[d]
<1>0. /\ worker[d].from = c /\ c \in Cursor /\ worker \in [Device -> Worker]
      /\ clock \in Nat /\ hosted \in [HostedId -> Session]
  BY DEF Pull, CursorInv, CursorOK, TypeInv, TypeOK
<1>1. PICK n \in NextCursors(c, Page(c)) :
        worker' = [worker EXCEPT ![d] =
                     [Idle EXCEPT !.pc = "apply", !.pulled = Page(c), !.from = c, !.next = n]]
  BY <1>0 DEF Pull
<1>2. /\ worker'[d].pulled = Page(c) /\ worker'[d].next = n
      /\ \A e \in Device \ {d} : worker'[e] = worker[e]
      /\ UNCHANGED <<sessions, cursor, hosted, clock>>
  BY <1>0, <1>1 DEF Pull, Idle
<1> HIDE DEF c
<1>3. n.upd < clock
  <2>1. CASE n = c
    BY <2>1 DEF c, PullInv, ClockInv
  <2>2. CASE n # c
    <3>1. PICK p \in Page(c) : n = Position(p)
      BY <2>2 DEF NextCursors
    <3>2. p.id \in HostedId /\ p = RowFor(p.id) /\ hosted[p.id].st # "none"
      BY NewerRows DEF Page
    <3>3. n.upd = hosted[p.id].upd
      BY <3>1, <3>2 DEF Position, RowFor
    <3>4. hosted[p.id].upd \in Nat /\ hosted[p.id].done \in Nat
      BY <1>0, <3>2 DEF Session
    <3> QED BY <1>0, <3>2, <3>3, <3>4 DEF PullInv, ClockInv
  <2> QED BY <2>1, <2>2
<1>4. ClockInv'
  BY <1>2, <1>3 DEF PullInv, ClockInv
<1>5. NothingSkipped'
  BY <1>2 DEF PullInv, NothingSkipped, Overtaken
<1>6. PageOK(d)'
  <2>1. \A h \in HostedId : UpTo(h, n) => UpTo(h, c) \/ \E p \in Page(c) : p.id = h
    BY <1>0, PageIsNews
  <2>2. \A p \in Page(c) : p.st = hosted[p.id].st
    <3> SUFFICES ASSUME NEW p \in Page(c) PROVE p.st = hosted[p.id].st
      OBVIOUS
    <3>1. p = RowFor(p.id)
      BY NewerRows DEF Page
    <3> QED BY <3>1 DEF RowFor
  <2> QED BY <1>2, <2>1, <2>2 DEF PageOK, UpTo, Spot, Overtaken, c
<1>7. \A e \in Device \ {d} : PageOK(e)'
  BY <1>2 DEF PullInv, PageOK, UpTo, Spot, Overtaken
<1>8. \A e \in Device : CopyOK(e)'
  BY <1>2 DEF PullInv, CopyOK
<1> QED BY <1>4, <1>5, <1>6, <1>7, <1>8 DEF PullInv

\* Where the row of a hosted session stands once a page is applied.
LEMMA AppliedCopies ==
    ASSUME IInv, NEW d \in Device, NEW rows \in SUBSET Pulled, CopyOK(d), NEW r \in RowKey
    PROVE  /\ sessions[d][r].srv # None =>
                 /\ Applied(d, rows)[r].srv = sessions[d][r].srv
                 /\ \/ Applied(d, rows)[r].st = sessions[d][r].st
                       /\ \A p \in rows : p.id # sessions[d][r].srv
                    \/ \E p \in rows : p.id = sessions[d][r].srv
                                       /\ Applied(d, rows)[r].st = p.st
           /\ \A q \in rows : ~Copied(d, q) /\ r = PulledKey(q.id) =>
                 \E p \in rows : p.id = q.id /\ Applied(d, rows)[r].srv = p.id
                                 /\ Applied(d, rows)[r].st = p.st
           /\ (\A h \in HostedId : r # PulledKey(h)) \/ Applied(d, rows)[r].st = "none"
                 \/ Applied(d, rows)[r].srv # None
<1>0. sessions[d][r] \in Row /\ \A p \in rows : p.id \in HostedId
  BY DEF IInv, TypeInv, TypeOK, Pulled
<1>1. CASE \E p \in rows : sessions[d][r].srv = p.id
  <2> DEFINE p == CHOOSE q \in rows : sessions[d][r].srv = q.id
  <2>1. p \in rows /\ sessions[d][r].srv = p.id
    BY <1>1
  <2>2. Applied(d, rows)[r] =
          [sessions[d][r] EXCEPT !.st = p.st, !.sync = "synced",
             !.br = IF p.br = NoBranch THEN @ ELSE p.br]
    BY <1>1 DEF Applied
  <2> HIDE DEF p
  <2>3. Applied(d, rows)[r].srv = p.id /\ Applied(d, rows)[r].st = p.st
    BY <1>0, <2>1, <2>2 DEF Row
  <2>4. \A q \in rows : r = PulledKey(q.id) => p.id = q.id
    BY <1>0, <2>1, KeyFacts DEF IInv, DeviceInv, RowInv
  <2> QED BY <1>0, <2>1, <2>3, <2>4, KeyFacts
<1>2. CASE ~ (\E p \in rows : sessions[d][r].srv = p.id) /\ Displaced(d, rows, r)
  <2>1. Applied(d, rows)[r] = [sessions[d][r] EXCEPT !.sync = "conflict"]
    BY <1>2 DEF Applied
  <2>2. Applied(d, rows)[r].srv = sessions[d][r].srv /\ Applied(d, rows)[r].st = sessions[d][r].st
    BY <1>0, <2>1 DEF Row
  <2>3. \A h \in HostedId : r = PulledKey(h) => sessions[d][r].srv = h
    BY <1>2 DEF Displaced, CopyOK, IInv, DeviceInv, RowInv
  <2> QED BY <1>0, <1>2, <2>2, <2>3, KeyFacts
<1>3. CASE /\ ~ (\E p \in rows : sessions[d][r].srv = p.id) /\ ~Displaced(d, rows, r)
           /\ \E p \in rows : ~Copied(d, p) /\ r = PulledKey(p.id)
  <2> DEFINE p == CHOOSE q \in rows : r = PulledKey(q.id)
  <2>1. p \in rows /\ r = PulledKey(p.id)
    BY <1>3
  <2>2. Applied(d, rows)[r] = [st |-> p.st, sync |-> "synced", srv |-> p.id, br |-> p.br]
    BY <1>3 DEF Applied
  <2> HIDE DEF p
  <2>3. sessions[d][r].srv = None
    BY <1>0, <1>3, <2>1 DEF IInv, DeviceInv, RowInv
  <2>4. \A q \in rows : r = PulledKey(q.id) => p.id = q.id
    BY <1>0, <2>1, KeyFacts
  <2> QED BY <1>0, <2>1, <2>2, <2>3, <2>4, KeyFacts
<1>4. CASE /\ ~ (\E p \in rows : sessions[d][r].srv = p.id) /\ ~Displaced(d, rows, r)
           /\ ~ \E p \in rows : ~Copied(d, p) /\ r = PulledKey(p.id)
  <2>1. Applied(d, rows)[r] = sessions[d][r]
    BY <1>4 DEF Applied
  <2> QED BY <1>4, <2>1 DEF CopyOK
<1> QED BY <1>1, <1>2, <1>3, <1>4

LEMMA PullApply ==
    ASSUME IInv, CursorInv, PullInv, NEW d \in Device, Apply(d)
    PROVE  PullInv'
<1> DEFINE rows == worker[d].pulled
           n == worker[d].next
<1>0. /\ rows \in SUBSET Pulled /\ sessions \in [Device -> [RowKey -> Row]]
      /\ cursor \in [Device -> Cursor] /\ worker \in [Device -> Worker]
      /\ CopyOK(d) /\ PageOK(d) /\ n.upd < clock /\ worker[d].pc = "apply"
  BY DEF Apply, IInv, TypeInv, TypeOK, Worker, PullInv, ClockInv
<1>1. /\ sessions'[d] = Applied(d, rows) /\ cursor'[d] = n /\ worker'[d].pc = "idle"
      /\ \A e \in Device \ {d} : /\ sessions'[e] = sessions[e] /\ cursor'[e] = cursor[e]
                                 /\ worker'[e] = worker[e]
      /\ UNCHANGED <<hosted, clock>>
  BY <1>0 DEF Apply, Idle
<1> DEFINE A == Applied(d, rows)
<1>7. \A r \in RowKey :
        /\ sessions[d][r].srv # None =>
              /\ A[r].srv = sessions[d][r].srv
              /\ \/ A[r].st = sessions[d][r].st /\ \A p \in rows : p.id # sessions[d][r].srv
                 \/ \E p \in rows : p.id = sessions[d][r].srv /\ A[r].st = p.st
        /\ \A q \in rows : ~Copied(d, q) /\ r = PulledKey(q.id) =>
              \E p \in rows : p.id = q.id /\ A[r].srv = p.id /\ A[r].st = p.st
        /\ (\A h \in HostedId : r # PulledKey(h)) \/ A[r].st = "none" \/ A[r].srv # None
  BY <1>0, AppliedCopies
<1> HIDE DEF rows, n, A
<1>2. ClockInv'
  BY <1>0, <1>1 DEF PullInv, ClockInv
<1>3. \A e \in Device : PageOK(e)'
  BY <1>1 DEF PullInv, PageOK, UpTo, Spot, Overtaken
<1>4. \A e \in Device : CopyOK(e)'
  <2>1. CopyOK(d)'
    BY <1>1, <1>7, KeyFacts DEF CopyOK, A
  <2> QED BY <1>1, <2>1 DEF PullInv, CopyOK
<1>5. ASSUME NEW h \in HostedId, UpTo(h, n), ~Overtaken(h)
      PROVE  \E r \in RowKey : /\ A[r].srv = h
                               /\ hosted[h].st = "closed" => A[r].st = "closed"
  <2>0. \A p \in rows : p.id = h => p.st = hosted[h].st
    BY <1>0, <1>5 DEF PageOK, UpTo, rows, n
  <2>1. CASE \E r \in RowKey : /\ sessions[d][r].srv = h
                               /\ \/ \E p \in rows : p.id = h
                                  \/ hosted[h].st = "closed" => sessions[d][r].st = "closed"
    <3>1. PICK r \in RowKey : /\ sessions[d][r].srv = h
                              /\ \/ \E p \in rows : p.id = h
                                 \/ hosted[h].st = "closed" => sessions[d][r].st = "closed"
      BY <2>1
    <3>2. A[r].srv = h
      BY <3>1, <1>7, KeyFacts
    <3>3. hosted[h].st = "closed" => A[r].st = "closed"
      BY <2>0, <3>1, <1>7, KeyFacts
    <3> QED BY <3>2, <3>3
  <2>2. CASE (\E p \in rows : p.id = h) /\ ~ \E r \in RowKey : sessions[d][r].srv = h
    <3>1. PICK q \in rows : q.id = h
      BY <2>2
    <3>2. ~Copied(d, q)
      BY <2>2, <3>1 DEF Copied
    <3>3. PICK p \in rows : /\ p.id = h /\ A[PulledKey(h)].srv = h
                            /\ A[PulledKey(h)].st = p.st
      BY <3>1, <3>2, <1>7, KeyFacts
    <3> QED BY <2>0, <3>3, KeyFacts
  <2>3. UpTo(h, cursor[d]) \/ \E p \in rows : p.id = h
    BY <1>0, <1>5 DEF PageOK, rows, n
  <2>4. UpTo(h, cursor[d]) => \E r \in RowKey :
           sessions[d][r].srv = h /\ (hosted[h].st = "closed" => sessions[d][r].st = "closed")
    BY <1>5 DEF PullInv, NothingSkipped, UpTo, Spot, Overtaken
  <2> QED BY <2>1, <2>2, <2>3, <2>4
<1>6. NothingSkipped'
  <2> SUFFICES ASSUME NEW e \in Device, NEW h \in HostedId, UpTo(h, cursor[e])', ~Overtaken(h)'
               PROVE  \E r \in RowKey : /\ sessions'[e][r].srv = h
                                        /\ hosted'[h].st = "closed" => sessions'[e][r].st = "closed"
    BY DEF NothingSkipped, UpTo, Spot, Overtaken
  <2>1. CASE e = d
    <3>1. UpTo(h, n) /\ ~Overtaken(h)
      BY <1>1, <2>1 DEF UpTo, Spot, Overtaken
    <3> QED BY <1>1, <1>5, <2>1, <3>1 DEF A
  <2>2. CASE e # d
    <3>1. UpTo(h, cursor[e]) /\ ~Overtaken(h)
      BY <1>1, <2>2 DEF UpTo, Spot, Overtaken
    <3> QED BY <1>1, <2>2, <3>1 DEF PullInv, NothingSkipped, UpTo, Spot, Overtaken
  <2> QED BY <2>1, <2>2
<1> QED BY <1>2, <1>3, <1>4, <1>6 DEF PullInv

LEMMA PullStep ==
    IInv /\ CursorInv /\ PullInv /\ TypeInv' /\ [Next]_vars => PullInv'
<1> SUFFICES ASSUME IInv, CursorInv, PullInv, TypeInv', [Next]_vars PROVE PullInv'
  OBVIOUS
<1>0. TypeInv /\ TypeOK /\ worker \in [Device -> Worker]
  BY DEF IInv, TypeInv, TypeOK
<1>1. ASSUME NEW d \in Device, User(d) PROVE PullInv'
  <2>1. ASSUME NEW m \in MutId, Retry(d, m) PROVE PullInv'
    BY <2>1, PullQuiet DEF Retry
  <2> QED BY <1>1, <2>1, PullOpen, PullClose DEF User
<1>2. ASSUME NEW d \in Device, ServePush(d) \/ InsertPush(d) PROVE PullInv'
  <2>1. /\ <<d, worker[d].at>> \in Mutation /\ worker[d].sent \in Nat
        /\ worker[d].srv[worker[d].at] \in HostedId \cup {None}
    BY <1>0, <1>2 DEF ServePush, InsertPush, TypeInv, Sending, Worker, Mutation
  <2>2. Stamped
    BY <1>0, <1>2, <2>1, ServedIs, HostedPushStamps
  <2>3. \A e \in Device : worker'[e].pc = "apply" => worker'[e] = worker[e]
    BY <1>0, <1>2 DEF ServePush, InsertPush, Worker
  <2> QED BY <1>0, <1>2, <2>2, <2>3, PullHosted DEF ServePush, InsertPush
<1>3. ASSUME NEW d \in Device,
             Load(d) \/ SendPush(d) \/ LookPush(d) \/ FailedPush(d) \/ FailedAck(d)
               \/ SkipApply(d) \/ GiveUp(d)
      PROVE  PullInv'
  <2>1. UNCHANGED <<sessions, hosted, clock, cursor>>
    BY <1>3 DEF Load, SendPush, LookPush, FailedPush, FailedAck, SkipApply, GiveUp
  <2>2. worker'[d].pc # "apply" /\ \A e \in Device \ {d} : worker'[e] = worker[e]
    <3>1. CASE SendPush(d) \/ LookPush(d)
      BY <1>0, <3>1 DEF SendPush, LookPush, Worker
    <3>2. CASE Load(d)
      BY <1>0, <3>2 DEF Load, Idle
    <3>3. CASE FailedPush(d) \/ FailedAck(d) \/ SkipApply(d) \/ GiveUp(d)
      <4>1. worker' = [worker EXCEPT ![d] = Idle]
        BY <3>3 DEF FailedPush, FailedAck, SkipApply, GiveUp
      <4> QED BY <1>0, <4>1 DEF Idle
    <3> QED BY <1>3, <3>1, <3>2, <3>3
  <2> QED BY <2>1, <2>2, PullQuiet
<1>4. ASSUME NEW d \in Device, Reconcile(d) PROVE PullInv'
  BY <1>0, <1>2, <1>3, <1>4, PullAck, PullQuarantine, PullPull, PullApply DEF Reconcile
<1>5. ASSUME NEW q \in strays, ServeStray(q) PROVE PullInv'
  <2>1. q.mut \in Mutation /\ q.srv \in HostedId \cup {None} /\ q.sent \in Nat
    BY <1>0 DEF TypeOK, Request
  <2>2. CASE Executes(q.mut, q.srv, q.sent)
    <3>1. Stamped
      BY <1>0, <2>1, <2>2, HostedPushStamps
    <3> QED BY <1>0, <1>5, <3>1, PullHosted DEF ServeStray
  <2>3. CASE UNCHANGED hostedVars
    BY <1>5, <2>3, PullQuiet DEF ServeStray, hostedVars
  <2> QED BY <1>5, <2>2, <2>3 DEF ServeStray, Executes
<1>8. ASSUME NEW q \in strays, LookStray(q) PROVE PullInv'
  BY <1>8, PullQuiet DEF LookStray
<1>6. CASE Web
  <2>1. UNCHANGED <<sessions, cursor, worker>>
    BY <1>6 DEF Web, WebOpen, WebClose
  <2> QED BY <1>0, <1>6, <2>1, WebStamps, PullHosted
<1>7. CASE UNCHANGED vars
  BY <1>7, PullQuiet DEF vars
<1> QED BY <1>1, <1>3, <1>4, <1>5, <1>6, <1>7, <1>8 DEF Next

LEMMA InitPull == Init => PullInv
<1> SUFFICES ASSUME Init PROVE PullInv
  OBVIOUS
<1> USE DEF Init
<1>1. /\ \A h \in HostedId : hosted[h].st = "none"
      /\ \A d \in Device : worker[d].pc = "idle" /\ cursor[d].upd = 0
      /\ clock = 1
  BY DEF Idle, NoCursor
<1>2. \A d \in Device : CopyOK(d)
  BY KeyFacts DEF CopyOK, Absent
<1> QED BY <1>1, <1>2 DEF PullInv, ClockInv, NothingSkipped, PageOK

\* Whatever the delay between a transaction's stamp and its commit, the page
\* size, the number of devices and the answers lost, a pull cursor passes a
\* session the device has not copied, or a close it has not seen, only if a
\* later commit overtook that very change.
THEOREM CursorsPassNothing == Spec => []NothingSkipped
<1>1. Init => PullInv /\ CursorInv
  BY InitPull DEF Init, CursorInv, CursorOK, Idle
<1>2. TypeInv /\ CursorInv /\ [Next]_vars => CursorInv'
  BY CursorStep
<1>3. IInv => TypeInv
  BY DEF IInv
<1>4. PullInv => NothingSkipped
  BY DEF PullInv
<1>5. IInv /\ CursorInv /\ PullInv /\ TypeInv' /\ [Next]_vars => PullInv'
  BY PullStep
<1> QED BY <1>1, <1>2, <1>3, <1>4, <1>5, Invariance, PTL DEF Spec

-----------------------------------------------------------------------------
(* Where nobody calls retry, no close is an orphan.  A close without a     *)
(* server id waits for the open of its row, which is queued before it; the *)
(* batch holds both or the open is settled, and sends the open first.      *)

OpenQueued(d, r) ==
    r \in MutId /\ outbox[d][r].op = "open" /\ outbox[d][r].st = "pending"

QueueOK(d) ==
    /\ \A m, n \in MutId : n < m /\ outbox[d][m].op # "none" => outbox[d][n].op # "none"
    /\ \A m \in Pending(d) : outbox[d][m].op = "close" /\ outbox[d][m].srv = None =>
          OpenQueued(d, outbox[d][m].row) /\ outbox[d][m].row < m
    /\ \A r \in RowKey :
          IsOpenHere(sessions[d][r]) /\ sessions[d][r].srv = None => OpenQueued(d, r)

\* A close of the batch that the server would refuse.
Awaits(d, m) == outbox[d][m].op = "close" /\ worker[d].srv[m] = None

BatchOK(d) ==
    /\ worker[d].todo \subseteq worker[d].batch
    /\ \A m \in Unsent(d) : Awaits(d, m) =>
          outbox[d][m].row \in worker[d].todo /\ outbox[d][outbox[d][m].row].op = "open"
    /\ worker[d].pc = "await" => ~Awaits(d, worker[d].at)
    /\ worker[d].pc = "reply" => worker[d].reply.kind # "none"

OrphanInv == \A d \in Device : QueueOK(d) /\ BatchOK(d)

LEMMA QueueElse ==
    ASSUME NEW d \in Device, QueueOK(d), outbox'[d] = outbox[d], sessions'[d] = sessions[d]
    PROVE  QueueOK(d)'
  BY DEF QueueOK, OpenQueued, Pending, IsOpenHere

LEMMA BatchElse ==
    ASSUME IInv, NEW d \in Device, BatchOK(d), worker'[d] = worker[d],
           \A m \in MutId : outbox[d][m].op # "none" =>
              outbox'[d][m].op = outbox[d][m].op /\ outbox'[d][m].row = outbox[d][m].row
    PROVE  BatchOK(d)'
<1>1. WorkerOK(d, worker[d]) /\ worker[d] \in Worker /\ Sending(worker[d])
  BY DEF IInv, DeviceInv, WorkerInv, TypeInv, TypeOK
<1>2. \A m \in worker[d].todo : m \in MutId /\ outbox[d][m].op # "none"
  BY <1>1 DEF WorkerOK, Used, Payload, Worker
<1>3. Unsent(d)' = Unsent(d)
  BY <1>2 DEF Unsent
<1>4. worker[d].pc = "await" => worker[d].at \in MutId /\ outbox[d][worker[d].at].op # "none"
  BY <1>1 DEF WorkerOK, Used, Payload, Sending
<1>5. worker[d].pc = "await" => ~Awaits(d, worker[d].at)'
  BY <1>4 DEF BatchOK, Awaits
<1>6. ASSUME NEW m \in Unsent(d), Awaits(d, m)'
      PROVE  outbox'[d][m].row \in worker[d].todo /\ outbox'[d][outbox'[d][m].row].op = "open"
  <2>1. m \in worker[d].todo /\ Awaits(d, m)
    BY <1>2, <1>6 DEF Unsent, Awaits
  <2>2. outbox[d][m].row \in worker[d].todo /\ outbox[d][outbox[d][m].row].op = "open"
    BY <1>6, <2>1 DEF BatchOK
  <2> QED BY <1>2, <2>1, <2>2
<1> QED BY <1>3, <1>5, <1>6 DEF BatchOK

LEMMA BatchIdle == ASSUME NEW d \in Device, worker'[d].todo = {}, worker'[d].pc \in {"idle", "apply"}
                   PROVE  BatchOK(d)'
  BY DEF BatchOK, Unsent

LEMMA OrphanOpen ==
    ASSUME IInv, OrphanInv, NEW d \in Device, NEW b \in Branch, LocalOpen(d, b)
    PROVE  OrphanInv'
<1>1. PICK m \in MutId :
        /\ NextMut(d, m)
        /\ sessions' = [sessions EXCEPT ![d][m] =
                          [st |-> "open", sync |-> "pending", srv |-> None, br |-> b]]
        /\ outbox' = [outbox EXCEPT ![d][m] =
                        [op |-> "open", row |-> m, srv |-> None, br |-> b, st |-> "pending"]]
  BY DEF LocalOpen
<1>2. /\ m \in RowKey /\ sessions \in [Device -> [RowKey -> Row]]
      /\ outbox \in [Device -> [MutId -> Queued]]
  BY KeyFacts DEF IInv, TypeInv, TypeOK
<1>3. /\ \A n \in MutId \ {m} : outbox'[d][n] = outbox[d][n]
      /\ \A r \in RowKey \ {m} : sessions'[d][r] = sessions[d][r]
      /\ outbox'[d][m].op = "open" /\ outbox'[d][m].st = "pending"
      /\ \A e \in Device \ {d} : outbox'[e] = outbox[e] /\ sessions'[e] = sessions[e]
      /\ worker' = worker
  BY <1>1, <1>2 DEF LocalOpen
<1>4. outbox[d][m].op = "none" /\ \A n \in MutId : n < m => outbox[d][n].op # "none"
  BY <1>1 DEF NextMut
<1>5. QueueOK(d)'
  <2>1. QueueOK(d) /\ \A n \in MutId : n \in Int
    BY DEF OrphanInv, MutId
  <2>2. \A r \in RowKey : OpenQueued(d, r) => OpenQueued(d, r)'
    BY <1>3, <1>4 DEF OpenQueued
  <2>3. \A k, n \in MutId : n < k /\ outbox'[d][k].op # "none" => outbox'[d][n].op # "none"
    BY <1>3, <1>4, <2>1 DEF QueueOK
  <2>4. ASSUME NEW k \in Pending(d)', outbox'[d][k].op = "close" /\ outbox'[d][k].srv = None
        PROVE  OpenQueued(d, outbox[d][k].row)' /\ outbox'[d][k].row < k
    <3>1. k \in MutId /\ k # m
      BY <1>3, <2>4 DEF Pending
    <3>2. k \in Pending(d) /\ outbox'[d][k] = outbox[d][k]
      BY <1>3, <2>4, <3>1 DEF Pending
    <3>3. OpenQueued(d, outbox[d][k].row) /\ outbox[d][k].row < k
      BY <2>1, <2>4, <3>2 DEF QueueOK
    <3> QED BY <1>3, <1>4, <3>2, <3>3 DEF OpenQueued
  <2>5. ASSUME NEW r \in RowKey, IsOpenHere(sessions'[d][r]), sessions'[d][r].srv = None
        PROVE  OpenQueued(d, r)'
    BY <1>3, <2>1, <2>2, <2>5 DEF QueueOK, OpenQueued
  <2> QED BY <2>3, <2>4, <2>5 DEF QueueOK
<1>6. BatchOK(d)'
  BY <1>3, <1>4, BatchElse DEF OrphanInv
<1> QED BY <1>3, <1>5, <1>6, QueueElse, BatchElse DEF OrphanInv

LEMMA OrphanClose ==
    ASSUME IInv, OrphanInv, NEW d \in Device, NEW b \in Branch, NEW q \in RowKey,
           LocalClose(d, b, q)
    PROVE  OrphanInv'
<1>1. PICK m \in MutId :
        /\ NextMut(d, m)
        /\ sessions' = [sessions EXCEPT ![d][q] =
                          [sessions[d][q] EXCEPT !.st = "closed", !.sync = "pending"]]
        /\ outbox' = [outbox EXCEPT ![d][m] =
                        [op |-> "close", row |-> q, srv |-> sessions[d][q].srv,
                         br |-> b, st |-> "pending"]]
  BY DEF LocalClose, IInv, TypeInv, TypeOK
<1>2. /\ sessions[d][q] \in Row /\ sessions \in [Device -> [RowKey -> Row]]
      /\ outbox \in [Device -> [MutId -> Queued]]
  BY DEF IInv, TypeInv, TypeOK
<1>3. /\ \A n \in MutId \ {m} : outbox'[d][n] = outbox[d][n]
      /\ \A r \in RowKey \ {q} : sessions'[d][r] = sessions[d][r]
      /\ outbox'[d][m] = [op |-> "close", row |-> q, srv |-> sessions[d][q].srv,
                          br |-> b, st |-> "pending"]
      /\ \A e \in Device \ {d} : outbox'[e] = outbox[e] /\ sessions'[e] = sessions[e]
      /\ worker' = worker
  BY <1>1, <1>2 DEF LocalClose
<1>4. outbox[d][m].op = "none" /\ \A n \in MutId : n < m => outbox[d][n].op # "none"
  BY <1>1 DEF NextMut
<1>5. sessions'[d][q].st = "closed"
  BY <1>1, <1>2 DEF Row
<1>6. QueueOK(d)'
  <2>1. QueueOK(d) /\ \A n \in MutId : n \in Int
    BY DEF OrphanInv, MutId
  <2>2. \A r \in RowKey : OpenQueued(d, r) => OpenQueued(d, r)'
    BY <1>3, <1>4 DEF OpenQueued
  <2>3. \A k, n \in MutId : n < k /\ outbox'[d][k].op # "none" => outbox'[d][n].op # "none"
    BY <1>3, <1>4, <2>1 DEF QueueOK
  <2>4. ASSUME NEW k \in Pending(d)', k # m, outbox'[d][k].op = "close" /\ outbox'[d][k].srv = None
        PROVE  OpenQueued(d, outbox[d][k].row)' /\ outbox'[d][k].row < k
    <3>2. k \in Pending(d) /\ outbox'[d][k] = outbox[d][k]
      BY <1>3, <2>4 DEF Pending
    <3>3. OpenQueued(d, outbox[d][k].row) /\ outbox[d][k].row < k
      BY <2>1, <2>4, <3>2 DEF QueueOK
    <3> QED BY <1>3, <1>4, <3>2, <3>3 DEF OpenQueued
  <2>5. ASSUME sessions[d][q].srv = None
        PROVE  OpenQueued(d, q)' /\ q < m
    <3>1. OpenQueued(d, q)
      BY <2>1, <2>5 DEF LocalClose, QueueOK
    <3>2. q \in MutId /\ q # m /\ ~(m < q)
      BY <1>4, <2>1, <3>1 DEF OpenQueued, QueueOK
    <3> QED BY <1>3, <2>1, <3>1, <3>2 DEF OpenQueued
  <2>6. ASSUME NEW r \in RowKey, IsOpenHere(sessions'[d][r]), sessions'[d][r].srv = None
        PROVE  OpenQueued(d, r)'
    <3>1. r # q
      BY <1>5, <2>6 DEF IsOpenHere
    <3> QED BY <1>3, <2>1, <2>2, <2>6, <3>1 DEF QueueOK
  <2>7. outbox'[d][m].row = q /\ outbox'[d][m].srv = sessions[d][q].srv
    BY <1>3
  <2>8. ASSUME NEW k \in Pending(d)', outbox'[d][k].op = "close" /\ outbox'[d][k].srv = None
        PROVE  OpenQueued(d, outbox[d][k].row)' /\ outbox'[d][k].row < k
    BY <2>4, <2>5, <2>7, <2>8 DEF OpenQueued
  <2> QED BY <2>3, <2>6, <2>8 DEF QueueOK
<1>7. BatchOK(d)'
  BY <1>3, <1>4, BatchElse DEF OrphanInv
<1> QED BY <1>3, <1>6, <1>7, QueueElse, BatchElse DEF OrphanInv

\* What is queued before a loaded mutation is loaded as well.
LEMMA FirstPendingBefore ==
    ASSUME NEW d, NEW m \in FirstPending(d), NEW r \in Pending(d), r < m
    PROVE  r \in FirstPending(d)
<1> DEFINE R == {n \in Pending(d) : n < r}
           M == {n \in Pending(d) : n < m}
<1>1. Pending(d) \subseteq MutId /\ m \in MutId /\ r \in MutId
  BY DEF Pending, FirstPending
<1>2. IsFiniteSet(M)
  <2>1. IsFiniteSet(MutId)
    BY FS_Interval, BoundAssumption DEF MutId
  <2>2. M \subseteq MutId
    BY <1>1
  <2> QED BY <2>1, <2>2, FS_Subset
<1>3. R \subseteq M
  <2> SUFFICES ASSUME NEW n \in Pending(d), n < r PROVE n < m
    OBVIOUS
  <2>1. n \in Int /\ r \in Int /\ m \in Int
    BY <1>1 DEF MutId
  <2> QED BY <2>1
<1>4. IsFiniteSet(R) /\ Cardinality(R) <= Cardinality(M)
  BY <1>2, <1>3, FS_Subset
<1>5. Cardinality(M) < OutboxLimit
  BY DEF FirstPending
<1>6. Cardinality(R) \in Nat /\ Cardinality(M) \in Nat /\ OutboxLimit \in Nat
  BY <1>2, <1>4, FS_CardinalityType, BoundAssumption
<1>7. Cardinality(R) < OutboxLimit
  BY <1>4, <1>5, <1>6
<1> QED BY <1>7 DEF FirstPending

LEMMA OrphanLoad ==
    ASSUME IInv, OrphanInv, NEW d \in Device, Load(d)
    PROVE  OrphanInv'
<1>1. /\ worker'[d].pc = "push" /\ worker'[d].todo = FirstPending(d)
      /\ worker'[d].batch = FirstPending(d)
      /\ worker'[d].srv = [m \in MutId |-> IF m \in FirstPending(d) THEN outbox[d][m].srv ELSE None]
      /\ \A e \in Device \ {d} : worker'[e] = worker[e]
      /\ UNCHANGED <<sessions, outbox>>
  BY DEF Load, IInv, TypeInv, TypeOK, Idle
<1>2. BatchOK(d)'
  <2>1. ASSUME NEW m \in FirstPending(d), outbox[d][m].op = "close", outbox[d][m].srv = None
        PROVE  outbox[d][m].row \in FirstPending(d) /\ outbox[d][outbox[d][m].row].op = "open"
    <3>1. m \in Pending(d) /\ QueueOK(d)
      BY DEF FirstPending, OrphanInv
    <3>2. OpenQueued(d, outbox[d][m].row) /\ outbox[d][m].row < m
      BY <2>1, <3>1 DEF QueueOK
    <3>3. outbox[d][m].row \in Pending(d)
      BY <3>2 DEF OpenQueued, Pending
    <3> QED BY <3>2, <3>3, FirstPendingBefore DEF OpenQueued
  <2>2. \A m \in FirstPending(d) : m \in MutId
    BY DEF FirstPending, Pending
  <2> QED BY <1>1, <2>1, <2>2 DEF BatchOK, Unsent, Awaits
<1> QED BY <1>1, <1>2, QueueElse, BatchElse DEF OrphanInv

\* In a session the open goes first, so the close that is sent has its id.
LEMMA OrphanSend ==
    ASSUME IInv, OrphanInv, NEW d \in Device, SendPush(d)
    PROVE  OrphanInv'
<1>0. worker[d] \in Worker /\ worker \in [Device -> Worker] /\ WorkerOK(d, worker[d]) /\ BatchOK(d)
      /\ outbox \in [Device -> [MutId -> Queued]]
  BY DEF IInv, TypeInv, TypeOK, DeviceInv, WorkerInv, OrphanInv
<1>1. PICK m \in Unsent(d) :
        /\ \A n \in Unsent(d) \ {m} : PushedBefore(d, m, n)
        /\ worker' = [worker EXCEPT ![d] = [@ EXCEPT !.pc = "await", !.at = m, !.sent = clock]]
  BY DEF SendPush
<1>2. /\ worker'[d].pc = "await" /\ worker'[d].at = m
      /\ worker'[d].todo = worker[d].todo /\ worker'[d].batch = worker[d].batch
      /\ worker'[d].srv = worker[d].srv /\ worker'[d].quarantined = worker[d].quarantined
      /\ \A e \in Device \ {d} : worker'[e] = worker[e]
      /\ UNCHANGED <<sessions, outbox>>
  BY <1>0, <1>1 DEF SendPush, Worker
<1>3. ASSUME Awaits(d, m) PROVE FALSE
  <2> DEFINE r == outbox[d][m].row
  <2>1. r \in worker[d].todo /\ outbox[d][r].op = "open" /\ m \in worker[d].todo
        /\ outbox[d][m].op = "close" /\ r \notin worker[d].quarantined
    BY <1>0, <1>1, <1>3 DEF BatchOK, Unsent, Awaits
  <2>2. r \in MutId /\ <<d, r>> \in Mutation
    BY <1>0, <2>1 DEF Worker, Mutation
  <2>3. outbox[d][r].row = r
    BY <2>1, <2>2 DEF IInv, DeviceInv, OutboxInv, Payload
  <2>4. r \in Unsent(d) \ {m}
    BY <2>1, <2>3 DEF Unsent
  <2>5. PushedBefore(d, m, r)
    BY <1>1, <2>4
  <2>6. Group(d, m) = Group(d, r)
    BY <2>3 DEF Group
  <2>7. \A x \in Group(d, m) : x \in Int
    BY <1>0 DEF Group, Worker, MutId
  <2> QED BY <2>1, <2>5, <2>6, <2>7 DEF PushedBefore
<1>4. BatchOK(d)'
  BY <1>0, <1>2, <1>3 DEF BatchOK, Unsent, Awaits
<1> QED BY <1>2, <1>4, QueueElse, BatchElse DEF OrphanInv

LEMMA OrphanServe ==
    ASSUME IInv, OrphanInv, NEW d \in Device, Served(d)
    PROVE  OrphanInv'
<1>0. worker[d] \in Worker /\ worker \in [Device -> Worker] /\ BatchOK(d)
      /\ worker[d].at \in MutId /\ <<d, worker[d].at>> \in Mutation
      /\ outcome \in [Mutation -> Outcome]
  BY DEF Served, IInv, TypeInv, TypeOK, OrphanInv, Sending, Mutation
<1>1. /\ worker'[d].pc = "reply" /\ worker'[d].reply = outcome'[<<d, worker[d].at>>]
      /\ worker'[d].todo = worker[d].todo /\ worker'[d].batch = worker[d].batch
      /\ worker'[d].srv = worker[d].srv /\ worker'[d].quarantined = worker[d].quarantined
      /\ \A e \in Device \ {d} : worker'[e] = worker[e]
      /\ UNCHANGED <<sessions, outbox>>
  BY <1>0 DEF Served, Worker
<1>2. outcome'[<<d, worker[d].at>>].kind # "none"
  <2> DEFINE m == <<d, worker[d].at>>
             srv == worker[d].srv[worker[d].at]
  <2>1. \/ PushOpen(m, worker[d].sent)
        \/ /\ HostedPush(m, srv, worker[d].sent)
           /\ ~(Payload(m).op = "close" /\ srv = None)
    BY <1>0 DEF Served, Sent, BatchOK, Awaits, Payload
  <2>9. m \in Mutation
    BY <1>0
  <2> HIDE DEF m, srv
  <2>2. CASE Replay(m)
    BY <2>2 DEF Replay, hostedVars, m
  <2>3. CASE PushOpen(m, worker[d].sent)
    BY <1>0, <2>9, <2>3 DEF PushOpen, m
  <2>4. CASE PushOpenConflict(m)
    BY <1>0, <2>9, <2>4 DEF PushOpenConflict, m
  <2>5. CASE PushClose(m, srv, worker[d].sent)
    BY <1>0, <2>9, <2>5 DEF PushClose, m
  <2>6. ~(Payload(m).op = "close" /\ srv = None) => ~PushOrphanClose(m, srv)
    BY DEF PushOrphanClose
  <2> QED BY <2>1, <2>2, <2>3, <2>4, <2>5, <2>6 DEF HostedPush
<1>3. BatchOK(d)'
  BY <1>0, <1>1, <1>2 DEF BatchOK, Unsent, Awaits
<1> QED BY <1>1, <1>3, QueueElse, BatchElse DEF OrphanInv

\* Past the look-ups nothing is asked of the batch any more.
LEMMA OrphanLook ==
    ASSUME IInv, OrphanInv, NEW d \in Device, LookPush(d)
    PROVE  OrphanInv'
<1>1. /\ worker'[d].pc = "insert" /\ worker'[d].todo = worker[d].todo
      /\ worker'[d].batch = worker[d].batch /\ worker'[d].srv = worker[d].srv
      /\ worker'[d].quarantined = worker[d].quarantined
      /\ \A e \in Device \ {d} : worker'[e] = worker[e]
      /\ UNCHANGED <<sessions, outbox>>
  BY DEF LookPush, IInv, TypeInv, TypeOK, Worker
<1>2. BatchOK(d)'
  BY <1>1 DEF OrphanInv, BatchOK, Unsent, Awaits
<1> QED BY <1>1, <1>2, QueueElse, BatchElse DEF OrphanInv

LEMMA OrphanAck ==
    ASSUME IInv, OrphanInv, NEW d \in Device, Ack(d)
    PROVE  OrphanInv'
<1> DEFINE m == worker[d].at
           r == outbox[d][m].row
           h == worker[d].reply.sid
<1>0. /\ worker[d] \in Worker /\ WorkerOK(d, worker[d])
      /\ m \in MutId /\ r \in RowKey /\ h \in HostedId
      /\ outbox[d][m].op = "open" => r = m
  <2>1. m \in MutId /\ <<d, m>> \in Mutation
    BY AckFacts DEF Mutation
  <2> QED BY <2>1, AckFacts DEF IInv, DeviceInv, OutboxInv, Payload
<1>1. /\ worker \in [Device -> Worker] /\ outbox \in [Device -> [MutId -> Queued]]
      /\ sessions \in [Device -> [RowKey -> Row]] /\ QueueOK(d) /\ BatchOK(d)
  BY DEF IInv, TypeInv, TypeOK, OrphanInv
<1> HIDE DEF m, r, h
<1>2. /\ sessions' = [sessions EXCEPT ![d][r] = [sessions[d][r] EXCEPT !.srv = h, !.sync = "synced"]]
      /\ outbox' = [outbox EXCEPT ![d] = [n \in MutId |->
                      IF n = m THEN [outbox[d][n] EXCEPT !.st = "synced"]
                      ELSE IF n \in LateCloses(d, r) /\ outbox[d][n].srv = None
                      THEN [outbox[d][n] EXCEPT !.srv = h]
                      ELSE outbox[d][n]]]
  BY <1>1 DEF Ack, m, r, h
<1>3. sessions'[d][r].srv = h /\ \A q \in RowKey \ {r} : sessions'[d][q] = sessions[d][q]
  <2>1. [sessions[d][r] EXCEPT !.srv = h, !.sync = "synced"].srv = h
    BY <1>0, <1>1 DEF Row
  <2> QED BY <1>0, <1>1, <1>2, <2>1
<1>4. ASSUME NEW n \in MutId
      PROVE  /\ outbox'[d][n].op = outbox[d][n].op /\ outbox'[d][n].row = outbox[d][n].row
             /\ n = m => outbox'[d][n].st = "synced"
             /\ n # m => outbox'[d][n].st = outbox[d][n].st
             /\ n # m /\ outbox'[d][n].srv = None =>
                   outbox[d][n].srv = None /\ n \notin LateCloses(d, r)
  <2>1. outbox[d][n] \in Queued
    BY <1>1
  <2>2. outbox'[d][n] = IF n = m THEN [outbox[d][n] EXCEPT !.st = "synced"]
                        ELSE IF n \in LateCloses(d, r) /\ outbox[d][n].srv = None
                        THEN [outbox[d][n] EXCEPT !.srv = h]
                        ELSE outbox[d][n]
    BY <1>1, <1>2
  <2>3. h # None
    BY <1>0, KeyFacts
  <2> QED BY <2>1, <2>2, <2>3 DEF Queued
<1>5. \A q \in MutId : OpenQueued(d, q) /\ q # r => OpenQueued(d, q)'
  BY <1>0, <1>4 DEF OpenQueued
<1>6. QueueOK(d)'
  <2>1. \A k, n \in MutId : n < k /\ outbox'[d][k].op # "none" => outbox'[d][n].op # "none"
    BY <1>1, <1>4 DEF QueueOK
  <2>2. ASSUME NEW k \in Pending(d)', outbox'[d][k].op = "close" /\ outbox'[d][k].srv = None
        PROVE  OpenQueued(d, outbox[d][k].row)' /\ outbox'[d][k].row < k
    <3>1. k \in MutId /\ k # m /\ k \in Pending(d)
      BY <1>4, <2>2 DEF Pending
    <3>2. outbox[d][k].op = "close" /\ outbox[d][k].srv = None /\ outbox[d][k].row # r
      BY <1>4, <2>2, <3>1 DEF LateCloses
    <3>3. OpenQueued(d, outbox[d][k].row) /\ outbox[d][k].row < k
      BY <1>1, <3>1, <3>2 DEF QueueOK
    <3>4. outbox'[d][k].row = outbox[d][k].row /\ outbox[d][k].row \in MutId
      BY <1>4, <3>1, <3>3 DEF OpenQueued
    <3> QED BY <1>5, <3>2, <3>3, <3>4 DEF OpenQueued
  <2>3. ASSUME NEW q \in RowKey, IsOpenHere(sessions'[d][q]), sessions'[d][q].srv = None
        PROVE  OpenQueued(d, q)'
    <3>1. q # r /\ sessions'[d][q] = sessions[d][q]
      BY <1>0, <1>3, <2>3, KeyFacts
    <3>2. OpenQueued(d, q)
      BY <1>1, <2>3, <3>1 DEF QueueOK
    <3> QED BY <1>5, <3>1, <3>2 DEF OpenQueued
  <2> QED BY <2>1, <2>2, <2>3 DEF QueueOK
<1>7. /\ worker'[d].pc = "push" /\ worker'[d].todo = worker[d].todo \ {m}
      /\ worker'[d].batch = worker[d].batch /\ worker'[d].quarantined = worker[d].quarantined
      /\ worker'[d].srv = [n \in MutId |->
            IF n \in Group(d, m) /\ outbox[d][n].op = "close" /\ worker[d].srv[n] = None
            THEN h ELSE worker[d].srv[n]]
      /\ \A e \in Device \ {d} : /\ worker'[e] = worker[e] /\ outbox'[e] = outbox[e]
                                 /\ sessions'[e] = sessions[e]
  BY <1>0, <1>1 DEF Ack, Worker, m, r, h
<1>8. BatchOK(d)'
  <2>1. ASSUME NEW k \in Unsent(d)', Awaits(d, k)'
        PROVE  outbox'[d][k].row \in worker'[d].todo /\ outbox'[d][outbox'[d][k].row].op = "open"
    <3>1. k \in MutId /\ k \in worker[d].todo /\ k \in worker[d].batch
      BY <1>0, <1>1, <1>7, <2>1 DEF Unsent, BatchOK, Worker
    <3>2. k \in Unsent(d) /\ outbox'[d][k].row = outbox[d][k].row
      BY <1>4, <1>7, <2>1, <3>1 DEF Unsent
    <3>3. outbox[d][k].op = "close" /\ worker[d].srv[k] = None /\ k \notin Group(d, m)
      BY <1>0, <1>4, <1>7, <2>1, <3>1, KeyFacts DEF Awaits
    <3>4. outbox[d][k].row # r
      BY <3>1, <3>3 DEF Group, r
    <3>5. outbox[d][k].row \in worker[d].todo /\ outbox[d][outbox[d][k].row].op = "open"
      BY <1>1, <3>2, <3>3 DEF BatchOK, Awaits
    <3>6. outbox[d][k].row \in MutId /\ outbox[d][k].row # m
      BY <1>0, <3>4, <3>5 DEF Worker
    <3> QED BY <1>4, <1>7, <3>2, <3>5, <3>6
  <2> QED BY <1>1, <1>7, <2>1 DEF BatchOK
<1> QED BY <1>6, <1>7, <1>8, QueueElse, BatchElse DEF OrphanInv

\* Only an open is set aside, and with it all closes queued of its session.
LEMMA OrphanConflict ==
    ASSUME IInv, OrphanInv, NEW d \in Device, Conflict(d)
    PROVE  OrphanInv'
<1> DEFINE m == worker[d].at
<1>0. /\ worker[d] \in Worker /\ worker \in [Device -> Worker] /\ WorkerOK(d, worker[d])
      /\ m \in MutId /\ <<d, m>> \in Mutation
      /\ outbox \in [Device -> [MutId -> Queued]] /\ sessions \in [Device -> [RowKey -> Row]]
      /\ QueueOK(d) /\ BatchOK(d)
  BY DEF Conflict, IInv, TypeInv, TypeOK, DeviceInv, WorkerInv, Mutation, Sending, OrphanInv
<1>1. outbox[d][m].op = "open" /\ outbox[d][m].row = m
  <2>1. outcome[<<d, m>>].kind = "conflict"
    BY <1>0 DEF Conflict, WorkerOK, ReplyOK
  <2>2. Payload(<<d, m>>).op = "open"
    BY <1>0, <2>1 DEF IInv, LedgerInv, OutcomeInv
  <2> QED BY <1>0, <2>2 DEF IInv, DeviceInv, OutboxInv, Payload
<1> HIDE DEF m
<1>2. /\ sessions' = [sessions EXCEPT ![d][m] = [sessions[d][m] EXCEPT !.sync = "conflict"]]
      /\ outbox' = [outbox EXCEPT ![d] = [n \in MutId |->
                      IF n \in {m} \cup LateCloses(d, m)
                      THEN [outbox[d][n] EXCEPT !.st = "conflict"] ELSE outbox[d][n]]]
  BY <1>0, <1>1, KeyFacts DEF Conflict, Quarantine, m
<1>3. /\ worker'[d].pc = "push" /\ worker'[d].todo = worker[d].todo \ {m}
      /\ worker'[d].batch = worker[d].batch /\ worker'[d].srv = worker[d].srv
      /\ worker'[d].quarantined = worker[d].quarantined \cup {m}
  BY <1>0, <1>1 DEF Conflict, Quarantine, Worker, m
<1>4. \A e \in Device \ {d} : /\ worker'[e] = worker[e] /\ outbox'[e] = outbox[e]
                              /\ sessions'[e] = sessions[e]
  BY <1>0 DEF Conflict, Quarantine
<1>5. sessions'[d][m].sync = "conflict" /\ \A q \in RowKey \ {m} : sessions'[d][q] = sessions[d][q]
  <2>1. m \in RowKey /\ sessions[d][m] \in Row
    BY <1>0, KeyFacts
  <2>2. [sessions[d][m] EXCEPT !.sync = "conflict"].sync = "conflict"
    BY <2>1 DEF Row
  <2> QED BY <1>0, <1>2, <2>1, <2>2
<1>6. ASSUME NEW n \in MutId
      PROVE  /\ outbox'[d][n].op = outbox[d][n].op /\ outbox'[d][n].row = outbox[d][n].row
             /\ outbox'[d][n].srv = outbox[d][n].srv
             /\ IF n \in {m} \cup LateCloses(d, m) THEN outbox'[d][n].st = "conflict"
                                                   ELSE outbox'[d][n] = outbox[d][n]
  <2>1. outbox[d][n] \in Queued
    BY <1>0
  <2>2. outbox'[d][n] = IF n \in {m} \cup LateCloses(d, m)
                        THEN [outbox[d][n] EXCEPT !.st = "conflict"] ELSE outbox[d][n]
    BY <1>0, <1>2
  <2> QED BY <2>1, <2>2 DEF Queued
<1>7. \A q \in MutId : OpenQueued(d, q) /\ q # m => OpenQueued(d, q)'
  <2> SUFFICES ASSUME NEW q \in MutId, OpenQueued(d, q), q # m PROVE OpenQueued(d, q)'
    OBVIOUS
  <2>1. q \notin LateCloses(d, m)
    BY DEF OpenQueued, LateCloses
  <2> QED BY <1>6, <2>1 DEF OpenQueued
<1>8. QueueOK(d)'
  <2>1. \A k, n \in MutId : n < k /\ outbox'[d][k].op # "none" => outbox'[d][n].op # "none"
    BY <1>0, <1>6 DEF QueueOK
  <2>2. ASSUME NEW k \in Pending(d)', outbox'[d][k].op = "close" /\ outbox'[d][k].srv = None
        PROVE  OpenQueued(d, outbox[d][k].row)' /\ outbox'[d][k].row < k
    <3>1. k \in MutId /\ outbox'[d][k] = outbox[d][k] /\ k \notin LateCloses(d, m)
      BY <1>6, <2>2 DEF Pending
    <3>2. k \in Pending(d)
      BY <2>2, <3>1 DEF Pending
    <3>3. OpenQueued(d, outbox[d][k].row) /\ outbox[d][k].row < k /\ outbox[d][k].row # m
      BY <1>0, <2>2, <3>1, <3>2 DEF QueueOK, LateCloses
    <3> QED BY <1>7, <3>1, <3>3 DEF OpenQueued
  <2>3. ASSUME NEW q \in RowKey, IsOpenHere(sessions'[d][q]), sessions'[d][q].srv = None
        PROVE  OpenQueued(d, q)'
    <3>1. q # m /\ sessions'[d][q] = sessions[d][q]
      BY <1>5, <2>3 DEF IsOpenHere
    <3>2. OpenQueued(d, q)
      BY <1>0, <2>3, <3>1 DEF QueueOK
    <3> QED BY <1>7, <3>1, <3>2 DEF OpenQueued
  <2> QED BY <2>1, <2>2, <2>3 DEF QueueOK
<1>9. BatchOK(d)'
  <2>1. ASSUME NEW k \in Unsent(d)', Awaits(d, k)'
        PROVE  outbox'[d][k].row \in worker'[d].todo /\ outbox'[d][outbox'[d][k].row].op = "open"
    <3>1. k \in MutId /\ k \in worker[d].todo
      BY <1>0, <1>3, <2>1 DEF Unsent, Worker
    <3>2. k \in Unsent(d) /\ Awaits(d, k) /\ outbox'[d][k].row = outbox[d][k].row
          /\ outbox[d][k].row # m
      BY <1>3, <1>6, <2>1, <3>1 DEF Unsent, Awaits
    <3>3. outbox[d][k].row \in worker[d].todo /\ outbox[d][outbox[d][k].row].op = "open"
      BY <1>0, <3>2 DEF BatchOK
    <3>4. outbox[d][k].row \in MutId
      BY <1>0, <3>3 DEF Worker
    <3> QED BY <1>3, <1>6, <3>2, <3>3, <3>4
  <2> QED BY <1>0, <1>3, <2>1 DEF BatchOK
<1> QED BY <1>4, <1>8, <1>9, QueueElse, BatchElse DEF OrphanInv

\* Applying a page opens no session that has no server id.
LEMMA OrphanApply ==
    ASSUME IInv, OrphanInv, NEW d \in Device, Apply(d)
    PROVE  OrphanInv'
<1> DEFINE rows == worker[d].pulled
<1>0. /\ rows \in SUBSET Pulled /\ sessions \in [Device -> [RowKey -> Row]]
      /\ worker \in [Device -> Worker] /\ QueueOK(d)
  BY DEF IInv, TypeInv, TypeOK, Worker, OrphanInv
<1>1. /\ sessions'[d] = Applied(d, rows) /\ worker'[d].pc = "idle" /\ worker'[d].todo = {}
      /\ \A e \in Device \ {d} : sessions'[e] = sessions[e] /\ worker'[e] = worker[e]
      /\ UNCHANGED outbox
  BY <1>0 DEF Apply, Idle
<1> HIDE DEF rows
<1>2. ASSUME NEW r \in RowKey, IsOpenHere(Applied(d, rows)[r]), Applied(d, rows)[r].srv = None
      PROVE  OpenQueued(d, r)
  <2>0. sessions[d][r] \in Row /\ \A p \in rows : p.id \in HostedId
    BY <1>0 DEF Pulled
  <2>1. sessions[d][r].srv = None
    BY <1>0, <1>2, AppliedIds, KeyFacts
  <2>2. ~ \E p \in rows : sessions[d][r].srv = p.id
    BY <2>0, <2>1, KeyFacts
  <2>3. CASE Displaced(d, rows, r)
    <3>1. Applied(d, rows)[r] = [sessions[d][r] EXCEPT !.sync = "conflict"]
      BY <2>2, <2>3 DEF Applied
    <3> QED BY <1>2, <2>0, <3>1 DEF IsOpenHere, Row
  <2>4. CASE ~Displaced(d, rows, r) /\ \E p \in rows : ~Copied(d, p) /\ r = PulledKey(p.id)
    <3> DEFINE p == CHOOSE q \in rows : r = PulledKey(q.id)
    <3>1. p \in rows
      BY <2>4
    <3>2. Applied(d, rows)[r] = [st |-> p.st, sync |-> "synced", srv |-> p.id, br |-> p.br]
      BY <2>2, <2>4 DEF Applied
    <3> HIDE DEF p
    <3> QED BY <1>2, <2>0, <3>1, <3>2, KeyFacts
  <2>5. CASE ~Displaced(d, rows, r) /\ ~ \E p \in rows : ~Copied(d, p) /\ r = PulledKey(p.id)
    <3>1. Applied(d, rows)[r] = sessions[d][r]
      BY <2>2, <2>5 DEF Applied
    <3> QED BY <1>0, <1>2, <2>1, <3>1 DEF QueueOK
  <2> QED BY <2>3, <2>4, <2>5
<1>3. QueueOK(d)'
  <2>1. \A m, n \in MutId : n < m /\ outbox'[d][m].op # "none" => outbox'[d][n].op # "none"
    BY <1>0, <1>1 DEF QueueOK
  <2>2. \A m \in Pending(d) : outbox[d][m].op = "close" /\ outbox[d][m].srv = None =>
          OpenQueued(d, outbox[d][m].row) /\ outbox[d][m].row < m
    BY <1>0 DEF QueueOK
  <2>3. \A r : OpenQueued(d, r)' <=> OpenQueued(d, r)
    BY <1>1 DEF OpenQueued
  <2>4. Pending(d)' = Pending(d)
    BY <1>1 DEF Pending
  <2>5. \A r \in RowKey :
          IsOpenHere(sessions'[d][r]) /\ sessions'[d][r].srv = None => OpenQueued(d, r)'
    BY <1>1, <1>2, <2>3
  <2>6. \A m \in Pending(d)' : outbox'[d][m].op = "close" /\ outbox'[d][m].srv = None =>
          OpenQueued(d, outbox[d][m].row)' /\ outbox'[d][m].row < m
    BY <1>1, <2>2, <2>3, <2>4 DEF OpenQueued
  <2> QED BY <2>1, <2>5, <2>6 DEF QueueOK
<1>4. BatchOK(d)'
  BY <1>1, BatchIdle
<1> QED BY <1>1, <1>3, <1>4, QueueElse, BatchElse DEF OrphanInv

LEMMA OrphanStep ==
    ASSUME ~RetryCalls
    PROVE  IInv /\ OrphanInv /\ [Next]_vars => OrphanInv'
<1> SUFFICES ASSUME IInv, OrphanInv, [Next]_vars PROVE OrphanInv'
  OBVIOUS
<1>0. worker \in [Device -> Worker]
  BY DEF IInv, TypeInv, TypeOK
<1>1. ASSUME NEW d \in Device, User(d) PROVE OrphanInv'
  <2>1. \A m \in MutId : ~Retry(d, m)
    BY DEF Retry
  <2> QED BY <1>1, <2>1, OrphanOpen, OrphanClose DEF User
<1>2. ASSUME UNCHANGED <<sessions, outbox, worker>> PROVE OrphanInv'
  BY <1>2, QueueElse, BatchElse DEF OrphanInv
<1>3. ASSUME NEW d \in Device, worker'[d].pc \in {"idle", "apply"}, worker'[d].todo = {},
             UNCHANGED <<sessions, outbox>>, \A e \in Device \ {d} : worker'[e] = worker[e]
      PROVE  OrphanInv'
  BY <1>3, QueueElse, BatchElse, BatchIdle DEF OrphanInv
<1>4. ASSUME NEW d \in Device, FailedPush(d) \/ FailedAck(d) \/ SkipApply(d) \/ GiveUp(d)
      PROVE  OrphanInv'
  <2>1. worker' = [worker EXCEPT ![d] = Idle] /\ UNCHANGED <<sessions, outbox>>
    BY <1>4 DEF FailedPush, FailedAck, SkipApply, GiveUp
  <2> QED BY <1>0, <1>3, <2>1 DEF Idle
<1>5. ASSUME NEW d \in Device, Pull(d) PROVE OrphanInv'
  BY <1>0, <1>3, <1>5 DEF Pull, Idle
<1>6. ASSUME NEW d \in Device, Defer(d) PROVE FALSE
  BY <1>6 DEF Defer, OrphanInv, BatchOK
<1>7. ASSUME NEW d \in Device, Reconcile(d) PROVE OrphanInv'
  BY <1>4, <1>5, <1>6, <1>7, ServedIs, OrphanLoad, OrphanSend, OrphanServe, OrphanLook,
     OrphanAck, OrphanConflict, OrphanApply DEF Reconcile
<1>8. ASSUME NEW q \in strays, ServeStray(q) \/ LookStray(q) PROVE OrphanInv'
  BY <1>2, <1>8 DEF ServeStray, LookStray
<1>9. CASE Web \/ UNCHANGED vars
  BY <1>2, <1>9 DEF Web, WebOpen, WebClose, vars
<1> QED BY <1>1, <1>4, <1>7, <1>8, <1>9 DEF Next

LEMMA InitOrphan == Init => OrphanInv
<1> SUFFICES ASSUME Init, NEW d \in Device PROVE QueueOK(d) /\ BatchOK(d)
  BY DEF OrphanInv
<1> USE DEF Init
<1>1. /\ \A m \in MutId : outbox[d][m].op = "none"
      /\ \A r \in RowKey : sessions[d][r].st = "none"
      /\ worker[d].pc = "idle" /\ worker[d].todo = {}
  BY DEF Unused, Absent, Idle
<1> QED BY <1>1 DEF QueueOK, BatchOK, Pending, IsOpenHere, Unsent

\* However opens and closes are queued between, during and after cycles, and
\* whatever is lost or abandoned, no close reaches the server before it has
\* the id of its session, unless a mutation is put back by hand.
THEOREM NoCloseIsOrphan ==
    ASSUME ~RetryCalls
    PROVE  Spec => []NoOrphanClose
<1>1. OrphanInv => NoOrphanClose
  BY DEF OrphanInv, BatchOK, NoOrphanClose
<1> QED BY <1>1, InitOrphan, OrphanStep, Invariance, PTL DEF Spec

-----------------------------------------------------------------------------
(* Where nobody calls retry, a device never copies its own session.  An    *)
(* open the server may have decided without the device knowing is still    *)
(* among the first pending mutations, so every cycle sends it again and    *)
(* learns the verdict before it pulls.                                     *)

InDoubt(d, m) ==
    /\ outbox[d][m].op = "open" /\ sessions[d][m].srv = None
    /\ outcome[<<d, m>>].kind # "conflict"
    /\ \/ outcome[<<d, m>>].kind = "applied"
       \/ \E q \in strays : q.mut = <<d, m>>
       \/ worker[d].pc \in {"await", "insert", "reply"} /\ worker[d].at = m

DoubtOK(d) ==
    \A m \in MutId : InDoubt(d, m) =>
        m \in FirstPending(d) /\ (worker[d].pc # "idle" => worker[d].pc # "apply" /\ m \in worker[d].todo)

CycleOK(d) ==
    /\ \A m \in worker[d].todo : outbox[d][m].op = "open" => m \in FirstPending(d)
    /\ \A r \in worker[d].quarantined : r \in MutId /\ outcome[<<d, r>>].kind = "conflict"
    /\ \A p \in worker[d].pulled : hosted[p.id].st # "none"

CopiesOK(d) ==
    \A h \in HostedId : sessions[d][PulledKey(h)].srv # None =>
        /\ hosted[h].st # "none"
        /\ ~ \E m \in MutId : AppliedOpen(<<d, m>>) /\ outcome[<<d, m>>].sid = h

DoubtInv == \A d \in Device : DoubtOK(d) /\ CycleOK(d) /\ CopiesOK(d)

\* The first pending mutations stay first when the queue grows at its end and
\* when others leave it.
LEMMA FirstPendingGrows ==
    ASSUME NEW d, NEW m \in MutId, Pending(d)' = Pending(d) \cup {m},
           \A n \in Pending(d) : n < m
    PROVE  FirstPending(d) \subseteq FirstPending(d)'
<1> SUFFICES ASSUME NEW n \in FirstPending(d) PROVE n \in FirstPending(d)'
  OBVIOUS
<1>1. n \in Pending(d) /\ n \in Int /\ m \in Int
  BY DEF FirstPending, Pending, MutId
<1>2. ~(m < n)
  BY <1>1
<1>3. {k \in Pending(d)' : k < n} = {k \in Pending(d) : k < n}
  BY <1>2
<1> QED BY <1>1, <1>3 DEF FirstPending

LEMMA FirstPendingStays ==
    ASSUME NEW d, Pending(d)' \subseteq Pending(d), NEW n \in FirstPending(d), n \in Pending(d)'
    PROVE  n \in FirstPending(d)'
<1> DEFINE A == {k \in Pending(d)' : k < n}
           B == {k \in Pending(d) : k < n}
<1>1. IsFiniteSet(B)
  <2>1. IsFiniteSet(MutId)
    BY FS_Interval, BoundAssumption DEF MutId
  <2>2. B \subseteq MutId
    BY DEF Pending
  <2> QED BY <2>1, <2>2, FS_Subset
<1>2. A \subseteq B
  OBVIOUS
<1>3. IsFiniteSet(A) /\ Cardinality(A) <= Cardinality(B)
  BY <1>1, <1>2, FS_Subset
<1>4. Cardinality(B) < OutboxLimit
  BY DEF FirstPending
<1>5. Cardinality(A) \in Nat /\ Cardinality(B) \in Nat /\ OutboxLimit \in Nat
  BY <1>1, <1>3, FS_CardinalityType, BoundAssumption
<1>6. Cardinality(A) < OutboxLimit
  BY <1>3, <1>4, <1>5
<1> QED BY <1>6 DEF FirstPending

\* Hosted sessions never vanish.
HostedStays == \A h \in HostedId : hosted[h].st # "none" => hosted'[h].st # "none"

\* A device whose tables, worker and verdicts stay keeps what holds of it.
LEMMA DoubtElse ==
    ASSUME NEW d \in Device, DoubtOK(d), CycleOK(d), CopiesOK(d),
           worker[d].pulled \subseteq Pulled, HostedStays,
           outbox'[d] = outbox[d], sessions'[d] = sessions[d], worker'[d] = worker[d],
           \A m \in MutId : outcome'[<<d, m>>] = outcome[<<d, m>>],
           \A m \in MutId : (\E q \in strays' : q.mut = <<d, m>>) => \E q \in strays : q.mut = <<d, m>>
    PROVE  DoubtOK(d)' /\ CycleOK(d)' /\ CopiesOK(d)'
<1>1. FirstPending(d)' = FirstPending(d)
  BY DEF FirstPending, Pending
<1>2. DoubtOK(d)'
  BY <1>1 DEF DoubtOK, InDoubt
<1>3. CycleOK(d)'
  BY <1>1 DEF CycleOK, HostedStays, Pulled
<1>4. CopiesOK(d)'
  BY DEF CopiesOK, HostedStays, AppliedOpen, Payload
<1> QED BY <1>2, <1>3, <1>4

\* What a push changes on the hosted side: one verdict, and an open applied is
\* a new session.
LEMMA PushFacts ==
    ASSUME TypeInv, NEW m \in Mutation, NEW srv \in HostedId \cup {None}, NEW s \in Nat,
           Executes(m, srv, s) \/ UNCHANGED <<hosted, outcome>>
    PROVE  /\ HostedStays
           /\ \A n \in Mutation : outcome'[n] = outcome[n] \/ (n = m /\ outcome[m].kind = "none")
           /\ Payload(m).op = "open" /\ outcome'[m].kind = "applied" =>
                 outcome'[m] = outcome[m] \/ hosted[outcome'[m].sid].st = "none"
<1>0. outcome \in [Mutation -> Outcome] /\ hosted \in [HostedId -> Session]
  BY DEF TypeInv, TypeOK
<1>1. CASE Replay(m) \/ PushOrphanClose(m, srv) \/ UNCHANGED <<hosted, outcome>>
  <2>1. UNCHANGED <<hosted, outcome>>
    BY <1>1 DEF Replay, PushOrphanClose, hostedVars
  <2> QED BY <2>1 DEF HostedStays
<1>2. CASE PushOpenConflict(m)
  BY <1>0, <1>2 DEF PushOpenConflict, Accepted, HostedStays
<1>3. CASE PushOpen(m, s)
  <2>1. PICK h \in HostedId, t \in Stamps(s) :
          /\ NextHosted(h)
          /\ InsertSession(h, Payload(m).br, t, FALSE)
          /\ outcome' = [outcome EXCEPT ![m] = [kind |-> "applied", sid |-> h]]
    BY <1>3 DEF PushOpen
  <2>2. HostedStays
    BY <1>0, <2>1 DEF InsertSession, HostedStays
  <2> QED BY <1>0, <1>3, <2>1, <2>2 DEF PushOpen, NextHosted
<1>4. CASE PushClose(m, srv, s)
  <2>1. HostedStays
    <3>1. CASE \E t \in Stamps(s) : CloseSession(srv, t)
      <4>1. srv \in HostedId /\ hosted[srv] \in Session
        BY <1>0, <1>4 DEF PushClose
      <4>2. PICK t \in Stamps(s) : CloseSession(srv, t)
        BY <3>1
      <4>3. [hosted[srv] EXCEPT !.st = "closed", !.upd = t, !.done = clock].st = "closed"
        BY <4>1 DEF Session
      <4> QED BY <1>0, <4>1, <4>2, <4>3 DEF CloseSession, HostedStays
    <3>2. CASE UNCHANGED hosted
      BY <3>2 DEF HostedStays
    <3> QED BY <1>4, <3>1, <3>2 DEF PushClose
  <2> QED BY <1>0, <1>4, <2>1 DEF PushClose, Accepted
<1> QED BY <1>1, <1>2, <1>3, <1>4 DEF Executes, HostedPush

LEMMA WebStays == ASSUME TypeOK, Web PROVE HostedStays
<1>0. hosted \in [HostedId -> Session]
  BY DEF TypeOK
<1>1. ASSUME NEW b \in Branch, WebOpen(b) PROVE HostedStays
  BY <1>0, <1>1 DEF WebOpen, InsertSession, HostedStays
<1>2. ASSUME NEW b \in Branch, WebClose(b) PROVE HostedStays
  <2>1. PICK h \in OpenAt(b) : \E t \in Stamps(hosted[h].done + 1) : CloseSession(h, t)
    BY <1>2 DEF WebClose
  <2>2. PICK t \in Stamps(hosted[h].done + 1) : CloseSession(h, t)
    BY <2>1
  <2>3. h \in HostedId /\ hosted[h] \in Session
    BY <1>0 DEF OpenAt
  <2>4. [hosted[h] EXCEPT !.st = "closed", !.upd = t, !.done = clock].st = "closed"
    BY <2>3 DEF Session
  <2> QED BY <1>0, <2>2, <2>3, <2>4 DEF CloseSession, HostedStays
<1> QED BY <1>1, <1>2 DEF Web

\* The server answers a request or goes on with it: the open it may decide was
\* in doubt before.
LEMMA DoubtServed ==
    ASSUME IInv, DoubtInv, NEW x \in Mutation, NEW srv \in HostedId \cup {None}, NEW s \in Nat,
           Executes(x, srv, s) \/ UNCHANGED <<hosted, outcome>>,
           UNCHANGED <<sessions, outbox>>,
           \A q \in strays' : \E p \in strays : p.mut = q.mut,
           \/ \E q \in strays : q.mut = x
           \/ worker[x[1]].pc \in {"await", "insert"} /\ worker[x[1]].at = x[2],
           \A e \in Device :
              /\ worker'[e].todo = worker[e].todo /\ worker'[e].at = worker[e].at
              /\ worker'[e].pulled = worker[e].pulled
              /\ worker'[e].quarantined = worker[e].quarantined
              /\ \/ worker'[e].pc = worker[e].pc
                 \/ worker[e].pc \in {"await", "insert"} /\ worker'[e].pc \in {"insert", "reply"}
    PROVE  DoubtInv'
<1> SUFFICES ASSUME NEW d \in Device PROVE DoubtOK(d)' /\ CycleOK(d)' /\ CopiesOK(d)'
  BY DEF DoubtInv
<1>0. /\ DoubtOK(d) /\ CycleOK(d) /\ CopiesOK(d) /\ worker[d] \in Worker
      /\ x = <<x[1], x[2]>> /\ x[1] \in Device /\ x[2] \in MutId
      /\ \A m \in MutId : <<d, m>> \in Mutation
  BY DEF DoubtInv, IInv, TypeInv, TypeOK, Mutation
<1>1. /\ HostedStays
      /\ \A n \in Mutation : outcome'[n] = outcome[n] \/ (n = x /\ outcome[x].kind = "none")
      /\ Payload(x).op = "open" /\ outcome'[x].kind = "applied" =>
            outcome'[x] = outcome[x] \/ hosted[outcome'[x].sid].st = "none"
  BY PushFacts DEF IInv
<1>2. FirstPending(d)' = FirstPending(d)
  BY DEF FirstPending, Pending
<1>3. DoubtOK(d)'
  <2> SUFFICES ASSUME NEW m \in MutId, InDoubt(d, m)' PROVE InDoubt(d, m)
    BY <1>0, <1>2 DEF DoubtOK
  <2>1. outcome[<<d, m>>].kind # "conflict"
    BY <1>0, <1>1 DEF InDoubt
  <2>2. CASE outcome'[<<d, m>>] = outcome[<<d, m>>]
    BY <1>0, <2>1, <2>2 DEF InDoubt
  <2>3. CASE outcome'[<<d, m>>] # outcome[<<d, m>>]
    <3>1. x = <<d, m>> /\ x[1] = d /\ x[2] = m
      BY <1>0, <1>1, <2>3
    <3> QED BY <2>1, <3>1 DEF InDoubt
  <2> QED BY <2>2, <2>3
<1>4. CycleOK(d)'
  <2>1. \A r \in worker[d].quarantined : r \in MutId /\ outcome'[<<d, r>>].kind = "conflict"
    BY <1>0, <1>1 DEF CycleOK
  <2>2. \A p \in worker[d].pulled : hosted'[p.id].st # "none"
    BY <1>0, <1>1 DEF CycleOK, HostedStays, Worker, Pulled
  <2> QED BY <1>0, <1>2, <2>1, <2>2 DEF CycleOK
<1>5. CopiesOK(d)'
  <2> SUFFICES ASSUME NEW h \in HostedId, sessions[d][PulledKey(h)].srv # None
               PROVE  /\ hosted'[h].st # "none"
                      /\ \A m \in MutId : AppliedOpen(<<d, m>>)' => outcome'[<<d, m>>].sid # h
    BY DEF CopiesOK
  <2>1. hosted[h].st # "none" /\ hosted'[h].st # "none"
    BY <1>0, <1>1 DEF CopiesOK, HostedStays
  <2>2. ASSUME NEW m \in MutId, AppliedOpen(<<d, m>>)' PROVE outcome'[<<d, m>>].sid # h
    <3>1. CASE outcome'[<<d, m>>] = outcome[<<d, m>>]
      BY <1>0, <2>2, <3>1 DEF CopiesOK, AppliedOpen, Payload
    <3>2. CASE outcome'[<<d, m>>] # outcome[<<d, m>>]
      <4>1. x = <<d, m>> /\ Payload(x).op = "open" /\ outcome'[x].kind = "applied"
        BY <1>0, <1>1, <2>2, <3>2 DEF AppliedOpen, Payload
      <4> QED BY <1>1, <2>1, <3>2, <4>1
    <3> QED BY <3>1, <3>2
  <2> QED BY <2>1, <2>2
<1> QED BY <1>3, <1>4, <1>5

\* What the cashier queues is not in doubt, and goes behind the others.
LEMMA DoubtCashier ==
    ASSUME IInv, OrphanInv, DoubtInv, NEW d \in Device, NEW m \in MutId, NextMut(d, m),
           UNCHANGED <<worker, hosted, outcome, strays>>,
           \A n \in MutId \ {m} : outbox'[d][n] = outbox[d][n],
           outbox'[d][m].op # "none", outbox'[d][m].st = "pending",
           \A r \in RowKey : sessions'[d][r].srv = sessions[d][r].srv,
           \A e \in Device \ {d} : outbox'[e] = outbox[e] /\ sessions'[e] = sessions[e]
    PROVE  DoubtInv'
<1>0. /\ DoubtOK(d) /\ CycleOK(d) /\ CopiesOK(d) /\ QueueOK(d) /\ worker[d] \in Worker
      /\ outbox[d][m].op = "none" /\ ~Used(<<d, m>>) /\ <<d, m>> \in Mutation
  BY DEF DoubtInv, OrphanInv, IInv, TypeInv, TypeOK, NextMut, Used, Payload, Mutation
<1>1. /\ outcome[<<d, m>>].kind = "none" /\ m \notin worker[d].todo
      /\ worker[d].pc \in {"await", "insert", "reply"} => worker[d].at # m
      /\ \A q \in strays : q.mut # <<d, m>>
  BY <1>0, FreshFacts DEF IInv, StrayInv
<1>2. FirstPending(d) \subseteq FirstPending(d)'
  <2>1. Pending(d)' = Pending(d) \cup {m}
    BY <1>0 DEF Pending
  <2>2. \A n \in Pending(d) : n < m
    <3> SUFFICES ASSUME NEW n \in Pending(d) PROVE n < m
      OBVIOUS
    <3>1. n \in Int /\ m \in Int /\ n # m /\ n \in MutId /\ outbox[d][n].op # "none"
      BY <1>0 DEF Pending, MutId
    <3>2. ~(m < n)
      BY <1>0, <3>1 DEF QueueOK
    <3> QED BY <3>1, <3>2
  <2> QED BY <2>1, <2>2, FirstPendingGrows
<1>3. DoubtOK(d)'
  <2> SUFFICES ASSUME NEW n \in MutId, InDoubt(d, n)' PROVE n # m /\ InDoubt(d, n)
    BY <1>0, <1>2 DEF DoubtOK
  <2>1. n # m
    BY <1>1 DEF InDoubt
  <2> QED BY <2>1, KeyFacts DEF InDoubt
<1>4. CycleOK(d)'
  BY <1>0, <1>1, <1>2 DEF CycleOK, Worker
<1>5. CopiesOK(d)'
  BY <1>0, <1>1, KeyFacts DEF CopiesOK, AppliedOpen, Payload
<1>6. ASSUME NEW e \in Device \ {d} PROVE DoubtOK(e)' /\ CycleOK(e)' /\ CopiesOK(e)'
  <2>1. DoubtOK(e) /\ CycleOK(e) /\ CopiesOK(e) /\ worker[e].pulled \subseteq Pulled
    BY DEF DoubtInv, IInv, TypeInv, TypeOK, Worker
  <2> QED BY <2>1, DoubtElse DEF HostedStays
<1> QED BY <1>3, <1>4, <1>5, <1>6 DEF DoubtInv

LEMMA DoubtOpen ==
    ASSUME IInv, OrphanInv, DoubtInv, NEW d \in Device, NEW b \in Branch, LocalOpen(d, b)
    PROVE  DoubtInv'
<1>1. PICK m \in MutId :
        /\ NextMut(d, m)
        /\ sessions' = [sessions EXCEPT ![d][m] =
                          [st |-> "open", sync |-> "pending", srv |-> None, br |-> b]]
        /\ outbox' = [outbox EXCEPT ![d][m] =
                        [op |-> "open", row |-> m, srv |-> None, br |-> b, st |-> "pending"]]
  BY DEF LocalOpen
<1>2. m \in RowKey /\ sessions[d][m].srv = None
  BY <1>1, KeyFacts, FreshFacts DEF NextMut, Used, Payload
<1>3. /\ \A n \in MutId \ {m} : outbox'[d][n] = outbox[d][n]
      /\ outbox'[d][m].op # "none" /\ outbox'[d][m].st = "pending"
      /\ \A e \in Device \ {d} : outbox'[e] = outbox[e] /\ sessions'[e] = sessions[e]
  BY <1>1 DEF IInv, TypeInv, TypeOK
<1>4. \A r \in RowKey : sessions'[d][r].srv = sessions[d][r].srv
  BY <1>1, <1>2 DEF IInv, TypeInv, TypeOK
<1> QED BY <1>1, <1>3, <1>4, DoubtCashier DEF LocalOpen

LEMMA DoubtClose ==
    ASSUME IInv, OrphanInv, DoubtInv, NEW d \in Device, NEW b \in Branch, NEW q \in RowKey,
           LocalClose(d, b, q)
    PROVE  DoubtInv'
<1>1. PICK m \in MutId :
        /\ NextMut(d, m)
        /\ sessions' = [sessions EXCEPT ![d][q] =
                          [sessions[d][q] EXCEPT !.st = "closed", !.sync = "pending"]]
        /\ outbox' = [outbox EXCEPT ![d][m] =
                        [op |-> "close", row |-> q, srv |-> sessions[d][q].srv,
                         br |-> b, st |-> "pending"]]
  BY DEF LocalClose, IInv, TypeInv, TypeOK
<1>3. /\ \A n \in MutId \ {m} : outbox'[d][n] = outbox[d][n]
      /\ outbox'[d][m].op # "none" /\ outbox'[d][m].st = "pending"
      /\ \A e \in Device \ {d} : outbox'[e] = outbox[e] /\ sessions'[e] = sessions[e]
  BY <1>1 DEF IInv, TypeInv, TypeOK
<1>4. \A r \in RowKey : sessions'[d][r].srv = sessions[d][r].srv
  <2>1. sessions[d][q] \in Row
    BY DEF IInv, TypeInv, TypeOK
  <2>2. [sessions[d][q] EXCEPT !.st = "closed", !.sync = "pending"].srv = sessions[d][q].srv
    BY <2>1 DEF Row
  <2> QED BY <1>1, <2>2 DEF IInv, TypeInv, TypeOK
<1> QED BY <1>1, <1>3, <1>4, DoubtCashier DEF LocalClose

LEMMA DoubtLoad ==
    ASSUME IInv, DoubtInv, NEW d \in Device, Load(d)
    PROVE  DoubtInv'
<1>1. /\ worker'[d].pc = "push" /\ worker'[d].todo = FirstPending(d)
      /\ worker'[d].pulled = {} /\ worker'[d].quarantined = {}
      /\ \A e \in Device \ {d} : worker'[e] = worker[e]
      /\ UNCHANGED <<sessions, outbox, outcome, strays, hosted>>
  BY DEF Load, IInv, TypeInv, TypeOK, Idle
<1>2. FirstPending(d)' = FirstPending(d)
  BY <1>1 DEF FirstPending, Pending
<1>3. DoubtOK(d) /\ CopiesOK(d)
  BY DEF DoubtInv
<1>4. DoubtOK(d)'
  BY <1>1, <1>2, <1>3 DEF DoubtOK, InDoubt
<1>5. CycleOK(d)' /\ CopiesOK(d)'
  BY <1>1, <1>2, <1>3 DEF CycleOK, CopiesOK, AppliedOpen, Payload
<1>6. ASSUME NEW e \in Device \ {d} PROVE DoubtOK(e)' /\ CycleOK(e)' /\ CopiesOK(e)'
  <2>1. DoubtOK(e) /\ CycleOK(e) /\ CopiesOK(e) /\ worker[e].pulled \subseteq Pulled
    BY DEF DoubtInv, IInv, TypeInv, TypeOK, Worker
  <2> QED BY <1>1, <2>1, DoubtElse DEF HostedStays
<1> QED BY <1>4, <1>5, <1>6 DEF DoubtInv

LEMMA DoubtSend ==
    ASSUME IInv, DoubtInv, NEW d \in Device, SendPush(d)
    PROVE  DoubtInv'
<1>0. /\ worker[d] \in Worker /\ worker \in [Device -> Worker]
      /\ DoubtOK(d) /\ CycleOK(d) /\ CopiesOK(d)
  BY DEF DoubtInv, IInv, TypeInv, TypeOK
<1>1. PICK m \in Unsent(d) :
        worker' = [worker EXCEPT ![d] = [@ EXCEPT !.pc = "await", !.at = m, !.sent = clock]]
  BY DEF SendPush
<1>2. /\ worker'[d].pc = "await" /\ worker'[d].at = m /\ worker[d].pc = "push"
      /\ worker'[d].todo = worker[d].todo /\ worker'[d].pulled = worker[d].pulled
      /\ worker'[d].quarantined = worker[d].quarantined
      /\ \A e \in Device \ {d} : worker'[e] = worker[e]
      /\ UNCHANGED <<sessions, outbox, outcome, strays, hosted>>
  BY <1>0, <1>1 DEF SendPush, Worker
<1>3. FirstPending(d)' = FirstPending(d)
  BY <1>2 DEF FirstPending, Pending
<1>4. DoubtOK(d)'
  <2> SUFFICES ASSUME NEW n \in MutId, InDoubt(d, n)' PROVE n \in FirstPending(d) /\ n \in worker[d].todo
    BY <1>2, <1>3 DEF DoubtOK
  <2>1. CASE n = m
    BY <1>0, <1>2, <2>1 DEF InDoubt, CycleOK, Unsent
  <2>2. CASE n # m
    <3>1. InDoubt(d, n)
      BY <1>2, <2>2 DEF InDoubt
    <3> QED BY <1>0, <1>2, <3>1 DEF DoubtOK
  <2> QED BY <2>1, <2>2
<1>5. CycleOK(d)' /\ CopiesOK(d)'
  BY <1>0, <1>2, <1>3 DEF CycleOK, CopiesOK, AppliedOpen, Payload
<1>6. ASSUME NEW e \in Device \ {d} PROVE DoubtOK(e)' /\ CycleOK(e)' /\ CopiesOK(e)'
  <2>1. DoubtOK(e) /\ CycleOK(e) /\ CopiesOK(e) /\ worker[e].pulled \subseteq Pulled
    BY DEF DoubtInv, IInv, TypeInv, TypeOK, Worker
  <2> QED BY <1>2, <2>1, DoubtElse DEF HostedStays
<1> QED BY <1>4, <1>5, <1>6 DEF DoubtInv

\* A request the worker gives up on was in doubt before.
LEMMA DoubtIdle ==
    ASSUME IInv, DoubtInv, NEW d \in Device, FailedPush(d) \/ FailedAck(d) \/ SkipApply(d) \/ GiveUp(d)
    PROVE  DoubtInv'
<1>0. /\ worker[d] \in Worker /\ worker \in [Device -> Worker]
      /\ DoubtOK(d) /\ CycleOK(d) /\ CopiesOK(d)
  BY DEF DoubtInv, IInv, TypeInv, TypeOK
<1>1. worker' = [worker EXCEPT ![d] = Idle] /\ UNCHANGED <<sessions, outbox, outcome, hosted>>
  BY DEF FailedPush, FailedAck, SkipApply, GiveUp, Sent
<1>2. /\ worker'[d].pc = "idle" /\ worker'[d].todo = {}
      /\ worker'[d].pulled = {} /\ worker'[d].quarantined = {}
      /\ \A e \in Device \ {d} : worker'[e] = worker[e]
  BY <1>0, <1>1 DEF Idle
<1>3. \A q \in strays' :
        q \in strays \/ (worker[d].pc \in {"await", "insert"} /\ q.mut = <<d, worker[d].at>>)
  BY DEF FailedPush, FailedAck, SkipApply, GiveUp, Sent
<1>4. FirstPending(d)' = FirstPending(d)
  BY <1>1 DEF FirstPending, Pending
<1>5. DoubtOK(d)'
  <2> SUFFICES ASSUME NEW n \in MutId, InDoubt(d, n)' PROVE InDoubt(d, n)
    BY <1>0, <1>2, <1>4 DEF DoubtOK
  <2>1. \A q \in strays' : q.mut = <<d, n>> =>
           q \in strays \/ (worker[d].pc \in {"await", "insert", "reply"} /\ worker[d].at = n)
    BY <1>3
  <2> QED BY <1>1, <1>2, <2>1 DEF InDoubt
<1>6. CycleOK(d)' /\ CopiesOK(d)'
  BY <1>0, <1>1, <1>2 DEF CycleOK, CopiesOK, AppliedOpen, Payload
<1>7. ASSUME NEW e \in Device \ {d} PROVE DoubtOK(e)' /\ CycleOK(e)' /\ CopiesOK(e)'
  <2>1. DoubtOK(e) /\ CycleOK(e) /\ CopiesOK(e) /\ worker[e].pulled \subseteq Pulled
    BY DEF DoubtInv, IInv, TypeInv, TypeOK, Worker
  <2>2. ASSUME NEW m \in MutId, NEW q \in strays', q.mut = <<e, m>> PROVE q \in strays
    BY <1>3, <2>2
  <2> QED BY <1>1, <1>2, <2>1, <2>2, DoubtElse DEF HostedStays
<1> QED BY <1>5, <1>6, <1>7 DEF DoubtInv

\* When nothing is left to send, nothing is in doubt.
LEMMA DoubtPull ==
    ASSUME IInv, DoubtInv, NEW d \in Device, Pull(d)
    PROVE  DoubtInv'
<1>0. /\ worker[d] \in Worker /\ worker \in [Device -> Worker]
      /\ DoubtOK(d) /\ CycleOK(d) /\ CopiesOK(d)
  BY DEF DoubtInv, IInv, TypeInv, TypeOK
<1>1. /\ worker[d].pc = "push" /\ worker'[d].pc = "apply" /\ worker'[d].todo = {}
      /\ worker'[d].pulled = Page(worker[d].from) /\ worker'[d].quarantined = {}
      /\ \A e \in Device \ {d} : worker'[e] = worker[e]
      /\ UNCHANGED <<sessions, outbox, outcome, strays, hosted>>
  BY <1>0 DEF Pull, Idle
<1>2. ASSUME NEW n \in MutId, InDoubt(d, n) PROVE FALSE
  <2>1. n \in worker[d].todo /\ outcome[<<d, n>>].kind # "conflict" /\ outbox[d][n].op = "open"
    BY <1>0, <1>1, <1>2 DEF DoubtOK, InDoubt
  <2>2. <<d, n>> \in Mutation
    BY DEF Mutation
  <2>3. outbox[d][n].row = n
    BY <2>1, <2>2 DEF IInv, DeviceInv, OutboxInv, Payload
  <2>4. n \in Unsent(d)
    BY <1>0, <2>1, <2>3 DEF CycleOK, Unsent
  <2> QED BY <2>4 DEF Pull
<1>3. DoubtOK(d)'
  <2> SUFFICES ASSUME NEW n \in MutId, InDoubt(d, n)' PROVE InDoubt(d, n)
    BY <1>2 DEF DoubtOK
  <2> QED BY <1>1 DEF InDoubt
<1>4. CycleOK(d)'
  <2>1. \A p \in Page(worker[d].from) : hosted[p.id].st # "none"
    BY NewerRows DEF Page
  <2> QED BY <1>1, <2>1 DEF CycleOK
<1>5. CopiesOK(d)'
  BY <1>0, <1>1 DEF CopiesOK, AppliedOpen, Payload
<1>6. ASSUME NEW e \in Device \ {d} PROVE DoubtOK(e)' /\ CycleOK(e)' /\ CopiesOK(e)'
  <2>1. DoubtOK(e) /\ CycleOK(e) /\ CopiesOK(e) /\ worker[e].pulled \subseteq Pulled
    BY DEF DoubtInv, IInv, TypeInv, TypeOK, Worker
  <2> QED BY <1>1, <2>1, DoubtElse DEF HostedStays
<1> QED BY <1>3, <1>4, <1>5, <1>6 DEF DoubtInv

\* An acknowledgement settles the open it is about and no other.
LEMMA DoubtAck ==
    ASSUME IInv, DoubtInv, NEW d \in Device, Ack(d)
    PROVE  DoubtInv'
<1> DEFINE m == worker[d].at
           r == outbox[d][m].row
           h == worker[d].reply.sid
<1>0. /\ worker[d] \in Worker /\ worker \in [Device -> Worker]
      /\ outbox \in [Device -> [MutId -> Queued]] /\ sessions \in [Device -> [RowKey -> Row]]
      /\ DoubtOK(d) /\ CycleOK(d) /\ CopiesOK(d)
      /\ m \in MutId /\ r \in RowKey /\ h \in HostedId
      /\ outcome[<<d, m>>] = [kind |-> "applied", sid |-> h]
      /\ outbox[d][m].op = "open" => r = m
  <2>1. m \in MutId /\ <<d, m>> \in Mutation
    BY AckFacts DEF Mutation
  <2> QED BY <2>1, AckFacts DEF DoubtInv, IInv, TypeInv, TypeOK, DeviceInv, OutboxInv, Payload
<1>1. r \notin MutId => sessions[d][r].srv # None
  <2> SUFFICES ASSUME r \notin MutId PROVE sessions[d][r].srv # None
    OBVIOUS
  <2>1. <<d, m>> \in Mutation /\ Payload(<<d, m>>) = outbox[d][m]
    BY <1>0 DEF Mutation, Payload
  <2>2. outbox[d][m] \in Queued /\ outbox[d][m].op # "none" /\ outbox[d][m].op # "open"
    BY <1>0, <2>1 DEF IInv, LedgerInv, OutcomeInv, Used
  <2>3. outbox[d][m].op = "close"
    BY <2>2 DEF Queued
  <2>4. outcome[<<d, m>>].sid = sessions[d][r].srv
    BY <1>0, <2>3 DEF IInv, LedgerInv, CloseReachedItsSession
  <2> QED BY <1>0, <2>4, KeyFacts
<1> HIDE DEF m, r, h
<1>2. /\ sessions' = [sessions EXCEPT ![d][r] = [sessions[d][r] EXCEPT !.srv = h, !.sync = "synced"]]
      /\ outbox' = [outbox EXCEPT ![d] = [n \in MutId |->
                      IF n = m THEN [outbox[d][n] EXCEPT !.st = "synced"]
                      ELSE IF n \in LateCloses(d, r) /\ outbox[d][n].srv = None
                      THEN [outbox[d][n] EXCEPT !.srv = h]
                      ELSE outbox[d][n]]]
      /\ UNCHANGED <<outcome, strays, hosted>>
  BY <1>0 DEF Ack, m, r, h
<1>3. sessions'[d][r].srv = h /\ \A q \in RowKey \ {r} : sessions'[d][q] = sessions[d][q]
  <2>1. [sessions[d][r] EXCEPT !.srv = h, !.sync = "synced"].srv = h
    BY <1>0 DEF Row
  <2> QED BY <1>0, <1>2, <2>1
<1>4. ASSUME NEW n \in MutId
      PROVE  /\ outbox'[d][n].op = outbox[d][n].op
             /\ IF n = m THEN outbox'[d][n].st = "synced" ELSE outbox'[d][n].st = outbox[d][n].st
  <2>1. outbox[d][n] \in Queued
    BY <1>0
  <2>2. outbox'[d][n] = IF n = m THEN [outbox[d][n] EXCEPT !.st = "synced"]
                        ELSE IF n \in LateCloses(d, r) /\ outbox[d][n].srv = None
                        THEN [outbox[d][n] EXCEPT !.srv = h]
                        ELSE outbox[d][n]
    BY <1>0, <1>2
  <2> QED BY <2>1, <2>2 DEF Queued
<1>5. /\ worker'[d].pc = "push" /\ worker'[d].todo = worker[d].todo \ {m}
      /\ worker'[d].quarantined = worker[d].quarantined /\ worker'[d].pulled = worker[d].pulled
      /\ worker[d].pc = "reply"
      /\ \A e \in Device \ {d} : /\ worker'[e] = worker[e] /\ outbox'[e] = outbox[e]
                                 /\ sessions'[e] = sessions[e]
  BY <1>0 DEF Ack, Worker, m, r, h
<1>6. \A n \in FirstPending(d) : n # m => n \in FirstPending(d)'
  <2>1. Pending(d)' \subseteq Pending(d) /\ \A n \in Pending(d) : n # m => n \in Pending(d)'
    BY <1>4 DEF Pending
  <2> QED BY <2>1, FirstPendingStays DEF FirstPending
<1>7. DoubtOK(d)'
  <2> SUFFICES ASSUME NEW n \in MutId, InDoubt(d, n)' PROVE n # m /\ InDoubt(d, n)
    BY <1>0, <1>5, <1>6 DEF DoubtOK
  <2>1. n # r
    BY <1>0, <1>3, KeyFacts DEF InDoubt
  <2>2. n # m
    BY <1>0, <1>4, <2>1 DEF InDoubt
  <2>3. n \in RowKey
    BY KeyFacts
  <2> QED BY <1>2, <1>3, <1>4, <1>5, <2>1, <2>2, <2>3 DEF InDoubt
<1>8. CycleOK(d)'
  BY <1>0, <1>2, <1>4, <1>5, <1>6 DEF CycleOK, Worker
<1>9. CopiesOK(d)'
  <2>1. \A g \in HostedId : sessions'[d][PulledKey(g)].srv # None => sessions[d][PulledKey(g)].srv # None
    BY <1>1, <1>3, KeyFacts
  <2>2. \A n \in MutId : AppliedOpen(<<d, n>>)' <=> AppliedOpen(<<d, n>>)
    BY <1>2, <1>4 DEF AppliedOpen, Payload
  <2> QED BY <1>0, <1>2, <2>1, <2>2 DEF CopiesOK
<1>10. ASSUME NEW e \in Device \ {d} PROVE DoubtOK(e)' /\ CycleOK(e)' /\ CopiesOK(e)'
  <2>1. DoubtOK(e) /\ CycleOK(e) /\ CopiesOK(e) /\ worker[e].pulled \subseteq Pulled
    BY DEF DoubtInv, IInv, TypeInv, TypeOK, Worker
  <2> QED BY <1>2, <1>5, <2>1, DoubtElse DEF HostedStays
<1> QED BY <1>7, <1>8, <1>9, <1>10 DEF DoubtInv

LEMMA DoubtConflict ==
    ASSUME IInv, DoubtInv, NEW d \in Device, Conflict(d)
    PROVE  DoubtInv'
<1> DEFINE m == worker[d].at
<1>0. /\ worker[d] \in Worker /\ worker \in [Device -> Worker] /\ WorkerOK(d, worker[d])
      /\ m \in MutId /\ <<d, m>> \in Mutation
      /\ outbox \in [Device -> [MutId -> Queued]] /\ sessions \in [Device -> [RowKey -> Row]]
      /\ DoubtOK(d) /\ CycleOK(d) /\ CopiesOK(d) /\ worker[d].pc = "reply"
  BY DEF Conflict, IInv, TypeInv, TypeOK, DeviceInv, WorkerInv, Mutation, Sending, DoubtInv
<1>1. /\ outcome[<<d, m>>].kind = "conflict"
      /\ outbox[d][m].op = "open" /\ outbox[d][m].row = m
  <2>1. outcome[<<d, m>>].kind = "conflict"
    BY <1>0 DEF Conflict, WorkerOK, ReplyOK
  <2>2. Payload(<<d, m>>).op = "open"
    BY <1>0, <2>1 DEF IInv, LedgerInv, OutcomeInv
  <2> QED BY <1>0, <2>1, <2>2 DEF IInv, DeviceInv, OutboxInv, Payload
<1> HIDE DEF m
<1>2. /\ sessions' = [sessions EXCEPT ![d][m] = [sessions[d][m] EXCEPT !.sync = "conflict"]]
      /\ outbox' = [outbox EXCEPT ![d] = [n \in MutId |->
                      IF n \in {m} \cup LateCloses(d, m)
                      THEN [outbox[d][n] EXCEPT !.st = "conflict"] ELSE outbox[d][n]]]
      /\ UNCHANGED <<outcome, strays, hosted>>
  BY <1>0, <1>1, KeyFacts DEF Conflict, Quarantine, m
<1>3. /\ worker'[d].pc = "push" /\ worker'[d].todo = worker[d].todo \ {m}
      /\ worker'[d].pulled = worker[d].pulled
      /\ worker'[d].quarantined = worker[d].quarantined \cup {m}
  BY <1>0, <1>1 DEF Conflict, Quarantine, Worker, m
<1>4. \A e \in Device \ {d} : /\ worker'[e] = worker[e] /\ outbox'[e] = outbox[e]
                              /\ sessions'[e] = sessions[e]
  BY <1>0 DEF Conflict, Quarantine
<1>5. \A q \in RowKey : sessions'[d][q].srv = sessions[d][q].srv
  <2>1. m \in RowKey /\ sessions[d][m] \in Row
    BY <1>0, KeyFacts
  <2>2. [sessions[d][m] EXCEPT !.sync = "conflict"].srv = sessions[d][m].srv
    BY <2>1 DEF Row
  <2> QED BY <1>0, <1>2, <2>1, <2>2
<1>6. ASSUME NEW n \in MutId
      PROVE  /\ outbox'[d][n].op = outbox[d][n].op
             /\ outbox'[d][n].st = IF n \in {m} \cup LateCloses(d, m) THEN "conflict"
                                   ELSE outbox[d][n].st
  <2>1. outbox[d][n] \in Queued
    BY <1>0
  <2>2. outbox'[d][n] = IF n \in {m} \cup LateCloses(d, m)
                        THEN [outbox[d][n] EXCEPT !.st = "conflict"] ELSE outbox[d][n]
    BY <1>0, <1>2
  <2> QED BY <2>1, <2>2 DEF Queued
<1>7. \A n \in FirstPending(d) : n # m /\ outbox[d][n].op = "open" => n \in FirstPending(d)'
  <2>1. Pending(d)' \subseteq Pending(d)
    BY <1>6 DEF Pending
  <2>2. \A n \in Pending(d) : n # m /\ outbox[d][n].op = "open" => n \in Pending(d)'
    <3> SUFFICES ASSUME NEW n \in Pending(d), n # m, outbox[d][n].op = "open"
                 PROVE  n \in Pending(d)'
      OBVIOUS
    <3>1. n \in MutId /\ n \notin LateCloses(d, m)
      BY DEF Pending, LateCloses
    <3> QED BY <1>6, <3>1 DEF Pending
  <2> QED BY <2>1, <2>2, FirstPendingStays DEF FirstPending
<1>8. DoubtOK(d)'
  <2> SUFFICES ASSUME NEW n \in MutId, InDoubt(d, n)'
               PROVE  n # m /\ outbox[d][n].op = "open" /\ InDoubt(d, n)
    BY <1>0, <1>3, <1>7 DEF DoubtOK
  <2>1. n # m
    BY <1>1, <1>2 DEF InDoubt
  <2>2. n \in RowKey
    BY KeyFacts
  <2> QED BY <1>2, <1>3, <1>5, <1>6, <2>1, <2>2 DEF InDoubt
<1>9. CycleOK(d)'
  BY <1>0, <1>1, <1>2, <1>3, <1>6, <1>7 DEF CycleOK, Worker
<1>10. CopiesOK(d)'
  BY <1>0, <1>2, <1>5, <1>6, KeyFacts DEF CopiesOK, AppliedOpen, Payload
<1>11. ASSUME NEW e \in Device \ {d} PROVE DoubtOK(e)' /\ CycleOK(e)' /\ CopiesOK(e)'
  <2>1. DoubtOK(e) /\ CycleOK(e) /\ CopiesOK(e) /\ worker[e].pulled \subseteq Pulled
    BY DEF DoubtInv, IInv, TypeInv, TypeOK, Worker
  <2> QED BY <1>2, <1>4, <2>1, DoubtElse DEF HostedStays
<1> QED BY <1>8, <1>9, <1>10, <1>11 DEF DoubtInv

\* A row gets a server id from a page only if no row of the device had it.
LEMMA AppliedNew ==
    ASSUME IInv, NEW d \in Device, NEW rows \in SUBSET Pulled, NEW r \in RowKey,
           sessions[d][r].srv = None, Applied(d, rows)[r].srv # None
    PROVE  \E p \in rows : ~Copied(d, p) /\ Applied(d, rows)[r].srv = p.id
<1>0. sessions[d][r] \in Row /\ \A p \in rows : p.id \in HostedId
  BY DEF IInv, TypeInv, TypeOK, Pulled
<1>1. ~ \E p \in rows : sessions[d][r].srv = p.id
  BY <1>0, KeyFacts
<1>2. CASE Displaced(d, rows, r)
  <2>1. Applied(d, rows)[r] = [sessions[d][r] EXCEPT !.sync = "conflict"]
    BY <1>1, <1>2 DEF Applied
  <2> QED BY <1>0, <2>1 DEF Row
<1>3. CASE ~Displaced(d, rows, r) /\ \E p \in rows : ~Copied(d, p) /\ r = PulledKey(p.id)
  <2> DEFINE p == CHOOSE q \in rows : r = PulledKey(q.id)
  <2>1. p \in rows /\ r = PulledKey(p.id)
    BY <1>3
  <2>2. Applied(d, rows)[r] = [st |-> p.st, sync |-> "synced", srv |-> p.id, br |-> p.br]
    BY <1>1, <1>3 DEF Applied
  <2> HIDE DEF p
  <2>3. PICK q \in rows : ~Copied(d, q) /\ r = PulledKey(q.id)
    BY <1>3
  <2>4. q.id = p.id
    BY <1>0, <2>1, <2>3, KeyFacts
  <2>5. Applied(d, rows)[r].srv = q.id
    BY <2>2, <2>4
  <2> QED BY <2>3, <2>5
<1>4. CASE ~Displaced(d, rows, r) /\ ~ \E p \in rows : ~Copied(d, p) /\ r = PulledKey(p.id)
  BY <1>1, <1>4 DEF Applied
<1> QED BY <1>2, <1>3, <1>4

LEMMA DoubtApply ==
    ASSUME IInv, DoubtInv, NEW d \in Device, Apply(d)
    PROVE  DoubtInv'
<1> DEFINE rows == worker[d].pulled
<1>0. /\ rows \in SUBSET Pulled /\ sessions \in [Device -> [RowKey -> Row]]
      /\ worker \in [Device -> Worker] /\ worker[d].pc = "apply"
      /\ DoubtOK(d) /\ CycleOK(d) /\ CopiesOK(d)
  BY DEF Apply, IInv, TypeInv, TypeOK, Worker, DoubtInv
<1>1. /\ sessions'[d] = Applied(d, rows) /\ worker'[d].pc = "idle" /\ worker'[d].todo = {}
      /\ worker'[d].pulled = {} /\ worker'[d].quarantined = {}
      /\ \A e \in Device \ {d} : sessions'[e] = sessions[e] /\ worker'[e] = worker[e]
      /\ UNCHANGED <<outbox, outcome, strays, hosted>>
  BY <1>0 DEF Apply, Idle
<1>2. \A m \in MutId : ~InDoubt(d, m)
  BY <1>0 DEF DoubtOK
<1>3. \A p \in rows : hosted[p.id].st # "none"
  BY <1>0 DEF CycleOK
<1> HIDE DEF rows
<1>4. \A r \in RowKey : sessions[d][r].srv # None => Applied(d, rows)[r].srv = sessions[d][r].srv
  BY <1>0, AppliedIds
<1>5. DoubtOK(d)'
  <2> SUFFICES ASSUME NEW m \in MutId, InDoubt(d, m)' PROVE InDoubt(d, m)
    BY <1>2 DEF DoubtOK
  <2>1. sessions[d][m].srv = None
    BY <1>1, <1>4, KeyFacts DEF InDoubt
  <2> QED BY <1>1, <2>1 DEF InDoubt
<1>6. CycleOK(d)'
  BY <1>1 DEF CycleOK
<1>7. CopiesOK(d)'
  <2> SUFFICES ASSUME NEW h \in HostedId, Applied(d, rows)[PulledKey(h)].srv # None
               PROVE  /\ hosted[h].st # "none"
                      /\ \A m \in MutId : AppliedOpen(<<d, m>>) => outcome[<<d, m>>].sid # h
    BY <1>1 DEF CopiesOK, AppliedOpen, Payload
  <2>1. CASE sessions[d][PulledKey(h)].srv # None
    BY <1>0, <2>1 DEF CopiesOK
  <2>2. CASE sessions[d][PulledKey(h)].srv = None
    <3>1. PICK p \in rows : ~Copied(d, p) /\ Applied(d, rows)[PulledKey(h)].srv = p.id
      BY <1>0, <2>2, AppliedNew, KeyFacts
    <3>2. p.id = h
      BY <1>0, <2>2, <3>1, AppliedIds, KeyFacts
    <3>3. ASSUME NEW m \in MutId, AppliedOpen(<<d, m>>), outcome[<<d, m>>].sid = h PROVE FALSE
      <4>1. sessions[d][m].srv # None
        BY <1>2, <3>3 DEF InDoubt, AppliedOpen, Payload
      <4>2. outcome[<<d, m>>] = [kind |-> "applied", sid |-> sessions[d][m].srv]
        BY <4>1 DEF IInv, DeviceInv, VerdictIsHosted
      <4>3. sessions[d][m].srv = p.id
        BY <3>2, <3>3, <4>2
      <4> QED BY <3>1, <4>3, KeyFacts DEF Copied
    <3> QED BY <1>3, <3>1, <3>2, <3>3
  <2> QED BY <2>1, <2>2
<1>8. ASSUME NEW e \in Device \ {d} PROVE DoubtOK(e)' /\ CycleOK(e)' /\ CopiesOK(e)'
  <2>1. DoubtOK(e) /\ CycleOK(e) /\ CopiesOK(e) /\ worker[e].pulled \subseteq Pulled
    BY DEF DoubtInv, IInv, TypeInv, TypeOK, Worker
  <2> QED BY <1>1, <2>1, DoubtElse DEF HostedStays
<1> QED BY <1>5, <1>6, <1>7, <1>8 DEF DoubtInv

LEMMA DoubtStep ==
    ASSUME ~RetryCalls
    PROVE  IInv /\ OrphanInv /\ DoubtInv /\ [Next]_vars => DoubtInv'
<1> SUFFICES ASSUME IInv, OrphanInv, DoubtInv, [Next]_vars PROVE DoubtInv'
  OBVIOUS
<1>0. worker \in [Device -> Worker] /\ TypeInv /\ TypeOK
  BY DEF IInv, TypeInv, TypeOK
<1>1. ASSUME NEW d \in Device, User(d) PROVE DoubtInv'
  <2>1. \A m \in MutId : ~Retry(d, m)
    BY DEF Retry
  <2> QED BY <1>1, <2>1, DoubtOpen, DoubtClose DEF User
<1>2. ASSUME NEW d \in Device, ServePush(d) \/ InsertPush(d) \/ LookPush(d) PROVE DoubtInv'
  <2>1. /\ worker[d].at \in MutId /\ <<d, worker[d].at>> \in Mutation
        /\ worker[d].srv[worker[d].at] \in HostedId \cup {None} /\ worker[d].sent \in Nat
        /\ worker[d].pc \in {"await", "insert"}
    BY <1>0, <1>2 DEF ServePush, InsertPush, LookPush, TypeInv, Sending, Worker, Mutation
  <2>2. \A e \in Device :
          /\ worker'[e].todo = worker[e].todo /\ worker'[e].at = worker[e].at
          /\ worker'[e].pulled = worker[e].pulled /\ worker'[e].quarantined = worker[e].quarantined
          /\ \/ worker'[e].pc = worker[e].pc
             \/ worker[e].pc \in {"await", "insert"} /\ worker'[e].pc \in {"insert", "reply"}
    <3>1. CASE ServePush(d) \/ InsertPush(d)
      <4>1. Served(d)
        BY <3>1, ServedIs
      <4>2. worker[d] \in Worker
        BY <1>0
      <4>3. /\ worker'[d].todo = worker[d].todo /\ worker'[d].at = worker[d].at
            /\ worker'[d].pulled = worker[d].pulled
            /\ worker'[d].quarantined = worker[d].quarantined /\ worker'[d].pc = "reply"
            /\ \A e \in Device \ {d} : worker'[e] = worker[e]
        BY <1>0, <4>1, <4>2 DEF Served, Worker
      <4> QED BY <2>1, <4>3
    <3>2. CASE LookPush(d)
      BY <1>0, <2>1, <3>2 DEF LookPush, Worker
    <3> QED BY <1>2, <3>1, <3>2
  <2>3. /\ UNCHANGED <<sessions, outbox, strays>>
        /\ \/ Executes(<<d, worker[d].at>>, worker[d].srv[worker[d].at], worker[d].sent)
           \/ UNCHANGED <<hosted, outcome>>
    <3>1. CASE ServePush(d) \/ InsertPush(d)
      <4>1. Executes(<<d, worker[d].at>>, worker[d].srv[worker[d].at], worker[d].sent)
        BY <3>1, ServedIs
      <4> QED BY <3>1, <4>1 DEF ServePush, InsertPush
    <3>2. CASE LookPush(d)
      BY <3>2 DEF LookPush
    <3> QED BY <1>2, <3>1, <3>2
  <2> QED BY <2>1, <2>2, <2>3, DoubtServed
<1>3. ASSUME NEW d \in Device, Defer(d) PROVE FALSE
  BY <1>3 DEF Defer, OrphanInv, BatchOK
<1>4. ASSUME NEW d \in Device, Reconcile(d) PROVE DoubtInv'
  BY <1>2, <1>3, <1>4, DoubtLoad, DoubtSend, DoubtAck, DoubtConflict, DoubtIdle, DoubtPull,
     DoubtApply DEF Reconcile
<1>5. ASSUME NEW q \in strays, ServeStray(q) \/ LookStray(q) PROVE DoubtInv'
  <2>1. q \in Request /\ q.mut \in Mutation /\ q.srv \in HostedId \cup {None} /\ q.sent \in Nat
    BY <1>0 DEF TypeOK, Request
  <2>2. /\ UNCHANGED <<sessions, outbox, worker>>
        /\ Executes(q.mut, q.srv, q.sent) \/ UNCHANGED <<hosted, outcome>>
    BY <1>5 DEF ServeStray, LookStray, Executes, hostedVars
  <2>3. \A p \in strays' : \E o \in strays : o.mut = p.mut
    <3>1. [q EXCEPT !.looked = TRUE].mut = q.mut
      BY <2>1 DEF Request
    <3> QED BY <1>5, <3>1 DEF ServeStray, LookStray
  <2> QED BY <2>1, <2>2, <2>3, DoubtServed
<1>6. ASSUME HostedStays, UNCHANGED <<sessions, outbox, worker, outcome, strays>> PROVE DoubtInv'
  <2> SUFFICES ASSUME NEW e \in Device PROVE DoubtOK(e)' /\ CycleOK(e)' /\ CopiesOK(e)'
    BY DEF DoubtInv
  <2>1. DoubtOK(e) /\ CycleOK(e) /\ CopiesOK(e) /\ worker[e].pulled \subseteq Pulled
    BY <1>0 DEF DoubtInv, Worker
  <2> QED BY <1>6, <2>1, DoubtElse
<1>7. CASE Web
  <2>1. UNCHANGED <<sessions, outbox, worker, outcome, strays>>
    BY <1>7 DEF Web, WebOpen, WebClose
  <2> QED BY <1>0, <1>6, <1>7, <2>1, WebStays
<1>8. CASE UNCHANGED vars
  BY <1>6, <1>8 DEF vars, HostedStays
<1> QED BY <1>1, <1>4, <1>5, <1>7, <1>8, DoubtIdle DEF Next

LEMMA InitDoubt == Init => DoubtInv
<1> SUFFICES ASSUME Init, NEW d \in Device PROVE DoubtOK(d) /\ CycleOK(d) /\ CopiesOK(d)
  BY DEF DoubtInv
<1> USE DEF Init
<1>1. /\ \A m \in MutId : outbox[d][m].op = "none"
      /\ \A r \in RowKey : sessions[d][r].srv = None
      /\ worker[d].todo = {} /\ worker[d].quarantined = {} /\ worker[d].pulled = {}
  BY DEF Unused, Absent, Idle
<1> QED BY <1>1, KeyFacts DEF DoubtOK, InDoubt, CycleOK, CopiesOK

\* However many devices and web users race, whatever answers are lost and
\* however few mutations one cycle loads, a device never takes the session it
\* opened itself for one of another: pushes come first, and the same pushes
\* again until they are answered.
THEOREM NoDeviceCopiesItsOwn ==
    ASSUME ~RetryCalls
    PROVE  Spec => []NeverCopiesOwnSession
<1>1. DoubtInv => NeverCopiesOwnSession
  BY DEF DoubtInv, CopiesOK, NeverCopiesOwnSession
<1> QED BY <1>1, InitOrphan, OrphanStep, InitDoubt, DoubtStep, Invariance, PTL DEF Spec

=============================================================================
