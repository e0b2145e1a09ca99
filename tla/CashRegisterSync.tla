-------------------------- MODULE CashRegisterSync --------------------------
(***************************************************************************)
(* Offline-first cash-register sessions: any number of Desktop devices,    *)
(* each with its own SQLite copy, outbox and pull cursor, reconcile with   *)
(* one hosted Business that web users change at the same time.             *)
(*                                                                         *)
(*  sessions, outbox, cursor   a device's SQLite tables (local/server.ts,  *)
(*                             core-v2/local-routes.ts)                    *)
(*  worker                     its single-flight reconciler                *)
(*                             (web/src/sync/desktopCashRegisterCore.ts)   *)
(*  hosted, outcome            PostgreSQL: cash_register_sessions and the  *)
(*                             hosted sync_mutations                       *)
(*                             (api/src/sync/desktop-cash-register.ts)     *)
(*  strays                     push requests whose client gave up waiting  *)
(*  clock                      microseconds, as far as they order commits  *)
(***************************************************************************)
EXTENDS Integers, FiniteSets

CONSTANTS
    Device,
    Branch,
    NoBranch,        \* the NULL branch of a branchless Business
    UserBranches,    \* UserBranches[d]: branches of the profiles used on d
    HostedBranches,  \* HostedBranches[d]: those the server has these profiles at
    KnownBranches,   \* KnownBranches[d]: branches that bootstrap gave d
    MaxMut,          \* bound: mutations one device queues
    MaxHosted,       \* bound: hosted sessions
    MaxStrays,       \* bound: abandoned requests still travelling
    TxSpan,          \* how many commits may overtake a hosted transaction
    TicksPerMs,      \* clock ticks that share one millisecond
    OutboxLimit,     \* mutations one reconciliation loads (100)
    PullLimit,       \* rows one pull returns (500)
    WebOpens,        \* bound: sessions that web users open
    RetryCalls       \* whether POST /sync/outbox/:id/retry is called

ASSUME DeviceAssumption ==
    /\ Branch # {}
    /\ UserBranches \in [Device -> SUBSET Branch]
    /\ HostedBranches \in [Device -> SUBSET Branch]
    /\ KnownBranches \in [Device -> SUBSET Branch]
    /\ \A d \in Device : UserBranches[d] \subseteq KnownBranches[d]
ASSUME BoundAssumption ==
    /\ {MaxMut, MaxHosted, TicksPerMs, OutboxLimit, PullLimit} \subseteq Nat \ {0}
    /\ {MaxStrays, TxSpan, WebOpens} \subseteq Nat
    /\ RetryCalls \in BOOLEAN

VARIABLES sessions, outbox, cursor, worker, hosted, outcome, strays, clock

localVars  == <<sessions, outbox, cursor>>
hostedVars == <<hosted, outcome, clock>>
vars == <<sessions, outbox, cursor, worker, hosted, outcome, strays, clock>>

-----------------------------------------------------------------------------
(* Types *)

MutId    == 1..MaxMut
HostedId == 1..MaxHosted
Mutation == Device \X MutId

\* Mutant: a pulled session is inserted under its hosted id.
PulledUnderHostedId(h) == h

\* A local session is named by the open mutation that created it, one copied
\* from a pull by its hosted id (negated): the SQLite id itself never matters.
PulledKey(h) == -h
RowKey == MutId \cup {PulledKey(h) : h \in HostedId}

None == 0
Row     == [st : {"none", "open", "closed"}, sync : {"pending", "synced", "conflict"},
            srv : HostedId \cup {None}, br : Branch]
Queued  == [op : {"none", "open", "close"}, row : RowKey, srv : HostedId \cup {None},
            br : Branch, st : {"pending", "synced", "conflict"}]
Session == [st : {"none", "open", "closed"}, br : Branch, upd : Nat,
            done : Nat, web : BOOLEAN]       \* history: commit time, opened by a web user
Outcome == [kind : {"none", "applied", "conflict"}, sid : HostedId \cup {None}]
Cursor  == [upd : Nat, id : HostedId \cup {None}]
Pulled  == [id : HostedId, st : {"open", "closed"}, br : Branch, upd : Nat]
Request == [mut : Mutation, srv : HostedId \cup {None}, sent : Nat,
            looked : BOOLEAN]                   \* past the look-ups, before the insert
Worker  == [pc : {"idle", "push", "await", "insert", "reply", "apply"},
            batch : SUBSET MutId,               \* the loaded outbox
            todo : SUBSET MutId,                \* its unsent mutations
            srv : [MutId -> HostedId \cup {None}],
            quarantined : SUBSET RowKey,
            at : MutId \cup {None}, sent : Nat, reply : Outcome,
            from : Cursor, pulled : SUBSET Pulled, next : Cursor]

NoCursor  == [upd |-> 0, id |-> None]
NoOutcome == [kind |-> "none", sid |-> None]
Absent(b)   == [st |-> "none", sync |-> "synced", srv |-> None, br |-> b]
Unused(b)   == [op |-> "none", row |-> 1, srv |-> None, br |-> b, st |-> "synced"]
Idle == [pc |-> "idle", batch |-> {}, todo |-> {}, srv |-> [m \in MutId |-> None],
         quarantined |-> {}, at |-> None, sent |-> 0, reply |-> NoOutcome,
         from |-> NoCursor, pulled |-> {}, next |-> NoCursor]

AnyBranch == CHOOSE b \in Branch : TRUE

Init ==
    /\ sessions = [d \in Device |-> [r \in RowKey |-> Absent(AnyBranch)]]
    /\ outbox   = [d \in Device |-> [m \in MutId |-> Unused(AnyBranch)]]
    /\ cursor   = [d \in Device |-> NoCursor]
    /\ worker   = [d \in Device |-> Idle]
    /\ hosted   = [h \in HostedId |->
                     [st |-> "none", br |-> AnyBranch, upd |-> 0, done |-> 0, web |-> FALSE]]
    /\ outcome  = [m \in Mutation |-> NoOutcome]
    /\ strays   = {}
    /\ clock    = 1

-----------------------------------------------------------------------------
(* The cashier at a device: handlers of local/server.ts, one SQLite        *)
(* transaction each.                                                       *)

\* What GET current, open and close call the register being open.
IsOpenHere(row) == row.st = "open" /\ row.sync # "conflict"

NextMut(d, m) ==
    /\ outbox[d][m].op = "none"
    /\ \A n \in MutId : n < m => outbox[d][n].op # "none"

LocalOpen(d, b) ==
    /\ b \in UserBranches[d]
    /\ \A r \in RowKey : ~IsOpenHere(sessions[d][r])
    /\ \E m \in MutId :
        /\ NextMut(d, m)
        /\ sessions' = [sessions EXCEPT ![d][m] =
                          [st |-> "open", sync |-> "pending", srv |-> None, br |-> b]]
        /\ outbox' = [outbox EXCEPT ![d][m] =
                        [op |-> "open", row |-> m, srv |-> None, br |-> b, st |-> "pending"]]
    /\ UNCHANGED <<cursor, worker, hosted, outcome, strays, clock>>

\* The close handler takes whichever open session SQLite returns: its query
\* has no branch filter.  b is the branch of the profile that closes.
LocalClose(d, b, r) ==
    /\ b \in UserBranches[d]
    /\ IsOpenHere(sessions[d][r])
    /\ \E m \in MutId :
        /\ NextMut(d, m)
        /\ sessions' = [sessions EXCEPT ![d][r] =
                          [@ EXCEPT !.st = "closed", !.sync = "pending"]]
        /\ outbox' = [outbox EXCEPT ![d][m] =
                        [op |-> "close", row |-> r, srv |-> sessions[d][r].srv,
                         br |-> b, st |-> "pending"]]
    /\ UNCHANGED <<cursor, worker, hosted, outcome, strays, clock>>

\* POST /sync/outbox/:clientId/retry puts any mutation back in the queue.
Retry(d, m) ==
    /\ RetryCalls
    /\ outbox[d][m].op # "none"
    /\ outbox[d][m].st # "pending"
    /\ outbox' = [outbox EXCEPT ![d][m] = [@ EXCEPT !.st = "pending"]]
    /\ UNCHANGED <<sessions, cursor, worker, hosted, outcome, strays, clock>>

-----------------------------------------------------------------------------
(* The hosted transactions.  An open first looks whether it is recorded    *)
(* and whether a register is open, and finding no row it locks none; the   *)
(* unique indexes then decide at its insert.  Everything else commits in   *)
(* one step: the rows it goes by are locked.  The stamp a transaction      *)
(* leaves in updated_at is the time it began, at most TxSpan commits       *)
(* before its own.                                                         *)

Stamps(sent) == {t \in sent..clock : t + TxSpan >= clock}

OpenAt(b) == {h \in HostedId : hosted[h].st = "open" /\ hosted[h].br = b}

\* Serial ids are handed out in order.
NextHosted(h) ==
    /\ hosted[h].st = "none"
    /\ \A g \in HostedId : g < h => hosted[g].st # "none"

InsertSession(h, b, t, web) ==
    hosted' = [hosted EXCEPT ![h] =
                 [st |-> "open", br |-> b, upd |-> t, done |-> clock, web |-> web]]

CloseSession(h, t) ==
    hosted' = [hosted EXCEPT ![h] = [@ EXCEPT !.st = "closed", !.upd = t, !.done = clock]]

Payload(m) == outbox[m[1]][m[2]]

\* POST /api/desktop-sync/cash-registers/push, by what the transaction finds.
\* A mutation already recorded is replayed and changes nothing.
Replay(m) ==
    /\ outcome[m].kind # "none"
    /\ UNCHANGED hostedVars

\* The profile that made the mutation must be at its branch: 403 if not.
Refused(m) == outcome[m].kind = "none" /\ Payload(m).br \notin HostedBranches[m[1]]
Accepted(m) == outcome[m].kind = "none" /\ Payload(m).br \in HostedBranches[m[1]]

\* What the look-ups of an open must find before it goes on to its insert.
FindsNothing(m) ==
    /\ Accepted(m)
    /\ Payload(m).op = "open"
    /\ OpenAt(Payload(m).br) = {}

\* Mutant: the first unique index, to which NULL branches are distinct.
PushOpenNullsDistinct(m, sent) ==
    /\ outcome[m].kind = "none"
    /\ Payload(m).br # NoBranch => OpenAt(Payload(m).br) = {}
    /\ \E h \in HostedId, t \in Stamps(sent) :
        /\ NextHosted(h)
        /\ InsertSession(h, Payload(m).br, t, FALSE)
        /\ outcome' = [outcome EXCEPT ![m] = [kind |-> "applied", sid |-> h]]
    /\ clock' = clock + 1

\* Mutant: mutations are recorded without a unique client id.
PushOpenTwice(m, sent) ==
    /\ OpenAt(Payload(m).br) = {}
    /\ \E h \in HostedId, t \in Stamps(sent) :
        /\ NextHosted(h)
        /\ InsertSession(h, Payload(m).br, t, FALSE)
        /\ outcome' = [outcome EXCEPT ![m] = [kind |-> "applied", sid |-> h]]
    /\ clock' = clock + 1

\* The two inserts of an open and its commit.  Nothing but the unique indexes
\* on (business, client id) and on (business, open branch) stands in the way.
PushOpen(m, sent) ==
    /\ outcome[m].kind = "none"
    /\ OpenAt(Payload(m).br) = {}
    /\ \E h \in HostedId, t \in Stamps(sent) :
        /\ NextHosted(h)
        /\ InsertSession(h, Payload(m).br, t, FALSE)
        /\ outcome' = [outcome EXCEPT ![m] = [kind |-> "applied", sid |-> h]]
    /\ clock' = clock + 1

\* A unique index refuses an insert: rolled back, 500, nothing recorded.
OutOfTurn(m) == outcome[m].kind # "none" \/ OpenAt(Payload(m).br) # {}

PushOpenConflict(m) ==
    /\ Accepted(m)
    /\ Payload(m).op = "open"
    /\ \E h \in OpenAt(Payload(m).br) :
        outcome' = [outcome EXCEPT ![m] = [kind |-> "conflict", sid |-> h]]
    /\ UNCHANGED <<hosted, clock>>

\* Mutant: the close takes whatever register is open at the branch.
PushCloseOfBranch(m, srv, sent) ==
    /\ Accepted(m)
    /\ Payload(m).op = "close"
    /\ srv # None
    /\ \E h \in OpenAt(Payload(m).br), t \in Stamps(sent) :
        /\ CloseSession(h, t)
        /\ outcome' = [outcome EXCEPT ![m] = [kind |-> "applied", sid |-> h]]
    /\ clock' = clock + 1

\* Closing a session another user closed first is also recorded as applied.
PushClose(m, srv, sent) ==
    /\ Accepted(m)
    /\ Payload(m).op = "close"
    /\ srv # None
    /\ \/ /\ hosted[srv].st = "open"
          /\ \E t \in Stamps(sent) : CloseSession(srv, t)
          /\ clock' = clock + 1
       \/ /\ hosted[srv].st = "closed"
          /\ UNCHANGED <<hosted, clock>>
    /\ outcome' = [outcome EXCEPT ![m] = [kind |-> "applied", sid |-> srv]]

\* 409 SYNC_OPEN_PENDING: rolled back, nothing recorded.
PushOrphanClose(m, srv) ==
    /\ Accepted(m)
    /\ Payload(m).op = "close"
    /\ srv = None
    /\ UNCHANGED hostedVars

\* What the transaction answers without an insert of its own to fail.
HostedPush(m, srv, sent) ==
    \/ Replay(m)
    \/ PushOpenConflict(m)
    \/ PushClose(m, srv, sent)
    \/ PushOrphanClose(m, srv)

\* The hosted web handlers POST /api/cash-register/open and /close.  The close
\* takes its stamp once it has read the open row, so after that row's commit.
WebOpen(b) ==
    /\ Cardinality({h \in HostedId : hosted[h].web}) < WebOpens
    /\ OpenAt(b) = {}
    /\ \E h \in HostedId, t \in Stamps(1) :
        NextHosted(h) /\ InsertSession(h, b, t, TRUE)
    /\ clock' = clock + 1
    /\ UNCHANGED <<sessions, outbox, cursor, worker, outcome, strays>>

WebClose(b) ==
    /\ \E h \in OpenAt(b) : \E t \in Stamps(hosted[h].done + 1) : CloseSession(h, t)
    /\ clock' = clock + 1
    /\ UNCHANGED <<sessions, outbox, cursor, worker, outcome, strays>>

-----------------------------------------------------------------------------
(* Positions in the pull order: (updated_at, id).                          *)

After(a, b) == a.upd > b.upd \/ (a.upd = b.upd /\ a.id > b.id)

Millis(t) == t \div TicksPerMs

\* compareCursor parses updated_at with Date.parse: whole milliseconds.
AfterInMillis(a, b) ==
    \/ Millis(a.upd) > Millis(b.upd)
    \/ Millis(a.upd) = Millis(b.upd) /\ a.id > b.id

-----------------------------------------------------------------------------
(* The reconciler of a device, one step per request it awaits.             *)

Pending(d) == {m \in MutId : outbox[d][m].op # "none" /\ outbox[d][m].st = "pending"}

FirstPending(d) ==
    {m \in Pending(d) : Cardinality({n \in Pending(d) : n < m}) < OutboxLimit}

Load(d) ==
    /\ worker[d].pc = "idle"
    /\ worker' = [worker EXCEPT ![d] =
                    [Idle EXCEPT !.pc = "push", !.batch = FirstPending(d), !.todo = FirstPending(d),
                                 !.srv = [m \in MutId |-> IF m \in FirstPending(d)
                                                          THEN outbox[d][m].srv ELSE None],
                                 !.from = cursor[d]]]
    /\ UNCHANGED <<sessions, outbox, cursor, hosted, outcome, strays, clock>>

\* causallyOrdered: sessions by the first mutation the batch holds of them,
\* and in a session its opens before its closes.
Group(d, m) == {n \in worker[d].batch : outbox[d][n].row = outbox[d][m].row}

\* Mutant: all opens are pushed before the closes.
OpensFirst(d, m, n) ==
    \/ outbox[d][m].op = "open" /\ outbox[d][n].op = "close"
    \/ outbox[d][m].op = outbox[d][n].op /\ m < n

PushedBefore(d, m, n) ==
    \/ \E x \in Group(d, m) : \A y \in Group(d, n) : x < y
    \/ /\ Group(d, m) = Group(d, n)
       /\ \/ outbox[d][m].op = "open" /\ outbox[d][n].op = "close"
          \/ outbox[d][m].op = outbox[d][n].op /\ m < n

\* What is left to send: mutations of quarantined sessions are skipped.
Unsent(d) == {m \in worker[d].todo : outbox[d][m].row \notin worker[d].quarantined}

SendPush(d) ==
    /\ worker[d].pc = "push"
    /\ \E m \in Unsent(d) :
        /\ \A n \in Unsent(d) \ {m} : PushedBefore(d, m, n)
        /\ worker' = [worker EXCEPT ![d] = [@ EXCEPT !.pc = "await", !.at = m, !.sent = clock]]
    /\ UNCHANGED <<sessions, outbox, cursor, hosted, outcome, strays, clock>>

Sent(d) == <<d, worker[d].at>>

\* An empty outcome in the reply stands for the SYNC_OPEN_PENDING refusal.
ServePush(d) ==
    /\ worker[d].pc = "await"
    /\ HostedPush(Sent(d), worker[d].srv[worker[d].at], worker[d].sent)
    /\ worker' = [worker EXCEPT ![d] =
                    [@ EXCEPT !.pc = "reply", !.reply = outcome'[Sent(d)]]]
    /\ UNCHANGED <<sessions, outbox, cursor, strays>>

LookPush(d) ==
    /\ worker[d].pc = "await"
    /\ FindsNothing(Sent(d))
    /\ worker' = [worker EXCEPT ![d] = [@ EXCEPT !.pc = "insert"]]
    /\ UNCHANGED <<sessions, outbox, cursor, hosted, outcome, strays, clock>>

InsertPush(d) ==
    /\ worker[d].pc = "insert"
    /\ PushOpen(Sent(d), worker[d].sent)
    /\ worker' = [worker EXCEPT ![d] =
                    [@ EXCEPT !.pc = "reply", !.reply = outcome'[Sent(d)]]]
    /\ UNCHANGED <<sessions, outbox, cursor, strays>>

\* The 403 of the profile check or the 500 of a unique index ends the
\* reconciliation, as every other error does.
FailedPush(d) ==
    /\ \/ worker[d].pc = "await" /\ Refused(Sent(d))
       \/ worker[d].pc = "insert" /\ OutOfTurn(Sent(d))
    /\ worker' = [worker EXCEPT ![d] = Idle]
    /\ UNCHANGED <<sessions, outbox, cursor, hosted, outcome, strays, clock>>

\* A request whose client gave up is still executed when it arrives.
ServeStray(q) ==
    /\ \/ ~q.looked /\ HostedPush(q.mut, q.srv, q.sent)
       \/ q.looked /\ PushOpen(q.mut, q.sent)
       \/ ~q.looked /\ Refused(q.mut) /\ UNCHANGED hostedVars
       \/ q.looked /\ OutOfTurn(q.mut) /\ UNCHANGED hostedVars
    /\ strays' = strays \ {q}
    /\ UNCHANGED <<sessions, outbox, cursor, worker>>

LookStray(q) ==
    /\ ~q.looked
    /\ FindsNothing(q.mut)
    /\ strays' = (strays \ {q}) \cup {[q EXCEPT !.looked = TRUE]}
    /\ UNCHANGED <<sessions, outbox, cursor, worker, hosted, outcome, clock>>

\* Offline, an 8 second timeout, a closed window: reconciliation returns false,
\* and a push already sent may still reach the server or go on there.
GiveUp(d) ==
    /\ worker[d].pc # "idle"
    /\ worker' = [worker EXCEPT ![d] = Idle]
    /\ \/ UNCHANGED strays
       \/ /\ worker[d].pc \in {"await", "insert"}
          /\ Cardinality(strays) < MaxStrays
          /\ strays' = strays \cup {[mut |-> Sent(d), sent |-> worker[d].sent,
                                     srv |-> worker[d].srv[worker[d].at],
                                     looked |-> worker[d].pc = "insert"]}
    /\ UNCHANGED <<sessions, outbox, cursor, hosted, outcome, clock>>

\* The unique indexes of SQLite on open sessions and on server ids.  NULL
\* branches are distinct to the first.
ClashesOpen(d, r, b) ==
    /\ b # NoBranch
    /\ \E q \in RowKey \ {r} : IsOpenHere(sessions[d][q]) /\ sessions[d][q].br = b
ClashesServer(d, r, h) == \E q \in RowKey \ {r} : sessions[d][q].srv = h

AckRejected(d, r, h) ==
    \/ sessions[d][r].st = "open" /\ ClashesOpen(d, r, sessions[d][r].br)
    \/ ClashesServer(d, r, h)

\* Mutant: closes queued since the batch was loaded are forgotten.
LateClosesForgotten(d, r) == {}

LateCloses(d, r) ==
    {m \in Pending(d) : outbox[d][m].op = "close" /\ outbox[d][m].row = r}

\* POST /sync/cash-register/ack and the patch of the loaded batch.
Ack(d) ==
    LET m == worker[d].at
        r == outbox[d][m].row
        h == worker[d].reply.sid
    IN  /\ worker[d].pc = "reply"
        /\ worker[d].reply.kind = "applied"
        /\ ~AckRejected(d, r, h)
        /\ sessions' = [sessions EXCEPT ![d][r] = [@ EXCEPT !.srv = h, !.sync = "synced"]]
        /\ outbox' = [outbox EXCEPT ![d] = [n \in MutId |->
                        IF n = m THEN [@[n] EXCEPT !.st = "synced"]
                        ELSE IF n \in LateCloses(d, r) /\ @[n].srv = None
                        THEN [@[n] EXCEPT !.srv = h]
                        ELSE @[n]]]
        /\ worker' = [worker EXCEPT ![d] =
                        [@ EXCEPT !.pc = "push", !.todo = worker[d].todo \ {m},
                           !.reply = NoOutcome, !.at = None, !.sent = 0,
                           !.srv = [n \in MutId |->
                              IF /\ n \in Group(d, m)
                                 /\ outbox[d][n].op = "close"
                                 /\ worker[d].srv[n] = None
                              THEN h ELSE worker[d].srv[n]]]]
        /\ UNCHANGED <<cursor, hosted, outcome, strays, clock>>

FailedAck(d) ==
    /\ worker[d].pc = "reply"
    /\ worker[d].reply.kind = "applied"
    /\ AckRejected(d, outbox[d][worker[d].at].row, worker[d].reply.sid)
    /\ worker' = [worker EXCEPT ![d] = Idle]
    /\ UNCHANGED <<sessions, outbox, cursor, hosted, outcome, strays, clock>>

\* /conflict and /defer: the session and its queued closes are set aside.
Quarantine(d, muts) ==
    LET r == outbox[d][worker[d].at].row
    IN  /\ sessions' = [sessions EXCEPT ![d][r] = [@ EXCEPT !.sync = "conflict"]]
        /\ outbox' = [outbox EXCEPT ![d] = [n \in MutId |->
                        IF n \in muts \cup LateCloses(d, r)
                        THEN [@[n] EXCEPT !.st = "conflict"] ELSE @[n]]]
        /\ worker' = [worker EXCEPT ![d] =
                        [@ EXCEPT !.pc = "push", !.todo = worker[d].todo \ {worker[d].at},
                           !.quarantined = worker[d].quarantined \cup {r},
                           !.reply = NoOutcome, !.at = None, !.sent = 0]]
        /\ UNCHANGED <<cursor, hosted, outcome, strays, clock>>

\* Mutant: the session is set aside, its open stays in the queue.
ConflictNotFiled(d) ==
    /\ worker[d].pc = "reply"
    /\ worker[d].reply.kind = "conflict"
    /\ Quarantine(d, {})

Conflict(d) ==
    /\ worker[d].pc = "reply"
    /\ worker[d].reply.kind = "conflict"
    /\ Quarantine(d, {worker[d].at})

Defer(d) ==
    /\ worker[d].pc = "reply"
    /\ worker[d].reply.kind = "none"
    /\ Quarantine(d, {})

\* Mutant: only open sessions are pulled.
NewerOpen(c) ==
    {p \in {[id |-> h, st |-> hosted[h].st, br |-> hosted[h].br, upd |-> hosted[h].upd] :
              h \in {g \in HostedId : hosted[g].st = "open"}} : After(p, c)}

\* GET /api/desktop-sync/cash-registers/pull, one committed snapshot.
Newer(c) ==
    {p \in {[id |-> h, st |-> hosted[h].st, br |-> hosted[h].br, upd |-> hosted[h].upd] :
              h \in {g \in HostedId : hosted[g].st # "none"}} : After(p, c)}

Page(c) == {p \in Newer(c) : Cardinality({q \in Newer(c) : After(p, q)}) < PullLimit}

\* The cursor sent back is the position of the last row, or the old cursor.
Position(p) == [upd |-> p.upd, id |-> p.id]
NextCursors(c, rows) ==
    {n \in {c} \cup {Position(p) : p \in rows} : \A p \in rows : ~After(p, n)}

\* Mutant: the pull does not wait for the pushes.
PullFirst(d) ==
    /\ worker[d].pc = "push"
    /\ \E n \in NextCursors(worker[d].from, Page(worker[d].from)) :
        worker' = [worker EXCEPT ![d] =
                     [Idle EXCEPT !.pc = "apply", !.pulled = Page(worker[d].from),
                                  !.from = worker[d].from, !.next = n]]
    /\ UNCHANGED <<sessions, outbox, cursor, hosted, outcome, strays, clock>>

Pull(d) ==
    /\ worker[d].pc = "push"
    /\ Unsent(d) = {}
    /\ \E n \in NextCursors(worker[d].from, Page(worker[d].from)) :
        worker' = [worker EXCEPT ![d] =
                     [Idle EXCEPT !.pc = "apply", !.pulled = Page(worker[d].from),
                                  !.from = worker[d].from, !.next = n]]
    /\ UNCHANGED <<sessions, outbox, cursor, hosted, outcome, strays, clock>>

-----------------------------------------------------------------------------
(* POST /sync/cash-register/apply-v2, one SQLite transaction.              *)

Copied(d, p) == \E r \in RowKey : sessions[d][r].srv = p.id

\* A local open not yet acknowledged gives way to a hosted one it never saw.
Displaced(d, rows, r) ==
    /\ sessions[d][r].st = "open"
    /\ sessions[d][r].sync = "pending"
    /\ \E p \in rows : p.st = "open" /\ p.br = sessions[d][r].br /\ ~Copied(d, p)

Applied(d, rows) ==
    [r \in RowKey |->
       IF \E p \in rows : sessions[d][r].srv = p.id
       THEN LET p == CHOOSE p \in rows : sessions[d][r].srv = p.id
            IN  [sessions[d][r] EXCEPT !.st = p.st, !.sync = "synced",
                   !.br = IF p.br = NoBranch THEN @ ELSE p.br]
       ELSE IF Displaced(d, rows, r)
       THEN [sessions[d][r] EXCEPT !.sync = "conflict"]
       ELSE IF \E p \in rows : ~Copied(d, p) /\ r = PulledKey(p.id)
       THEN LET p == CHOOSE p \in rows : r = PulledKey(p.id)
            IN  [st |-> p.st, sync |-> "synced", srv |-> p.id, br |-> p.br]
       ELSE sessions[d][r]]

\* The transaction fails on a branch the device does not know, or when a row
\* it opens meets another open one that no earlier row of the page closed and
\* that is not displaced.
Rejected(d, rows) ==
    \/ \E p \in rows : p.br # NoBranch /\ p.br \notin KnownBranches[d]
    \/ \E p \in rows, r \in RowKey :
        /\ p.st = "open"
        /\ p.br # NoBranch
        /\ IsOpenHere(sessions[d][r])
        /\ sessions[d][r].br = p.br
        /\ sessions[d][r].srv # p.id
        /\ ~ \E q \in rows : q.id = sessions[d][r].srv /\ After(p, q)
        /\ ~ (~Copied(d, p) /\ sessions[d][r].sync = "pending")

IsNews(d) == AfterInMillis(worker[d].next, cursor[d])

Apply(d) ==
    /\ worker[d].pc = "apply"
    /\ IsNews(d)
    /\ ~Rejected(d, worker[d].pulled)
    /\ sessions' = [sessions EXCEPT ![d] = Applied(d, worker[d].pulled)]
    /\ cursor' = [cursor EXCEPT ![d] = worker[d].next]
    /\ worker' = [worker EXCEPT ![d] = Idle]
    /\ UNCHANGED <<outbox, hosted, outcome, strays, clock>>

\* "Already reconciled", or rolled back.
SkipApply(d) ==
    /\ worker[d].pc = "apply"
    /\ ~IsNews(d) \/ Rejected(d, worker[d].pulled)
    /\ worker' = [worker EXCEPT ![d] = Idle]
    /\ UNCHANGED <<sessions, outbox, cursor, hosted, outcome, strays, clock>>

-----------------------------------------------------------------------------
User(d) ==
    \/ \E b \in Branch : LocalOpen(d, b)
    \/ \E b \in Branch, r \in RowKey : LocalClose(d, b, r)
    \/ \E m \in MutId : Retry(d, m)

Reconcile(d) ==
    \/ Load(d) \/ SendPush(d)
    \/ ServePush(d) \/ LookPush(d) \/ InsertPush(d) \/ FailedPush(d)
    \/ Ack(d) \/ FailedAck(d) \/ Conflict(d) \/ Defer(d)
    \/ Pull(d) \/ Apply(d) \/ SkipApply(d)

Web == \E b \in Branch : WebOpen(b) \/ WebClose(b)

Next ==
    \/ \E d \in Device : User(d) \/ Reconcile(d) \/ GiveUp(d)
    \/ \E q \in strays : ServeStray(q) \/ LookStray(q)
    \/ Web

Spec == Init /\ [][Next]_vars

-----------------------------------------------------------------------------
(* What makes the protocol correct.                                        *)

\* Every variable has its type.
TypeOK ==
    /\ sessions \in [Device -> [RowKey -> Row]]
    /\ outbox \in [Device -> [MutId -> Queued]]
    /\ cursor \in [Device -> Cursor]
    /\ worker \in [Device -> Worker]
    /\ hosted \in [HostedId -> Session]
    /\ outcome \in [Mutation -> Outcome]
    /\ strays \subseteq Request
    /\ clock \in Nat

AppliedOpen(m) == Payload(m).op = "open" /\ outcome[m].kind = "applied"

\* A branch never has two open hosted sessions, whatever devices and web
\* users race for it (push takes its row lock, the unique index the rest).
OneOpenPerBranch == \A b \in Branch : \A g, h \in OpenAt(b) : g = h

\* However often an open mutation is sent, answered late, abandoned or sent
\* again after its answer was lost, it makes one hosted session: two
\* mutations never share one, and no hosted session is without its mutation.
OpenedOnce ==
    /\ \A m, n \in Mutation :
          AppliedOpen(m) /\ AppliedOpen(n) /\ outcome[m].sid = outcome[n].sid => m = n
    /\ \A h \in HostedId :
          hosted[h].st # "none" /\ ~hosted[h].web
             => \E m \in Mutation : AppliedOpen(m) /\ outcome[m].sid = h
    /\ \A m \in Mutation : AppliedOpen(m) => ~hosted[outcome[m].sid].web

\* The server id a device stores for a session it opened is the one the
\* hosted outcome of that open names, and a mutation the device has filed as
\* synced or (for an open) as a conflict was decided so by the server.
VerdictIsHosted ==
    \A d \in Device :
        /\ \A r \in MutId : sessions[d][r].srv # None =>
              outcome[<<d, r>>] = [kind |-> "applied", sid |-> sessions[d][r].srv]
        /\ \A m \in MutId :
              /\ outbox[d][m].op # "none" /\ outbox[d][m].st = "synced"
                    => outcome[<<d, m>>].kind = "applied"
              /\ outbox[d][m].op = "open" /\ outbox[d][m].st = "conflict"
                    => outcome[<<d, m>>].kind = "conflict"

\* A close the server has decided names the session of the very row the
\* cashier closed, and that hosted session is closed and stays so.
CloseReachedItsSession ==
    \A d \in Device, m \in MutId :
        outbox[d][m].op = "close" /\ outcome[<<d, m>>].kind = "applied" =>
            /\ outcome[<<d, m>>].sid = sessions[d][outbox[d][m].row].srv
            /\ hosted[outcome[<<d, m>>].sid].st = "closed"

\* Since pushes come before the pull, a device never copies from a pull the
\* session its own open mutation created: it would then exist twice locally.
NeverCopiesOwnSession ==
    \A d \in Device, h \in HostedId :
        sessions[d][PulledKey(h)].srv # None =>
            ~ \E m \in MutId : AppliedOpen(<<d, m>>) /\ outcome[<<d, m>>].sid = h

\* The acknowledged server id reaches every close in time, whether it is in
\* the loaded batch or was queued meanwhile: no close is refused as orphan.
NoOrphanClose == \A d \in Device : worker[d].pc = "reply" => worker[d].reply.kind # "none"

\* A pull cursor only moves forward in the server's order.
CursorAdvances ==
    [][\A d \in Device : cursor'[d] # cursor[d] => After(cursor'[d], cursor[d])]_cursor

\* A pull passes over a change only if a later transaction committed before
\* it (its stamp is older than its commit).  Every other session behind a
\* device's cursor is on the device, and if the hosted one is closed so is
\* the copy, whatever the page size and the millisecond comparison do.
Overtaken(h) == hosted[h].upd < hosted[h].done

NothingSkipped ==
    \A d \in Device, h \in HostedId :
        /\ hosted[h].st # "none"
        /\ ~After([upd |-> hosted[h].upd, id |-> h], cursor[d])
        /\ ~Overtaken(h)
        => \E r \in RowKey : /\ sessions[d][r].srv = h
                             /\ hosted[h].st = "closed" => sessions[d][r].st = "closed"

\* A register that is closed and opened again offline does not stand in its
\* own way: no open is refused for a session of the same device whose close
\* was queued before it, in whatever batches and attempts the two are sent.
ClosedBefore(d, r, m) == \E n \in MutId : n < m /\ outbox[d][n].op = "close" /\ outbox[d][n].row = r

NeverInItsOwnWay ==
    \A d \in Device, m, r \in MutId :
        /\ outbox[d][m].op = "open" /\ outcome[<<d, m>>].kind = "conflict"
        /\ AppliedOpen(<<d, r>>) /\ outcome[<<d, r>>].sid = outcome[<<d, m>>].sid
        => ~ClosedBefore(d, r, m)

\* "Reconciles durable local cash mutations before applying the hosted view":
\* while a close is queued, the session it closes stays closed locally.
QueuedCloseStands ==
    \A d \in Device, m \in MutId :
        m \in Pending(d) /\ outbox[d][m].op = "close" => sessions[d][outbox[d][m].row].st # "open"

-----------------------------------------------------------------------------
(* The hosted tables implement the ledger: forget updated_at and history.  *)

Ledger == INSTANCE CashLedger WITH
    session <- [h \in HostedId |-> [st |-> hosted[h].st, br |-> hosted[h].br]],
    verdict <- outcome

\* Retries, late requests and lost answers are invisible in the ledger: every
\* step of the system is one ledger step or none.
ImplementsLedger == Ledger!Spec

-----------------------------------------------------------------------------
(* DesktopSync.tsx reconciles every 15 seconds and whenever the network    *)
(* returns, so a device tries for ever; and a network that fails now and   *)
(* then does not fail each time at the same request.  Users owe nothing.   *)

Fairness ==
    \A d \in Device :
        /\ WF_vars(Reconcile(d))
        /\ SF_vars(SendPush(d))
        /\ SF_vars(ServePush(d) \/ LookPush(d))
        /\ SF_vars(InsertPush(d))
        /\ SF_vars(Ack(d) \/ Conflict(d) \/ Defer(d))

FairSpec == Spec /\ Fairness

\* A mutation of d that is sent no later than m (its session is in the queue
\* since m or before) is refused by the server every time, or recorded there
\* with an answer that a unique index of SQLite keeps d from storing.
HeldUp(d, m) ==
    \E n \in Pending(d) :
        /\ \E x \in Pending(d) : x <= m /\ outbox[d][x].row = outbox[d][n].row
        /\ \/ Refused(<<d, n>>)
           \/ /\ outcome[<<d, n>>].kind = "applied"
              /\ AckRejected(d, outbox[d][n].row, outcome[<<d, n>>].sid)

\* Nothing but such a mutation at or before it keeps a queued mutation in the
\* outbox for ever: it ends up synced or in the explicit conflict state.
EventuallySettled ==
    \A d \in Device, m \in MutId :
        []<>~HeldUp(d, m) => (m \in Pending(d) ~> m \notin Pending(d))

=============================================================================
