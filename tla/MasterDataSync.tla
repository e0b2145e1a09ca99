----------------------------- MODULE MasterDataSync -----------------------------
(***************************************************************************)
(* How master data (products, categories, customers and so on) that is     *)
(* edited on desktops and on the web travels between them: the triggers    *)
(* that queue a mutation for every local change, the reconciler that       *)
(* pushes them with the version they were made on, the hosted transaction  *)
(* that takes or refuses them, and the pull that brings the hosted rows.   *)
(*                                                                         *)
(* A row has one content, the number of the edit that wrote it.  The stamp *)
(* of a hosted version is its position in log.  Left out: the columns,     *)
(* the limit of 100 mutations of an outbox, two changes of a row within    *)
(* one millisecond, and hosted rows that cannot be deleted because of      *)
(* foreign keys.                                                           *)
(*                                                                         *)
(* Failures covered: a push that is lost, late or answered too late; a     *)
(* desktop that stops between any two steps; pushes and pages refused.     *)
(* Not covered: hosted transactions that become visible in another order   *)
(* than their stamps.                                                      *)
(***************************************************************************)
EXTENDS Integers, Sequences, FiniteSetsExt, SequencesExt

CONSTANTS
    Device,     \* desktop installations
    Web,        \* the hosted web users
    Row,        \* rows of master data
    None,
    Category,   \* the row a row is filed under, or None
    Original,   \* rows the hosted database has before any desktop
    PageSize,   \* rows of a pull, 500 in the code
    MaxEdits,   \* a bound: how many edits are made
    MaxFaults   \* a bound: how often a push times out or a desktop restarts

ASSUME MasterAssumption ==
    /\ Web \notin Device /\ None \notin Row
    /\ Category \in [Row -> Row \cup {None}]
    /\ \A r \in Row : Category[r] # None => Category[Category[r]] = None
    /\ Original \subseteq Row /\ IsFiniteSet(Row)
    /\ \A r \in Original : Category[r] = None
    /\ PageSize \in Nat \ {0} /\ {MaxEdits, MaxFaults} \subseteq Nat

VARIABLES
    edits,    \* every edit: local ones with their sync_mutations row
    log,      \* hosted versions, in the order of their updated_at
    decided,  \* hosted sync_mutations: the outcome of each
    copy,     \* each device's own rows
    base,     \* each device's server_updated_at of a row, 0 for null
    status,   \* each device's sync_status of a row, "unknown" without identity
    cursor,   \* the position each device has pulled up to
    run,      \* what the reconciler of a device is doing
    late,     \* pushes on their way that no device waits for
    faults    \* time-outs and restarts

vars == <<edits, log, decided, copy, base, status, cursor, run, late, faults>>

server == <<log, decided>>

local == <<copy, base, status, cursor>>

-----------------------------------------------------------------------------
(* Types *)

Outcome == {"applied", "conflict"}

\* over is the version a local edit was made on.
Edit == [by : Device \cup {Web}, row : Row, op : {"upsert", "delete"}, over : Nat,
         state : {"pending", "synced", "conflict"}]

\* is = 0 stands for a row that is not there; filed, for a row in its category.
Content == [is : Nat, filed : BOOLEAN]

Missing == [is |-> 0, filed |-> FALSE]

\* by is the mutation that made the version, 0 for the web and for cascades.
Version == [row : Row, data : Content, by : Nat]

Push == [m : Nat, base : Nat, data : Content]

Reconciler == [step : {"idle", "push", "ack", "conflict", "apply"}, todo : SUBSET Push,
               page : SUBSET Nat]

Idle == [step |-> "idle", todo |-> {}, page |-> {}]

TypeOK ==
    /\ edits \in Seq(Edit)
    /\ log \in Seq(Version)
    /\ \A m \in DOMAIN decided : decided[m] \in Outcome
    /\ copy \in [Device -> [Row -> Content]]
    /\ base \in [Device -> [Row -> Nat]]
    /\ status \in [Device -> [Row -> {"unknown", "pending", "synced", "conflict"}]]
    /\ cursor \in [Device -> Nat]
    /\ run \in [Device -> Reconciler]
    /\ late \subseteq Push
    /\ faults \in 0 .. MaxFaults

WebEdit(r) == [by |-> Web, row |-> r, op |-> "upsert", over |-> 0, state |-> "synced"]

\* The desktops are new: they have pulled nothing.
Init ==
    LET first == SetToSeq(Original) IN
    /\ edits = [i \in DOMAIN first |-> WebEdit(first[i])]
    /\ log = [i \in DOMAIN first |->
                [row |-> first[i], data |-> [is |-> i, filed |-> FALSE], by |-> 0]]
    /\ decided = << >>
    /\ copy = [d \in Device |-> [r \in Row |-> Missing]]
    /\ base = [d \in Device |-> [r \in Row |-> 0]]
    /\ status = [d \in Device |-> [r \in Row |-> "unknown"]]
    /\ cursor = [d \in Device |-> 0]
    /\ run = [d \in Device |-> Idle]
    /\ late = {}
    /\ faults = 0

-----------------------------------------------------------------------------
(* The hosted rows: master_sync_rows *)

\* The stamp of a row's newest version, 0 without any.
Stamp(r) == Max({0} \cup {i \in DOMAIN log : log[i].row = r})

Hosted(r) == IF Stamp(r) = 0 THEN Missing ELSE log[Stamp(r)].data

There(r) == Hosted(r).is # 0

FiledUnder(r) == {q \in Row : Category[q] = r}

Change(r, data, m) == Append(log, [row |-> r, data |-> data, by |-> m])

\* Rows filed under a deleted one lose their category and get a new stamp.
Removal(r, m) ==
    LET filed == SetToSeq({q \in FiledUnder(r) : There(q) /\ Hosted(q).filed})
        unfiled(q) == [row |-> q, data |-> [is |-> Hosted(q).is, filed |-> FALSE], by |-> 0]
    IN  log \o [i \in DOMAIN filed |-> unfiled(filed[i])]
            \o <<[row |-> r, data |-> Missing, by |-> m]>>

More(n) == Len(edits) + n <= MaxEdits

WebCreate(r) ==
    /\ More(1)
    /\ r \notin Original /\ \A e \in DOMAIN edits : edits[e].row # r
    /\ edits' = Append(edits, WebEdit(r))
    /\ log' = Change(r, [is |-> Len(edits) + 1,
                         filed |-> Category[r] # None /\ There(Category[r])], 0)
    /\ UNCHANGED <<decided, local, run, late, faults>>

WebUpdate(r) ==
    /\ More(1) /\ There(r)
    /\ edits' = Append(edits, WebEdit(r))
    /\ log' = Change(r, [Hosted(r) EXCEPT !.is = Len(edits) + 1], 0)
    /\ UNCHANGED <<decided, local, run, late, faults>>

WebDelete(r) ==
    /\ More(1) /\ There(r)
    /\ edits' = Append(edits, [WebEdit(r) EXCEPT !.op = "delete"])
    /\ log' = Removal(r, 0)
    /\ UNCHANGED <<decided, local, run, late, faults>>

-----------------------------------------------------------------------------
(* Local changes, with the triggers that queue a mutation for each *)

LocalEdit(d, r, op) ==
    [by |-> d, row |-> r, op |-> op, over |-> base[d][r], state |-> "pending"]

LocalCreate(d, r) ==
    /\ More(1)
    /\ r \notin Original /\ \A e \in DOMAIN edits : edits[e].row # r
    /\ edits' = Append(edits, LocalEdit(d, r, "upsert"))
    /\ copy' = [copy EXCEPT ![d][r] =
                  [is |-> Len(edits) + 1,
                   filed |-> Category[r] # None /\ copy[d][Category[r]].is # 0]]
    /\ status' = [status EXCEPT ![d][r] = "pending"]
    /\ UNCHANGED <<server, base, cursor, run, late, faults>>

LocalUpdate(d, r) ==
    /\ More(1) /\ copy[d][r].is # 0
    /\ edits' = Append(edits, LocalEdit(d, r, "upsert"))
    /\ copy' = [copy EXCEPT ![d][r].is = Len(edits) + 1]
    /\ UNCHANGED <<server, base, status, cursor, run, late, faults>>

\* Deleting a category first takes the products out of it, each an edit.
LocalDelete(d, r) ==
    LET filed == SetToSeq({q \in FiledUnder(r) : copy[d][q].is # 0 /\ copy[d][q].filed})
        edit(q) == Len(edits) + (CHOOSE i \in DOMAIN filed : filed[i] = q)
    IN  /\ More(Len(filed) + 1) /\ copy[d][r].is # 0
        /\ edits' = edits \o [i \in DOMAIN filed |-> LocalEdit(d, filed[i], "upsert")]
                          \o <<LocalEdit(d, r, "delete")>>
        /\ copy' = [copy EXCEPT ![d] = [q \in Row |->
                      IF q = r THEN Missing
                      ELSE IF q \in Range(filed) THEN [is |-> edit(q), filed |-> FALSE]
                      ELSE @[q]]]
        /\ status' = [status EXCEPT ![d][r] = "pending"]
        /\ UNCHANGED <<server, base, cursor, run, late, faults>>

-----------------------------------------------------------------------------
(* The hosted push transaction *)

\* Mutant: the version an edit was made on is not compared.
NeverStale(p) == FALSE

\* Without a base, or for a row nobody has pushed yet, there is nothing to compare.
Stale(p) ==
    LET at == Stamp(edits[p.m].row) IN at # 0 /\ p.base # 0 /\ p.base # at

Dependent(p) == p.data.filed /\ ~There(Category[edits[p.m].row])

\* What the database refuses, every time: a row without its columns, unless it is
\* an update of a row that was deleted, and a deletion of a row that has no
\* identity there.
Broken(p) ==
    LET e == edits[p.m] IN
    IF e.op = "delete" THEN Stamp(e.row) = 0
    ELSE p.data.is = 0 /\ (Stamp(e.row) = 0 \/ There(e.row))

Decide(p, outcome) == decided' = [m \in DOMAIN decided \cup {p.m} |->
                                    IF m = p.m THEN outcome ELSE decided[m]]

Conflict(p) ==
    /\ p.m \notin DOMAIN decided /\ Stale(p)
    /\ Decide(p, "conflict")
    /\ UNCHANGED log

\* Mutant: a row that was deleted is inserted again.
EffectAnew(p) ==
    LET e == edits[p.m] IN
    IF e.op = "delete" THEN IF There(e.row) THEN Removal(e.row, p.m) ELSE log
    ELSE Change(e.row, p.data, p.m)

\* Updating or deleting a row that was deleted before changes no row.
Effect(p) ==
    LET e == edits[p.m] IN
    IF Stamp(e.row) # 0 /\ ~There(e.row) THEN log
    ELSE IF e.op = "delete" THEN Removal(e.row, p.m)
    ELSE Change(e.row, p.data, p.m)

Apply(p) ==
    /\ p.m \notin DOMAIN decided /\ ~Stale(p) /\ ~Broken(p) /\ ~Dependent(p)
    /\ Decide(p, "applied")
    /\ log' = Effect(p)

\* SYNC_DEPENDENCY_MISSING: rolled back, nothing is recorded.
Unavailable(p) ==
    /\ p.m \notin DOMAIN decided /\ ~Stale(p) /\ ~Broken(p) /\ Dependent(p)
    /\ UNCHANGED server

Replay(p, outcome) ==
    /\ p.m \in DOMAIN decided /\ decided[p.m] = outcome
    /\ UNCHANGED server

Fail(p) ==
    /\ p.m \notin DOMAIN decided /\ ~Stale(p) /\ Broken(p)
    /\ UNCHANGED server

Arrive(p) ==
    /\ p \in late
    /\ late' = late \ {p}
    /\ \/ Apply(p) \/ Conflict(p) \/ Unavailable(p) \/ Fail(p)
       \/ \E o \in Outcome : Replay(p, o)
    /\ UNCHANGED <<edits, local, run, faults>>

-----------------------------------------------------------------------------
(* reconcileDesktopMasterData *)

IsPending(d, e) == edits[e].by = d /\ edits[e].state = "pending"

Pending(d, r) == {e \in DOMAIN edits : IsPending(d, e) /\ edits[e].row = r}

\* A queued mutation is sent with what its row holds now.
Prepared(d, e) ==
    LET r == edits[e].row IN
    [m |-> e, base |-> base[d][r],
     data |-> IF edits[e].op = "delete" THEN Missing ELSE copy[d][r]]

Outbox(d) == {Prepared(d, e) : e \in {i \in DOMAIN edits : IsPending(d, i)}}

\* Mutations are sent in the order they were queued.
First(d, p) == \A q \in run[d].todo : p.m <= q.m

Load(d) ==
    /\ run[d].step = "idle"
    /\ run' = [run EXCEPT ![d] = [step |-> "push", todo |-> Outbox(d), page |-> {}]]
    /\ UNCHANGED <<edits, server, local, late, faults>>

PushNext(d) == \E p \in run[d].todo :
    /\ run[d].step = "push" /\ First(d, p)
    /\ \/ /\ Apply(p) \/ Replay(p, "applied")
          /\ run' = [run EXCEPT ![d].step = "ack"]
       \/ /\ Conflict(p) \/ Unavailable(p) \/ Replay(p, "conflict")
          /\ run' = [run EXCEPT ![d].step = "conflict"]
    /\ UNCHANGED <<edits, local, late, faults>>

\* Any other answer ends the run before its pull.
PushFails(d) == \E p \in run[d].todo :
    /\ run[d].step = "push" /\ First(d, p)
    /\ Fail(p)
    /\ run' = [run EXCEPT ![d] = Idle]
    /\ UNCHANGED <<edits, local, late, faults>>

Popped(d, p) == [run EXCEPT ![d].step = "push", ![d].todo = @ \ {p}]

Ack(d) == \E p \in run[d].todo :
    /\ run[d].step = "ack" /\ First(d, p)
    /\ edits' = [edits EXCEPT ![p.m].state = "synced"]
    /\ run' = Popped(d, p)
    /\ UNCHANGED <<server, local, late, faults>>

\* Mutant: a conflict ends the run like any other refusal.
StopAtConflict(d) ==
    /\ run[d].step = "conflict"
    /\ run' = [run EXCEPT ![d] = Idle]
    /\ UNCHANGED <<edits, server, local, late, faults>>

RecordConflict(d) == \E p \in run[d].todo :
    /\ run[d].step = "conflict" /\ First(d, p)
    /\ edits' = [edits EXCEPT ![p.m].state = "conflict"]
    /\ status' = [status EXCEPT ![d][edits[p.m].row] = "conflict"]
    /\ run' = Popped(d, p)
    /\ UNCHANGED <<server, copy, base, cursor, late, faults>>

\* The current version of each row changed after position c.
Changed(c) == {i \in DOMAIN log : c < i /\ i = Stamp(log[i].row)}

\* Mutant: the newest changes come first.
NewestFirst(c) == {i \in Changed(c) : Cardinality({j \in Changed(c) : i < j}) < PageSize}

NextPage(c) == {i \in Changed(c) : Cardinality({j \in Changed(c) : j < i}) < PageSize}

Pull(d) ==
    /\ run[d].step = "push" /\ run[d].todo = {}
    /\ run' = [run EXCEPT ![d].step = "apply", ![d].page = NextPage(cursor[d])]
    /\ UNCHANGED <<edits, server, local, late, faults>>

\* Mutant: changes are applied over rows that have something to send.
Overwritten(d, page) == page

\* Changes of rows with a mutation to send are not applied.
Applied(d, page) == {i \in page : Pending(d, log[i].row) = {}}

RowsOf(page) == {log[i].row : i \in page}

VersionOf(r, page) == CHOOSE i \in page : log[i].row = r

Gone(page) == {r \in RowsOf(page) : log[VersionOf(r, page)].data.is = 0}

\* A row known here is updated where it is: if it was deleted, nothing happens.
Written(d, page) ==
    {r \in RowsOf(page) \ Gone(page) : status[d][r] = "unknown" \/ copy[d][r].is # 0}

\* The category of every row that is written must be there, once the
\* categories of the page, which come first, are written.
Storable(d, page) ==
    LET news == Applied(d, page)
        removed == Gone(news)
        present(c) == c \in Written(d, news) \/ (copy[d][c].is # 0 /\ c \notin removed)
    IN  \A r \in Written(d, news) :
          log[VersionOf(r, news)].data.filed => present(Category[r])

\* kept are the rows local records refer to: their deletion fails silently.
ApplyPage(d, kept) ==
    LET page == run[d].page
        news == Applied(d, page)
        removed == Gone(news) \ kept
        blocked == RowsOf(page) \ RowsOf(news)
        at(r) == VersionOf(r, news)
    IN  /\ run[d].step = "apply" /\ Storable(d, page)
        /\ kept \subseteq {r \in Gone(news) : copy[d][r].is # 0 /\ FiledUnder(r) = {}}
        /\ copy' = [copy EXCEPT ![d] = [r \in Row |->
             IF r \in Written(d, news) THEN log[at(r)].data
             ELSE IF r \in removed THEN Missing
             ELSE IF Category[r] \in removed THEN [@[r] EXCEPT !.filed = FALSE]
             ELSE @[r]]]
        /\ base' = [base EXCEPT ![d] = [r \in Row |->
             IF r \in RowsOf(news) \ Gone(news) THEN at(r) ELSE @[r]]]
        /\ status' = [status EXCEPT ![d] = [r \in Row |->
             IF r \in blocked THEN "conflict"
             ELSE IF r \in RowsOf(news) /\ (r \notin Gone(news) \/ @[r] # "unknown")
                  THEN "synced"
             ELSE @[r]]]
        /\ edits' = [e \in DOMAIN edits |->
             IF IsPending(d, e) /\ edits[e].row \in blocked
             THEN [edits[e] EXCEPT !.state = "conflict"] ELSE edits[e]]
        /\ cursor' = [cursor EXCEPT ![d] = Max({@} \cup page)]
        /\ run' = [run EXCEPT ![d] = Idle]
        /\ UNCHANGED <<server, late, faults>>

\* The same page is pulled again next time.
PageFails(d) ==
    /\ run[d].step = "apply" /\ ~Storable(d, run[d].page)
    /\ run' = [run EXCEPT ![d] = Idle]
    /\ UNCHANGED <<edits, server, local, late, faults>>

\* A push that is not answered in 8 seconds may be lost or still arrive.
GiveUp(d) == \E p \in run[d].todo :
    /\ run[d].step = "push" /\ First(d, p)
    /\ faults < MaxFaults
    /\ faults' = faults + 1
    /\ late' = late \cup {p}
    /\ run' = [run EXCEPT ![d] = Idle]
    /\ UNCHANGED <<edits, server, local>>

\* The desktop application is closed and opened again, or the pull times out.
Restart(d) ==
    /\ run[d].step # "idle"
    /\ faults < MaxFaults
    /\ faults' = faults + 1
    /\ run' = [run EXCEPT ![d] = Idle]
    /\ UNCHANGED <<edits, server, local, late>>

-----------------------------------------------------------------------------
(* The system *)

Reconcile(d) ==
    \/ Load(d) \/ PushNext(d) \/ PushFails(d) \/ Ack(d) \/ RecordConflict(d)
    \/ Pull(d) \/ PageFails(d)
    \/ \E kept \in SUBSET Row : ApplyPage(d, kept)

Work(d) == \E r \in Row : LocalCreate(d, r) \/ LocalUpdate(d, r) \/ LocalDelete(d, r)

Next ==
    \/ \E r \in Row : WebCreate(r) \/ WebUpdate(r) \/ WebDelete(r)
    \/ \E p \in late : Arrive(p)
    \/ \E d \in Device : Work(d) \/ Reconcile(d) \/ GiveUp(d) \/ Restart(d)

Spec == Init /\ [][Next]_vars

\* A running desktop reconciles every 15 seconds (DesktopSync.tsx).
FairSpec == Spec /\ \A d \in Device : WF_vars(Reconcile(d))

-----------------------------------------------------------------------------
(* Properties *)

\* A device that calls a row synced, has nothing of it to send and has pulled
\* beyond its last change shows what the server has, unless the row was deleted
\* on one of the two sides (master-data-sync.ts apply).
InStep ==
    \A d \in Device, r \in Row :
        /\ status[d][r] = "synced" /\ Pending(d, r) = {} /\ Stamp(r) <= cursor[d]
        /\ There(r) /\ copy[d][r].is # 0
        => copy[d][r] = Hosted(r)

\* An edit that its device takes for synced has reached the hosted row, itself or
\* within a later one of the device, unless the row was deleted before: no
\* cashier's change disappears without a conflict.
SyncedEditsArrived ==
    \A e \in DOMAIN edits :
        edits[e].by # Web /\ edits[e].op = "upsert" /\ edits[e].state = "synced"
        => \E i \in DOMAIN log :
             /\ log[i].row = edits[e].row
             /\ \/ log[i].data.is >= e /\ edits[log[i].data.is].by = edits[e].by
                \/ log[i].data.is = 0

\* An edit made on a version the device had pulled replaces exactly that version:
\* no change that its author did not see is overwritten
\* (desktop-master-data.ts push).
NoUnseenOverwritten ==
    \A i \in DOMAIN log :
        LET e == log[i].data.is
            before == {j \in 1 .. i - 1 : log[j].row = log[i].row}
        IN  log[i].by # 0 /\ e # 0 /\ edits[e].over # 0 => edits[e].over = Max(before)

\* A hosted row that was deleted never comes back, whatever devices that have not
\* heard of it still send.
DeletedForGood ==
    \A i, j \in DOMAIN log :
        i < j /\ log[i].row = log[j].row => log[i].data.is # 0

\* The first mutation to send is one the server fails on, every time.
Stuck(d) ==
    \E e \in DOMAIN edits :
        /\ IsPending(d, e) /\ e \notin DOMAIN decided
        /\ ~Stale(Prepared(d, e)) /\ Broken(Prepared(d, e))

\* A device that goes on reconciling ends with nothing to send and nothing to
\* pull, unless the server fails on its mutation or it cannot store its page.
EventuallySettled ==
    \A d \in Device :
        <>[](\/ Stuck(d)
             \/ ~Storable(d, NextPage(cursor[d]))
             \/ Changed(cursor[d]) = {} /\ \A e \in DOMAIN edits : ~IsPending(d, e))

===============================================================================
