------------------------------- MODULE StockSync -------------------------------
(***************************************************************************)
(* How the stock of one product travels between the desktops of a Business *)
(* and the hosted database: stock operations, sales and returns made       *)
(* offline, the stock and sales jobs of the transactional reconciler that  *)
(* push them, the hosted transactions that take them, and the pull that    *)
(* brings every movement to every device.                                  *)
(*                                                                         *)
(* A movement, sale or return is the number of its entry in made.  Left    *)
(* out: prices, branches and users (a device has one), and what a note     *)
(* says; movements of orders and purchases, and the jobs of those, which   *)
(* come between the stock and the sales job.                               *)
(*                                                                         *)
(* Failures covered: a request that is lost, late or answered too late; a  *)
(* desktop that stops between any two steps; pushes and pages refused.     *)
(* Not covered: clocks that disagree, hosted transactions that commit in   *)
(* another order than they began, and limits of the outbox (100) and of a  *)
(* pull of sales (500), which are never met here.                          *)
(***************************************************************************)
EXTENDS Integers, Sequences, FiniteSets, FiniteSetsExt

CONSTANTS
    Device,      \* desktop installations
    Late,        \* those that load the product after others have worked with it
    Web,         \* the hosted web users
    Base,        \* the stock the product began with
    Sold,        \* the quantity of its first sale
    Deltas,      \* changes of stock to consider; a correction may change nothing
    Noted,       \* with a note and without: kinds of stock operations to consider
    Quantities,  \* quantities of a sale, or of a line of a return, to consider
    Halves,      \* halves of a millisecond in which the server stamps, to consider
    Page,        \* rows of a stock pull, 500 in the code
    MaxMoves,    \* a bound: how many movements are made
    MaxReturns,  \* a bound: how many returns a device makes
    MaxLines,    \* a bound: how often a request for a return names its product
    MaxFaults    \* a bound: how often a request times out or a process restarts

ASSUME StockAssumption ==
    /\ Late \subseteq Device /\ Late # Device
    /\ Web \notin Device
    /\ Base \in Nat /\ Sold \in 1 .. Base
    /\ Deltas \subseteq Int
    /\ Noted \subseteq {"op", "quiet"}
    /\ Quantities \subseteq Nat \ {0}
    /\ Halves \subseteq {0, 1} /\ 1 \in Halves
    /\ {Page, MaxMoves, MaxReturns, MaxLines, MaxFaults} \subseteq Nat

VARIABLES
    made,     \* what was made where: a movement, with the sale or return it is of
    hstock,   \* hosted products.stock
    hosted,   \* hosted stock_movements, in the order of their ids
    decided,  \* hosted sync_mutations
    joined,   \* devices that have the product
    stock,    \* the stock of each device
    known,    \* client ids in each device's stock_movements
    cursor,   \* the id of the last movement pulled, 0 before
    salesCursor, \* the movement of the last sale or return pulled, 0 before
    unsent,   \* mutations of a device that are pending
    books,    \* sales and returns in a device's tables
    rec,      \* what the reconciler of a device is doing
    late,     \* requests on their way that no device waits for
    faults    \* time-outs and restarts

vars == <<made, hstock, hosted, decided, joined, stock, known, cursor, salesCursor,
          unsent, books, rec, late, faults>>

server == <<hstock, hosted, decided>>

-----------------------------------------------------------------------------
(* Types *)

Kind == {"op", "quiet", "sale", "return", "web"}

\* of is the sale of a return, lines how often the return names the product.
Move == [by : Device \cup {Web}, kind : Kind, delta : Int, of : Nat,
         lines : Nat \ {0}, at : Nat]

\* A mutation as the outbox hands it out: itself, and the identity its stock
\* movement is pushed under.
Mutation == [m : Nat, as : Nat]

\* A hosted movement: the client id it has, and what it is the movement of.
Row == [m : Nat, for : Nat, delta : Int, at : Nat]

Reconciler == [job : {"stock", "sales"}, step : {"load", "push", "ack", "apply"},
               todo : SUBSET Mutation, page : SUBSET Nat]

Fresh == [job |-> "stock", step |-> "load", todo |-> {}, page |-> {}]

TypeOK ==
    /\ made \in Seq(Move)
    /\ hstock \in Nat
    /\ hosted \in Seq(Row)
    /\ decided \subseteq Nat
    /\ joined \subseteq Device
    /\ stock \in [Device -> Nat]
    /\ known \in [Device -> SUBSET Nat]
    /\ cursor \in [Device -> Nat]
    /\ salesCursor \in [Device -> Nat]
    /\ unsent \in [Device -> SUBSET Nat]
    /\ books \in [Device -> SUBSET Nat]
    /\ rec \in [Device -> Reconciler]
    /\ late \subseteq Mutation
    /\ faults \in 0 .. MaxFaults

\* The product exists and a first sale of it is on every device, but for the
\* devices in Late, which have not loaded the product yet.
Init ==
    /\ \E d \in Device \ Late :
          made = <<[by |-> d, kind |-> "sale", delta |-> -Sold, of |-> 0,
                    lines |-> 1, at |-> 2]>>
    /\ hstock = Base - Sold
    /\ hosted = <<[m |-> 1, for |-> 1, delta |-> -Sold, at |-> 3]>>
    /\ decided = {1}
    /\ joined = Device \ Late
    /\ stock = [d \in Device |-> IF d \in Late THEN 0 ELSE Base - Sold]
    /\ known = [d \in Device |-> IF d \in Late THEN {} ELSE {1}]
    /\ cursor = [d \in Device |-> IF d \in Late THEN 0 ELSE 1]
    /\ salesCursor = cursor
    /\ unsent = [d \in Device |-> {}]
    /\ books = known
    /\ rec = [d \in Device |-> Fresh]
    /\ late = {}
    /\ faults = 0

-----------------------------------------------------------------------------
(* Sums *)

Sum(f, S) == SumFunctionOnSet(f, S)

Delta == [m \in DOMAIN made |-> made[m].delta]

ReturnsOf(s, S) == {r \in S : made[r].kind = "return" /\ made[r].of = s}

\* What is left of a sale after the returns in S.
Remaining(s, S) == -Delta[s] - Sum(Delta, ReturnsOf(s, S))

-----------------------------------------------------------------------------
(* At a device *)

\* Time is counted in half milliseconds.  Each movement is made in a millisecond
\* of its own, at its start, since a desktop has whole milliseconds only.
Now == 2 * Len(made) + 1

Millisecond(time) == time \div 2

\* A movement of device d, with its client id and its pending mutation, in one
\* SQLite transaction.
Record(d, kind, delta, of, lines) ==
    /\ Len(made) < MaxMoves
    /\ stock[d] + delta >= 0
    /\ made' = Append(made, [by |-> d, kind |-> kind, delta |-> delta, of |-> of,
                             lines |-> lines, at |-> Now + 1])
    /\ stock' = [stock EXCEPT ![d] = @ + delta]
    /\ known' = [known EXCEPT ![d] = @ \cup {Len(made) + 1}]
    /\ unsent' = [unsent EXCEPT ![d] = @ \cup {Len(made) + 1}]
    /\ UNCHANGED <<server, joined, cursor, salesCursor, rec, late, faults>>

\* Increase, decrease or correction; "quiet" is one without a note.
StockOperation(d, kind, delta) ==
    /\ d \in joined
    /\ Record(d, kind, delta, 0, 1)
    /\ UNCHANGED books

\* POST /api/sales: the sale and its movement.
Sell(d, q) ==
    /\ d \in joined
    /\ Record(d, "sale", -q, 0, 1)
    /\ books' = [books EXCEPT ![d] = @ \cup {Len(made) + 1}]

\* POST /api/sales/:id/returns, of any sale the device knows.  Each line of the
\* request is compared with what is left of the sale, and moves the stock; the
\* movements of one return stand as one here.
TakeBack(d, s, q, lines) ==
    /\ s \in books[d] /\ made[s].kind = "sale"
    /\ q <= Remaining(s, books[d])
    /\ Cardinality({r \in books[d] : made[r].kind = "return" /\ made[r].by = d}) < MaxReturns
    /\ Record(d, "return", lines * q, s, lines)
    /\ books' = [books EXCEPT ![d] = @ \cup {Len(made) + 1}]

\* The first master data pull inserts the product with the stock it has now.
Join(d) ==
    /\ d \notin joined
    /\ joined' = joined \cup {d}
    /\ stock' = [stock EXCEPT ![d] = hstock]
    /\ UNCHANGED <<made, server, known, cursor, salesCursor, unsent, books, rec, late, faults>>

-----------------------------------------------------------------------------
(* At the server *)

HostedIds == {hosted[i].m : i \in DOMAIN hosted}

\* A change or a sale of a web user locks the product and gives the movement an
\* identity of its own.
WebChange(delta) ==
    /\ Len(made) < MaxMoves
    /\ hstock + delta >= 0
    /\ made' = Append(made, [by |-> Web, kind |-> "web", delta |-> delta, of |-> 0,
                             lines |-> 1, at |-> Now + 1])
    /\ hstock' = hstock + delta
    /\ hosted' = Append(hosted, [m |-> Len(made) + 1, for |-> Len(made) + 1,
                                 delta |-> delta, at |-> Now + 1])
    /\ UNCHANGED <<decided, joined, stock, known, cursor, salesCursor, unsent, books, rec, late,
                   faults>>

PerLine(m) == Delta[m] \div made[m].lines

\* Mutant: each line of a return has a client id of its own.
AcceptableReturns(r) ==
    /\ r.as \notin HostedIds
    /\ hstock + Delta[r.m] >= 0
    /\ made[r.m].kind = "op" => Delta[r.m] # 0
    /\ made[r.m].kind = "return" =>
          /\ made[r.m].of \in decided
          /\ PerLine(r.m) <= Remaining(made[r.m].of, decided)

\* The unique index on client ids, the stock that must not become negative, a
\* schema without empty changes, and returns within what was sold.  Each line of a
\* return is compared with what is left by itself; but all of them are pushed with
\* one client id, so the index refuses the second.
Acceptable(r) ==
    /\ r.as \notin HostedIds
    /\ hstock + Delta[r.m] >= 0
    /\ made[r.m].kind = "op" => Delta[r.m] # 0
    /\ made[r.m].kind = "return" =>
          /\ made[r.m].of \in decided
          /\ made[r.m].lines = 1
          /\ PerLine(r.m) <= Remaining(made[r.m].of, decided)

\* The server stamps in either half of a millisecond, and does not go back.
Clock ==
    {time \in {2 * Len(made) + half : half \in Halves} :
        \A i \in DOMAIN hosted : hosted[i].at <= time}

\* One transaction: the product, the movement, and the mutation's record.  A
\* stock operation keeps the time of its device.
Apply(r) ==
    /\ r.m \notin decided
    /\ Acceptable(r)
    /\ hstock' = hstock + Delta[r.m]
    /\ \E time \in IF made[r.m].kind = "op" THEN {made[r.m].at} ELSE Clock :
          hosted' = Append(hosted, [m |-> r.as, for |-> r.m, delta |-> Delta[r.m],
                                    at |-> time])
    /\ decided' = decided \cup {r.m}

Replay(r) == r.m \in decided /\ UNCHANGED server

\* Mutant: the reservation of a refused push stays.
ReserveForGood(r) ==
    /\ r.m \notin decided
    /\ ~Acceptable(r)
    /\ decided' = decided \cup {r.m}
    /\ UNCHANGED <<hstock, hosted>>

\* Everything is rolled back, the reservation too.
Refuse(r) ==
    /\ r.m \notin decided
    /\ ~Acceptable(r)
    /\ UNCHANGED server

Arrive(r) ==
    /\ r \in late
    /\ late' = late \ {r}
    /\ Apply(r) \/ Replay(r) \/ Refuse(r)
    /\ UNCHANGED <<made, joined, stock, known, cursor, salesCursor, unsent, books, rec, faults>>

-----------------------------------------------------------------------------
(* reconcileDesktopTransactional *)

At(d, job, step) == rec[d].job = job /\ rec[d].step = step

OwnReturns(d, s) == {r \in ReturnsOf(s, known[d]) : made[r].by = d}

\* The movement of a return is looked up by the user and the sale: it is that of
\* the newest return the device has made of it.
Newest(d, s) == CHOOSE r \in OwnReturns(d, s) : \A x \in OwnReturns(d, s) : x <= r

Identity(d, m) == IF made[m].kind = "return" THEN Newest(d, made[m].of) ELSE m

\* Movements of sales and returns, and those without a note, are in no outbox.
Sent(job) == IF job = "stock" THEN {"op"} ELSE {"sale", "return"}

Outbox(d, job) ==
    {[m |-> m, as |-> Identity(d, m)] : m \in {x \in unsent[d] : made[x].kind \in Sent(job)}}

Load(d) ==
    /\ d \in joined
    /\ rec[d].step = "load"
    /\ rec' = [rec EXCEPT ![d].step = "push", ![d].todo = Outbox(d, "stock")]
    /\ UNCHANGED <<made, server, joined, stock, known, cursor, salesCursor, unsent, books, late,
                   faults>>

\* Mutations are pushed in the order they were made.
First(d, r) == r \in rec[d].todo /\ \A x \in rec[d].todo : r.m <= x.m

\* Whatever ends the stock job, the sales job reads its outbox next.
EndJob(d) ==
    rec' = [rec EXCEPT ![d] = IF rec[d].job = "sales" THEN Fresh ELSE
              [job |-> "sales", step |-> "push", todo |-> Outbox(d, "sales"), page |-> {}]]

Push(d, r) ==
    /\ rec[d].step = "push" /\ First(d, r)
    /\ Apply(r) \/ Replay(r)
    /\ rec' = [rec EXCEPT ![d].step = "ack"]
    /\ UNCHANGED <<made, joined, stock, known, cursor, salesCursor, unsent, books, late, faults>>

\* Mutant: a failed job ends the reconciliation.
PushRefusedStops(d, r) ==
    /\ rec[d].step = "push" /\ First(d, r)
    /\ Refuse(r)
    /\ rec' = [rec EXCEPT ![d] = Fresh]
    /\ UNCHANGED <<made, joined, stock, known, cursor, salesCursor, unsent, books, late, faults>>

\* Mutant: a mutation is acknowledged whatever the answer is.
PushRefusedAcked(d, r) ==
    /\ rec[d].step = "push" /\ First(d, r)
    /\ Refuse(r)
    /\ unsent' = [unsent EXCEPT ![d] = @ \ {r.m}]
    /\ EndJob(d)
    /\ UNCHANGED <<made, joined, stock, known, cursor, salesCursor, books, late, faults>>

PushRefused(d, r) ==
    /\ rec[d].step = "push" /\ First(d, r)
    /\ Refuse(r)
    /\ EndJob(d)
    /\ UNCHANGED <<made, joined, stock, known, cursor, salesCursor, unsent, books, late, faults>>

Ack(d, r) ==
    /\ rec[d].step = "ack" /\ First(d, r)
    /\ unsent' = [unsent EXCEPT ![d] = @ \ {r.m}]
    /\ rec' = [rec EXCEPT ![d].step = "push", ![d].todo = @ \ {r}]
    /\ UNCHANGED <<made, server, joined, stock, known, cursor, salesCursor, books, late, faults>>

\* The order of a stock pull: created_at, then id.
Before(i, j) == hosted[i].at < hosted[j].at \/ (hosted[i].at = hosted[j].at /\ i < j)

\* Mutant: rows of the cursor's own time are left out.
AfterTime(c) == {i \in DOMAIN hosted : c = 0 \/ hosted[c].at < hosted[i].at}

After(c) == {i \in DOMAIN hosted : c = 0 \/ Before(c, i)}

NextPage(c) == {i \in After(c) : Cardinality({j \in After(c) : Before(j, i)}) < Page}

PullStock(d) ==
    /\ At(d, "stock", "push") /\ rec[d].todo = {}
    /\ rec' = [rec EXCEPT ![d].step = "apply", ![d].page = NextPage(cursor[d])]
    /\ UNCHANGED <<made, server, joined, stock, known, cursor, salesCursor, unsent, books, late,
                   faults>>

\* Mutant: movements the device has already are applied again.
NewsAll(d, page) == page

\* The rows of a page whose movements the device does not have.
News(d, page) == {i \in page : hosted[i].m \notin known[d]}

RowDelta == [i \in DOMAIN hosted |-> hosted[i].delta]

\* One SQLite transaction: no row may make the stock negative, and the schema
\* refuses a body with an empty change.
Storable(d, page) ==
    /\ \A i \in page : RowDelta[i] # 0
    /\ \A i \in News(d, page) :
          stock[d] + Sum(RowDelta, {j \in News(d, page) : j = i \/ Before(j, i)}) >= 0

LastOf(page) == CHOOSE i \in page : \A j \in page : j = i \/ Before(j, i)

\* 'Already reconciled': the device compares cursors by millisecond, then id.
Reconciled(d, page) ==
    /\ cursor[d] # 0 /\ page # {}
    /\ LET old == Millisecond(hosted[cursor[d]].at)
           new == Millisecond(hosted[LastOf(page)].at)
       IN new < old \/ (new = old /\ LastOf(page) <= cursor[d])

ApplyStock(d) ==
    LET page == rec[d].page IN
    /\ At(d, "stock", "apply")
    /\ Storable(d, page) /\ ~Reconciled(d, page)
    /\ stock' = [stock EXCEPT ![d] = @ + Sum(RowDelta, News(d, page))]
    /\ known' = [known EXCEPT ![d] = @ \cup {hosted[i].m : i \in page}]
    /\ unsent' = [unsent EXCEPT ![d] = @ \ {m \in {hosted[i].m : i \in page} :
                                              made[m].kind \in {"op", "quiet"}}]
    /\ cursor' = [cursor EXCEPT ![d] = IF page = {} THEN @ ELSE LastOf(page)]
    /\ EndJob(d)
    /\ UNCHANGED <<made, server, joined, salesCursor, books, late, faults>>

\* Nothing is stored, and the same page is pulled again next time.
ApplyRefused(d) ==
    /\ At(d, "stock", "apply")
    /\ ~Storable(d, rec[d].page) \/ Reconciled(d, rec[d].page)
    /\ EndJob(d)
    /\ UNCHANGED <<made, server, joined, stock, known, cursor, salesCursor, unsent, books, late,
                   faults>>

\* Sales and returns have a table and ids each, and one cursor for both.
InLedger == {i \in DOMAIN hosted : made[hosted[i].for].kind \in Sent("sales")}

LedgerKind(i) == made[hosted[i].for].kind

LedgerId(i) == Cardinality({j \in InLedger : j <= i /\ LedgerKind(j) = LedgerKind(i)})

SalesAfter(c) ==
    {i \in InLedger : \/ c = 0
                      \/ hosted[c].at < hosted[i].at
                      \/ hosted[c].at = hosted[i].at /\ LedgerId(c) < LedgerId(i)}

\* The order the last of a page is found by, and cursors are compared in: the
\* millisecond, then the id of either table.
SalesBefore(i, j) ==
    LET mi == Millisecond(hosted[i].at)
        mj == Millisecond(hosted[j].at)
    IN mi < mj \/ (mi = mj /\ LedgerId(i) < LedgerId(j))

\* Returns come after sales where the order leaves it open.
LastSales(page) ==
    CHOOSE i \in page :
        \A j \in page \ {i} : SalesBefore(j, i) \/ (~SalesBefore(i, j) /\ LedgerKind(j) = "sale")

SalesReconciled(d, page) ==
    salesCursor[d] # 0 /\ page # {} /\ ~SalesBefore(salesCursor[d], LastSales(page))

\* The page is pulled and applied in one step, since nothing else at the device
\* matters to it: sales and returns enter its tables without touching stock.  A
\* return needs its sale.
PullSales(d) ==
    LET page == SalesAfter(salesCursor[d])
        news == {hosted[i].for : i \in page}
    IN
    /\ At(d, "sales", "push") /\ rec[d].todo = {}
    /\ ~SalesReconciled(d, page)
    /\ \A m \in news : made[m].kind = "return" => made[m].of \in books[d] \cup news
    /\ books' = [books EXCEPT ![d] = @ \cup news]
    /\ salesCursor' = [salesCursor EXCEPT ![d] = IF page = {} THEN @ ELSE LastSales(page)]
    /\ EndJob(d)
    /\ UNCHANGED <<made, server, joined, stock, known, cursor, unsent, late, faults>>

\* Nothing is stored: a new return lacks its sale, a new sale its register session
\* or its order, which are not modelled, or the cursor would not move on.
PullSalesRefused(d) ==
    /\ At(d, "sales", "push") /\ rec[d].todo = {}
    /\ LET page == SalesAfter(salesCursor[d]) IN
          (\E i \in page : hosted[i].for \notin books[d]) \/ SalesReconciled(d, page)
    /\ EndJob(d)
    /\ UNCHANGED <<made, server, joined, stock, known, cursor, salesCursor, unsent, books,
                   late, faults>>

\* A request that is not answered in 8 seconds may be lost or still arrive.
GiveUp(d) ==
    /\ rec[d].step = "push"
    /\ faults < MaxFaults
    /\ faults' = faults + 1
    /\ late' = late \cup {r \in rec[d].todo : First(d, r)}
    /\ EndJob(d)
    /\ UNCHANGED <<made, server, joined, stock, known, cursor, salesCursor, unsent, books>>

\* The desktop application is closed and opened again, at any point.
Restart(d) ==
    /\ rec[d] # Fresh
    /\ faults < MaxFaults
    /\ faults' = faults + 1
    /\ late' = late \cup {r \in rec[d].todo : rec[d].step = "push" /\ First(d, r)}
    /\ rec' = [rec EXCEPT ![d] = Fresh]
    /\ UNCHANGED <<made, server, joined, stock, known, cursor, salesCursor, unsent, books>>

-----------------------------------------------------------------------------
(* The system *)

Reconcile(d) ==
    \/ Load(d)
    \/ \E r \in rec[d].todo : Push(d, r) \/ PushRefused(d, r) \/ Ack(d, r)
    \/ PullStock(d) \/ ApplyStock(d) \/ ApplyRefused(d)
    \/ PullSales(d) \/ PullSalesRefused(d)

Work(d) ==
    \/ \E delta \in Deltas, kind \in Noted : StockOperation(d, kind, delta)
    \/ \E q \in Quantities : Sell(d, q)
    \/ \E s \in books[d], q \in Quantities, lines \in 1 .. MaxLines :
          TakeBack(d, s, q, lines)
    \/ Join(d)

Next ==
    \/ \E delta \in Deltas : WebChange(delta)
    \/ \E r \in late : Arrive(r)
    \/ \E d \in Device : Work(d) \/ Reconcile(d) \/ GiveUp(d) \/ Restart(d)

Spec == Init /\ [][Next]_vars

\* A running desktop reconciles over and over, on each change, on each
\* announcement and by a timer.
FairSpec == Spec /\ \A d \in Device : WF_vars(Reconcile(d))

-----------------------------------------------------------------------------
(* Properties *)

\* The mutations of a device the server has not decided.
Undecided(d) == {m \in DOMAIN made : made[m].by = d} \ decided

\* The stock of a device that did not join late differs from the hosted one by
\* exactly the rows it has not pulled and the mutations the server has not decided:
\* nothing is counted twice, lost or changed on the way, also when several returns
\* are pushed under the client id of the newest (stock-movement-sync.ts apply,
\* sales-sync.ts outbox, desktop-sales.ts push).
Explained ==
    \A d \in Device \ Late :
        stock[d] + Sum(RowDelta, {i \in DOMAIN hosted : hosted[i].m \notin known[d]})
            = hstock + Sum(Delta, Undecided(d))

\* The hosted stock is where it began plus every change of the web and every
\* mutation the server has decided, once each, however often it was pushed.
CountedOnce ==
    hstock = Base + Sum(Delta, decided \cup {m \in DOMAIN made : made[m].kind = "web"})

\* What a device no longer has to send, the server has.
SentIsHosted ==
    \A d \in Device : \A m \in DOMAIN made :
        made[m].by = d /\ m \notin unsent[d] => m \in decided

\* No more comes back than was sold, also when two devices that know the sale
\* take it back at the same time.
ReturnsWithinSale ==
    \A s \in decided : made[s].kind = "sale" => Remaining(s, decided) >= 0

\* Another of the other table with the same stamp, and no smaller id.
Tied(i) ==
    \E j \in InLedger : /\ hosted[j].at = hosted[i].at
                        /\ LedgerKind(j) # LedgerKind(i) /\ LedgerId(i) <= LedgerId(j)

\* A movement the server has stamped itself is never passed over by a device's
\* cursor, though those stamped by devices come in between
\* (desktop-stock-movements.ts pull); nor is a sale or return by the cursor they
\* share, but for one tied with another (desktop-sales.ts pull).
StampedHereIsPulled ==
    \A d \in Device : \A i \in DOMAIN hosted :
        /\ made[hosted[i].m].kind # "op" /\ cursor[d] # 0 /\ i \notin After(cursor[d])
               => hosted[i].m \in known[d]
        /\ i \in InLedger /\ salesCursor[d] # 0 /\ i \notin SalesAfter(salesCursor[d])
               => hosted[i].for \in books[d] \/ Tied(i)

\* A device with nothing to send that has pulled every movement shows the stock
\* the server has.
EventsNotSnapshots ==
    \A d \in joined :
        unsent[d] = {} /\ HostedIds \subseteq known[d] => stock[d] = hstock

\* The first mutation of a job is one the server refuses.
Refused(d, job) ==
    \E r \in Outbox(d, job) : /\ \A x \in Outbox(d, job) : r.m <= x.m
                              /\ r.m \notin decided /\ ~Acceptable(r)

\* A device that goes on reconciling has sent its stock operations and pulled
\* every movement in the end, unless the server refuses the first operation, or
\* the device cannot store the page or takes it for an old one; and the same for
\* sales.
EventuallySent ==
    \A d \in Device :
        /\ []<>(\/ Refused(d, "stock")
                \/ /\ Outbox(d, "stock") = {}
                   /\ LET page == NextPage(cursor[d]) IN
                      page = {} \/ ~Storable(d, page) \/ Reconciled(d, page))
        /\ []<>(Refused(d, "sales") \/ Outbox(d, "sales") = {})

===============================================================================
