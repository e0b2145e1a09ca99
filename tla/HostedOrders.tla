---------------------------- MODULE HostedOrders ----------------------------
(***************************************************************************)
(* The hosted till of one branch: orders taken by the staff and through    *)
(* the QR menu of one table, their status, the kitchen, payments, counter  *)
(* sales, returns and the register they are counted in                     *)
(* (apps/api/src/core-v2/routes.ts and apps/api/src/server.ts).            *)
(*                                                                         *)
(* The stock is that of one tracked product, every line asks for one unit  *)
(* at price one, so that totals and stock count the same unit.             *)
(*                                                                         *)
(* Covered: handlers that run at the same time, the reads they make before *)
(* they take a lock, the row locks they hold between two statements,       *)
(* requests sent again, handlers that stop half-way.                       *)
(*                                                                         *)
(* Not covered: variants, modifiers, discounts, other payment methods; the *)
(* table's own status and its calls for a waiter; retail orders, whose     *)
(* status an addition leaves alone; what the desktops push.                *)
(***************************************************************************)
EXTENDS Integers, Sequences, FiniteSets

CONSTANTS
    Handler,        \* requests the server works on at the same time
    Client,         \* client_id of the orders
    Addition,       \* client_id of the additions to an order
    Taps,           \* preparation statuses the kitchen sets
    Base,           \* stock at the beginning
    MaxStock,       \* bound: cancellations while the stock stays within it
    MaxSales,       \* bound: counter sales begin while there are fewer sales
    MaxSessions,    \* bound: register sessions opened
    MaxEntries      \* bound: entries of a return that name the same line

ASSUME ConstantsAssumption ==
    /\ Base \in Nat /\ MaxStock \in Nat /\ MaxSales \in Nat /\ MaxSessions \in Nat
    /\ MaxEntries \in Nat \ {0}
    /\ Taps \subseteq {"pending", "accepted", "preparing", "ready", "served", "cancelled"}
    /\ Client \cap Addition = {}

VARIABLES
    orders,     \* orders, in the order of their ids, with their order_items;
                \* noted: its creation left a stock movement
    sales,      \* sales, in the order of their ids; returned: its lines that came
                \* back, again: units that came back with a line already back
    sessions,   \* cash_register_sessions; counted: the sales expected_cash adds up
    stock,      \* products.stock
    moved,      \* sum of the product's stock_movements
    audit,      \* the additions audit_logs knows
    call        \* what each handler has read and which rows it has locked

vars == <<orders, sales, sessions, stock, moved, audit, call>>

Status == {"pending", "accepted", "preparing", "ready", "served", "completed", "cancelled"}
Ended == {"completed", "cancelled"}
Counter == 0        \* order_id of a counter sale: none

Order == [client : Client, noted : BOOLEAN, status : Status, paid : BOOLEAN,
          lines : Seq([by : Client \cup Addition, prep : Taps \cup {"pending"}])]
Sale == [order : Nat, total : Nat, lines : Nat, returned : Nat, again : Nat,
         session : Nat \ {0}]
Session == [open : BOOLEAN, counted : SUBSET Nat]

Idle == [op |-> "idle"]
Call ==
    {Idle}
    \cup [op : {"create"}, client : Client, byStaff : BOOLEAN]
    \cup [op : {"status"}, order : Nat, to : Status]
    \cup [op : {"tap"}, order : Nat]
    \cup [op : {"tapped"}, order : Nat, to : Status]
    \cup [op : {"pay"}, order : Nat, session : Nat \ {0}, total : Nat]
    \cup [op : {"sale"}, session : Nat \ {0}, stock : Nat]
    \cup [op : {"return"}, sale : Nat, entries : Nat \ {0}]

TypeOK ==
    /\ orders \in Seq(Order)
    /\ sales \in Seq(Sale)
    /\ sessions \in Seq(Session)
    /\ stock \in Nat
    /\ moved \in Int
    /\ audit \subseteq Addition
    /\ call \in [Handler -> Call]

Init ==
    /\ orders = <<>>
    /\ sales = <<>>
    /\ sessions = <<>>
    /\ stock = Base
    /\ moved = 0
    /\ audit = {}
    /\ call = [h \in Handler |-> Idle]

-----------------------------------------------------------------------------
(* Rows a handler has locked between two of its statements. *)

OrderFree(o) == \A h \in Handler : ~(call[h].op = "pay" /\ call[h].order = o)
\* Mutant: a return does not lock the sale.
SaleFreeAlways(i) == TRUE
SaleFree(i) == \A h \in Handler : ~(call[h].op = "return" /\ call[h].sale = i)
\* Mutant: a counter sale reads the product without FOR UPDATE.
ProductFreeAlways == TRUE
ProductFree == \A h \in Handler : call[h].op # "sale"
\* Mutant: a counter sale reads the session without FOR SHARE.
SessionFreeAlways == TRUE
SessionFree == \A h \in Handler : call[h].op # "sale"

Ids == DOMAIN orders
\* Mutant: the status alone tells that an order is over.
RunningByStatus(o) == orders[o].status \notin Ended
Running(o) == ~orders[o].paid /\ orders[o].status \notin Ended
Known(c) == \E o \in Ids : orders[o].client = c
\* Mutant: the look-up alone, without the index.
UniqueNowhere(c) == TRUE
\* The unique index of orders on the client_id.
UniqueClient(c) == ~Known(c)
Sold(o) == \E i \in DOMAIN sales : sales[i].order = o
Line(id) == [by |-> id, prep |-> "pending"]

Answer(h) == call' = [call EXCEPT ![h] = Idle]
Enter(h, c) == call[h] = Idle /\ call' = [call EXCEPT ![h] = c]
Move(n) == stock' = stock + n /\ moved' = moved + n

-----------------------------------------------------------------------------
(* Orders. *)

\* The client_id is looked up before the transaction: a known one is answered.
OrderRead(h, c, byStaff) ==
    /\ ~Known(c)
    /\ Enter(h, [op |-> "create", client |-> c, byStaff |-> byStaff])
    /\ UNCHANGED <<orders, sales, sessions, stock, moved, audit>>

\* The transaction, under the product's lock; another one with the same
\* client_id may have committed in between.  Staff may not add a second order
\* to a table in use; the QR menu may, and its order leaves no movement when
\* the business has no active owner, patron or admin to sign it.
CreateOrder(h, noted) ==
    LET c == call[h].client IN
    /\ call[h].op = "create"
    /\ call[h].byStaff => noted /\ \A o \in Ids : orders[o].status \in Ended
    /\ ProductFree
    /\ stock >= 1
    /\ UniqueClient(c)
    /\ orders' = Append(orders, [client |-> c, noted |-> noted, status |-> "pending",
                                 paid |-> FALSE, lines |-> <<Line(c)>>])
    /\ stock' = stock - 1
    /\ moved' = IF noted THEN moved - 1 ELSE moved
    /\ Answer(h)
    /\ UNCHANGED <<sales, sessions, audit>>

\* One transaction under the order's lock, taken by its first statement.
AppendItems(o, a) ==
    /\ OrderFree(o)
    /\ a \notin audit
    /\ Running(o)
    /\ ProductFree
    /\ stock >= 1
    /\ orders' = [orders EXCEPT ![o].lines = Append(@, Line(a)),
                                ![o].status = "pending"]
    /\ Move(-1)
    /\ audit' = audit \cup {a}
    /\ UNCHANGED <<sales, sessions, call>>

Follows == [accepted |-> "pending", preparing |-> "accepted", ready |-> "preparing", served |-> "ready"]

\* PATCH /api/orders/:id/status reads the order without a lock.
StatusRead(h, o, to) ==
    /\ Running(o)
    /\ to # "cancelled" => orders[o].status = Follows[to]
    /\ Enter(h, [op |-> "status", order |-> o, to |-> to])
    /\ UNCHANGED <<orders, sales, sessions, stock, moved, audit>>

\* The update does not look at the order again.
StatusWrite(h) ==
    /\ call[h].op = "status"
    /\ call[h].to # "cancelled"
    /\ OrderFree(call[h].order)
    /\ orders' = [orders EXCEPT ![call[h].order].status = call[h].to]
    /\ Answer(h)
    /\ UNCHANGED <<sales, sessions, stock, moved, audit>>

\* The cancellation does, under its lock, and puts every line back in stock.
CancelOrder(h) ==
    LET o == call[h].order IN
    /\ call[h].op = "status"
    /\ call[h].to = "cancelled"
    /\ OrderFree(o)
    /\ ~orders[o].paid
    /\ orders[o].status # "cancelled"
    /\ ProductFree
    /\ stock + Len(orders[o].lines) <= MaxStock
    /\ orders' = [orders EXCEPT ![o].status = "cancelled"]
    /\ Move(Len(orders[o].lines))
    /\ Answer(h)
    /\ UNCHANGED <<sales, sessions, audit>>

-----------------------------------------------------------------------------
(* The kitchen: three statements of their own, on whatever order it shows. *)

KitchenTap(h, o, l, s) ==
    /\ orders' = [orders EXCEPT ![o].lines[l].prep = s]
    /\ Enter(h, [op |-> "tap", order |-> o])
    /\ UNCHANGED <<sales, sessions, stock, moved, audit>>

Prepared(lines) ==
    LET All(S) == \A l \in DOMAIN lines : lines[l].prep \in S
    IN  IF All({"served", "cancelled"}) THEN "served"
        ELSE IF All({"ready", "served", "cancelled"}) THEN "ready"
        ELSE IF All({"pending", "ready", "served", "cancelled"}) THEN "pending"
        ELSE "preparing"

KitchenRead(h) ==
    /\ call[h].op = "tap"
    /\ call' = [call EXCEPT ![h] = [op |-> "tapped", order |-> call[h].order,
                                    to |-> Prepared(orders[call[h].order].lines)]]
    /\ UNCHANGED <<orders, sales, sessions, stock, moved, audit>>

KitchenWrite(h) ==
    /\ call[h].op = "tapped"
    /\ OrderFree(call[h].order)
    /\ orders' = [orders EXCEPT ![call[h].order].status = call[h].to]
    /\ Answer(h)
    /\ UNCHANGED <<sales, sessions, stock, moved, audit>>

-----------------------------------------------------------------------------
(* Payments, counter sales, returns. *)

\* The order is locked, the open session only read.
PayBegin(h, o, k) ==
    /\ OrderFree(o)
    /\ ~Sold(o)
    /\ sessions[k].open
    /\ Enter(h, [op |-> "pay", order |-> o, session |-> k, total |-> Len(orders[o].lines)])
    /\ UNCHANGED <<orders, sales, sessions, stock, moved, audit>>

PayCommit(h) ==
    LET o == call[h].order IN
    /\ call[h].op = "pay"
    /\ sales' = Append(sales, [order |-> o, total |-> call[h].total,
                               lines |-> Len(orders[o].lines), returned |-> 0, again |-> 0,
                               session |-> call[h].session])
    /\ orders' = [orders EXCEPT ![o].paid = TRUE, ![o].status = "completed"]
    /\ Answer(h)
    /\ UNCHANGED <<sessions, stock, moved, audit>>

\* The open session is locked for share, the product for update.
SaleBegin(h, k) ==
    /\ Len(sales) < MaxSales
    /\ sessions[k].open
    /\ ProductFree
    /\ stock >= 1
    /\ Enter(h, [op |-> "sale", session |-> k, stock |-> stock])
    /\ UNCHANGED <<orders, sales, sessions, stock, moved, audit>>

\* The stock written is the one read, less the quantity.
SaleCommit(h) ==
    /\ call[h].op = "sale"
    /\ sales' = Append(sales, [order |-> Counter, total |-> 1, lines |-> 1, returned |-> 0, again |-> 0,
                               session |-> call[h].session])
    /\ stock' = call[h].stock - 1
    /\ moved' = moved - 1
    /\ Answer(h)
    /\ UNCHANGED <<orders, sessions, audit>>

\* The sale is locked.  Each entry of the request is checked against what came
\* back before the request: entries that name the same line all pass.
ReturnBegin(h, i, n) ==
    /\ SaleFree(i)
    /\ sales[i].returned < sales[i].lines
    /\ Enter(h, [op |-> "return", sale |-> i, entries |-> n])
    /\ UNCHANGED <<orders, sales, sessions, stock, moved, audit>>

ReturnCommit(h) ==
    LET n == call[h].entries IN
    /\ call[h].op = "return"
    /\ ProductFree
    /\ sales' = [sales EXCEPT ![call[h].sale].returned = @ + 1,
                              ![call[h].sale].again = @ + n - 1]
    /\ Move(n)
    /\ Answer(h)
    /\ UNCHANGED <<orders, sessions, audit>>

-----------------------------------------------------------------------------
(* The register. *)

OpenRegister ==
    /\ Len(sessions) < MaxSessions
    /\ \A k \in DOMAIN sessions : ~sessions[k].open
    /\ sessions' = Append(sessions, [open |-> TRUE, counted |-> {}])
    /\ UNCHANGED <<orders, sales, stock, moved, audit, call>>

SalesOf(k) == {i \in DOMAIN sales : sales[i].session = k}

\* The session is locked for update while its sales and returns are added up.
CloseRegister(k) ==
    /\ sessions[k].open
    /\ SessionFree
    /\ sessions' = [sessions EXCEPT ![k] = [open |-> FALSE, counted |-> SalesOf(k)]]
    /\ UNCHANGED <<orders, sales, stock, moved, audit, call>>

\* A handler that stops rolls its transaction back; what it wrote on its own stays.
Stop(h) ==
    /\ call[h] # Idle
    /\ Answer(h)
    /\ UNCHANGED <<orders, sales, sessions, stock, moved, audit>>

-----------------------------------------------------------------------------
Ordering ==
    \/ \E h \in Handler, c \in Client, byStaff \in BOOLEAN : OrderRead(h, c, byStaff)
    \/ \E h \in Handler, noted \in BOOLEAN : CreateOrder(h, noted)
    \/ \E o \in Ids, a \in Addition : AppendItems(o, a)
    \/ \E h \in Handler, o \in Ids, to \in DOMAIN Follows \cup {"cancelled"} : StatusRead(h, o, to)
    \/ \E h \in Handler : StatusWrite(h)
    \/ \E h \in Handler : CancelOrder(h)

Kitchen ==
    \/ \E h \in Handler, o \in Ids, s \in Taps :
            \E l \in DOMAIN orders[o].lines : KitchenTap(h, o, l, s)
    \/ \E h \in Handler : KitchenRead(h)
    \/ \E h \in Handler : KitchenWrite(h)

Selling ==
    \/ \E h \in Handler, o \in Ids, k \in DOMAIN sessions : PayBegin(h, o, k)
    \/ \E h \in Handler : PayCommit(h)
    \/ \E h \in Handler, k \in DOMAIN sessions : SaleBegin(h, k)
    \/ \E h \in Handler : SaleCommit(h)
    \/ \E h \in Handler, i \in DOMAIN sales, n \in 1 .. MaxEntries : ReturnBegin(h, i, n)
    \/ \E h \in Handler : ReturnCommit(h)

Register ==
    \/ OpenRegister
    \/ \E k \in DOMAIN sessions : CloseRegister(k)

Next == Ordering \/ Kitchen \/ Selling \/ Register \/ \E h \in Handler : Stop(h)

Spec == Init /\ [][Next]_vars

-----------------------------------------------------------------------------
(* Properties. *)

\* An order has at most one sale, for the total of all the lines it will
\* ever have: nothing is added to an order while it is being paid or after,
\* even when a late status or the kitchen takes it out of "completed".
PaidInFull ==
    \A i, j \in DOMAIN sales :
        sales[i].order # Counter =>
            /\ sales[i].total = Len(orders[sales[i].order].lines)
            /\ sales[i].lines = Len(orders[sales[i].order].lines)
            /\ sales[i].order = sales[j].order => i = j

\* A request sent again, or by two tabs at once, asks for its goods once.
RequestedOnce ==
    \A o, p \in Ids :
        \A l \in DOMAIN orders[o].lines, m \in DOMAIN orders[p].lines :
            orders[o].lines[l].by = orders[p].lines[m].by => o = p /\ l = m

Unnoted == {o \in Ids : ~orders[o].noted}

\* The stock of the product is what its movements say, whatever runs between
\* the read and the write of a counter sale: no update is lost.  Short of them
\* are only the orders of the QR menu whose creation no user could sign.
StockIsItsMovements == stock = Base + moved - Cardinality(Unnoted)

\* Requests at the same time do not bring the same line back: beyond what was
\* sold comes back only what a single request names more than once.
ReturnsWithinSale == \A i \in DOMAIN sales : sales[i].returned <= sales[i].lines

\* A closed register expected the cash of all its counter sales: none was
\* recorded in a session after its closing had been added up.
ClosingCountsItsSales ==
    \A k \in DOMAIN sessions : ~sessions[k].open =>
        \A i \in SalesOf(k) : sales[i].order = Counter => i \in sessions[k].counted

=============================================================================
