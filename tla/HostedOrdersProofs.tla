------------------------- MODULE HostedOrdersProofs -------------------------
(***************************************************************************)
(* Promises of HostedOrders for every number of handlers, orders, sales    *)
(* and sessions: no update of the stock is lost, an order is paid once and *)
(* in full, a request takes its goods once, returns at the same time do    *)
(* not bring a line back twice, a closing counts its counter sales.  Each  *)
(* is proved over an invariant that adds what the handlers have read to    *)
(* what the tables hold.                                                   *)
(***************************************************************************)
EXTENDS HostedOrders, SequenceTheorems, FiniteSetTheorems, TLAPS

-----------------------------------------------------------------------------
(* Sequences *)

LEMMA Changed ==
    ASSUME NEW S, NEW s \in Seq(S), NEW i \in DOMAIN s, NEW e \in S
    PROVE  /\ [s EXCEPT ![i] = e] \in Seq(S)
           /\ DOMAIN [s EXCEPT ![i] = e] = DOMAIN s
           /\ Len([s EXCEPT ![i] = e]) = Len(s)
<1>1. i \in 1 .. Len(s) /\ DOMAIN s = 1 .. Len(s)
  OBVIOUS
<1> QED
  BY <1>1, ExceptSeq

LEMMA Added ==
    ASSUME NEW S, NEW s \in Seq(S), NEW e \in S
    PROVE  /\ Append(s, e) \in Seq(S)
           /\ DOMAIN s = 1 .. Len(s) /\ Len(s) \in Nat
           /\ Len(Append(s, e)) = Len(s) + 1
           /\ DOMAIN Append(s, e) = DOMAIN s \cup {Len(s) + 1}
           /\ \A i \in DOMAIN s : Append(s, e)[i] = s[i]
           /\ Append(s, e)[Len(s) + 1] = e
  OBVIOUS

-----------------------------------------------------------------------------
(* Types, references, and the lock on the product *)

LineType == [by : Client \cup Addition, prep : Taps \cup {"pending"}]

References ==
    /\ \A h \in Handler :
        /\ call[h].op \in {"status", "tap", "tapped", "pay"} => call[h].order \in Ids
        /\ call[h].op = "return" => call[h].sale \in DOMAIN sales
    /\ \A i \in DOMAIN sales : sales[i].order \in Ids \cup {Counter}

\* One counter sale at a time works on the product, and knows its stock.
ProductHeld ==
    \A h \in Handler : call[h].op = "sale" =>
        /\ call[h].stock = stock /\ stock >= 1
        /\ \A g \in Handler : call[g].op = "sale" => g = h

Base0 == TypeOK /\ References /\ ProductHeld /\ StockIsItsMovements

\* What a call leaves of the tables' types.
LEMMA Calls ==
    ASSUME TypeOK, NEW h \in Handler, NEW c \in Call, call' = [call EXCEPT ![h] = c]
    PROVE  /\ call' \in [Handler -> Call]
           /\ call'[h] = c
           /\ \A g \in Handler : g # h => call'[g] = call[g]
  BY DEF TypeOK

LEMMA OrderChanged ==
    ASSUME TypeOK, NEW o \in Ids, NEW r \in Order, orders' = [orders EXCEPT ![o] = r]
    PROVE  /\ orders' \in Seq(Order)
           /\ DOMAIN orders' = Ids
           /\ orders'[o] = r
           /\ \A p \in Ids : p # o => orders'[p] = orders[p]
<1>1. orders \in Seq(Order) /\ o \in DOMAIN orders
  BY DEF TypeOK, Ids
<1>2. orders' \in Seq(Order) /\ DOMAIN orders' = DOMAIN orders
  BY <1>1, Changed
<1> QED
  BY <1>1, <1>2 DEF Ids

LEMMA Fields ==
    ASSUME TypeOK, NEW o \in Ids
    PROVE  /\ orders[o] \in Order
           /\ orders[o] = [client |-> orders[o].client, noted |-> orders[o].noted, status |-> orders[o].status,
                           paid |-> orders[o].paid, lines |-> orders[o].lines]
           /\ orders[o].lines \in Seq(LineType)
           /\ Len(orders[o].lines) \in Nat
<1>1. orders[o] \in Order
  BY DEF TypeOK, Ids
<1> QED
  BY <1>1 DEF Order, LineType

-----------------------------------------------------------------------------
(* What the steps do to an order *)

\* Every order but o is what it was, and so are o's request and its lines.
Keeps(o) ==
    /\ orders' \in Seq(Order)
    /\ DOMAIN orders' = Ids
    /\ \A p \in Ids : p # o => orders'[p] = orders[p]
    /\ orders'[o].client = orders[o].client
    /\ orders'[o].noted = orders[o].noted

LEMMA StatusSet ==
    ASSUME TypeOK, NEW o \in Ids, NEW s \in Status, orders' = [orders EXCEPT ![o].status = s]
    PROVE  /\ Keeps(o)
           /\ orders'[o].paid = orders[o].paid
           /\ orders'[o].lines = orders[o].lines
<1> DEFINE r == [orders[o] EXCEPT !.status = s]
<1>1. r \in Order /\ r.client = orders[o].client /\ r.noted = orders[o].noted /\ r.paid = orders[o].paid /\ r.lines = orders[o].lines
  BY Fields DEF Order
<1>2. orders' = [orders EXCEPT ![o] = r]
  OBVIOUS
<1> QED
  BY <1>1, <1>2, OrderChanged DEF Keeps

LEMMA PaidSet ==
    ASSUME TypeOK, NEW o \in Ids,
           orders' = [orders EXCEPT ![o].paid = TRUE, ![o].status = "completed"]
    PROVE  /\ Keeps(o)
           /\ orders'[o].paid
           /\ orders'[o].lines = orders[o].lines
<1> DEFINE r == [orders[o] EXCEPT !.paid = TRUE, !.status = "completed"]
<1>1. r \in Order /\ r.client = orders[o].client /\ r.noted = orders[o].noted /\ r.paid /\ r.lines = orders[o].lines
  BY Fields DEF Order, Status
<1>2. orders' = [orders EXCEPT ![o] = r]
  BY Fields DEF TypeOK
<1> QED
  BY <1>1, <1>2, OrderChanged DEF Keeps

LEMMA LineAdded ==
    ASSUME TypeOK, NEW o \in Ids, NEW a \in Addition,
           orders' = [orders EXCEPT ![o].lines = Append(@, Line(a)), ![o].status = "pending"]
    PROVE  /\ Keeps(o)
           /\ orders'[o].paid = orders[o].paid
           /\ orders'[o].lines = Append(orders[o].lines, Line(a))
<1> DEFINE x == Append(orders[o].lines, Line(a))
<1> DEFINE r == [orders[o] EXCEPT !.lines = x, !.status = "pending"]
<1>1. Line(a) \in LineType /\ orders[o].lines \in Seq(LineType)
  BY Fields DEF Line, LineType
<1>2. x \in Seq(LineType)
  BY <1>1
<1>3. r \in Order /\ r.client = orders[o].client /\ r.noted = orders[o].noted /\ r.paid = orders[o].paid /\ r.lines = x
  <2> HIDE DEF x
  <2> QED
    BY <1>2, Fields DEF Order, Status, LineType
<1>4. orders' = [orders EXCEPT ![o] = r]
  BY Fields DEF TypeOK
<1> HIDE DEF x, r
<1>5. orders'[o] = r /\ Keeps(o)
  BY <1>3, <1>4, OrderChanged DEF Keeps
<1> QED
  BY <1>3, <1>5 DEF x

LEMMA LineSet ==
    ASSUME TypeOK, NEW o \in Ids, NEW l \in DOMAIN orders[o].lines, NEW s \in Taps,
           orders' = [orders EXCEPT ![o].lines[l].prep = s]
    PROVE  /\ Keeps(o)
           /\ orders'[o].paid = orders[o].paid
           /\ DOMAIN orders'[o].lines = DOMAIN orders[o].lines
           /\ Len(orders'[o].lines) = Len(orders[o].lines)
           /\ \A m \in DOMAIN orders[o].lines : orders'[o].lines[m].by = orders[o].lines[m].by
<1> DEFINE y == [orders[o].lines[l] EXCEPT !.prep = s]
<1> DEFINE x == [orders[o].lines EXCEPT ![l] = y]
<1> DEFINE r == [orders[o] EXCEPT !.lines = x]
<1>0. orders[o].lines \in Seq(LineType)
  BY Fields
<1>1. orders[o].lines[l] \in LineType
  BY <1>0
<1>2. y \in LineType /\ y.by = orders[o].lines[l].by
  BY <1>1 DEF LineType
<1>3. /\ x \in Seq(LineType)
      /\ DOMAIN x = DOMAIN orders[o].lines
      /\ Len(x) = Len(orders[o].lines)
  <2> HIDE DEF y
  <2> QED
    BY <1>0, <1>2, Changed
<1>4. \A m \in DOMAIN orders[o].lines : x[m].by = orders[o].lines[m].by
  <2> HIDE DEF y
  <2> QED
    BY <1>0, <1>2
<1>5. orders' = [orders EXCEPT ![o] = r]
  BY Fields DEF TypeOK
<1> HIDE DEF x
<1>6. r \in Order /\ r.client = orders[o].client /\ r.noted = orders[o].noted /\ r.paid = orders[o].paid /\ r.lines = x
  BY <1>3, Fields DEF Order, LineType
<1> HIDE DEF r
<1>7. orders'[o] = r /\ Keeps(o)
  BY <1>5, <1>6, OrderChanged DEF Keeps
<1> QED
  BY <1>3, <1>4, <1>6, <1>7

\* The order a request makes.
Made(c, noted) == [client |-> c, noted |-> noted, status |-> "pending",
                   paid |-> FALSE, lines |-> <<Line(c)>>]

LEMMA MadeIs ==
    ASSUME NEW c \in Client, NEW noted \in BOOLEAN
    PROVE  /\ Made(c, noted) \in Order
           /\ Made(c, noted).client = c
           /\ Made(c, noted).noted = noted
           /\ DOMAIN Made(c, noted).lines = {1}
           /\ Made(c, noted).lines[1].by = c
<1>1. Line(c) \in LineType /\ Line(c).by = c
  BY DEF Line, LineType
<1> DEFINE x == <<Line(c)>>
<1>2. x \in Seq(LineType) /\ DOMAIN x = {1} /\ x[1] = Line(c)
  BY <1>1
<1> HIDE DEF x
<1>3. Made(c, noted) = [client |-> c, noted |-> noted, status |-> "pending",
                        paid |-> FALSE, lines |-> x]
  BY DEF Made, x
<1> QED
  BY <1>1, <1>2, <1>3 DEF Order, Status, LineType

LEMMA OrderAdded ==
    ASSUME TypeOK, NEW r \in Order, orders' = Append(orders, r)
    PROVE  \E n \in Nat \ {0} :
           /\ n \notin Ids
           /\ orders' \in Seq(Order)
           /\ DOMAIN orders' = Ids \cup {n}
           /\ \A p \in Ids : orders'[p] = orders[p]
           /\ orders'[n] = r
<1>1. orders \in Seq(Order)
  BY DEF TypeOK
<1>2. WITNESS Len(orders) + 1 \in Nat \ {0}
<1> QED
  BY <1>1, Added DEF Ids

LEMMA SaleAdded ==
    ASSUME TypeOK, NEW r \in Sale, sales' = Append(sales, r)
    PROVE  \E n \in Nat :
           /\ n \notin DOMAIN sales
           /\ sales' \in Seq(Sale)
           /\ DOMAIN sales' = DOMAIN sales \cup {n}
           /\ \A i \in DOMAIN sales : sales'[i] = sales[i]
           /\ sales'[n] = r
<1>1. sales \in Seq(Sale)
  BY DEF TypeOK
<1>2. WITNESS Len(sales) + 1 \in Nat
<1> QED
  BY <1>1, Added

LEMMA SaleReturned ==
    ASSUME TypeOK, NEW h \in Handler, call[h].op = "return", call[h].sale \in DOMAIN sales,
           ReturnCommit(h)
    PROVE  /\ call[h].entries \in Nat \ {0}
           /\ sales' \in Seq(Sale)
           /\ DOMAIN sales' = DOMAIN sales
           /\ \A j \in DOMAIN sales :
                /\ sales'[j].order = sales[j].order
                /\ sales'[j].total = sales[j].total
                /\ sales'[j].lines = sales[j].lines
                /\ sales'[j].session = sales[j].session
                /\ sales'[j].returned = IF j = call[h].sale THEN sales[j].returned + 1
                                                          ELSE sales[j].returned
<1> DEFINE i == call[h].sale
           k == call[h].entries
           n == sales[i].returned + 1
           m == sales[i].again + k - 1
           r == [sales[i] EXCEPT !.returned = n, !.again = m]
<1>1. sales \in Seq(Sale) /\ sales[i] \in Sale
  BY DEF TypeOK
<1>2. k \in Nat \ {0}
  <2>1. call[h] \in Call
    BY DEF TypeOK
  <2> QED
    BY <2>1 DEF Call, Idle
<1>3. n \in Nat /\ m \in Nat
  <2>1. \A x \in Sale : x.returned \in Nat /\ x.again \in Nat
    BY DEF Sale
  <2>2. sales[i].returned \in Nat /\ sales[i].again \in Nat
    BY <1>1, <2>1
  <2> QED
    BY <1>2, <2>2
<1>4. sales' = [sales EXCEPT ![i] = r]
  BY <1>1 DEF ReturnCommit
<1>5. /\ r \in Sale /\ r.order = sales[i].order /\ r.total = sales[i].total
      /\ r.lines = sales[i].lines /\ r.session = sales[i].session /\ r.returned = n
  <2> HIDE DEF n, m
  <2> QED
    BY <1>1, <1>3 DEF Sale
<1> HIDE DEF r
<1>6. DOMAIN sales = 1 .. Len(sales) /\ i \in DOMAIN sales
  BY <1>1
<1> QED
  BY <1>1, <1>2, <1>4, <1>5, <1>6, Changed

-----------------------------------------------------------------------------
(* No update is lost *)

\* The call of one handler at most changes, to c.
Turn(h, c) == call' = call \/ call' = [call EXCEPT ![h] = c]

LEMMA HeldKept ==
    ASSUME TypeOK, ProductHeld, stock' = stock, NEW h \in Handler, NEW c \in Call,
           c.op # "sale", Turn(h, c)
    PROVE  ProductHeld'
  BY Calls DEF ProductHeld, Turn

LEMMA HeldByNone ==
    ASSUME TypeOK, ProductFree, NEW h \in Handler, NEW c \in Call, c.op # "sale", Turn(h, c)
    PROVE  ProductHeld'
  BY Calls DEF ProductHeld, ProductFree, Turn

LEMMA ReferencesKept ==
    ASSUME TypeOK, References, NEW h \in Handler, NEW c \in Call, Turn(h, c),
           Ids \subseteq Ids', DOMAIN sales \subseteq DOMAIN sales',
           \A i \in DOMAIN sales : sales'[i].order = sales[i].order,
           \A i \in DOMAIN sales' \ DOMAIN sales : sales'[i].order \in Ids \cup {Counter},
           c.op \in {"status", "tap", "tapped", "pay"} => c.order \in Ids,
           c.op = "return" => c.sale \in DOMAIN sales
    PROVE  References'
<1>1. \A g \in Handler :
        /\ call'[g].op \in {"status", "tap", "tapped", "pay"} => call'[g].order \in Ids'
        /\ call'[g].op = "return" => call'[g].sale \in DOMAIN sales'
  BY Calls DEF References, Turn
<1>2. \A i \in DOMAIN sales' : sales'[i].order \in Ids' \cup {Counter}
  BY DEF References
<1> QED
  BY <1>1, <1>2 DEF References

LEMMA IdleCall == Idle \in Call /\ Idle.op = "idle"
  BY DEF Idle, Call

LEMMA OrderIds ==
    ASSUME TypeOK
    PROVE  Ids \subseteq Nat \ {0}
<1>1. orders \in Seq(Order)
  BY DEF TypeOK
<1> QED
  BY <1>1 DEF Ids

THEOREM BaseInit == Init => Base0
<1> SUFFICES ASSUME Init PROVE Base0
  OBVIOUS
<1>1. TypeOK
  BY ConstantsAssumption, IdleCall DEF Init, TypeOK
<1>2. References /\ ProductHeld
  BY IdleCall DEF Init, References, ProductHeld, Idle
<1>3. StockIsItsMovements
  <2>1. Unnoted = {}
    BY DEF Init, Unnoted, Ids
  <2> QED
    BY <2>1, FS_EmptySet, ConstantsAssumption DEF Init, StockIsItsMovements
<1> QED
  BY <1>1, <1>2, <1>3 DEF Base0

LEMMA UnnotedFinite ==
    ASSUME TypeOK
    PROVE  IsFiniteSet(Unnoted) /\ Cardinality(Unnoted) \in Nat
<1>1. orders \in Seq(Order)
  BY DEF TypeOK
<1>2. Ids = 1 .. Len(orders) /\ Len(orders) \in Nat
  BY <1>1 DEF Ids
<1>3. IsFiniteSet(Ids)
  BY <1>2, FS_Interval
<1>4. IsFiniteSet(Unnoted)
  BY <1>3, FS_Subset DEF Unnoted
<1> QED
  BY <1>4, FS_CardinalityType

LEMMA UnnotedKept ==
    ASSUME NEW o \in Ids, Keeps(o)
    PROVE  Unnoted' = Unnoted
  BY DEF Keeps, Unnoted, Ids

\* The stock and its movements go together, wherever Move is used.
LEMMA Moved ==
    ASSUME TypeOK, StockIsItsMovements, Unnoted' = Unnoted,
           NEW n \in Int, stock + n >= 0, Move(n)
    PROVE  stock' \in Nat /\ moved' \in Int /\ StockIsItsMovements'
  BY ConstantsAssumption, UnnotedFinite DEF TypeOK, StockIsItsMovements, Move

LEMMA StockUntouched ==
    ASSUME StockIsItsMovements, Unnoted' = Unnoted, UNCHANGED <<stock, moved>>
    PROVE  StockIsItsMovements'
  BY DEF StockIsItsMovements

LEMMA OrderReadBase ==
    ASSUME Base0, NEW h \in Handler, NEW x \in Client, NEW byStaff \in BOOLEAN,
           OrderRead(h, x, byStaff)
    PROVE  Base0'
<1> DEFINE c == [op |-> "create", client |-> x, byStaff |-> byStaff]
<1> USE DEF Base0, OrderRead, Enter
<1>1. c \in Call /\ c.op = "create" /\ Turn(h, c)
  BY DEF Call, Turn
<1> HIDE DEF c
<1>2. TypeOK'
  BY <1>1, Calls DEF TypeOK, Turn
<1>3. References'
  BY <1>1, ReferencesKept DEF Ids
<1>4. ProductHeld'
  BY <1>1, HeldKept
<1>5. StockIsItsMovements'
  BY StockUntouched DEF Unnoted, Ids
<1> QED
  BY <1>2, <1>3, <1>4, <1>5

\* The order a request that is being worked on makes.
LEMMA Creates ==
    ASSUME TypeOK, NEW h \in Handler, NEW noted \in BOOLEAN, CreateOrder(h, noted)
    PROVE  /\ call[h].client \in Client
           /\ orders' = Append(orders, Made(call[h].client, noted))
           /\ call' = [call EXCEPT ![h] = Idle]
<1>1. call[h] \in Call /\ call[h].op = "create"
  BY DEF TypeOK, CreateOrder
<1>2. call[h].client \in Client
  BY <1>1 DEF Call, Idle
<1> QED
  BY <1>2 DEF CreateOrder, Made, Answer

LEMMA CreateOrderBase ==
    ASSUME Base0, NEW h \in Handler, NEW noted \in BOOLEAN, CreateOrder(h, noted)
    PROVE  Base0'
<1> DEFINE r == Made(call[h].client, noted)
<1> USE DEF Base0
<1>1. r \in Order /\ r.noted = noted /\ orders' = Append(orders, r)
  BY Creates, MadeIs
<1> HIDE DEF r
<1>2. PICK n \in Nat \ {0} : /\ n \notin Ids
                             /\ orders' \in Seq(Order)
                             /\ DOMAIN orders' = Ids \cup {n}
                             /\ \A p \in Ids : orders'[p] = orders[p]
                             /\ orders'[n] = r
  BY <1>1, OrderAdded
<1>3. /\ stock >= 1 /\ stock' = stock - 1
      /\ moved' = IF noted THEN moved - 1 ELSE moved
      /\ UNCHANGED <<sales, sessions, audit>>
      /\ ProductFree
  BY DEF CreateOrder
<1>4. stock' \in Nat /\ moved' \in Int
  BY <1>3 DEF TypeOK
<1>5. StockIsItsMovements'
  <2>1. Unnoted' = IF noted THEN Unnoted ELSE Unnoted \cup {n}
    BY <1>1, <1>2 DEF Unnoted, Ids
  <2>2. n \notin Unnoted
    BY <1>2 DEF Unnoted
  <2>3. Cardinality(Unnoted') = IF noted THEN Cardinality(Unnoted) ELSE Cardinality(Unnoted) + 1
    BY <2>1, <2>2, UnnotedFinite, FS_AddElement
  <2> QED
    BY <1>3, <2>3, ConstantsAssumption, UnnotedFinite DEF StockIsItsMovements, TypeOK
<1>6. TypeOK'
  BY <1>2, <1>3, <1>4, Creates, IdleCall, Calls DEF TypeOK
<1>7. References'
  BY <1>2, <1>3, Creates, IdleCall, ReferencesKept DEF Ids, Turn
<1>8. ProductHeld'
  BY <1>3, Creates, IdleCall, HeldByNone DEF Turn
<1> QED
  BY <1>5, <1>6, <1>7, <1>8

LEMMA AppendItemsBase ==
    ASSUME Base0, NEW o \in Ids, NEW a \in Addition, AppendItems(o, a)
    PROVE  Base0'
<1> USE DEF Base0, AppendItems
<1>2. Keeps(o)
  BY LineAdded
<1>1. stock' \in Nat /\ moved' \in Int /\ StockIsItsMovements'
  BY <1>2, UnnotedKept, Moved DEF TypeOK
<1>3. TypeOK'
  BY <1>1, <1>2 DEF TypeOK, Keeps
<1>4. References'
  BY <1>2 DEF References, Ids, Keeps
<1>5. ProductHeld'
  BY DEF ProductHeld, ProductFree
<1> QED
  BY <1>1, <1>3, <1>4, <1>5

LEMMA StatusReadBase ==
    ASSUME Base0, NEW h \in Handler, NEW o \in Ids, NEW to \in DOMAIN Follows \cup {"cancelled"},
           StatusRead(h, o, to)
    PROVE  Base0'
<1> DEFINE c == [op |-> "status", order |-> o, to |-> to]
<1> USE DEF Base0, StatusRead, Enter
<1>1. c \in Call /\ c.op = "status" /\ c.order \in Ids /\ Turn(h, c)
  BY OrderIds DEF Call, Status, Follows, Turn
<1> HIDE DEF c
<1>2. TypeOK'
  BY <1>1, Calls DEF TypeOK, Turn
<1>3. References'
  BY <1>1, ReferencesKept DEF Ids
<1>4. ProductHeld'
  BY <1>1, HeldKept
<1>5. StockIsItsMovements'
  BY StockUntouched DEF Unnoted, Ids
<1> QED
  BY <1>2, <1>3, <1>4, <1>5

LEMMA StatusWriteBase ==
    ASSUME Base0, NEW h \in Handler, StatusWrite(h)
    PROVE  Base0'
<1> USE DEF Base0, StatusWrite, Answer
<1>1. call[h].order \in Ids /\ call[h].to \in Status
  BY DEF TypeOK, References, Call, Idle
<1>2. Keeps(call[h].order)
  BY <1>1, StatusSet
<1>3. TypeOK'
  BY <1>2, IdleCall, Calls DEF TypeOK, Keeps
<1>4. References'
  BY <1>2, IdleCall, ReferencesKept DEF Ids, Keeps, Turn
<1>5. ProductHeld'
  BY IdleCall, HeldKept DEF Turn
<1>6. StockIsItsMovements'
  BY <1>1, <1>2, UnnotedKept, StockUntouched
<1> QED
  BY <1>3, <1>4, <1>5, <1>6

LEMMA KitchenWriteBase ==
    ASSUME Base0, NEW h \in Handler, KitchenWrite(h)
    PROVE  Base0'
<1> USE DEF Base0, KitchenWrite, Answer
<1>1. call[h].order \in Ids /\ call[h].to \in Status
  BY DEF TypeOK, References, Call, Idle
<1>2. Keeps(call[h].order)
  BY <1>1, StatusSet
<1>3. TypeOK'
  BY <1>2, IdleCall, Calls DEF TypeOK, Keeps
<1>4. References'
  BY <1>2, IdleCall, ReferencesKept DEF Ids, Keeps, Turn
<1>5. ProductHeld'
  BY IdleCall, HeldKept DEF Turn
<1>6. StockIsItsMovements'
  BY <1>1, <1>2, UnnotedKept, StockUntouched
<1> QED
  BY <1>3, <1>4, <1>5, <1>6

LEMMA CancelOrderBase ==
    ASSUME Base0, NEW h \in Handler, CancelOrder(h)
    PROVE  Base0'
<1> USE DEF Base0, CancelOrder, Answer
<1>1. call[h].order \in Ids
  BY DEF References
<1>2. Keeps(call[h].order)
  BY <1>1, StatusSet DEF Status
<1>3. stock' \in Nat /\ moved' \in Int /\ StockIsItsMovements'
  <2>1. Len(orders[call[h].order].lines) \in Nat
    BY <1>1, Fields
  <2>2. Move(Len(orders[call[h].order].lines))
    OBVIOUS
  <2>3. TypeOK /\ StockIsItsMovements /\ stock \in Nat /\ Unnoted' = Unnoted
    BY <1>1, <1>2, UnnotedKept DEF TypeOK
  <2> HIDE DEF CancelOrder, Base0
  <2> DEFINE n == Len(orders[call[h].order].lines)
  <2> HIDE DEF n
  <2> QED
    BY <2>1, <2>2, <2>3, Moved DEF n
<1>4. TypeOK'
  BY <1>2, <1>3, IdleCall, Calls DEF TypeOK, Keeps
<1>5. References'
  BY <1>2, IdleCall, ReferencesKept DEF Ids, Keeps, Turn
<1>6. ProductHeld'
  BY IdleCall, HeldByNone DEF Turn
<1> QED
  BY <1>3, <1>4, <1>5, <1>6

LEMMA KitchenTapBase ==
    ASSUME Base0, NEW h \in Handler, NEW o \in Ids, NEW s \in Taps,
           NEW l \in DOMAIN orders[o].lines, KitchenTap(h, o, l, s)
    PROVE  Base0'
<1> DEFINE c == [op |-> "tap", order |-> o]
<1> USE DEF Base0, KitchenTap, Enter
<1>1. c \in Call /\ c.op = "tap" /\ c.order \in Ids /\ Turn(h, c)
  BY OrderIds DEF Call, Turn
<1> HIDE DEF c
<1>2. Keeps(o)
  BY LineSet
<1>3. TypeOK'
  BY <1>1, <1>2, Calls DEF TypeOK, Keeps, Turn
<1>4. References'
  BY <1>1, <1>2, ReferencesKept DEF Ids, Keeps
<1>5. ProductHeld'
  BY <1>1, HeldKept
<1>6. StockIsItsMovements'
  BY <1>2, UnnotedKept, StockUntouched
<1> QED
  BY <1>3, <1>4, <1>5, <1>6

LEMMA KitchenReadBase ==
    ASSUME Base0, NEW h \in Handler, KitchenRead(h)
    PROVE  Base0'
<1> DEFINE c == [op |-> "tapped", order |-> call[h].order,
                 to |-> Prepared(orders[call[h].order].lines)]
<1> USE DEF Base0, KitchenRead
<1>1. call[h].order \in Ids /\ Prepared(orders[call[h].order].lines) \in Status
  BY DEF References, Prepared, Status
<1>2. c \in Call /\ c.op = "tapped" /\ c.order \in Ids /\ Turn(h, c)
  BY <1>1, OrderIds DEF Call, Turn
<1> HIDE DEF c
<1>3. TypeOK'
  BY <1>2, Calls DEF TypeOK, Turn
<1>4. References'
  BY <1>2, ReferencesKept DEF Ids
<1>5. ProductHeld'
  BY <1>2, HeldKept
<1>6. StockIsItsMovements'
  BY StockUntouched DEF Unnoted, Ids
<1> QED
  BY <1>3, <1>4, <1>5, <1>6

LEMMA PayBeginBase ==
    ASSUME Base0, NEW h \in Handler, NEW o \in Ids, NEW k \in DOMAIN sessions, PayBegin(h, o, k)
    PROVE  Base0'
<1> DEFINE c == [op |-> "pay", order |-> o, session |-> k, total |-> Len(orders[o].lines)]
<1> USE DEF Base0, PayBegin, Enter
<1>1. k \in Nat \ {0} /\ Len(orders[o].lines) \in Nat
  BY Fields DEF TypeOK
<1>2. c \in Call /\ c.op = "pay" /\ c.order \in Ids /\ Turn(h, c)
  BY <1>1, OrderIds DEF Call, Turn
<1> HIDE DEF c
<1>3. TypeOK'
  BY <1>2, Calls DEF TypeOK, Turn
<1>4. References'
  BY <1>2, ReferencesKept DEF Ids
<1>5. ProductHeld'
  BY <1>2, HeldKept
<1>6. StockIsItsMovements'
  BY StockUntouched DEF Unnoted, Ids
<1> QED
  BY <1>3, <1>4, <1>5, <1>6

LEMMA PayCommitBase ==
    ASSUME Base0, NEW h \in Handler, PayCommit(h)
    PROVE  Base0'
<1> DEFINE o == call[h].order
<1> DEFINE r == [order |-> o, total |-> call[h].total, lines |-> Len(orders[o].lines),
                 returned |-> 0, again |-> 0, session |-> call[h].session]
<1> USE DEF Base0, PayCommit, Answer
<1>1. o \in Ids /\ o \in Nat /\ Len(orders[o].lines) \in Nat
  BY OrderIds, Fields DEF References
<1>2. r \in Sale /\ r.order \in Ids
  <2>1. call[h] \in Call /\ call[h].op = "pay"
    BY DEF TypeOK
  <2>2. call[h].total \in Nat /\ call[h].session \in Nat \ {0}
    BY <2>1 DEF Call, Idle
  <2> QED
    BY <1>1, <2>2 DEF Sale
<1>3. Keeps(o)
  BY <1>1, PaidSet
<1>4. sales' = Append(sales, r)
  OBVIOUS
<1> HIDE DEF r, o
<1>5. PICK n \in Nat : /\ sales' \in Seq(Sale)
                       /\ DOMAIN sales' = DOMAIN sales \cup {n}
                       /\ \A i \in DOMAIN sales : sales'[i] = sales[i]
                       /\ sales'[n] = r
  BY <1>2, <1>4, SaleAdded
<1>6. TypeOK'
  BY <1>3, <1>5, IdleCall, Calls DEF TypeOK, Keeps
<1>7. References'
  BY <1>2, <1>3, <1>5, IdleCall, ReferencesKept DEF Ids, Keeps, Turn
<1>8. ProductHeld'
  BY IdleCall, HeldKept DEF Turn
<1>9. StockIsItsMovements'
  BY <1>1, <1>3, UnnotedKept, StockUntouched
<1> QED
  BY <1>6, <1>7, <1>8, <1>9

LEMMA SaleBeginBase ==
    ASSUME Base0, NEW h \in Handler, NEW k \in DOMAIN sessions, SaleBegin(h, k)
    PROVE  Base0'
<1> DEFINE c == [op |-> "sale", session |-> k, stock |-> stock]
<1> USE DEF Base0, SaleBegin, Enter
<1>1. k \in Nat \ {0} /\ stock \in Nat
  BY DEF TypeOK
<1>2. c \in Call /\ c.op = "sale" /\ c.stock = stock /\ Turn(h, c)
  BY <1>1 DEF Call, Turn
<1> HIDE DEF c
<1>3. TypeOK'
  BY <1>2, Calls DEF TypeOK, Turn
<1>4. References'
  BY <1>2, ReferencesKept DEF Ids
<1>5. ProductHeld'
  BY <1>2, Calls DEF ProductHeld, ProductFree, Turn
<1>6. StockIsItsMovements'
  BY StockUntouched DEF Unnoted, Ids
<1> QED
  BY <1>3, <1>4, <1>5, <1>6

LEMMA SaleCommitBase ==
    ASSUME Base0, NEW h \in Handler, SaleCommit(h)
    PROVE  Base0'
<1> DEFINE r == [order |-> Counter, total |-> 1, lines |-> 1, returned |-> 0, again |-> 0,
                 session |-> call[h].session]
<1> USE DEF Base0, SaleCommit, Answer
<1>1. r \in Sale /\ r.order = Counter
  <2>1. call[h] \in Call /\ call[h].op = "sale"
    BY DEF TypeOK
  <2>2. call[h].session \in Nat \ {0}
    BY <2>1 DEF Call, Idle
  <2> QED
    BY <2>2 DEF Sale, Counter
<1>2. sales' = Append(sales, r)
  OBVIOUS
<1> HIDE DEF r
<1>3. PICK n \in Nat : /\ sales' \in Seq(Sale)
                       /\ DOMAIN sales' = DOMAIN sales \cup {n}
                       /\ \A i \in DOMAIN sales : sales'[i] = sales[i]
                       /\ sales'[n] = r
  BY <1>1, <1>2, SaleAdded
<1>4. stock' \in Nat /\ moved' \in Int /\ StockIsItsMovements'
  <2>1. Unnoted' = Unnoted
    BY DEF Unnoted, Ids
  <2> QED
    BY <2>1, UnnotedFinite, ConstantsAssumption DEF TypeOK, ProductHeld, StockIsItsMovements
<1>5. TypeOK'
  BY <1>3, <1>4, IdleCall, Calls DEF TypeOK
<1>6. References'
  BY <1>1, <1>3, IdleCall, ReferencesKept DEF Ids, Turn
<1>7. ProductHeld'
  BY IdleCall, Calls DEF ProductHeld
<1> QED
  BY <1>4, <1>5, <1>6, <1>7

LEMMA ReturnBeginBase ==
    ASSUME Base0, NEW h \in Handler, NEW i \in DOMAIN sales,
           NEW e \in 1 .. MaxEntries, ReturnBegin(h, i, e)
    PROVE  Base0'
<1> DEFINE c == [op |-> "return", sale |-> i, entries |-> e]
<1> USE DEF Base0, ReturnBegin, Enter
<1>1. c \in Call /\ c.op = "return" /\ c.sale \in DOMAIN sales /\ Turn(h, c)
  BY ConstantsAssumption DEF TypeOK, Call, Turn
<1> HIDE DEF c
<1>2. TypeOK'
  BY <1>1, Calls DEF TypeOK, Turn
<1>3. References'
  BY <1>1, ReferencesKept DEF Ids
<1>4. ProductHeld'
  BY <1>1, HeldKept
<1>5. StockIsItsMovements'
  BY StockUntouched DEF Unnoted, Ids
<1> QED
  BY <1>2, <1>3, <1>4, <1>5

LEMMA ReturnCommitBase ==
    ASSUME Base0, NEW h \in Handler, ReturnCommit(h)
    PROVE  Base0'
<1> USE DEF Base0, ReturnCommit, Answer
<1>1. call[h].sale \in DOMAIN sales
  BY DEF References
<1>2. /\ call[h].entries \in Nat \ {0}
      /\ sales' \in Seq(Sale)
      /\ DOMAIN sales' = DOMAIN sales
      /\ \A j \in DOMAIN sales : sales'[j].order = sales[j].order
  BY <1>1, SaleReturned
<1>3. stock' \in Nat /\ moved' \in Int /\ StockIsItsMovements'
  BY <1>2, Moved DEF TypeOK, Unnoted, Ids
<1>4. TypeOK'
  BY <1>2, <1>3, IdleCall, Calls DEF TypeOK
<1>5. References'
  BY <1>2, IdleCall, ReferencesKept DEF Ids, Turn
<1>6. ProductHeld'
  BY IdleCall, HeldByNone DEF Turn
<1> QED
  BY <1>3, <1>4, <1>5, <1>6

LEMMA RegisterBase ==
    ASSUME Base0, Register
    PROVE  Base0'
<1> USE DEF Base0
<1>1. sessions \in Seq(Session)
  BY DEF TypeOK
<1>2. ASSUME OpenRegister PROVE sessions' \in Seq(Session)
  <2>1. [open |-> TRUE, counted |-> {}] \in Session
    BY DEF Session
  <2> QED
    BY <1>1, <1>2, <2>1, Added DEF OpenRegister
<1>3. ASSUME NEW k \in DOMAIN sessions, CloseRegister(k) PROVE sessions' \in Seq(Session)
  <2>1. [open |-> FALSE, counted |-> SalesOf(k)] \in Session
    BY DEF Session, SalesOf, TypeOK
  <2> QED
    BY <1>1, <1>3, <2>1, Changed DEF CloseRegister
<1>4. sessions' \in Seq(Session)
  BY <1>1, <1>2, <1>3 DEF Register
<1>5. UNCHANGED <<orders, sales, stock, moved, audit, call>>
  BY DEF Register, OpenRegister, CloseRegister
<1> QED
  BY <1>4, <1>5 DEF TypeOK, References, ProductHeld, StockIsItsMovements, Unnoted, Ids

LEMMA StopBase ==
    ASSUME Base0, NEW h \in Handler, Stop(h)
    PROVE  Base0'
<1> USE DEF Base0, Stop, Answer
<1>1. TypeOK'
  BY IdleCall, Calls DEF TypeOK
<1>2. References'
  BY IdleCall, ReferencesKept DEF Ids, Turn
<1>3. ProductHeld'
  BY IdleCall, HeldKept DEF Turn
<1>4. StockIsItsMovements'
  BY StockUntouched DEF Unnoted, Ids
<1> QED
  BY <1>1, <1>2, <1>3, <1>4

\* A step is one action, with the rows it is about; what is proved for each
\* action holds of Next.
Step ==
    \/ \E o \in Ids, a \in Addition : AppendItems(o, a)
    \/ \E h \in Handler :
        \/ \E c \in Client, byStaff \in BOOLEAN : OrderRead(h, c, byStaff)
        \/ \E noted \in BOOLEAN : CreateOrder(h, noted)
        \/ \E o \in Ids, to \in DOMAIN Follows \cup {"cancelled"} : StatusRead(h, o, to)
        \/ \E o \in Ids, s \in Taps : \E l \in DOMAIN orders[o].lines : KitchenTap(h, o, l, s)
        \/ \E o \in Ids, k \in DOMAIN sessions : PayBegin(h, o, k)
        \/ \E k \in DOMAIN sessions : SaleBegin(h, k)
        \/ \E i \in DOMAIN sales, e \in 1 .. MaxEntries : ReturnBegin(h, i, e)
        \/ StatusWrite(h) \/ CancelOrder(h) \/ KitchenRead(h) \/ KitchenWrite(h)
        \/ PayCommit(h) \/ SaleCommit(h) \/ ReturnCommit(h) \/ Stop(h)
    \/ Register

LEMMA Steps == Next => Step
  BY DEF Next, Step, Ordering, Kitchen, Selling

LEMMA BaseStep == Base0 /\ [Next]_vars => Base0'
<1> SUFFICES ASSUME Base0, [Next]_vars PROVE Base0'
  OBVIOUS
<1>1. CASE UNCHANGED vars
  BY <1>1 DEF vars, Base0, TypeOK, References, ProductHeld, StockIsItsMovements, Unnoted, Ids
<1>2. CASE Step
  BY <1>2, OrderReadBase, CreateOrderBase, AppendItemsBase, StatusReadBase, StatusWriteBase,
     CancelOrderBase, KitchenTapBase, KitchenReadBase, KitchenWriteBase, PayBeginBase,
     PayCommitBase, SaleBeginBase, SaleCommitBase, ReturnBeginBase, ReturnCommitBase,
     RegisterBase, StopBase DEF Step
<1> QED
  BY <1>1, <1>2, Steps

LEMMA AlwaysBase == Spec => []Base0
  BY BaseInit, BaseStep, PTL DEF Spec

\* The stock of the product is what its movements say, less one for each QR
\* order that no user could sign: a counter sale, which writes the stock it has
\* read, loses no update of an order, a cancellation or a return in between
\* (POST /api/sales, FOR UPDATE).
THEOREM NoUpdateLost == Spec => []StockIsItsMovements
  BY AlwaysBase, PTL DEF Base0

-----------------------------------------------------------------------------
(* An order is paid once and in full *)

\* A payment under way has read the total of an order that has no sale and
\* that no other payment works on; a paid order has all its lines in its sale.
Payments ==
    /\ \A i \in DOMAIN sales : sales[i].order \in Ids =>
        /\ orders[sales[i].order].paid
        /\ sales[i].total = Len(orders[sales[i].order].lines)
        /\ sales[i].lines = Len(orders[sales[i].order].lines)
    /\ \A i, j \in DOMAIN sales :
        sales[i].order \in Ids /\ sales[i].order = sales[j].order => i = j
    /\ \A h \in Handler : call[h].op = "pay" =>
        /\ \A i \in DOMAIN sales : sales[i].order # call[h].order
        /\ call[h].total = Len(orders[call[h].order].lines)
        /\ \A g \in Handler :
            call[g].op = "pay" /\ call[g].order = call[h].order => g = h

LEMMA PaymentsKept ==
    ASSUME Base0, Base0', Payments, Ids \subseteq Ids',
           \A o \in Ids : orders'[o].paid = orders[o].paid
                          /\ Len(orders'[o].lines) = Len(orders[o].lines),
           DOMAIN sales' = DOMAIN sales,
           \A i \in DOMAIN sales : /\ sales'[i].order = sales[i].order
                                   /\ sales'[i].total = sales[i].total
                                   /\ sales'[i].lines = sales[i].lines,
           \A g \in Handler : call'[g].op = "pay" => call'[g] = call[g]
    PROVE  Payments'
<1>1. \A i \in DOMAIN sales : sales[i].order \in Ids' => sales[i].order \in Ids
  <2>1. orders' \in Seq(Order)
    BY DEF Base0, TypeOK
  <2>2. Counter \notin Ids'
    BY <2>1 DEF Counter, Ids
  <2> QED
    BY <2>2 DEF Base0, References
<1>2. \A h \in Handler : call'[h].op = "pay" => call[h].order \in Ids /\ call[h].op = "pay"
  BY DEF Base0, References
<1> QED
  BY <1>1, <1>2 DEF Payments

LEMMA PaymentsOrder ==
    ASSUME Base0, Base0', Payments, NEW o \in Ids, Keeps(o),
           orders'[o].paid = orders[o].paid, Len(orders'[o].lines) = Len(orders[o].lines),
           UNCHANGED sales, NEW h \in Handler, NEW c \in Call, c.op # "pay", Turn(h, c)
    PROVE  Payments'
<1>1. \A g \in Handler : call'[g].op = "pay" => call'[g] = call[g]
  BY Calls DEF Turn, Base0
<1>2. \A p \in Ids : orders'[p].paid = orders[p].paid /\ Len(orders'[p].lines) = Len(orders[p].lines)
  BY DEF Keeps
<1>3. Ids \subseteq Ids'
  BY DEF Keeps, Ids
<1> QED
  BY <1>1, <1>2, <1>3, PaymentsKept

LEMMA PaymentsCreate ==
    ASSUME Base0, Base0', Payments, NEW h \in Handler, NEW noted \in BOOLEAN,
           CreateOrder(h, noted)
    PROVE  Payments'
<1> DEFINE r == Made(call[h].client, noted)
<1>0. TypeOK /\ r \in Order /\ orders' = Append(orders, r)
  BY Creates, MadeIs DEF Base0
<1> HIDE DEF r
<1>1. PICK n \in Nat \ {0} : DOMAIN orders' = Ids \cup {n} /\ \A p \in Ids : orders'[p] = orders[p]
  BY <1>0, OrderAdded
<1>2. \A g \in Handler : call'[g].op = "pay" => call'[g] = call[g]
  BY Creates, IdleCall, Calls DEF Base0
<1> QED
  BY <1>1, <1>2, PaymentsKept DEF CreateOrder, Ids

LEMMA PaymentsAppend ==
    ASSUME Base0, Base0', Payments, NEW o \in Ids, NEW a \in Addition, AppendItems(o, a)
    PROVE  Payments'
<1>1. Keeps(o) /\ orders'[o].paid = orders[o].paid
  BY LineAdded DEF AppendItems, Base0
<1>2. ~orders[o].paid /\ OrderFree(o) /\ sales' = sales /\ call' = call
  BY DEF AppendItems, Running
<1>3. \A i \in DOMAIN sales : sales[i].order # o
  BY <1>2 DEF Payments
<1>4. Ids' = Ids /\ \A p \in Ids : p # o => orders'[p] = orders[p]
  BY <1>1 DEF Keeps, Ids
<1>5. \A h \in Handler : call[h].op = "pay" => call[h].order \in Ids /\ call[h].order # o
  BY <1>2 DEF OrderFree, Base0, References
<1> QED
  BY <1>2, <1>3, <1>4, <1>5 DEF Payments

LEMMA PaymentsBegin ==
    ASSUME Base0, Base0', Payments, NEW h \in Handler, NEW o \in Ids, NEW k \in DOMAIN sessions,
           PayBegin(h, o, k)
    PROVE  Payments'
<1> DEFINE c == [op |-> "pay", order |-> o, session |-> k, total |-> Len(orders[o].lines)]
<1>1. call' = [call EXCEPT ![h] = c] /\ orders' = orders /\ sales' = sales
  BY DEF PayBegin, Enter
<1>2. /\ c.order = o
      /\ c.total = Len(orders[o].lines)
      /\ call'[h] = c
      /\ \A g \in Handler : g # h => call'[g] = call[g]
  BY <1>1 DEF Base0, TypeOK
<1>3. OrderFree(o) /\ \A i \in DOMAIN sales : sales[i].order # o
  BY DEF PayBegin, Sold
<1> HIDE DEF c
<1>4. \A g \in Handler : g # h /\ call'[g].op = "pay" => call'[g].order # o
  BY <1>2, <1>3 DEF OrderFree
<1> QED
  BY <1>1, <1>2, <1>3, <1>4 DEF Payments, Ids

LEMMA PaymentsCommit ==
    ASSUME Base0, Base0', Payments, NEW h \in Handler, PayCommit(h)
    PROVE  Payments'
<1> DEFINE o == call[h].order
<1> DEFINE r == [order |-> o, total |-> call[h].total, lines |-> Len(orders[o].lines),
                 returned |-> 0, again |-> 0, session |-> call[h].session]
<1>1. o \in Ids /\ o \in Nat /\ Len(orders[o].lines) \in Nat
  BY OrderIds, Fields DEF Base0, References, PayCommit
<1>2. call[h].total \in Nat /\ call[h].session \in Nat \ {0}
  <2>1. call[h] \in Call /\ call[h].op = "pay"
    BY DEF Base0, TypeOK, PayCommit
  <2> QED
    BY <2>1 DEF Call, Idle
<1>3. r \in Sale /\ r.order = o /\ r.total = call[h].total /\ r.lines = Len(orders[o].lines)
  BY <1>1, <1>2 DEF Sale
<1>4. Keeps(o) /\ orders'[o].paid /\ orders'[o].lines = orders[o].lines
  BY <1>1, PaidSet DEF PayCommit, Base0
<1>5. sales' = Append(sales, r)
  BY DEF PayCommit
<1>6. /\ call[h].op = "pay"
      /\ call'[h].op = "idle"
      /\ \A g \in Handler : g # h => call'[g] = call[g]
  BY IdleCall, Calls DEF PayCommit, Answer, Base0
<1> HIDE DEF r, o
<1>7. PICK n \in Nat : /\ n \notin DOMAIN sales
                       /\ DOMAIN sales' = DOMAIN sales \cup {n}
                       /\ \A i \in DOMAIN sales : sales'[i] = sales[i]
                       /\ sales'[n] = r
  BY <1>3, <1>5, SaleAdded DEF Base0
<1>8. /\ \A i \in DOMAIN sales : sales[i].order # o
      /\ call[h].total = Len(orders[o].lines)
      /\ \A g \in Handler : call[g].op = "pay" /\ call[g].order = o => g = h
  BY <1>6 DEF Payments, o
<1>9. Ids' = Ids /\ \A p \in Ids : p # o => orders'[p] = orders[p]
  BY <1>4 DEF Keeps, Ids
<1>10. \A p \in Ids : Len(orders'[p].lines) = Len(orders[p].lines)
  BY <1>4, <1>9
<1>11. \A i \in DOMAIN sales' : sales'[i].order \in Ids =>
        /\ orders'[sales'[i].order].paid
        /\ sales'[i].total = Len(orders'[sales'[i].order].lines)
        /\ sales'[i].lines = Len(orders'[sales'[i].order].lines)
  BY <1>3, <1>4, <1>7, <1>8, <1>9, <1>10 DEF Payments
<1>12. \A i, j \in DOMAIN sales' :
        sales'[i].order \in Ids /\ sales'[i].order = sales'[j].order => i = j
  BY <1>3, <1>7, <1>8 DEF Payments
<1>13. \A g \in Handler : call'[g].op = "pay" =>
        /\ g # h /\ call'[g] = call[g]
        /\ call[g].op = "pay" /\ call[g].order \in Ids /\ call[g].order # o
  BY <1>6, <1>8 DEF Base0, References
<1>14. \A g \in Handler : call'[g].op = "pay" =>
        \A i \in DOMAIN sales' : sales'[i].order # call'[g].order
  BY <1>3, <1>7, <1>13 DEF Payments
<1>15. \A g \in Handler : call'[g].op = "pay" =>
        /\ call'[g].total = Len(orders'[call'[g].order].lines)
        /\ \A f \in Handler : call'[f].op = "pay" /\ call'[f].order = call'[g].order => f = g
  BY <1>9, <1>13 DEF Payments
<1> QED
  BY <1>9, <1>11, <1>12, <1>14, <1>15 DEF Payments

LEMMA PaymentsSale ==
    ASSUME Base0, Base0', Payments, NEW h \in Handler, SaleCommit(h)
    PROVE  Payments'
<1> DEFINE r == [order |-> Counter, total |-> 1, lines |-> 1, returned |-> 0, again |-> 0,
                 session |-> call[h].session]
<1>1. call[h].session \in Nat \ {0}
  <2>1. call[h] \in Call /\ call[h].op = "sale"
    BY DEF Base0, TypeOK, SaleCommit
  <2> QED
    BY <2>1 DEF Call, Idle
<1>2. r \in Sale /\ r.order = Counter
  BY <1>1 DEF Sale, Counter
<1>3. sales' = Append(sales, r) /\ orders' = orders
  BY DEF SaleCommit
<1>4. call'[h].op = "idle" /\ \A g \in Handler : g # h => call'[g] = call[g]
  BY IdleCall, Calls DEF SaleCommit, Answer, Base0
<1> HIDE DEF r
<1>5. PICK n \in Nat : /\ n \notin DOMAIN sales
                       /\ DOMAIN sales' = DOMAIN sales \cup {n}
                       /\ \A i \in DOMAIN sales : sales'[i] = sales[i]
                       /\ sales'[n] = r
  BY <1>2, <1>3, SaleAdded DEF Base0
<1>6. Counter \notin Ids
  BY OrderIds DEF Base0, Counter
<1>7. \A g \in Handler : call'[g].op = "pay" =>
        call'[g] = call[g] /\ call[g].op = "pay" /\ call[g].order \in Ids
  BY <1>4 DEF Base0, References
<1> QED
  BY <1>2, <1>3, <1>5, <1>6, <1>7 DEF Payments, Ids

\* A status is set; nothing else of the order changes.
LEMMA StatusUpdates ==
    ASSUME Base0, NEW h \in Handler, StatusWrite(h) \/ CancelOrder(h) \/ KitchenWrite(h)
    PROVE  /\ call[h].order \in Ids
           /\ Keeps(call[h].order)
           /\ orders'[call[h].order].paid = orders[call[h].order].paid
           /\ orders'[call[h].order].lines = orders[call[h].order].lines
           /\ UNCHANGED <<sales, audit>>
           /\ call' = [call EXCEPT ![h] = Idle]
<1>1. /\ call[h].order \in Ids
      /\ UNCHANGED <<sales, audit>>
      /\ call' = [call EXCEPT ![h] = Idle]
  BY DEF Base0, References, StatusWrite, CancelOrder, KitchenWrite, Answer
<1>2. \E s \in Status : orders' = [orders EXCEPT ![call[h].order].status = s]
  <2>1. CASE CancelOrder(h)
    BY <2>1 DEF CancelOrder, Status
  <2>2. CASE StatusWrite(h) \/ KitchenWrite(h)
    <3>1. call[h] \in Call /\ call[h].op \in {"status", "tapped"}
      BY <2>2 DEF Base0, TypeOK, StatusWrite, KitchenWrite
    <3>2. call[h].to \in Status
      BY <3>1 DEF Call, Idle
    <3> QED
      BY <2>2, <3>2 DEF StatusWrite, KitchenWrite
  <2> QED
    BY <2>1, <2>2
<1> QED
  BY <1>1, <1>2, StatusSet DEF Base0

LEMMA PaymentsStep == Base0 /\ Payments /\ [Next]_vars => Payments'
<1> SUFFICES ASSUME Base0, Payments, [Next]_vars PROVE Payments'
  OBVIOUS
<1>0. Base0'
  BY BaseStep
<1>1. CASE UNCHANGED vars
  BY <1>0, <1>1, PaymentsKept DEF vars, Ids
<1>2. ASSUME NEW h \in Handler,
             StatusWrite(h) \/ CancelOrder(h) \/ KitchenWrite(h)
      PROVE  Payments'
  BY <1>0, <1>2, StatusUpdates, IdleCall, PaymentsOrder DEF Turn
<1>3. ASSUME NEW h \in Handler, NEW o \in Ids, NEW s \in Taps,
             NEW l \in DOMAIN orders[o].lines, KitchenTap(h, o, l, s)
      PROVE  Payments'
  <2> DEFINE c == [op |-> "tap", order |-> o]
  <2>1. c \in Call /\ c.op # "pay" /\ Turn(h, c)
    BY <1>3, OrderIds DEF KitchenTap, Enter, Turn, Call, Base0
  <2> HIDE DEF c
  <2> QED
    BY <1>0, <1>3, <2>1, LineSet, PaymentsOrder DEF KitchenTap, Base0
<1>4. ASSUME NEW h \in Handler,
             \/ \E c \in Client, byStaff \in BOOLEAN : OrderRead(h, c, byStaff)
             \/ \E o \in Ids, to \in DOMAIN Follows \cup {"cancelled"} : StatusRead(h, o, to)
             \/ KitchenRead(h) \/ Stop(h)
             \/ \E k \in DOMAIN sessions : SaleBegin(h, k)
             \/ \E i \in DOMAIN sales, e \in 1 .. MaxEntries : ReturnBegin(h, i, e)
      PROVE  Payments'
  <2>1. UNCHANGED <<orders, sales>>
    BY <1>4 DEF OrderRead, StatusRead, KitchenRead, Stop, SaleBegin, ReturnBegin
  <2>2. \A g \in Handler : call'[g].op = "pay" => call'[g] = call[g]
    BY <1>4 DEF OrderRead, StatusRead, KitchenRead, Stop, SaleBegin, ReturnBegin, Enter, Answer, Idle,
                Base0, TypeOK
  <2> QED
    BY <1>0, <2>1, <2>2, PaymentsKept DEF Ids
<1>5. ASSUME NEW h \in Handler, ReturnCommit(h) PROVE Payments'
  <2>1. call[h].sale \in DOMAIN sales /\ call' = [call EXCEPT ![h] = Idle] /\ orders' = orders
    BY <1>5 DEF ReturnCommit, Answer, Base0, References
  <2>2. \A g \in Handler : call'[g].op = "pay" => call'[g] = call[g]
    BY <2>1, IdleCall, Calls DEF Base0
  <2> QED
    BY <1>0, <1>5, <2>1, <2>2, SaleReturned, PaymentsKept DEF ReturnCommit, Base0, Ids
<1>6. CASE Register
  BY <1>0, <1>6, PaymentsKept DEF Register, OpenRegister, CloseRegister, Ids
<1>7. CASE Step
  BY <1>0, <1>2, <1>3, <1>4, <1>5, <1>6, <1>7, PaymentsCreate, PaymentsAppend,
     PaymentsBegin, PaymentsCommit, PaymentsSale DEF Step
<1> QED
  BY <1>1, <1>7, Steps

LEMMA PaymentsSuffice == Base0 /\ Payments => PaidInFull
  BY DEF Base0, References, Payments, PaidInFull

\* An order has at most one sale, for the total of all the lines it will ever
\* have (POST /api/orders/:id/pay and /items under the order's lock).
THEOREM PaidOnceInFull == Spec => []PaidInFull
<1>1. Init => Payments
  BY IdleCall DEF Init, Payments
<1> QED
  BY <1>1, AlwaysBase, PaymentsStep, PaymentsSuffice, PTL DEF Spec

-----------------------------------------------------------------------------
(* A request takes its goods once *)

\* The first line of an order is its own, the others are additions in the log.
Origins ==
    /\ \A o, p \in Ids : orders[o].client = orders[p].client => o = p
    /\ \A o \in Ids :
        /\ 1 \in DOMAIN orders[o].lines
        /\ \A l \in DOMAIN orders[o].lines :
            IF l = 1 THEN orders[o].lines[l].by = orders[o].client
                     ELSE orders[o].lines[l].by \in audit
    /\ \A o, p \in Ids : \A l \in DOMAIN orders[o].lines, m \in DOMAIN orders[p].lines :
        orders[o].lines[l].by \in audit /\ orders[o].lines[l].by = orders[p].lines[m].by
            => o = p /\ l = m

LEMMA OriginsKept ==
    ASSUME Base0, Origins, Ids' = Ids, audit' = audit,
           \A o \in Ids :
              /\ orders'[o].client = orders[o].client
              /\ DOMAIN orders'[o].lines = DOMAIN orders[o].lines
              /\ \A l \in DOMAIN orders[o].lines : orders'[o].lines[l].by = orders[o].lines[l].by
    PROVE  Origins'
  BY DEF Origins

\* Whatever the look-up saw, the index lets in no second order of a client_id.
LEMMA OriginsCreate ==
    ASSUME Base0, Origins, NEW h \in Handler, NEW noted \in BOOLEAN, CreateOrder(h, noted)
    PROVE  Origins'
<1> DEFINE c == call[h].client
           r == Made(c, noted)
<1>1. /\ c \in Client
      /\ r \in Order
      /\ r.client = c
      /\ DOMAIN r.lines = {1}
      /\ r.lines[1].by = c
      /\ orders' = Append(orders, r)
  BY Creates, MadeIs DEF Base0
<1>2. \A p \in Ids : orders[p].client # c
  BY DEF CreateOrder, UniqueClient, Known
<1>4. audit' = audit /\ c \notin audit
  BY <1>1, ConstantsAssumption DEF CreateOrder, Base0, TypeOK
<1> HIDE DEF r, c
<1>3. PICK n \in Nat \ {0} :
        /\ n \notin Ids
        /\ DOMAIN orders' = Ids \cup {n}
        /\ \A p \in Ids : orders'[p] = orders[p]
        /\ orders'[n] = r
  BY <1>1, OrderAdded DEF Base0
<1>5. \A p \in Ids : \A l \in DOMAIN orders[p].lines : orders[p].lines[l].by # c
  BY <1>2, <1>4 DEF Origins
<1>6. \A o, p \in Ids' : orders'[o].client = orders'[p].client => o = p
  BY <1>1, <1>2, <1>3 DEF Origins, Ids
<1>7. \A o \in Ids' :
        /\ 1 \in DOMAIN orders'[o].lines
        /\ \A l \in DOMAIN orders'[o].lines :
            IF l = 1 THEN orders'[o].lines[l].by = orders'[o].client
                     ELSE orders'[o].lines[l].by \in audit
  BY <1>1, <1>3 DEF Origins, Ids
<1>8. \A o, p \in Ids' : \A l \in DOMAIN orders'[o].lines, m \in DOMAIN orders'[p].lines :
        orders'[o].lines[l].by \in audit /\ orders'[o].lines[l].by = orders'[p].lines[m].by
            => o = p /\ l = m
  BY <1>1, <1>3, <1>4, <1>5 DEF Origins, Ids
<1> QED
  BY <1>4, <1>6, <1>7, <1>8 DEF Origins

LEMMA OriginsAppend ==
    ASSUME Base0, Origins, NEW o \in Ids, NEW a \in Addition, AppendItems(o, a)
    PROVE  Origins'
<1> DEFINE n == Len(orders[o].lines) + 1
<1>1. Keeps(o) /\ orders'[o].lines = Append(orders[o].lines, Line(a))
  BY LineAdded DEF AppendItems, Base0
<1>2. Line(a) \in LineType /\ Line(a).by = a /\ orders[o].lines \in Seq(LineType)
  BY Fields DEF Line, LineType, Base0
<1>3. /\ DOMAIN orders'[o].lines = DOMAIN orders[o].lines \cup {n}
      /\ \A l \in DOMAIN orders[o].lines : orders'[o].lines[l] = orders[o].lines[l]
      /\ orders'[o].lines[n] = Line(a)
      /\ n \notin DOMAIN orders[o].lines
  BY <1>1, <1>2, Added
<1>4. n # 1
  BY <1>3 DEF Origins
<1> HIDE DEF n
<1>5. Ids' = Ids /\ \A p \in Ids : orders'[p].client = orders[p].client
                                   /\ (p # o => orders'[p] = orders[p])
  BY <1>1 DEF Keeps, Ids
<1>6. audit' = audit \cup {a} /\ a \notin audit /\ audit \subseteq Addition
  BY DEF AppendItems, Base0, TypeOK
<1>7. \A p \in Ids : \A l \in DOMAIN orders[p].lines : orders[p].lines[l].by # a
  <2>1. \A p \in Ids : orders[p].client \in Client
    BY Fields DEF Order, Base0
  <2> QED
    BY <1>6, <2>1, ConstantsAssumption DEF Origins
<1>8. \A p \in Ids :
        /\ 1 \in DOMAIN orders'[p].lines
        /\ \A l \in DOMAIN orders'[p].lines :
            IF l = 1 THEN orders'[p].lines[l].by = orders'[p].client
                     ELSE orders'[p].lines[l].by \in audit'
  BY <1>2, <1>3, <1>4, <1>5, <1>6 DEF Origins
<1>9. \A p \in Ids : \A l \in DOMAIN orders'[p].lines :
        \/ p = o /\ l = n /\ orders'[p].lines[l].by = a
        \/ l \in DOMAIN orders[p].lines /\ orders'[p].lines[l] = orders[p].lines[l]
  BY <1>2, <1>3, <1>5
<1>10. ASSUME NEW p \in Ids, NEW q \in Ids, NEW l \in DOMAIN orders'[p].lines,
              NEW m \in DOMAIN orders'[q].lines, orders'[p].lines[l].by \in audit',
              orders'[p].lines[l].by = orders'[q].lines[m].by
       PROVE  p = q /\ l = m
  BY <1>6, <1>7, <1>9, <1>10 DEF Origins
<1>11. \A p, q \in Ids : orders'[p].client = orders'[q].client => p = q
  BY <1>5 DEF Origins
<1> QED
  BY <1>5, <1>8, <1>10, <1>11 DEF Origins

LEMMA OriginsStep == Base0 /\ Origins /\ [Next]_vars => Origins'
<1> SUFFICES ASSUME Base0, Origins, [Next]_vars PROVE Origins'
  OBVIOUS
<1>1. CASE UNCHANGED vars
  BY <1>1, OriginsKept DEF vars, Ids
<1>2. ASSUME NEW o \in Ids, Keeps(o), orders'[o].lines = orders[o].lines, audit' = audit
      PROVE  Origins'
  BY <1>2, OriginsKept DEF Keeps, Ids
<1>3. ASSUME NEW h \in Handler,
             StatusWrite(h) \/ CancelOrder(h) \/ KitchenWrite(h)
      PROVE  Origins'
  BY <1>2, <1>3, StatusUpdates
<1>4. ASSUME NEW h \in Handler, PayCommit(h) PROVE Origins'
  <2>1. call[h].order \in Ids /\ audit' = audit
    BY <1>4 DEF Base0, References, PayCommit
  <2> QED
    BY <1>2, <1>4, <2>1, PaidSet DEF PayCommit, Base0
<1>5. ASSUME NEW h \in Handler, NEW o \in Ids, NEW s \in Taps,
             NEW l \in DOMAIN orders[o].lines, KitchenTap(h, o, l, s)
      PROVE  Origins'
  <2>1. /\ Keeps(o)
        /\ DOMAIN orders'[o].lines = DOMAIN orders[o].lines
        /\ \A m \in DOMAIN orders[o].lines : orders'[o].lines[m].by = orders[o].lines[m].by
    BY <1>5, LineSet DEF KitchenTap, Base0
  <2> QED
    BY <1>5, <2>1, OriginsKept DEF Keeps, Ids, KitchenTap
<1>6. ASSUME UNCHANGED <<orders, audit>> PROVE Origins'
  BY <1>6, OriginsKept DEF Ids
<1>7. CASE Step
  <2>1. CASE Register
    BY <1>6, <2>1 DEF Register, OpenRegister, CloseRegister
  <2>2. ASSUME NEW h \in Handler,
               \/ \E c \in Client, byStaff \in BOOLEAN : OrderRead(h, c, byStaff)
               \/ \E o \in Ids, to \in DOMAIN Follows \cup {"cancelled"} : StatusRead(h, o, to)
               \/ \E o \in Ids, k \in DOMAIN sessions : PayBegin(h, o, k)
               \/ \E k \in DOMAIN sessions : SaleBegin(h, k)
               \/ \E i \in DOMAIN sales, e \in 1 .. MaxEntries : ReturnBegin(h, i, e)
               \/ KitchenRead(h) \/ SaleCommit(h) \/ ReturnCommit(h) \/ Stop(h)
        PROVE  Origins'
    BY <1>6, <2>2 DEF OrderRead, StatusRead, PayBegin, SaleBegin, ReturnBegin, KitchenRead, SaleCommit,
                      ReturnCommit, Stop
  <2> QED
    BY <1>3, <1>4, <1>5, <1>7, <2>1, <2>2, OriginsCreate, OriginsAppend DEF Step
<1> QED
  BY <1>1, <1>7, Steps

LEMMA OriginsSuffice == Base0 /\ Origins => RequestedOnce
<1> SUFFICES ASSUME Base0, Origins PROVE RequestedOnce
  OBVIOUS
<1>1. \A o \in Ids : orders[o].client \in Client
  BY Fields DEF Order, Base0
<1>2. audit \cap Client = {}
  BY ConstantsAssumption DEF Base0, TypeOK
<1> QED
  BY <1>1, <1>2 DEF Origins, RequestedOnce

\* A request sent again takes its goods once.  Requests for one order may all
\* find its client_id unknown, since they look before their transactions: then
\* the unique index of orders lets one of them through.  An addition is known by
\* the client_id kept in audit_logs, read under the order's lock.
THEOREM GoodsTakenOnce == Spec => []RequestedOnce
<1>1. Init => Origins
  BY DEF Init, Origins, Ids
<1> QED
  BY <1>1, AlwaysBase, OriginsStep, OriginsSuffice, PTL DEF Spec

-----------------------------------------------------------------------------
(* No more comes back than was sold *)

\* A return under way has found something left, and no other works on the sale.
Returns ==
    /\ \A i \in DOMAIN sales : sales[i].returned <= sales[i].lines
    /\ \A h \in Handler : call[h].op = "return" =>
        /\ sales[call[h].sale].returned < sales[call[h].sale].lines
        /\ \A g \in Handler :
            call[g].op = "return" /\ call[g].sale = call[h].sale => g = h

LEMMA ReturnsKept ==
    ASSUME Base0, Returns, sales' = sales,
           \A g \in Handler : call'[g].op = "return" => call'[g] = call[g]
    PROVE  Returns'
  BY DEF Returns

LEMMA ReturnsAdded ==
    ASSUME Base0, Returns, NEW r \in Sale, r.returned = 0, sales' = Append(sales, r),
           NEW h \in Handler, Answer(h)
    PROVE  Returns'
<1>1. PICK n \in Nat : /\ n \notin DOMAIN sales
                       /\ DOMAIN sales' = DOMAIN sales \cup {n}
                       /\ \A i \in DOMAIN sales : sales'[i] = sales[i]
                       /\ sales'[n] = r
  BY SaleAdded DEF Base0
<1>2. \A g \in Handler : call'[g].op = "return" =>
        call'[g] = call[g] /\ call[g].op = "return" /\ call[g].sale \in DOMAIN sales
  BY IdleCall, Calls DEF Answer, Base0, References
<1>3. r.returned <= r.lines
  BY DEF Sale
<1> QED
  BY <1>1, <1>2, <1>3 DEF Returns

LEMMA ReturnsStep == Base0 /\ Returns /\ [Next]_vars => Returns'
<1> SUFFICES ASSUME Base0, Returns, [Next]_vars PROVE Returns'
  OBVIOUS
<1>1. CASE UNCHANGED vars
  BY <1>1, ReturnsKept DEF vars
<1>2. ASSUME NEW h \in Handler, PayCommit(h) PROVE Returns'
  <2> DEFINE o == call[h].order
  <2> DEFINE r == [order |-> o, total |-> call[h].total, lines |-> Len(orders[o].lines),
                   returned |-> 0, again |-> 0, session |-> call[h].session]
  <2>1. o \in Nat /\ Len(orders[o].lines) \in Nat
    BY <1>2, OrderIds, Fields DEF Base0, References, PayCommit
  <2>2. call[h].total \in Nat /\ call[h].session \in Nat \ {0}
    <3>1. call[h] \in Call /\ call[h].op = "pay"
      BY <1>2 DEF Base0, TypeOK, PayCommit
    <3> QED
      BY <3>1 DEF Call, Idle
  <2>3. r \in Sale /\ r.returned = 0
    BY <2>1, <2>2 DEF Sale
  <2>4. sales' = Append(sales, r) /\ Answer(h)
    BY <1>2 DEF PayCommit
  <2> HIDE DEF r, o
  <2> QED
    BY <2>3, <2>4, ReturnsAdded
<1>3. ASSUME NEW h \in Handler, SaleCommit(h) PROVE Returns'
  <2> DEFINE r == [order |-> Counter, total |-> 1, lines |-> 1, returned |-> 0, again |-> 0,
                   session |-> call[h].session]
  <2>1. call[h] \in Call /\ call[h].op = "sale"
    BY <1>3 DEF Base0, TypeOK, SaleCommit
  <2>2. call[h].session \in Nat \ {0}
    BY <2>1 DEF Call, Idle
  <2>3. r \in Sale /\ r.returned = 0
    BY <2>2 DEF Sale, Counter
  <2>4. sales' = Append(sales, r) /\ Answer(h)
    BY <1>3 DEF SaleCommit
  <2> HIDE DEF r
  <2> QED
    BY <2>3, <2>4, ReturnsAdded
<1>4. ASSUME NEW h \in Handler, NEW i \in DOMAIN sales,
           NEW e \in 1 .. MaxEntries, ReturnBegin(h, i, e) PROVE Returns'
  <2> DEFINE c == [op |-> "return", sale |-> i, entries |-> e]
  <2>1. /\ sales' = sales
        /\ call'[h] = c /\ c.sale = i
        /\ \A g \in Handler : g # h => call'[g] = call[g]
    BY <1>4 DEF ReturnBegin, Enter, Base0, TypeOK
  <2>2. SaleFree(i) /\ sales[i].returned < sales[i].lines
    BY <1>4 DEF ReturnBegin
  <2> HIDE DEF c
  <2> QED
    BY <2>1, <2>2 DEF Returns, SaleFree
<1>5. ASSUME NEW h \in Handler, ReturnCommit(h) PROVE Returns'
  <2> DEFINE i == call[h].sale
  <2>1. i \in DOMAIN sales /\ call[h].op = "return"
    BY <1>5 DEF ReturnCommit, Base0, References
  <2>2. /\ DOMAIN sales' = DOMAIN sales
        /\ \A j \in DOMAIN sales :
            /\ sales'[j].lines = sales[j].lines
            /\ sales'[j].returned = IF j = i THEN sales[i].returned + 1 ELSE sales[j].returned
    BY <1>5, <2>1, SaleReturned DEF Base0
  <2>3. /\ call'[h].op = "idle"
        /\ \A g \in Handler : g # h => call'[g] = call[g]
    BY <1>5, IdleCall, Calls DEF ReturnCommit, Answer, Base0
  <2>4. \A j \in DOMAIN sales : sales[j].returned \in Nat /\ sales[j].lines \in Nat
    <3>1. \A j \in DOMAIN sales : sales[j] \in Sale
      BY DEF Base0, TypeOK
    <3> QED
      BY <3>1 DEF Sale
  <2>5. /\ sales[i].returned < sales[i].lines
        /\ \A g \in Handler : call[g].op = "return" /\ call[g].sale = i => g = h
    BY <2>1 DEF Returns
  <2>6. \A g \in Handler : call'[g].op = "return" =>
            /\ call'[g] = call[g] /\ call[g].op = "return"
            /\ call[g].sale \in DOMAIN sales /\ call[g].sale # i
    BY <2>3, <2>5 DEF Base0, References
  <2> HIDE DEF i
  <2>7. \A j \in DOMAIN sales' : sales'[j].returned <= sales'[j].lines
    BY <2>1, <2>2, <2>4, <2>5 DEF Returns
  <2>8. \A g \in Handler : call'[g].op = "return" =>
            /\ sales'[call'[g].sale].returned < sales'[call'[g].sale].lines
            /\ \A f \in Handler :
                call'[f].op = "return" /\ call'[f].sale = call'[g].sale => f = g
    BY <2>2, <2>6 DEF Returns
  <2> QED
    BY <2>7, <2>8 DEF Returns
<1>6. CASE Step
  <2>1. ASSUME UNCHANGED <<sales, call>> PROVE Returns'
    BY <2>1, ReturnsKept
  <2>2. CASE Register
    BY <2>1, <2>2 DEF Register, OpenRegister, CloseRegister
  <2>3. ASSUME NEW h \in Handler, NEW noted \in BOOLEAN, CreateOrder(h, noted) PROVE Returns'
    <3>1. \A g \in Handler : call'[g].op = "return" => call'[g] = call[g]
      BY <2>3, Creates, IdleCall, Calls DEF Base0
    <3> QED
      BY <2>3, <3>1, ReturnsKept DEF CreateOrder
  <2>4. ASSUME NEW o \in Ids, NEW a \in Addition, AppendItems(o, a) PROVE Returns'
    BY <2>1, <2>4 DEF AppendItems
  <2>5. ASSUME NEW h \in Handler,
               \/ \E c \in Client, byStaff \in BOOLEAN : OrderRead(h, c, byStaff)
               \/ \E o \in Ids, to \in DOMAIN Follows \cup {"cancelled"} : StatusRead(h, o, to)
               \/ \E o \in Ids, s \in Taps : \E l \in DOMAIN orders[o].lines : KitchenTap(h, o, l, s)
               \/ \E o \in Ids, k \in DOMAIN sessions : PayBegin(h, o, k)
               \/ \E k \in DOMAIN sessions : SaleBegin(h, k)
               \/ StatusWrite(h) \/ CancelOrder(h) \/ KitchenRead(h) \/ KitchenWrite(h) \/ Stop(h)
        PROVE  Returns'
    <3>1. sales' = sales
      BY <2>5 DEF OrderRead, StatusRead, KitchenTap, PayBegin, SaleBegin, StatusWrite, CancelOrder,
                  KitchenRead, KitchenWrite, Stop
    <3>2. \A g \in Handler : call'[g].op = "return" => call'[g] = call[g]
      BY <2>5 DEF OrderRead, StatusRead, KitchenTap, PayBegin, SaleBegin, StatusWrite, CancelOrder,
                  KitchenRead, KitchenWrite, Stop, Enter, Answer, Idle, Base0, TypeOK
    <3> QED
      BY <3>1, <3>2, ReturnsKept
  <2> QED
    BY <1>2, <1>3, <1>4, <1>5, <1>6, <2>2, <2>3, <2>4, <2>5 DEF Step
<1> QED
  BY <1>1, <1>6, Steps

\* Returns at the same time do not bring back a line twice; beyond what was sold
\* comes back only what one request names more than once
\* (POST /api/sales/:id/returns under the sale's lock).
THEOREM NoMoreBackThanSold == Spec => []ReturnsWithinSale
<1>1. Init => Returns
  BY IdleCall DEF Init, Returns
<1>2. Returns => ReturnsWithinSale
  BY DEF Returns, ReturnsWithinSale
<1> QED
  BY <1>1, <1>2, AlwaysBase, ReturnsStep, PTL DEF Spec

-----------------------------------------------------------------------------
(* A closed register counted its sales *)

\* A counter sale under way is in a session that is still open.
Tills ==
    \A h \in Handler : call[h].op = "sale" =>
        call[h].session \in DOMAIN sessions /\ sessions[call[h].session].open

LEMMA TillsQuiet ==
    ASSUME Tills, ClosingCountsItsSales, UNCHANGED sessions, DOMAIN sales' = DOMAIN sales,
           \A i \in DOMAIN sales : sales'[i].order = sales[i].order
                                   /\ sales'[i].session = sales[i].session,
           \A h \in Handler : call'[h].op = "sale" => call'[h] = call[h]
    PROVE  Tills' /\ ClosingCountsItsSales'
<1>1. Tills'
  BY DEF Tills
<1>2. \A k : SalesOf(k)' = SalesOf(k) /\ SalesOf(k) \subseteq DOMAIN sales
  BY DEF SalesOf
<1>3. ClosingCountsItsSales'
  BY <1>2 DEF ClosingCountsItsSales
<1> QED
  BY <1>1, <1>3

LEMMA TillsAdded ==
    ASSUME Base0, Tills, ClosingCountsItsSales, NEW r \in Sale,
           \/ r.order # Counter
           \/ r.session \in DOMAIN sessions /\ sessions[r.session].open,
           sales' = Append(sales, r), sessions' = sessions, NEW h \in Handler, Answer(h)
    PROVE  Tills' /\ ClosingCountsItsSales'
<1>1. PICK n \in Nat : /\ n \notin DOMAIN sales
                       /\ DOMAIN sales' = DOMAIN sales \cup {n}
                       /\ \A i \in DOMAIN sales : sales'[i] = sales[i]
                       /\ sales'[n] = r
  BY SaleAdded DEF Base0
<1>2. \A g \in Handler : call'[g].op = "sale" => call'[g] = call[g]
  BY IdleCall, Calls DEF Answer, Base0
<1>3. Tills'
  BY <1>1, <1>2 DEF Tills
<1>4. ASSUME NEW k \in DOMAIN sessions, ~sessions[k].open, NEW i \in SalesOf(k)',
             sales'[i].order = Counter
      PROVE  i \in sessions[k].counted
  <2>1. i \in DOMAIN sales' /\ sales'[i].session = k
    BY <1>4 DEF SalesOf
  <2>2. i \in DOMAIN sales
    BY <1>1, <1>4, <2>1
  <2>3. i \in SalesOf(k) /\ sales[i].order = Counter
    BY <1>1, <1>4, <2>1, <2>2 DEF SalesOf
  <2> QED
    BY <1>4, <2>3 DEF ClosingCountsItsSales
<1>5. ClosingCountsItsSales'
  BY <1>4 DEF ClosingCountsItsSales
<1> QED
  BY <1>3, <1>5

LEMMA TillsReturned ==
    ASSUME Base0, Tills, ClosingCountsItsSales, NEW h \in Handler, ReturnCommit(h)
    PROVE  Tills' /\ ClosingCountsItsSales'
<1>1. call[h].sale \in DOMAIN sales /\ call[h].op = "return" /\ sessions' = sessions
  BY DEF Base0, References, ReturnCommit
<1>2. \A g \in Handler : call'[g].op = "sale" => call'[g] = call[g]
  BY IdleCall, Calls DEF Answer, Base0, ReturnCommit
<1> QED
  BY <1>1, <1>2, SaleReturned, TillsQuiet DEF Base0

LEMMA TillsRegister ==
    ASSUME Base0, Tills, ClosingCountsItsSales, Register
    PROVE  Tills' /\ ClosingCountsItsSales'
<1>1. UNCHANGED <<sales, call>> /\ sessions \in Seq(Session)
  BY DEF Register, OpenRegister, CloseRegister, Base0, TypeOK
<1>2. \A k : SalesOf(k)' = SalesOf(k)
  BY <1>1 DEF SalesOf
<1>3. ASSUME OpenRegister PROVE Tills' /\ ClosingCountsItsSales'
  <2> DEFINE s == [open |-> TRUE, counted |-> {}]
  <2>1. s \in Session /\ s.open
    BY DEF Session
  <2>2. sessions' = Append(sessions, s)
    BY <1>3 DEF OpenRegister
  <2> HIDE DEF s
  <2>3. /\ DOMAIN sessions' = DOMAIN sessions \cup {Len(sessions) + 1}
        /\ \A k \in DOMAIN sessions : sessions'[k] = sessions[k]
        /\ sessions'[Len(sessions) + 1] = s
    BY <1>1, <2>1, <2>2, Added
  <2> QED
    BY <1>1, <1>2, <2>1, <2>3 DEF Tills, ClosingCountsItsSales
<1>4. ASSUME NEW k \in DOMAIN sessions, CloseRegister(k)
      PROVE  Tills' /\ ClosingCountsItsSales'
  <2>1. /\ DOMAIN sessions' = DOMAIN sessions
        /\ \A j \in DOMAIN sessions : j # k => sessions'[j] = sessions[j]
        /\ sessions'[k].counted = SalesOf(k)
    BY <1>1, <1>4 DEF CloseRegister
  <2>2. Tills'
    BY <1>1, <1>4 DEF Tills, CloseRegister, SessionFree
  <2>3. ClosingCountsItsSales'
    BY <1>1, <1>2, <2>1 DEF ClosingCountsItsSales
  <2> QED
    BY <2>2, <2>3
<1> QED
  BY <1>3, <1>4 DEF Register

LEMMA TillsStep ==
    ASSUME Base0, Tills, ClosingCountsItsSales, [Next]_vars
    PROVE  Tills' /\ ClosingCountsItsSales'
<1>1. CASE UNCHANGED vars
  BY <1>1, TillsQuiet DEF vars
<1>2. ASSUME NEW h \in Handler, PayCommit(h) PROVE Tills' /\ ClosingCountsItsSales'
  <2> DEFINE o == call[h].order
             r == [order |-> o, total |-> call[h].total, lines |-> Len(orders[o].lines),
                   returned |-> 0, again |-> 0, session |-> call[h].session]
  <2>1. o \in Nat \ {0} /\ Len(orders[o].lines) \in Nat
    BY <1>2, OrderIds, Fields DEF Base0, References, PayCommit
  <2>2. call[h].total \in Nat /\ call[h].session \in Nat \ {0}
    <3>1. call[h] \in Call /\ call[h].op = "pay"
      BY <1>2 DEF Base0, TypeOK, PayCommit
    <3> QED
      BY <3>1 DEF Call, Idle
  <2>3. r \in Sale /\ r.order # Counter
    BY <2>1, <2>2 DEF Sale, Counter
  <2>4. sales' = Append(sales, r) /\ Answer(h) /\ sessions' = sessions
    BY <1>2 DEF PayCommit
  <2> HIDE DEF r, o
  <2> QED
    BY <2>3, <2>4, TillsAdded
<1>3. ASSUME NEW h \in Handler, SaleCommit(h) PROVE Tills' /\ ClosingCountsItsSales'
  <2> DEFINE r == [order |-> Counter, total |-> 1, lines |-> 1, returned |-> 0, again |-> 0,
                   session |-> call[h].session]
  <2>1. call[h].session \in Nat \ {0}
    <3>1. call[h] \in Call /\ call[h].op = "sale"
      BY <1>3 DEF Base0, TypeOK, SaleCommit
    <3> QED
      BY <3>1 DEF Call, Idle
  <2>2. /\ r \in Sale
        /\ r.session \in DOMAIN sessions /\ sessions[r.session].open
    BY <1>3, <2>1 DEF Sale, Counter, Tills, SaleCommit
  <2>3. sales' = Append(sales, r) /\ Answer(h) /\ sessions' = sessions
    BY <1>3 DEF SaleCommit
  <2> HIDE DEF r
  <2> QED
    BY <2>2, <2>3, TillsAdded
<1>4. ASSUME NEW h \in Handler, NEW k \in DOMAIN sessions, SaleBegin(h, k)
      PROVE  Tills' /\ ClosingCountsItsSales'
  <2> DEFINE c == [op |-> "sale", session |-> k, stock |-> stock]
  <2>1. /\ UNCHANGED <<sales, sessions>> /\ sessions[k].open
        /\ call'[h] = c /\ c.session = k
        /\ \A g \in Handler : g # h => call'[g] = call[g]
    BY <1>4 DEF SaleBegin, Enter, Base0, TypeOK
  <2> HIDE DEF c
  <2>2. Tills'
    BY <2>1 DEF Tills
  <2>3. \A x : SalesOf(x)' = SalesOf(x)
    BY <2>1 DEF SalesOf
  <2>4. ClosingCountsItsSales'
    BY <2>1, <2>3 DEF ClosingCountsItsSales
  <2> QED
    BY <2>2, <2>4
<1>5. CASE Step
  <2>1. ASSUME NEW h \in Handler, NEW noted \in BOOLEAN, CreateOrder(h, noted)
        PROVE  Tills' /\ ClosingCountsItsSales'
    <3>1. \A g \in Handler : call'[g].op = "sale" => call'[g] = call[g]
      BY <2>1, Creates, IdleCall, Calls DEF Base0
    <3> QED
      BY <2>1, <3>1, TillsQuiet DEF CreateOrder
  <2>2. ASSUME NEW o \in Ids, NEW a \in Addition, AppendItems(o, a)
        PROVE  Tills' /\ ClosingCountsItsSales'
    BY <2>2, TillsQuiet DEF AppendItems
  <2>3. ASSUME NEW h \in Handler,
               \/ \E c \in Client, byStaff \in BOOLEAN : OrderRead(h, c, byStaff)
               \/ \E o \in Ids, to \in DOMAIN Follows \cup {"cancelled"} : StatusRead(h, o, to)
               \/ \E o \in Ids, s \in Taps : \E l \in DOMAIN orders[o].lines : KitchenTap(h, o, l, s)
               \/ \E o \in Ids, k \in DOMAIN sessions : PayBegin(h, o, k)
               \/ \E i \in DOMAIN sales, e \in 1 .. MaxEntries : ReturnBegin(h, i, e)
               \/ StatusWrite(h) \/ CancelOrder(h) \/ KitchenRead(h) \/ KitchenWrite(h) \/ Stop(h)
        PROVE  Tills' /\ ClosingCountsItsSales'
    <3>1. UNCHANGED <<sales, sessions>>
      BY <2>3 DEF OrderRead, StatusRead, KitchenTap, PayBegin, ReturnBegin, StatusWrite, CancelOrder,
                  KitchenRead, KitchenWrite, Stop
    <3>2. \A g \in Handler : call'[g].op = "sale" => call'[g] = call[g]
      BY <2>3 DEF OrderRead, StatusRead, KitchenTap, PayBegin, ReturnBegin, StatusWrite, CancelOrder,
                  KitchenRead, KitchenWrite, Stop, Enter, Answer, Idle, Base0, TypeOK
    <3> QED
      BY <3>1, <3>2, TillsQuiet
  <2> QED
    BY <1>2, <1>3, <1>4, <1>5, <2>1, <2>2, <2>3, TillsReturned, TillsRegister DEF Step
<1> QED
  BY <1>1, <1>5, Steps

\* Every variable holds a value of its type; the stock stays a natural number
\* whatever the handlers have read (POST /api/sales, orders and returns).
THEOREM HostedTyped == Spec => []TypeOK
  BY AlwaysBase, PTL DEF Base0

\* A closed register expected the cash of each of its counter sales: the session
\* a sale reads stays locked until the sale is written, so that no closing is
\* added up in between (POST /api/sales FOR SHARE, close FOR UPDATE).
THEOREM ClosingMissesNoSale == Spec => []ClosingCountsItsSales
<1> DEFINE I == Base0 /\ Tills /\ ClosingCountsItsSales
<1>1. Init => I
  <2> SUFFICES ASSUME Init PROVE I
    OBVIOUS
  <2>1. Tills /\ ClosingCountsItsSales
    BY IdleCall DEF Init, Tills, ClosingCountsItsSales, Idle
  <2> QED
    BY <2>1, BaseInit
<1>2. I /\ [Next]_vars => I'
  BY BaseStep, TillsStep
<1> QED
  BY <1>1, <1>2, PTL DEF Spec

=============================================================================
