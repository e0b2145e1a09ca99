------------------------------ MODULE StockProofs ------------------------------
(***************************************************************************)
(* Promises of StockSync for every number of devices, movements, returns   *)
(* and faults.  Inv carries what a device forgets and what the stock       *)
(* cursor passes over, Ledgers what the cursor of sales and returns does;  *)
(* Numbers, Decided and Identified carry the sums of movements that        *)
(* explain the hosted stock, what comes back, and the stock of a device.   *)
(***************************************************************************)
EXTENDS StockSync, SumFacts

-----------------------------------------------------------------------------
(* Naturals and sequences *)

LEMMA Greatest ==
    ASSUME NEW n \in Nat, NEW S \in SUBSET (0 .. n), S # {}
    PROVE  \E m \in S : \A x \in S : x <= m
<1> DEFINE Gap == {n - x : x \in S}
<1>1. Gap \in SUBSET Nat /\ Gap # {}
  <2>1. \A x \in S : n - x \in Nat
    OBVIOUS
  <2> QED
    BY <2>1
<1>2. PICK g \in Gap : \A h \in Gap : <<h, g>> \notin OpToRel(<, Nat)
  BY <1>1, WFMin, NatLessThanWellFounded, Zenon
<1>3. \A h \in Gap : ~(h < g)
  <2> TAKE h \in Gap
  <2>1. h \in Nat /\ g \in Nat
    BY <1>1
  <2>2. <<h, g>> \in Nat \X Nat /\ <<h, g>>[1] = h /\ <<h, g>>[2] = g
    BY <2>1
  <2> QED
    BY <1>2, <2>2, Zenon DEF OpToRel
<1>4. PICK m \in S : g = n - m
  OBVIOUS
<1>5. ASSUME NEW x \in S PROVE x <= m
  <2>1. n - x \in Gap /\ ~(n - x < n - m)
    BY <1>3, <1>4
  <2>2. x \in 0 .. n /\ m \in 0 .. n
    OBVIOUS
  <2> QED
    BY <2>1, <2>2
<1> QED
  BY <1>5

LEMMA AppendFacts ==
    ASSUME NEW S, NEW s \in Seq(S), NEW e \in S
    PROVE  /\ Append(s, e) \in Seq(S)
           /\ DOMAIN s = 1 .. Len(s) /\ Len(s) \in Nat
           /\ Len(Append(s, e)) = Len(s) + 1
           /\ DOMAIN Append(s, e) = DOMAIN s \cup {Len(s) + 1}
           /\ \A i \in DOMAIN s : Append(s, e)[i] = s[i]
           /\ Append(s, e)[Len(s) + 1] = e
  OBVIOUS

-----------------------------------------------------------------------------
(* The invariant *)

Typed ==
    /\ made \in Seq(Move)
    /\ hosted \in Seq(Row)
    /\ decided \in SUBSET Nat
    /\ known \in [Device -> SUBSET Nat]
    /\ cursor \in [Device -> Nat]
    /\ unsent \in [Device -> SUBSET Nat]
    /\ books \in [Device -> SUBSET Nat]
    /\ rec \in [Device -> Reconciler]
    /\ late \in SUBSET Mutation

\* A mutation names a movement, and another one at most when both are returns the
\* same device has made.
Sound(r) ==
    /\ r.m \in DOMAIN made /\ r.as \in DOMAIN made /\ made[r.as].by = made[r.m].by
    /\ r.as = r.m \/ (made[r.m].kind = "return" /\ made[r.as].kind = "return")
    /\ made[r.m].kind # "web"

Ids ==
    /\ decided \in SUBSET DOMAIN made
    /\ \A d \in Device : unsent[d] \subseteq known[d] /\ known[d] \subseteq DOMAIN made
    /\ \A d \in Device : \A m \in unsent[d] : made[m].by = d
    /\ \A i \in DOMAIN hosted : hosted[i].m \in DOMAIN made /\ hosted[i].for \in DOMAIN made
    /\ \A d \in Device : \A r \in rec[d].todo : Sound(r)
    /\ \A r \in late : Sound(r)

\* Times: movements are made at even ones, and the server knows no later one.
Times ==
    /\ \A m \in DOMAIN made : made[m].at = 2 * m
    /\ \A i \in DOMAIN hosted : hosted[i].at \in 0 .. Now

Pages == \A d \in Device : rec[d].page \subseteq DOMAIN hosted /\ cursor[d] \in {0} \cup DOMAIN hosted

\* The mutation whose acknowledgement is next is decided.
Acked == \A d \in Device : rec[d].step = "ack" => \A r \in rec[d].todo : First(d, r) => r.m \in decided

\* A stock operation in the hosted table was decided.
HostedOps ==
    \A i \in DOMAIN hosted : made[hosted[i].m].kind \in {"op", "quiet"} => hosted[i].m \in decided

StampedHere(i) == made[hosted[i].m].kind # "op"

\* A page that waits to be applied has every such movement up to its end.
PageWhole(d) ==
    rec[d].step = "apply" => \A i \in DOMAIN hosted :
        StampedHere(i) => \/ i \in rec[d].page
                          \/ i \notin After(cursor[d])
                          \/ \A j \in rec[d].page : Before(j, i)

Passed(d) ==
    \A i \in DOMAIN hosted :
        StampedHere(i) /\ cursor[d] # 0 /\ i \notin After(cursor[d]) => hosted[i].m \in known[d]

Frame == Typed /\ Ids /\ Times /\ Pages

Pulls == \A d \in Device : PageWhole(d) /\ Passed(d)

Inv == Frame /\ Acked /\ HostedOps /\ SentIsHosted /\ Pulls

-----------------------------------------------------------------------------
(* What steps do to the tables *)

\* Both tables only grow.
MadeGrows ==
    /\ Len(made') \in Nat /\ Len(made) \in Nat /\ Len(made') >= Len(made)
    /\ DOMAIN made \subseteq DOMAIN made'
    /\ \A m \in DOMAIN made : made'[m] = made[m]

LEMMA SoundStays ==
    ASSUME MadeGrows, NEW r, Sound(r)
    PROVE  Sound(r)'
  BY DEF MadeGrows, Sound

LEMMA SameMade ==
    ASSUME Typed, UNCHANGED made
    PROVE  MadeGrows
  BY DEF MadeGrows, Typed

\* A row the server adds: an operation was decided, any other is the latest.
NewRow(row) ==
    /\ row \in Row /\ row.m \in DOMAIN made' /\ row.for \in DOMAIN made' /\ row.at \in 0 .. Now'
    /\ made'[row.m].kind # "op" => \A i \in DOMAIN hosted : hosted[i].at <= row.at
    /\ made'[row.m].kind \in {"op", "quiet"} => row.m \in decided'

HostedStep == hosted' = hosted \/ \E row \in Row : NewRow(row) /\ hosted' = Append(hosted, row)

Numbered == \A m \in DOMAIN made' : made'[m].at = 2 * m

HostedGrows ==
    /\ DOMAIN hosted \subseteq DOMAIN hosted'
    /\ \A i \in DOMAIN hosted : hosted'[i] = hosted[i] /\ (StampedHere(i)' <=> StampedHere(i))
    /\ \A i, j \in DOMAIN hosted : Before(i, j)' <=> Before(i, j)
    /\ \A i \in DOMAIN hosted' \ DOMAIN hosted :
          StampedHere(i)' => \A j \in DOMAIN hosted : Before(j, i)'

LEMMA Tables ==
    ASSUME Frame, HostedOps, MadeGrows, HostedStep, Numbered, decided \subseteq decided'
    PROVE  /\ hosted' \in Seq(Row) /\ Times' /\ HostedOps' /\ HostedGrows
           /\ \A i \in DOMAIN hosted' : hosted'[i].m \in DOMAIN made' /\ hosted'[i].for \in DOMAIN made'
<1>1. /\ hosted \in Seq(Row) /\ DOMAIN hosted = 1 .. Len(hosted) /\ Len(hosted) \in Nat
      /\ \A i \in DOMAIN hosted : /\ hosted[i] \in Row /\ hosted[i].m \in DOMAIN made
                                  /\ hosted[i].for \in DOMAIN made
  BY DEF Frame, Typed, Ids
<1>2. /\ Now \in Nat /\ Now' \in Nat /\ Now' >= Now
      /\ \A i \in DOMAIN hosted : hosted[i].at \in 0 .. Now
  BY DEF Frame, Typed, Times, MadeGrows, Now
<1>3. \A i \in DOMAIN hosted : made'[hosted[i].m] = made[hosted[i].m]
                                /\ hosted[i].m \in DOMAIN made' /\ hosted[i].for \in DOMAIN made'
  BY <1>1 DEF MadeGrows
<1>4. CASE hosted' = hosted
  <2>1. Times'
    BY <1>1, <1>2, <1>4 DEF Times, Numbered
  <2>2. HostedOps'
    BY <1>3, <1>4 DEF HostedOps
  <2>3. HostedGrows
    BY <1>3, <1>4 DEF HostedGrows, StampedHere, Before
  <2> QED
    BY <1>1, <1>3, <1>4, <2>1, <2>2, <2>3
<1>5. ASSUME NEW row \in Row, NewRow(row), hosted' = Append(hosted, row)
      PROVE  /\ hosted' \in Seq(Row) /\ Times' /\ HostedOps' /\ HostedGrows
             /\ \A i \in DOMAIN hosted' : hosted'[i].m \in DOMAIN made' /\ hosted'[i].for \in DOMAIN made'
  <2>0. PICK n \in Nat : n = Len(hosted) + 1
    BY <1>1
  <2>1. /\ hosted' \in Seq(Row) /\ DOMAIN hosted' = DOMAIN hosted \cup {n}
        /\ \A i \in DOMAIN hosted : hosted'[i] = hosted[i]
        /\ hosted'[n] = row
    BY <1>1, <1>5, <2>0, AppendFacts
  <2>2. \A i \in DOMAIN hosted : i < n /\ i # n
    BY <1>1, <2>0
  <2>3. Times'
    BY <1>2, <1>5, <2>1 DEF Times, Numbered, NewRow
  <2>4. HostedOps'
    BY <1>3, <1>5, <2>1 DEF HostedOps, NewRow
  <2>5. \A i \in DOMAIN hosted : StampedHere(i)' <=> StampedHere(i)
    BY <1>3, <2>1 DEF StampedHere
  <2>6. \A i, j \in DOMAIN hosted : Before(i, j)' <=> Before(i, j)
    BY <2>1 DEF Before
  <2>7. StampedHere(n)' => \A j \in DOMAIN hosted : Before(j, n)'
    <3> SUFFICES ASSUME StampedHere(n)', NEW j \in DOMAIN hosted
                 PROVE  Before(j, n)'
      OBVIOUS
    <3>1. hosted[j].at <= row.at /\ row.at \in Nat
      BY <1>2, <1>5, <2>1 DEF StampedHere, NewRow, Row
    <3>2. hosted'[j].at <= hosted'[n].at /\ hosted'[j].at \in Nat /\ hosted'[n].at \in Nat
      BY <1>2, <2>1, <3>1
    <3> QED
      BY <2>2, <3>2 DEF Before
  <2>8. HostedGrows
    BY <2>1, <2>5, <2>6, <2>7 DEF HostedGrows
  <2>9. \A i \in DOMAIN hosted' : hosted'[i].m \in DOMAIN made' /\ hosted'[i].for \in DOMAIN made'
    BY <1>3, <1>5, <2>1 DEF NewRow
  <2> QED
    BY <2>1, <2>3, <2>4, <2>8, <2>9
<1> QED
  BY <1>4, <1>5 DEF HostedStep

\* What a device knows of the hosted table stays enough when the table grows.
LEMMA PassedStays ==
    ASSUME Frame, HostedGrows, NEW d \in Device, Passed(d),
           cursor'[d] = cursor[d], known[d] \subseteq known'[d]
    PROVE  Passed(d)'
<1> SUFFICES ASSUME NEW i \in DOMAIN hosted', StampedHere(i)', cursor[d] # 0,
                    i \notin After(cursor[d])'
             PROVE  hosted'[i].m \in known'[d]
  BY DEF Passed, After
<1>1. cursor[d] \in DOMAIN hosted
  BY DEF Frame, Pages
<1>2. ~Before(cursor[d], i)'
  BY DEF After
<1>3. i \in DOMAIN hosted
  BY <1>1, <1>2 DEF HostedGrows
<1>4. i \notin After(cursor[d])
  BY <1>1, <1>2, <1>3 DEF HostedGrows, After
<1> QED
  BY <1>3, <1>4 DEF HostedGrows, Passed

LEMMA PageStays ==
    ASSUME Frame, HostedGrows, NEW d \in Device, PageWhole(d),
           cursor'[d] = cursor[d],
           rec'[d].step = "apply" => rec[d].step = "apply" /\ rec'[d].page = rec[d].page
    PROVE  PageWhole(d)'
<1> SUFFICES ASSUME rec'[d].step = "apply", NEW i \in DOMAIN hosted', StampedHere(i)'
             PROVE  \/ i \in rec[d].page
                    \/ i \notin After(cursor[d])'
                    \/ \A j \in rec[d].page : Before(j, i)'
  BY DEF PageWhole, After
<1>1. rec[d].page \subseteq DOMAIN hosted /\ cursor[d] \in {0} \cup DOMAIN hosted
  BY DEF Frame, Pages
<1>2. CASE i \in DOMAIN hosted
  <2>1. \/ i \in rec[d].page
        \/ i \notin After(cursor[d])
        \/ \A j \in rec[d].page : Before(j, i)
    BY <1>2 DEF PageWhole, HostedGrows
  <2>2. i \notin After(cursor[d]) => i \notin After(cursor[d])'
    BY <1>1, <1>2 DEF After, HostedGrows
  <2> QED
    BY <1>1, <1>2, <2>1, <2>2 DEF HostedGrows
<1>3. CASE i \notin DOMAIN hosted
  BY <1>1, <1>3 DEF HostedGrows
<1> QED
  BY <1>2, <1>3

-----------------------------------------------------------------------------
(* The identity of a return *)

LEMMA NewestIsReturn ==
    ASSUME Typed, Ids, NEW d \in Device, NEW m \in unsent[d], made[m].kind = "return"
    PROVE  Newest(d, made[m].of) \in OwnReturns(d, made[m].of)
<1> DEFINE R == OwnReturns(d, made[m].of)
<1>1. m \in R
  BY DEF OwnReturns, ReturnsOf, Ids
<1>2. R \in SUBSET (0 .. Len(made)) /\ Len(made) \in Nat
  BY DEF OwnReturns, ReturnsOf, Ids, Typed
<1>3. \E r \in R : \A x \in R : x <= r
  BY <1>1, <1>2, Greatest
<1> QED
  BY <1>3 DEF Newest

LEMMA OutboxSound ==
    ASSUME Typed, Ids, NEW d \in Device, NEW job
    PROVE  Outbox(d, job) \in SUBSET Mutation /\ \A r \in Outbox(d, job) : Sound(r)
<1> SUFFICES ASSUME NEW m \in unsent[d], made[m].kind \in {"op", "sale", "return"}
             PROVE  [m |-> m, as |-> Identity(d, m)] \in Mutation
                    /\ Sound([m |-> m, as |-> Identity(d, m)])
  BY DEF Outbox, Sent
<1>1. m \in DOMAIN made /\ DOMAIN made \subseteq Nat
  BY DEF Ids, Typed
<1>2. CASE made[m].kind = "return"
  <2>1. Identity(d, m) \in OwnReturns(d, made[m].of)
    BY <1>2, NewestIsReturn DEF Identity
  <2>2. /\ Identity(d, m) \in DOMAIN made /\ made[Identity(d, m)].kind = "return"
        /\ made[Identity(d, m)].by = made[m].by
    BY <2>1 DEF OwnReturns, ReturnsOf, Ids
  <2> QED
    BY <1>1, <1>2, <2>2 DEF Sound, Mutation
<1>3. CASE made[m].kind # "return"
  BY <1>1, <1>3 DEF Identity, Sound, Mutation
<1> QED
  BY <1>2, <1>3

-----------------------------------------------------------------------------
(* One device's part of the invariant, after a step *)

Settled(d) ==
    /\ rec'[d] \in Reconciler /\ cursor'[d] \in Nat
    /\ \A r \in rec'[d].todo : Sound(r)'
    /\ rec'[d].page \subseteq DOMAIN hosted'
    /\ cursor'[d] \in {0} \cup DOMAIN hosted'
    /\ rec'[d].step = "ack" => \A r \in rec'[d].todo : First(d, r)' => r.m \in decided'
    /\ PageWhole(d)' /\ Passed(d)'

\* The tables and queues, whatever the reconcilers do.
Progress ==
    /\ MadeGrows /\ Numbered /\ HostedStep /\ decided \subseteq decided'
    /\ made' \in Seq(Move) /\ decided' \in SUBSET Nat /\ decided' \in SUBSET DOMAIN made'
    /\ known' \in [Device -> SUBSET Nat] /\ unsent' \in [Device -> SUBSET Nat]
    /\ books' \in [Device -> SUBSET Nat]
    /\ \A d \in Device : /\ known[d] \subseteq known'[d] /\ known'[d] \subseteq DOMAIN made'
                         /\ unsent'[d] \subseteq known'[d]
                         /\ \A m \in unsent'[d] : made'[m].by = d
    /\ late' \in SUBSET Mutation /\ \A r \in late' : Sound(r)'
    /\ SentIsHosted'

LEMMA TablesKept ==
    ASSUME Inv, Progress
    PROVE  /\ hosted' \in Seq(Row) /\ Times' /\ HostedOps' /\ HostedGrows
           /\ \A i \in DOMAIN hosted' : hosted'[i].m \in DOMAIN made' /\ hosted'[i].for \in DOMAIN made'
<1>1. Frame /\ HostedOps /\ MadeGrows /\ HostedStep /\ Numbered /\ decided \subseteq decided'
  BY DEF Inv, Progress
<1> QED
  BY <1>1, Tables

LEMMA StepInv ==
    ASSUME Inv, Progress, \A d \in Device : Settled(d),
           rec' \in [Device -> Reconciler], cursor' \in [Device -> Nat]
    PROVE  Inv'
<1>1. /\ hosted' \in Seq(Row) /\ Times' /\ HostedOps'
      /\ \A i \in DOMAIN hosted' : hosted'[i].m \in DOMAIN made' /\ hosted'[i].for \in DOMAIN made'
  BY TablesKept
<1>2. Typed'
  BY <1>1 DEF Typed, Progress
<1>3. Ids'
  BY <1>1 DEF Ids, Progress, Settled
<1>4. Pages' /\ Acked' /\ Pulls'
  BY DEF Pages, Acked, Pulls, Settled
<1> QED
  BY <1>1, <1>2, <1>3, <1>4 DEF Inv, Frame, Progress

\* A device that does nothing.
LEMMA Idles ==
    ASSUME Inv, Progress, NEW d \in Device, rec'[d] = rec[d], cursor'[d] = cursor[d]
    PROVE  Settled(d)
<1>1. HostedGrows
  BY TablesKept
<1>2. /\ rec[d] \in Reconciler /\ cursor[d] \in Nat
      /\ \A r \in rec[d].todo : Sound(r)
      /\ rec[d].page \subseteq DOMAIN hosted
      /\ cursor[d] \in {0} \cup DOMAIN hosted
      /\ rec[d].step = "ack" => \A r \in rec[d].todo : First(d, r) => r.m \in decided
      /\ PageWhole(d) /\ Passed(d)
  BY DEF Inv, Frame, Typed, Ids, Pages, Acked, Pulls
<1>3. \A r \in rec[d].todo : Sound(r)'
  BY <1>2, SoundStays DEF Progress
<1>4. \A r : First(d, r)' <=> First(d, r)
  BY DEF First
<1>5. Passed(d)'
  BY <1>1, <1>2, PassedStays DEF Inv, Progress
<1>6. PageWhole(d)'
  BY <1>1, <1>2, PageStays DEF Inv
<1>7. DOMAIN hosted \subseteq DOMAIN hosted' /\ decided \subseteq decided'
  BY <1>1 DEF HostedGrows, Progress
<1> QED
  BY <1>2, <1>3, <1>4, <1>5, <1>6, <1>7 DEF Settled

\* A device whose reconciler goes on while its cursor stays.
LEMMA GoesOn ==
    ASSUME Inv, Progress, NEW d \in Device, cursor' = cursor,
           NEW e \in Reconciler, rec' = [rec EXCEPT ![d] = e],
           \A r \in e.todo : Sound(r)', e.page \subseteq DOMAIN hosted',
           e.step = "ack" => \A r \in e.todo : First(d, r)' => r.m \in decided',
           PageWhole(d)'
    PROVE  Inv'
<1>1. rec' \in [Device -> Reconciler] /\ rec'[d] = e /\ cursor' \in [Device -> Nat]
  BY DEF Inv, Frame, Typed
<1>2. HostedGrows
  BY TablesKept
<1>3. cursor[d] \in {0} \cup DOMAIN hosted /\ cursor[d] \in Nat /\ Passed(d)
  BY DEF Inv, Frame, Typed, Pages, Pulls
<1>4. Passed(d)'
  BY <1>2, <1>3, PassedStays DEF Inv, Progress
<1>5. Settled(d)
  BY <1>1, <1>2, <1>3, <1>4 DEF Settled, HostedGrows
<1>6. ASSUME NEW x \in Device, x # d PROVE Settled(x)
  BY <1>6, Idles DEF Inv, Frame, Typed
<1> QED
  BY <1>1, <1>5, <1>6, StepInv

-----------------------------------------------------------------------------
(* Steps without the server *)

\* Only what is done is changed: nothing new is made, and nothing forgotten.
LEMMA SameTables ==
    ASSUME Inv, UNCHANGED <<made, hosted, decided, known>>,
           unsent' \in [Device -> SUBSET Nat], books' \in [Device -> SUBSET Nat],
           \A d \in Device : unsent'[d] \subseteq unsent[d]
                             /\ \A m \in unsent[d] \ unsent'[d] : m \in decided,
           late' \in SUBSET Mutation, \A r \in late' : Sound(r)
    PROVE  Progress
<1>1. MadeGrows
  BY SameMade DEF Inv, Frame
<1>2. \A r \in late' : Sound(r)'
  BY <1>1, SoundStays
<1>3. SentIsHosted'
  BY DEF Inv, SentIsHosted
<1> QED
  BY <1>1, <1>2, <1>3 DEF Progress, Numbered, HostedStep, Inv, Frame, Typed, Ids, Times

LEMMA LateIsSound == Inv => /\ late \in SUBSET Mutation /\ unsent \in [Device -> SUBSET Nat]
                            /\ books \in [Device -> SUBSET Nat]
                            /\ \A r \in late : Sound(r)
  BY DEF Inv, Frame, Typed, Ids

LEMMA TodoIsSound ==
    ASSUME Inv, NEW d \in Device
    PROVE  /\ rec[d] \in Reconciler /\ rec[d].todo \in SUBSET Mutation
           /\ \A r \in rec[d].todo : Sound(r)
  BY DEF Inv, Frame, Typed, Ids, Reconciler

\* What the reconciler of a device is when a job has ended.
LEMMA JobEnds ==
    ASSUME Inv, NEW d \in Device, EndJob(d)
    PROVE  \E e \in Reconciler : /\ rec' = [rec EXCEPT ![d] = e]
                                 /\ e.step \in {"load", "push"} /\ e.page = {}
                                 /\ \A r \in e.todo : Sound(r)
<1>1. Fresh \in Reconciler /\ Fresh.todo = {} /\ Fresh.page = {} /\ Fresh.step = "load"
  BY DEF Fresh, Reconciler
<1> DEFINE e == [job |-> "sales", step |-> "push", todo |-> Outbox(d, "sales"), page |-> {}]
<1>2. e \in Reconciler /\ e.step = "push" /\ e.page = {} /\ \A r \in e.todo : Sound(r)
  BY OutboxSound DEF Reconciler, Inv, Frame
<1> QED
  BY <1>1, <1>2 DEF EndJob

\* Steps that end the job and leave the cursor.
LEMMA EndsJob ==
    ASSUME Inv, Progress, NEW d \in Device, EndJob(d), UNCHANGED cursor
    PROVE  Inv'
<1>1. PICK e \in Reconciler : /\ rec' = [rec EXCEPT ![d] = e]
                              /\ e.step \in {"load", "push"} /\ e.page = {}
                              /\ \A r \in e.todo : Sound(r)
  BY JobEnds
<1>2. \A r \in e.todo : Sound(r)'
  BY <1>1, SoundStays DEF Progress
<1>3. rec'[d] = e
  BY <1>1 DEF Inv, Frame, Typed
<1>4. PageWhole(d)'
  BY <1>1, <1>3 DEF PageWhole
<1> QED
  BY <1>1, <1>2, <1>4, GoesOn

LEMMA LoadInv == ASSUME Inv, NEW d \in Device, Load(d) PROVE Inv'
<1> DEFINE e == [rec[d] EXCEPT !.step = "push", !.todo = Outbox(d, "stock")]
<1>1. Progress
  BY SameTables, LateIsSound DEF Load, server
<1>2. /\ rec[d] \in Reconciler /\ Outbox(d, "stock") \in SUBSET Mutation
      /\ \A r \in Outbox(d, "stock") : Sound(r)
  BY OutboxSound DEF Inv, Frame, Typed
<1>3. e \in Reconciler /\ rec' = [rec EXCEPT ![d] = e] /\ e.step = "push"
      /\ e.todo = Outbox(d, "stock") /\ e.page = rec[d].page
  BY <1>2 DEF Load, Reconciler, Inv, Frame, Typed
<1>4. \A r \in e.todo : Sound(r)'
  BY <1>1, <1>2, <1>3, SoundStays DEF Progress
<1>5. e.page \subseteq DOMAIN hosted'
  BY <1>3 DEF Load, server, Inv, Frame, Pages
<1>6. PageWhole(d)'
  BY <1>3 DEF PageWhole, Inv, Frame, Typed
<1> QED
  BY <1>1, <1>3, <1>4, <1>5, <1>6, GoesOn DEF Load

LEMMA AckInv ==
    ASSUME Inv, NEW d \in Device, NEW r \in rec[d].todo, Ack(d, r)
    PROVE  Inv'
<1> DEFINE e == [rec[d] EXCEPT !.step = "push", !.todo = @ \ {r}]
<1>0. r.m \in decided
  BY DEF Ack, Inv, Acked
<1>1. Progress
  <2>1. unsent' \in [Device -> SUBSET Nat]
        /\ \A x \in Device : unsent'[x] \subseteq unsent[x]
                             /\ \A m \in unsent[x] \ unsent'[x] : m \in decided
    BY <1>0, LateIsSound DEF Ack
  <2> QED
    BY <2>1, SameTables, LateIsSound DEF Ack, server
<1>2. rec[d] \in Reconciler /\ \A x \in rec[d].todo : Sound(x)
  BY TodoIsSound
<1>3. e \in Reconciler /\ rec' = [rec EXCEPT ![d] = e] /\ e.step = "push"
      /\ e.todo = rec[d].todo \ {r} /\ e.page = rec[d].page
  BY <1>2 DEF Ack, Reconciler, Inv, Frame, Typed
<1>4. \A x \in e.todo : Sound(x)'
  BY <1>1, <1>2, <1>3, SoundStays DEF Progress
<1>5. e.page \subseteq DOMAIN hosted'
  BY <1>3 DEF Ack, server, Inv, Frame, Pages
<1>6. PageWhole(d)'
  BY <1>3 DEF PageWhole, Inv, Frame, Typed
<1> QED
  BY <1>1, <1>3, <1>4, <1>5, <1>6, GoesOn DEF Ack

\* A page holds every row after the cursor that comes before one of its rows.
LEMMA PageIsPrefix ==
    ASSUME Frame, NEW c, NEW i \in After(c), i \notin NextPage(c), NEW j \in NextPage(c)
    PROVE  Before(j, i)
<1> DEFINE Earlier(x) == {y \in After(c) : Before(y, x)}
<1>1. /\ After(c) \subseteq DOMAIN hosted /\ IsFiniteSet(DOMAIN hosted) /\ Page \in Nat
      /\ DOMAIN hosted \subseteq Nat /\ \A x \in DOMAIN hosted : hosted[x].at \in Nat
  <2>1. DOMAIN hosted = 1 .. Len(hosted) /\ Len(hosted) \in Nat
    BY DEF Frame, Typed
  <2>2. \A x \in DOMAIN hosted : hosted[x].at \in Nat
    BY DEF Frame, Times
  <2>3. IsFiniteSet(DOMAIN hosted)
    BY <2>1, FS_Interval
  <2>4. Page \in Nat
    BY StockAssumption
  <2> QED
    BY <2>1, <2>2, <2>3, <2>4 DEF After
<1>2. SUFFICES ASSUME ~Before(j, i) PROVE FALSE
  OBVIOUS
<1>3. j \in After(c) /\ i # j
  BY DEF NextPage
<1>4. Before(i, j)
  BY <1>1, <1>2, <1>3 DEF Before
<1>5. \A y \in After(c) : Before(y, i) => Before(y, j)
  BY <1>1, <1>3, <1>4 DEF Before
<1>6. IsFiniteSet(Earlier(j)) /\ Earlier(i) \in SUBSET Earlier(j)
  BY <1>1, <1>5, FS_Subset
<1>7. /\ Cardinality(Earlier(i)) \in Nat /\ Cardinality(Earlier(j)) \in Nat
      /\ Cardinality(Earlier(i)) <= Cardinality(Earlier(j))
  BY <1>6, FS_Subset, FS_CardinalityType
<1>8. Cardinality(Earlier(j)) < Page
  BY DEF NextPage
<1> QED
  BY <1>1, <1>7, <1>8 DEF NextPage

LEMMA PullStockInv == ASSUME Inv, NEW d \in Device, PullStock(d) PROVE Inv'
<1> DEFINE P == NextPage(cursor[d])
           e == [rec[d] EXCEPT !.step = "apply", !.page = P]
<1>1. Progress
  BY SameTables, LateIsSound DEF PullStock, server
<1>2. rec[d] \in Reconciler /\ \A x \in rec[d].todo : Sound(x)
  BY TodoIsSound
<1>3. P \in SUBSET DOMAIN hosted /\ P \in SUBSET Nat
  BY DEF NextPage, After, Inv, Frame, Typed
<1>4. e \in Reconciler /\ rec' = [rec EXCEPT ![d] = e] /\ e.step = "apply"
      /\ e.todo = rec[d].todo /\ e.page = P
  BY <1>2, <1>3 DEF PullStock, Reconciler, Inv, Frame, Typed
<1>5. \A x \in e.todo : Sound(x)'
  BY <1>1, <1>2, <1>4, SoundStays DEF Progress
<1>6. e.page \subseteq DOMAIN hosted'
  BY <1>3, <1>4 DEF PullStock, server
<1>7. PageWhole(d)'
  <2>1. rec'[d] = e /\ hosted' = hosted /\ cursor' = cursor
    BY <1>4 DEF PullStock, server, Inv, Frame, Typed
  <2>2. \A i \in After(cursor[d]) : i \in P \/ \A j \in P : Before(j, i)
    BY PageIsPrefix DEF Inv
  <2>3. After(cursor[d])' = After(cursor[d]) /\ \A i, j : Before(j, i)' <=> Before(j, i)
    BY <2>1 DEF After, Before
  <2> QED
    BY <1>4, <2>1, <2>2, <2>3 DEF PageWhole
<1> QED
  BY <1>1, <1>4, <1>5, <1>6, <1>7, GoesOn DEF PullStock

LEMMA EndInv ==
    ASSUME Inv, NEW d \in Device, ApplyRefused(d) \/ PullSales(d) \/ PullSalesRefused(d)
    PROVE  Inv'
<1>1. CASE ApplyRefused(d)
  <2>1. Progress /\ UNCHANGED cursor
    BY <1>1, SameTables, LateIsSound DEF ApplyRefused, server
  <2> QED
    BY <1>1, <2>1, EndsJob DEF ApplyRefused
<1>2. CASE PullSales(d)
  <2>1. books' \in [Device -> SUBSET Nat]
    <3>1. {hosted[i].for : i \in SalesAfter(salesCursor[d])} \in SUBSET Nat
      BY DEF SalesAfter, InLedger, Inv, Frame, Typed, Ids
    <3> QED
      BY <1>2, <3>1, LateIsSound DEF PullSales
  <2>2. Progress /\ UNCHANGED cursor
    BY <1>2, <2>1, SameTables, LateIsSound DEF PullSales, server
  <2> QED
    BY <1>2, <2>2, EndsJob DEF PullSales
<1>3. CASE PullSalesRefused(d)
  <2>1. Progress /\ UNCHANGED cursor
    BY <1>3, SameTables, LateIsSound DEF PullSalesRefused, server
  <2> QED
    BY <1>3, <2>1, EndsJob DEF PullSalesRefused
<1> QED
  BY <1>1, <1>2, <1>3

LEMMA GiveUpInv == ASSUME Inv, NEW d \in Device, GiveUp(d) PROVE Inv'
<1>1. rec[d].todo \in SUBSET Mutation /\ \A r \in rec[d].todo : Sound(r)
  BY TodoIsSound
<1>2. late' \in SUBSET Mutation /\ \A r \in late' : Sound(r)
  BY <1>1, LateIsSound DEF GiveUp
<1>3. Progress
  BY <1>2, SameTables, LateIsSound DEF GiveUp, server
<1> QED
  BY <1>3, EndsJob DEF GiveUp

LEMMA RestartInv == ASSUME Inv, NEW d \in Device, Restart(d) PROVE Inv'
<1>1. rec[d].todo \in SUBSET Mutation /\ \A r \in rec[d].todo : Sound(r)
  BY TodoIsSound
<1>2. late' \in SUBSET Mutation /\ \A r \in late' : Sound(r)
  BY <1>1, LateIsSound DEF Restart
<1>3. Progress
  BY <1>2, SameTables, LateIsSound DEF Restart, server
<1>4. Fresh \in Reconciler /\ Fresh.todo = {} /\ Fresh.page = {} /\ Fresh.step = "load"
  BY DEF Fresh, Reconciler
<1>5. PageWhole(d)'
  BY <1>4 DEF PageWhole, Restart, Inv, Frame, Typed
<1> QED
  BY <1>3, <1>4, <1>5, GoesOn DEF Restart

-----------------------------------------------------------------------------
(* Steps of the server *)

LEMMA Served ==
    ASSUME Inv, NEW r \in Mutation, Sound(r), Apply(r) \/ Replay(r) \/ Refuse(r),
           UNCHANGED <<made, known, unsent, books>>, late' \in SUBSET late
    PROVE  Progress /\ (Apply(r) \/ Replay(r) => r.m \in decided')
<1>1. /\ MadeGrows /\ Numbered /\ made' \in Seq(Move)
      /\ Now' = Now /\ Now \in Nat /\ \A m \in DOMAIN made : made[m] \in Move /\ m \in Nat
  BY SameMade DEF Inv, Frame, Typed, Times, Numbered, Now
<1>2. /\ decided \subseteq decided' /\ decided' \in SUBSET Nat /\ decided' \in SUBSET DOMAIN made'
      /\ (Apply(r) \/ Replay(r) => r.m \in decided')
  BY DEF Apply, Replay, Refuse, server, Inv, Frame, Typed, Ids, Sound, Mutation
<1>3. HostedStep
  <2>1. CASE Apply(r)
    <3>0. PICK time \in IF made[r.m].kind = "op" THEN {made[r.m].at} ELSE Clock :
            hosted' = Append(hosted, [m |-> r.as, for |-> r.m, delta |-> Delta[r.m], at |-> time])
      BY <2>1 DEF Apply
    <3> DEFINE row == [m |-> r.as, for |-> r.m, delta |-> Delta[r.m], at |-> time]
    <3>1. time \in 0 .. Now /\ made[r.m].delta \in Int
      <4>1. r.m \in 1 .. Len(made) /\ Len(made) \in Nat /\ made[r.m].at = 2 * r.m
        BY DEF Inv, Frame, Typed, Times, Sound
      <4>2. made[r.m].delta \in Int
        BY <1>1 DEF Move, Sound
      <4>3. ASSUME made[r.m].kind # "op" PROVE time \in 0 .. Now
        <5>1. PICK half \in Halves : time = 2 * Len(made) + half
          BY <3>0, <4>3 DEF Clock
        <5>2. half \in {0, 1}
          BY StockAssumption
        <5> QED
          BY <4>1, <5>1, <5>2 DEF Now
      <4>4. ASSUME made[r.m].kind = "op" PROVE time \in 0 .. Now
        BY <3>0, <4>1, <4>4 DEF Now
      <4> QED
        BY <4>2, <4>3, <4>4
    <3>2. row \in Row /\ row.m = r.as /\ row.for = r.m /\ row.at = time /\ row.at \in 0 .. Now
      BY <1>1, <3>1 DEF Row, Delta, Mutation, Sound
    <3>3. made[row.m].kind # "op" => \A i \in DOMAIN hosted : hosted[i].at <= row.at
      BY <1>1, <3>0, <3>2 DEF Sound, Clock
    <3>4. made[row.m].kind \in {"op", "quiet"} => row.m \in decided'
      BY <1>2, <2>1, <3>2 DEF Sound
    <3>5. NewRow(row)
      BY <1>1, <3>2, <3>3, <3>4 DEF NewRow, Sound
    <3> QED
      BY <3>0, <3>2, <3>5 DEF HostedStep
  <2> QED
    BY <2>1 DEF Replay, Refuse, server, HostedStep
<1>4. \A x \in late' : Sound(x)'
  BY <1>1, SoundStays, LateIsSound
<1>5. SentIsHosted'
  BY <1>2 DEF Inv, SentIsHosted
<1> QED
  BY <1>1, <1>2, <1>3, <1>4, <1>5, LateIsSound DEF Progress, Inv, Frame, Typed, Ids

LEMMA ArriveInv == ASSUME Inv, NEW r \in late, Arrive(r) PROVE Inv'
<1>1. r \in Mutation /\ Sound(r)
  BY LateIsSound
<1>2. Progress
  BY <1>1, Served DEF Arrive
<1>3. \A d \in Device : Settled(d)
  BY <1>2, Idles DEF Arrive
<1> QED
  BY <1>2, <1>3, StepInv DEF Arrive, Inv, Frame, Typed

LEMMA PushInv ==
    ASSUME Inv, NEW d \in Device, NEW r \in rec[d].todo, Push(d, r)
    PROVE  Inv'
<1> DEFINE e == [rec[d] EXCEPT !.step = "ack"]
<1>1. rec[d] \in Reconciler /\ r \in Mutation /\ \A x \in rec[d].todo : Sound(x) /\ x \in Mutation
  BY TodoIsSound
<1>2. Progress /\ r.m \in decided'
  BY <1>1, Served DEF Push
<1>3. e \in Reconciler /\ rec' = [rec EXCEPT ![d] = e] /\ e.step = "ack"
      /\ e.todo = rec[d].todo /\ e.page = rec[d].page
  BY <1>1 DEF Push, Reconciler, Inv, Frame, Typed
<1>4. \A x \in e.todo : Sound(x)'
  BY <1>1, <1>2, <1>3, SoundStays DEF Progress
<1>5. e.page \subseteq DOMAIN hosted'
  BY <1>2, <1>3, TablesKept DEF HostedGrows, Inv, Frame, Pages
<1>6. rec'[d] = e
  BY <1>3 DEF Inv, Frame, Typed
<1>7. \A x \in e.todo : First(d, x)' => x.m \in decided'
  <2> SUFFICES ASSUME NEW x \in rec[d].todo, First(d, x)'
               PROVE  x.m \in decided'
    BY <1>3
  <2>1. x.m <= r.m /\ r.m <= x.m
    BY <1>3, <1>6 DEF First, Push
  <2>2. x.m \in Nat /\ r.m \in Nat
    BY <1>1 DEF Mutation
  <2> QED
    BY <1>2, <2>1, <2>2
<1>8. PageWhole(d)'
  BY <1>3, <1>6 DEF PageWhole
<1> QED
  BY <1>2, <1>3, <1>4, <1>5, <1>7, <1>8, GoesOn DEF Push

LEMMA PushRefusedInv ==
    ASSUME Inv, NEW d \in Device, NEW r \in rec[d].todo, PushRefused(d, r)
    PROVE  Inv'
<1>1. Progress
  BY SameTables, LateIsSound DEF PushRefused, Refuse, server
<1> QED
  BY <1>1, EndsJob DEF PushRefused

-----------------------------------------------------------------------------
(* Movements are made *)

LEMMA MadeAppended ==
    ASSUME Inv, NEW mv \in Move, mv.at = Now + 1, made' = Append(made, mv)
    PROVE  /\ MadeGrows /\ Numbered /\ made' \in Seq(Move)
           /\ DOMAIN made' = DOMAIN made \cup {Len(made) + 1} /\ Len(made) \in Nat
           /\ made'[Len(made) + 1] = mv /\ Len(made') = Len(made) + 1
<1>1. /\ made \in Seq(Move) /\ DOMAIN made = 1 .. Len(made) /\ Len(made) \in Nat
  BY DEF Inv, Frame, Typed
<1>2. /\ made' \in Seq(Move) /\ DOMAIN made' = DOMAIN made \cup {Len(made) + 1}
      /\ \A m \in DOMAIN made : made'[m] = made[m]
      /\ made'[Len(made) + 1] = mv /\ Len(made') = Len(made) + 1
  BY <1>1, AppendFacts
<1>3. MadeGrows
  BY <1>1, <1>2 DEF MadeGrows
<1>4. \A m \in DOMAIN made : made[m].at = 2 * m
  BY DEF Inv, Frame, Times
<1>5. mv.at = 2 * (Len(made) + 1)
  BY <1>1 DEF Now
<1>6. Numbered
  BY <1>2, <1>4, <1>5 DEF Numbered
<1> QED
  BY <1>1, <1>2, <1>3, <1>6

LEMMA RecordInv ==
    ASSUME Inv, NEW d \in Device, NEW kind \in Kind, NEW delta \in Int, NEW of \in Nat,
           NEW lines \in Nat \ {0},
           Record(d, kind, delta, of, lines), books' \in [Device -> SUBSET Nat]
    PROVE  Inv'
<1> DEFINE mv == [by |-> d, kind |-> kind, delta |-> delta, of |-> of, lines |-> lines,
                  at |-> Now + 1]
           n == Len(made) + 1
<1>1. mv \in Move /\ mv.at = Now + 1 /\ mv.by = d /\ made' = Append(made, mv)
  BY DEF Move, Record, Now, Inv, Frame, Typed
<1>2. /\ MadeGrows /\ Numbered /\ made' \in Seq(Move)
      /\ DOMAIN made' = DOMAIN made \cup {n} /\ n \in Nat /\ made'[n] = mv
  BY <1>1, MadeAppended
<1>3. /\ known' \in [Device -> SUBSET Nat] /\ unsent' \in [Device -> SUBSET Nat]
      /\ known'[d] = known[d] \cup {n} /\ unsent'[d] = unsent[d] \cup {n}
      /\ \A x \in Device \ {d} : known'[x] = known[x] /\ unsent'[x] = unsent[x]
  BY <1>2 DEF Record, Inv, Frame, Typed
<1>4. \A x \in Device : /\ known[x] \subseteq known'[x] /\ known'[x] \subseteq DOMAIN made'
                        /\ unsent'[x] \subseteq known'[x]
                        /\ \A m \in unsent'[x] : made'[m].by = x
  BY <1>1, <1>2, <1>3 DEF Inv, Frame, Ids, MadeGrows
<1>5. SentIsHosted'
  <2> SUFFICES ASSUME NEW x \in Device, NEW m \in DOMAIN made', made'[m].by = x,
                      m \notin unsent'[x]
               PROVE  m \in decided
    BY DEF SentIsHosted, Record, server
  <2>1. m # n
    BY <1>1, <1>2, <1>3
  <2>2. m \in DOMAIN made /\ made'[m] = made[m]
    BY <1>2, <2>1 DEF MadeGrows
  <2>3. m \notin unsent[x]
    BY <1>3
  <2> QED
    BY <2>2, <2>3 DEF Inv, SentIsHosted
<1>6. \A r \in late : Sound(r)'
  BY <1>2, SoundStays, LateIsSound
<1>7. Progress
  BY <1>2, <1>3, <1>4, <1>5, <1>6
     DEF Progress, HostedStep, Record, server, Inv, Frame, Typed, Ids
<1>8. \A x \in Device : Settled(x)
  BY <1>7, Idles DEF Record
<1> QED
  BY <1>7, <1>8, StepInv DEF Record, Inv, Frame, Typed

LEMMA WorkInv == ASSUME Inv, NEW d \in Device, Work(d) PROVE Inv'
<1>1. ASSUME NEW delta \in Deltas, NEW kind \in Noted, StockOperation(d, kind, delta)
      PROVE  Inv'
  BY <1>1, RecordInv, LateIsSound, StockAssumption DEF StockOperation, Kind
<1>2. /\ made \in Seq(Move) /\ Len(made) + 1 \in Nat /\ books \in [Device -> SUBSET Nat]
  BY DEF Inv, Frame, Typed
<1>3. ASSUME NEW q \in Quantities, Sell(d, q) PROVE Inv'
  <2>1. -q \in Int /\ "sale" \in Kind /\ books' \in [Device -> SUBSET Nat]
    BY <1>2, <1>3, StockAssumption DEF Sell, Kind
  <2> QED
    BY <1>3, <2>1, RecordInv DEF Sell
<1>4. ASSUME NEW s \in books[d], NEW q \in Quantities, NEW lines \in 1 .. MaxLines,
             TakeBack(d, s, q, lines)
      PROVE  Inv'
  <2>1. lines * q \in Int /\ lines \in Nat \ {0} /\ s \in Nat /\ "return" \in Kind /\ books' \in [Device -> SUBSET Nat]
    BY <1>2, <1>4, StockAssumption DEF TakeBack, Kind
  <2> QED
    BY <1>4, <2>1, RecordInv DEF TakeBack
<1>5. CASE Join(d)
  <2>1. Progress
    BY <1>5, SameTables, LateIsSound DEF Join, server
  <2>2. \A x \in Device : Settled(x)
    BY <1>5, <2>1, Idles DEF Join
  <2> QED
    BY <1>5, <2>1, <2>2, StepInv DEF Join, Inv, Frame, Typed
<1> QED
  BY <1>1, <1>3, <1>4, <1>5 DEF Work

LEMMA WebInv == ASSUME Inv, NEW delta \in Deltas, WebChange(delta) PROVE Inv'
<1> DEFINE mv == [by |-> Web, kind |-> "web", delta |-> delta, of |-> 0, lines |-> 1,
                  at |-> Now + 1]
           row == [m |-> Len(made) + 1, for |-> Len(made) + 1, delta |-> delta, at |-> Now + 1]
           n == Len(made) + 1
<1>1. mv \in Move /\ mv.at = Now + 1 /\ mv.by = Web /\ mv.kind = "web"
      /\ made' = Append(made, mv) /\ Now \in Nat
  BY StockAssumption DEF Move, WebChange, Now, Inv, Frame, Typed, Kind
<1>2. /\ MadeGrows /\ Numbered /\ made' \in Seq(Move)
      /\ DOMAIN made' = DOMAIN made \cup {n} /\ n \in Nat /\ made'[n] = mv
      /\ Len(made') = Len(made) + 1
  BY <1>1, MadeAppended
<1>3. row \in Row /\ row.m = n /\ row.for = n /\ row.at = Now + 1
  BY <1>1, <1>2, StockAssumption DEF Row
<1>4. Now' = Now + 2
  BY <1>2 DEF Now
<1>5. NewRow(row)
  <2>1. \A i \in DOMAIN hosted : hosted[i].at <= row.at
    BY <1>1, <1>3 DEF Inv, Frame, Times
  <2> QED
    BY <1>1, <1>2, <1>3, <1>4, <2>1 DEF NewRow
<1>6. HostedStep
  BY <1>3, <1>5 DEF HostedStep, WebChange
<1>7. SentIsHosted'
  BY <1>1, <1>2, StockAssumption DEF SentIsHosted, MadeGrows, WebChange, Inv
<1>8. \A r \in late : Sound(r)'
  BY <1>2, SoundStays, LateIsSound
<1>9. Progress
  BY <1>2, <1>6, <1>7, <1>8 DEF Progress, WebChange, Inv, Frame, Typed, Ids, MadeGrows
<1>10. \A x \in Device : Settled(x)
  BY <1>9, Idles DEF WebChange
<1> QED
  BY <1>9, <1>10, StepInv DEF WebChange, Inv, Frame, Typed

-----------------------------------------------------------------------------
(* A page is applied *)

LEMMA LastExists ==
    ASSUME Frame, NEW S \in SUBSET DOMAIN hosted, S # {}
    PROVE  \E i \in S : \A j \in S : j = i \/ Before(j, i)
<1>1. DOMAIN hosted = 1 .. Len(hosted) /\ Len(hosted) \in Nat /\ Now \in Nat
      /\ \A i \in DOMAIN hosted : hosted[i].at \in 0 .. Now
  BY DEF Frame, Typed, Times, Now
<1> DEFINE Ats == {hosted[i].at : i \in S}
<1>2. PICK t \in Ats : \A u \in Ats : u <= t
  <2>1. Ats \in SUBSET (0 .. Now) /\ Ats # {}
    BY <1>1
  <2> QED
    BY <1>1, <2>1, Greatest
<1> DEFINE Latest == {i \in S : hosted[i].at = t}
<1>3. PICK i \in Latest : \A j \in Latest : j <= i
  <2>1. Latest \in SUBSET (0 .. Len(hosted)) /\ Latest # {}
    BY <1>1, <1>2
  <2> QED
    BY <1>1, <2>1, Greatest
<1>4. ASSUME NEW j \in S, j # i PROVE Before(j, i)
  <2>1. hosted[j].at \in Nat /\ t \in Nat /\ hosted[j].at <= t /\ hosted[i].at = t
    BY <1>1, <1>2, <1>3
  <2>2. hosted[j].at = t => j <= i /\ j \in Nat /\ i \in Nat
    BY <1>1, <1>3
  <2> QED
    BY <1>4, <2>1, <2>2 DEF Before
<1> QED
  BY <1>4

LEMMA ApplyStockInv == ASSUME Inv, NEW d \in Device, ApplyStock(d) PROVE Inv'
<1> DEFINE page == rec[d].page
           ids == {hosted[i].m : i \in page}
<1>1. /\ page \subseteq DOMAIN hosted /\ ids \subseteq DOMAIN made /\ DOMAIN made \subseteq Nat
      /\ hosted' = hosted /\ made' = made /\ decided' = decided
  BY DEF ApplyStock, server, Inv, Frame, Pages, Ids, Typed
<1>2. /\ known' \in [Device -> SUBSET Nat] /\ known'[d] = known[d] \cup ids
      /\ \A x \in Device \ {d} : known'[x] = known[x]
  BY <1>1 DEF ApplyStock, Inv, Frame, Typed
<1>3. /\ unsent' \in [Device -> SUBSET Nat]
      /\ \A x \in Device : unsent'[x] \subseteq unsent[x]
                           /\ \A m \in unsent[x] \ unsent'[x] : m \in decided
  BY <1>1 DEF ApplyStock, Inv, Frame, Typed, HostedOps
<1>4. Progress
  <2>1. MadeGrows
    BY <1>1, SameMade DEF Inv, Frame
  <2>2. \A r \in late : Sound(r)'
    BY <2>1, SoundStays, LateIsSound
  <2>3. SentIsHosted'
    BY <1>1, <1>3 DEF Inv, SentIsHosted
  <2>4. \A x \in Device : /\ known[x] \subseteq known'[x] /\ known'[x] \subseteq DOMAIN made'
                          /\ unsent'[x] \subseteq known'[x]
                          /\ \A m \in unsent'[x] : made'[m].by = x
    BY <1>1, <1>2, <1>3 DEF Inv, Frame, Ids
  <2> QED
    BY <1>1, <1>2, <1>3, <2>1, <2>2, <2>3, <2>4
       DEF Progress, Numbered, HostedStep, ApplyStock, Inv, Frame, Typed, Ids, Times
<1>5. PICK e \in Reconciler : /\ rec' = [rec EXCEPT ![d] = e]
                              /\ e.step \in {"load", "push"} /\ e.page = {}
                              /\ \A r \in e.todo : Sound(r)
  BY JobEnds DEF ApplyStock
<1>6. /\ cursor' \in [Device -> Nat] /\ cursor'[d] \in {0} \cup DOMAIN hosted
      /\ page = {} => cursor'[d] = cursor[d]
      /\ page # {} => cursor'[d] \in page /\ \A j \in page : j = cursor'[d] \/ Before(j, cursor'[d])
      /\ \A x \in Device \ {d} : cursor'[x] = cursor[x]
  <2> DEFINE c == IF page = {} THEN cursor[d]
                  ELSE LastOf(page)
  <2>1. page # {} => c \in page /\ \A j \in page : j = c \/ Before(j, c)
    BY <1>1, LastExists DEF Inv, LastOf
  <2>2. cursor' = [cursor EXCEPT ![d] = c]
    BY DEF ApplyStock
  <2>3. cursor[d] \in {0} \cup DOMAIN hosted /\ cursor \in [Device -> Nat] /\ DOMAIN hosted \subseteq Nat
    BY DEF Inv, Frame, Pages, Typed
  <2>4. c \in Nat /\ c \in {0} \cup DOMAIN hosted /\ (page = {} => c = cursor[d])
    BY <1>1, <2>1, <2>3
  <2> HIDE DEF c
  <2> QED
    BY <2>1, <2>2, <2>3, <2>4
<1>7. Passed(d)'
  <2>1. PICK c \in Nat : c = cursor'[d]
    BY <1>6
  <2> SUFFICES ASSUME NEW i \in DOMAIN hosted, StampedHere(i), c # 0, ~Before(c, i)
               PROVE  hosted[i].m \in known'[d]
    BY <1>1, <2>1 DEF Passed, After, StampedHere, Before
  <2>2. i \notin After(cursor[d]) => hosted[i].m \in known[d]
    BY DEF Inv, Pulls, Passed, After
  <2>3. CASE page = {}
    BY <1>2, <1>6, <2>1, <2>2, <2>3 DEF After
  <2>4. CASE page # {}
    <3>1. \/ i \in page \/ i \notin After(cursor[d]) \/ \A j \in page : Before(j, i)
      BY DEF Inv, Pulls, PageWhole, ApplyStock, At
    <3> QED
      BY <1>2, <1>6, <2>1, <2>2, <2>4, <3>1
  <2> QED
    BY <2>3, <2>4
<1>8. rec'[d] = e /\ rec' \in [Device -> Reconciler]
  BY <1>5 DEF Inv, Frame, Typed
<1>9. Settled(d)
  <2>1. \A r \in e.todo : Sound(r)'
    BY <1>4, <1>5, SoundStays DEF Progress
  <2>2. PageWhole(d)'
    BY <1>5, <1>8 DEF PageWhole
  <2> QED
    BY <1>1, <1>5, <1>6, <1>7, <1>8, <2>1, <2>2 DEF Settled
<1>10. ASSUME NEW x \in Device, x # d PROVE Settled(x)
  BY <1>4, <1>5, <1>6, <1>10, Idles DEF Inv, Frame, Typed
<1> QED
  BY <1>4, <1>6, <1>8, <1>9, <1>10, StepInv

-----------------------------------------------------------------------------
(* What steps do to the stock *)

Pushes == late \cup UNION {rec[d].todo : d \in Device}

Numbers ==
    /\ hstock \in Nat /\ stock \in [Device -> Nat] /\ faults \in 0 .. MaxFaults
    /\ joined \subseteq Device /\ Device \ Late \subseteq joined

\* A movement of device d is made.
Made(d, mv) ==
    /\ mv \in Move /\ mv.by = d /\ mv.kind # "web" /\ (mv.kind = "sale" => mv.delta <= 0)
    /\ made' = Append(made, mv)
    /\ stock[d] + mv.delta >= 0
    /\ stock' = [stock EXCEPT ![d] = @ + mv.delta]
    /\ known' = [known EXCEPT ![d] = @ \cup {Len(made) + 1}]
    /\ UNCHANGED server

\* Nothing that counts happens.
StockSame ==
    /\ UNCHANGED <<made, server, known>>
    /\ stock' \in [Device -> Nat] /\ \A d \in Device \ Late : stock'[d] = stock[d]

Effect ==
    \/ StockSame
    \/ \E d \in Device : \E mv \in Move : Made(d, mv)
    \/ \E delta \in Deltas : WebChange(delta)
    \/ \E r \in Pushes : Apply(r) /\ UNCHANGED <<made, known, stock>>
    \/ \E d \in Device : ApplyStock(d)

LEMMA RecordEffect ==
    ASSUME Inv, NEW d \in Device, NEW kind \in Kind \ {"web"}, NEW delta \in Int, NEW of \in Nat,
           NEW lines \in Nat \ {0}, kind = "sale" => delta <= 0, Record(d, kind, delta, of, lines)
    PROVE  Effect
<1> DEFINE mv == [by |-> d, kind |-> kind, delta |-> delta, of |-> of, lines |-> lines,
                  at |-> Now + 1]
<1>1. mv \in Move /\ mv.by = d /\ mv.kind = kind /\ mv.delta = delta
  BY DEF Move, Now, Inv, Frame, Typed
<1>2. Made(d, mv)
  BY <1>1 DEF Made, Record
<1> QED
  BY <1>1, <1>2 DEF Effect

LEMMA Effects == ASSUME Inv, Numbers, [Next]_vars PROVE Effect
<1>1. /\ Deltas \subseteq Int /\ Noted \subseteq {"op", "quiet"} /\ Quantities \subseteq Nat \ {0}
      /\ books \in [Device -> SUBSET Nat]
  BY StockAssumption DEF Inv, Frame, Typed
<1>2. ASSUME NEW d \in Device, Work(d) PROVE Effect
  <2>1. ASSUME NEW delta \in Deltas, NEW kind \in Noted, StockOperation(d, kind, delta)
        PROVE  Effect
    BY <1>1, <2>1, RecordEffect DEF StockOperation, Kind
  <2>2. ASSUME NEW q \in Quantities, Sell(d, q) PROVE Effect
    <3>1. -q \in Int /\ -q <= 0 /\ "sale" \in Kind \ {"web"}
      BY <1>1 DEF Kind
    <3> QED
      BY <2>2, <3>1, RecordEffect DEF Sell
  <2>3. ASSUME NEW s \in books[d], NEW q \in Quantities, NEW lines \in 1 .. MaxLines,
               TakeBack(d, s, q, lines)
        PROVE  Effect
    <3>1. lines * q \in Int /\ lines \in Nat \ {0} /\ s \in Nat /\ "return" \in Kind \ {"web"}
      BY <1>1 DEF Kind
    <3> QED
      BY <2>3, <3>1, RecordEffect DEF TakeBack
  <2>4. CASE Join(d)
    BY <2>4 DEF Join, Effect, StockSame, Numbers, server
  <2> QED
    BY <1>2, <2>1, <2>2, <2>3, <2>4 DEF Work
<1>3. ASSUME NEW d \in Device, Reconcile(d) PROVE Effect
  <2>1. CASE Load(d) \/ PullStock(d) \/ ApplyRefused(d) \/ PullSales(d) \/ PullSalesRefused(d)
    BY <2>1 DEF Load, PullStock, ApplyRefused, PullSales, PullSalesRefused, Effect, StockSame, Numbers, server
  <2>2. ASSUME NEW r \in rec[d].todo, Push(d, r) PROVE Effect
    BY <2>2 DEF Push, Replay, Effect, StockSame, Numbers, Pushes, server
  <2>3. ASSUME NEW r \in rec[d].todo, PushRefused(d, r) \/ Ack(d, r) PROVE Effect
    BY <2>3 DEF PushRefused, Ack, Refuse, Effect, StockSame, Numbers, server
  <2> QED
    BY <1>3, <2>1, <2>2, <2>3 DEF Reconcile, Effect
<1>4. ASSUME NEW r \in late, Arrive(r) PROVE Effect
  BY <1>4 DEF Arrive, Replay, Refuse, Effect, StockSame, Numbers, Pushes, server
<1>5. ASSUME NEW d \in Device, GiveUp(d) \/ Restart(d) PROVE Effect
  BY <1>5 DEF GiveUp, Restart, Effect, StockSame, Numbers, server
<1>6. CASE UNCHANGED vars
  BY <1>6 DEF vars, Effect, StockSame, Numbers, server
<1> QED
  BY <1>2, <1>3, <1>4, <1>5, <1>6 DEF Next, Effect

-----------------------------------------------------------------------------
(* Sums of movements *)

LEMMA SumType ==
    ASSUME NEW S, IsFiniteSet(S), NEW f, \A x \in S : f[x] \in Int
    PROVE  Sum(f, S) \in Int
  BY TotalType DEF Sum, Total

LEMMA SumAdd ==
    ASSUME NEW S, IsFiniteSet(S), NEW f, NEW x, x \notin S, \A y \in S \cup {x} : f[y] \in Int
    PROVE  Sum(f, S \cup {x}) = f[x] + Sum(f, S)
  BY TotalAdd DEF Sum, Total

LEMMA SumTake ==
    ASSUME NEW S, IsFiniteSet(S), NEW f, NEW x \in S, \A y \in S : f[y] \in Int
    PROVE  Sum(f, S) = f[x] + Sum(f, S \ {x})
  BY TotalTake DEF Sum, Total

LEMMA SumAgree ==
    ASSUME NEW S, IsFiniteSet(S), NEW f, NEW g, \A x \in S : f[x] = g[x]
    PROVE  Sum(f, S) = Sum(g, S)
  BY TotalAgree DEF Sum, Total

LEMMA SumSplit ==
    ASSUME NEW S, IsFiniteSet(S), NEW R \in SUBSET S, NEW f, \A x \in S : f[x] \in Int
    PROVE  Sum(f, S) = Sum(f, R) + Sum(f, S \ R)
<1>1. IsFiniteSet(R) /\ IsFiniteSet(S \ R) /\ R \cap (S \ R) = {} /\ S = R \cup (S \ R)
  BY FS_Subset
<1> QED
  BY <1>1, TotalUnion DEF Sum, Total

LEMMA SumEmpty == ASSUME NEW f PROVE Sum(f, {}) = 0
  BY TotalEmpty DEF Sum, Total

\* The movements and rows there are can be summed up.
LEMMA Summable ==
    ASSUME Typed
    PROVE  /\ IsFiniteSet(DOMAIN made) /\ IsFiniteSet(DOMAIN hosted)
           /\ \A m \in DOMAIN made : Delta[m] = made[m].delta /\ Delta[m] \in Int
           /\ \A i \in DOMAIN hosted : RowDelta[i] = hosted[i].delta /\ RowDelta[i] \in Int
           /\ \A S \in SUBSET DOMAIN made : IsFiniteSet(S) /\ Sum(Delta, S) \in Int
           /\ \A S \in SUBSET DOMAIN hosted : IsFiniteSet(S) /\ Sum(RowDelta, S) \in Int
<1>1. /\ IsFiniteSet(DOMAIN made) /\ IsFiniteSet(DOMAIN hosted)
      /\ \A m \in DOMAIN made : Delta[m] = made[m].delta /\ Delta[m] \in Int
      /\ \A i \in DOMAIN hosted : RowDelta[i] = hosted[i].delta /\ RowDelta[i] \in Int
  <2>1. /\ DOMAIN made = 1 .. Len(made) /\ Len(made) \in Nat
        /\ DOMAIN hosted = 1 .. Len(hosted) /\ Len(hosted) \in Nat
    BY DEF Typed
  <2>2. \A m \in DOMAIN made : made[m] \in Move
    BY DEF Typed
  <2>3. \A i \in DOMAIN hosted : hosted[i] \in Row
    BY DEF Typed
  <2>4. IsFiniteSet(DOMAIN made) /\ IsFiniteSet(DOMAIN hosted)
    BY <2>1, FS_Interval
  <2> QED
    BY <2>2, <2>3, <2>4 DEF Delta, RowDelta, Move, Row
<1>2. ASSUME NEW S \in SUBSET DOMAIN made PROVE IsFiniteSet(S) /\ Sum(Delta, S) \in Int
  <2>1. IsFiniteSet(S) /\ \A x \in S : Delta[x] \in Int
    BY <1>1, FS_Subset
  <2> QED
    BY <2>1, SumType
<1>3. ASSUME NEW S \in SUBSET DOMAIN hosted PROVE IsFiniteSet(S) /\ Sum(RowDelta, S) \in Int
  <2>1. IsFiniteSet(S) /\ \A x \in S : RowDelta[x] \in Int
    BY <1>1, FS_Subset
  <2> QED
    BY <2>1, SumType
<1> QED
  BY <1>1, <1>2, <1>3

RowsGrow == DOMAIN hosted \subseteq DOMAIN hosted' /\ \A i \in DOMAIN hosted : hosted'[i] = hosted[i]

\* What was summed up stays when more is made or hosted.
LEMMA SumsStay ==
    ASSUME Typed, MadeGrows, RowsGrow
    PROVE  /\ \A m \in DOMAIN made : Delta'[m] = Delta[m]
           /\ \A S \in SUBSET DOMAIN made : Sum(Delta', S) = Sum(Delta, S)
           /\ \A i \in DOMAIN hosted : RowDelta'[i] = RowDelta[i]
           /\ \A S \in SUBSET DOMAIN hosted : Sum(RowDelta', S) = Sum(RowDelta, S)
<1>1. /\ \A m \in DOMAIN made' : Delta'[m] = made'[m].delta
      /\ \A i \in DOMAIN hosted' : RowDelta'[i] = hosted'[i].delta
  BY DEF Delta, RowDelta
<1>2. \A m \in DOMAIN made : Delta'[m] = Delta[m]
  BY <1>1, Summable DEF MadeGrows
<1>3. \A i \in DOMAIN hosted : RowDelta'[i] = RowDelta[i]
  BY <1>1, Summable DEF RowsGrow
<1>4. ASSUME NEW S \in SUBSET DOMAIN made PROVE Sum(Delta', S) = Sum(Delta, S)
  <2>1. IsFiniteSet(S) /\ \A x \in S : Delta'[x] = Delta[x]
    BY <1>2, Summable
  <2> QED
    BY <2>1, SumAgree
<1>5. ASSUME NEW S \in SUBSET DOMAIN hosted PROVE Sum(RowDelta', S) = Sum(RowDelta, S)
  <2>1. IsFiniteSet(S) /\ \A x \in S : RowDelta'[x] = RowDelta[x]
    BY <1>3, Summable
  <2> QED
    BY <2>1, SumAgree
<1> QED
  BY <1>2, <1>3, <1>4, <1>5

\* The cases of a step, with what they append.
LEMMA Appends ==
    ASSUME Inv, Effect
    PROVE  /\ MadeGrows /\ RowsGrow
           /\ \A d \in Device : \A mv \in Move : Made(d, mv) =>
                 /\ DOMAIN made' = DOMAIN made \cup {Len(made) + 1} /\ made'[Len(made) + 1] = mv
                 /\ hosted' = hosted
           /\ \A delta \in Deltas : WebChange(delta) =>
                 /\ DOMAIN made' = DOMAIN made \cup {Len(made) + 1}
                 /\ made'[Len(made) + 1].kind = "web" /\ made'[Len(made) + 1].delta = delta
                 /\ DOMAIN hosted' = DOMAIN hosted \cup {Len(hosted) + 1}
                 /\ hosted'[Len(hosted) + 1].m = Len(made) + 1
                 /\ hosted'[Len(hosted) + 1].for = Len(made) + 1
                 /\ hosted'[Len(hosted) + 1].delta = delta
           /\ \A r \in Pushes : Apply(r) /\ UNCHANGED made =>
                 /\ DOMAIN hosted' = DOMAIN hosted \cup {Len(hosted) + 1}
                 /\ hosted'[Len(hosted) + 1].m = r.as
                 /\ hosted'[Len(hosted) + 1].for = r.m
                 /\ hosted'[Len(hosted) + 1].delta = Delta[r.m]
                 /\ made[r.m].kind # "op" =>
                       \A i \in DOMAIN hosted : hosted[i].at <= hosted'[Len(hosted) + 1].at
           /\ Len(made) + 1 \notin DOMAIN made /\ Len(hosted) + 1 \notin DOMAIN hosted
<1>0. /\ made \in Seq(Move) /\ hosted \in Seq(Row)
      /\ DOMAIN made = 1 .. Len(made) /\ Len(made) \in Nat
      /\ DOMAIN hosted = 1 .. Len(hosted) /\ Len(hosted) \in Nat
  BY DEF Inv, Frame, Typed
<1>1. Len(made) + 1 \notin DOMAIN made /\ Len(hosted) + 1 \notin DOMAIN hosted
  BY <1>0
<1>2. MadeGrows \/ made' # made
  BY SameMade DEF Inv, Frame
<1>3. hosted' = hosted => RowsGrow
  BY DEF RowsGrow
<1>4. ASSUME NEW mv \in Move, made' = Append(made, mv)
      PROVE  /\ MadeGrows /\ DOMAIN made' = DOMAIN made \cup {Len(made) + 1}
             /\ made'[Len(made) + 1] = mv
  <2>1. /\ DOMAIN made' = DOMAIN made \cup {Len(made) + 1}
        /\ \A m \in DOMAIN made : made'[m] = made[m]
        /\ made'[Len(made) + 1] = mv /\ Len(made') = Len(made) + 1
    BY <1>0, <1>4, AppendFacts
  <2> QED
    BY <1>0, <2>1 DEF MadeGrows
<1>5. ASSUME NEW row \in Row, hosted' = Append(hosted, row)
      PROVE  /\ RowsGrow /\ DOMAIN hosted' = DOMAIN hosted \cup {Len(hosted) + 1}
             /\ hosted'[Len(hosted) + 1] = row
  BY <1>0, <1>5, AppendFacts DEF RowsGrow
<1>6. ASSUME NEW d \in Device, NEW mv \in Move, Made(d, mv)
      PROVE  /\ MadeGrows /\ RowsGrow
             /\ DOMAIN made' = DOMAIN made \cup {Len(made) + 1} /\ made'[Len(made) + 1] = mv
             /\ hosted' = hosted
  BY <1>3, <1>4, <1>6 DEF Made, server
<1>7. ASSUME NEW delta \in Deltas, WebChange(delta)
      PROVE  /\ MadeGrows /\ RowsGrow
             /\ DOMAIN made' = DOMAIN made \cup {Len(made) + 1}
             /\ made'[Len(made) + 1].kind = "web" /\ made'[Len(made) + 1].delta = delta
             /\ DOMAIN hosted' = DOMAIN hosted \cup {Len(hosted) + 1}
             /\ hosted'[Len(hosted) + 1].m = Len(made) + 1
             /\ hosted'[Len(hosted) + 1].for = Len(made) + 1
             /\ hosted'[Len(hosted) + 1].delta = delta
  <2> DEFINE mv == [by |-> Web, kind |-> "web", delta |-> delta, of |-> 0, lines |-> 1,
                    at |-> Now + 1]
             row == [m |-> Len(made) + 1, for |-> Len(made) + 1, delta |-> delta, at |-> Now + 1]
  <2>1. /\ mv \in Move /\ mv.kind = "web" /\ mv.delta = delta
        /\ row \in Row /\ row.m = Len(made) + 1 /\ row.for = Len(made) + 1 /\ row.delta = delta
    BY <1>0, StockAssumption DEF Move, Row, Kind, Now
  <2>2. made' = Append(made, mv) /\ hosted' = Append(hosted, row)
    BY <1>7 DEF WebChange
  <2> HIDE DEF mv, row
  <2> QED
    BY <1>4, <1>5, <2>1, <2>2
<1>8. ASSUME NEW r \in Pushes, Apply(r), UNCHANGED made
      PROVE  /\ MadeGrows /\ RowsGrow
             /\ DOMAIN hosted' = DOMAIN hosted \cup {Len(hosted) + 1}
             /\ hosted'[Len(hosted) + 1].m = r.as
             /\ hosted'[Len(hosted) + 1].for = r.m
             /\ hosted'[Len(hosted) + 1].delta = Delta[r.m]
             /\ made[r.m].kind # "op" =>
                   \A i \in DOMAIN hosted : hosted[i].at <= hosted'[Len(hosted) + 1].at
  <2>0. PICK time \in IF made[r.m].kind = "op" THEN {made[r.m].at} ELSE Clock :
          hosted' = Append(hosted, [m |-> r.as, for |-> r.m, delta |-> Delta[r.m], at |-> time])
    BY <1>8 DEF Apply
  <2> DEFINE row == [m |-> r.as, for |-> r.m, delta |-> Delta[r.m], at |-> time]
  <2>1. r \in Mutation /\ Sound(r)
    BY LateIsSound, TodoIsSound DEF Pushes
  <2>2. time \in Nat /\ Delta[r.m] \in Int
    <3>1. r.m \in DOMAIN made /\ made[r.m] \in Move
      BY <1>0, <2>1 DEF Sound
    <3>2. Delta[r.m] \in Int
      BY <3>1, Summable DEF Inv, Frame
    <3>3. Clock \subseteq Nat
      BY <1>0, StockAssumption DEF Clock
    <3> QED
      BY <2>0, <3>1, <3>2, <3>3 DEF Move
  <2>3. row \in Row /\ row.m = r.as /\ row.for = r.m /\ row.delta = Delta[r.m] /\ row.at = time
    BY <2>1, <2>2 DEF Row, Mutation
  <2>4. made[r.m].kind # "op" => \A i \in DOMAIN hosted : hosted[i].at <= time
    BY <2>0 DEF Clock
  <2>5. hosted' = Append(hosted, row)
    BY <2>0
  <2> HIDE DEF row
  <2> QED
    BY <1>2, <1>5, <1>8, <2>3, <2>4, <2>5
<1>9. ASSUME StockSame \/ \E d \in Device : ApplyStock(d) PROVE MadeGrows /\ RowsGrow
  BY <1>2, <1>3, <1>9 DEF StockSame, ApplyStock, server
<1>10. MadeGrows /\ RowsGrow
  BY <1>6, <1>7, <1>8, <1>9 DEF Effect
<1> QED
  BY <1>1, <1>6, <1>7, <1>8, <1>10

\* The stock is a natural number, on the server and on every device.
LEMMA NumbersStep == ASSUME Inv, Numbers, [Next]_vars PROVE Numbers'
<1>1. Effect
  BY Effects
<1>2. hstock \in Nat /\ stock \in [Device -> Nat] /\ Deltas \subseteq Int
  BY StockAssumption DEF Numbers
<1>3. /\ faults' = faults \/ (faults < MaxFaults /\ faults' = faults + 1)
      /\ joined' = joined \/ \E d \in Device : joined' = joined \cup {d}
  <2>1. ASSUME NEW d \in Device, Work(d)
        PROVE  faults' = faults /\ (joined' = joined \/ joined' = joined \cup {d})
    BY <2>1 DEF Work, StockOperation, Sell, TakeBack, Join, Record
  <2>2. ASSUME NEW d \in Device, Reconcile(d) PROVE faults' = faults /\ joined' = joined
    BY <2>2 DEF Reconcile, Load, Push, PushRefused, Ack, PullStock, ApplyStock, ApplyRefused,
                PullSales, PullSalesRefused
  <2>3. ASSUME NEW d \in Device, GiveUp(d) \/ Restart(d)
        PROVE  faults < MaxFaults /\ faults' = faults + 1 /\ joined' = joined
    BY <2>3 DEF GiveUp, Restart
  <2>4. ASSUME \/ \E delta \in Deltas : WebChange(delta)
               \/ \E r \in late : Arrive(r)
               \/ UNCHANGED vars
        PROVE  faults' = faults /\ joined' = joined
    BY <2>4 DEF WebChange, Arrive, vars
  <2> QED
    BY <2>1, <2>2, <2>3, <2>4 DEF Next
<1>4. faults' \in 0 .. MaxFaults /\ joined' \subseteq Device /\ joined \subseteq joined'
  <2>1. faults \in 0 .. MaxFaults /\ MaxFaults \in Nat
    BY StockAssumption DEF Numbers
  <2> QED
    BY <1>3, <2>1 DEF Numbers
<1>5. hstock' \in Nat /\ stock' \in [Device -> Nat]
  <2>1. CASE StockSame
    BY <1>2, <2>1 DEF StockSame, server
  <2>2. ASSUME NEW d \in Device, NEW mv \in Move, Made(d, mv)
        PROVE  hstock' \in Nat /\ stock' \in [Device -> Nat]
    <3>1. stock[d] + mv.delta \in Nat
      BY <1>2, <2>2 DEF Made, Move
    <3> QED
      BY <1>2, <2>2, <3>1 DEF Made, server
  <2>3. ASSUME NEW delta \in Deltas, WebChange(delta)
        PROVE  hstock' \in Nat /\ stock' \in [Device -> Nat]
    BY <1>2, <2>3 DEF WebChange
  <2>4. ASSUME NEW r \in Pushes, Apply(r), UNCHANGED <<made, known, stock>>
        PROVE  hstock' \in Nat /\ stock' \in [Device -> Nat]
    <3>1. Delta[r.m] \in Int
      BY LateIsSound, TodoIsSound, Summable DEF Pushes, Sound, Inv, Frame
    <3> QED
      BY <1>2, <2>4, <3>1 DEF Apply, Acceptable
  <2>5. ASSUME NEW d \in Device, ApplyStock(d)
        PROVE  hstock' \in Nat /\ stock' \in [Device -> Nat]
    <3> DEFINE N == News(d, rec[d].page)
    <3>1. /\ Storable(d, rec[d].page) /\ hstock' = hstock
          /\ stock' = [stock EXCEPT ![d] = @ + Sum(RowDelta, N)]
      BY <2>5 DEF ApplyStock, server
    <3>2. N \in SUBSET DOMAIN hosted
      BY DEF News, Inv, Frame, Pages
    <3>3. Sum(RowDelta, N) \in Int
      BY <3>2, Summable DEF Inv, Frame
    <3>4. CASE N = {}
      BY <1>2, <3>1, <3>4, SumEmpty
    <3>5. CASE N # {}
      <4>1. PICK i \in N : \A j \in N : j = i \/ Before(j, i)
        BY <3>2, <3>5, LastExists DEF Inv
      <4>2. {j \in N : j = i \/ Before(j, i)} = N
        BY <4>1
      <4>3. stock[d] + Sum(RowDelta, N) >= 0
        BY <3>1, <4>2 DEF Storable
      <4> QED
        BY <1>2, <3>1, <3>3, <4>3
    <3> QED
      BY <3>4, <3>5
  <2> QED
    BY <1>1, <2>1, <2>2, <2>3, <2>4, <2>5 DEF Effect
<1> QED
  BY <1>4, <1>5 DEF Numbers

-----------------------------------------------------------------------------
(* The hosted stock *)

Counted == decided \cup {m \in DOMAIN made : made[m].kind = "web"}

\* What is decided is no movement of the web, and what a return is of is decided
\* before it; a sale takes something away.
Decided ==
    /\ \A m \in decided : made[m].kind # "web"
    /\ \A m \in decided : made[m].kind = "return" => made[m].of \in decided
    /\ \A m \in DOMAIN made : made[m].kind = "sale" => made[m].delta <= 0

LEMMA PushesSound ==
    ASSUME Inv, NEW r \in Pushes
    PROVE  r \in Mutation /\ Sound(r) /\ r.m \in DOMAIN made /\ Delta[r.m] = made[r.m].delta
           /\ Delta[r.m] \in Int
<1>1. r \in Mutation /\ Sound(r)
  BY LateIsSound, TodoIsSound DEF Pushes
<1> QED
  BY <1>1, Summable DEF Sound, Inv, Frame

LEMMA DecidedStep == ASSUME Inv, Numbers, Decided, [Next]_vars PROVE Decided'
<1>1. Effect /\ MadeGrows /\ decided \in SUBSET DOMAIN made
  BY Effects, Appends DEF Inv, Frame, Ids
<1>2. CASE StockSame \/ \E d \in Device : ApplyStock(d)
  <2>1. decided' = decided /\ made' = made
    BY <1>2 DEF StockSame, ApplyStock, server
  <2> QED
    BY <2>1 DEF Decided
<1>3. ASSUME NEW d \in Device, NEW mv \in Move, Made(d, mv) PROVE Decided'
  <2>1. decided' = decided /\ DOMAIN made' = DOMAIN made \cup {Len(made) + 1}
        /\ made'[Len(made) + 1] = mv
    BY <1>1, <1>3, Appends DEF Made, server
  <2> QED
    BY <1>1, <1>3, <2>1 DEF Decided, MadeGrows, Made
<1>4. ASSUME NEW delta \in Deltas, WebChange(delta) PROVE Decided'
  <2>1. decided' = decided /\ DOMAIN made' = DOMAIN made \cup {Len(made) + 1}
        /\ made'[Len(made) + 1].kind = "web"
    BY <1>1, <1>4, Appends DEF WebChange
  <2> QED
    BY <1>1, <2>1 DEF Decided, MadeGrows
<1>5. ASSUME NEW r \in Pushes, Apply(r), UNCHANGED made PROVE Decided'
  <2>1. decided' = decided \cup {r.m} /\ made[r.m].kind # "web"
        /\ (made[r.m].kind = "return" => made[r.m].of \in decided)
    BY <1>5, PushesSound DEF Apply, Acceptable, Sound
  <2> QED
    BY <1>5, <2>1 DEF Decided
<1> QED
  BY <1>1, <1>2, <1>3, <1>4, <1>5 DEF Effect

LEMMA CountedStep ==
    ASSUME Inv, Numbers, Decided, CountedOnce, [Next]_vars
    PROVE  CountedOnce'
<1>1. /\ Effect /\ MadeGrows /\ decided \in SUBSET DOMAIN made
      /\ hstock \in Nat /\ Base \in Nat /\ hstock = Base + Sum(Delta, Counted)
      /\ Counted \in SUBSET DOMAIN made
      /\ Deltas \subseteq Int
  BY Effects, Appends, StockAssumption DEF Inv, Frame, Ids, Numbers, CountedOnce, Counted
<1>2. /\ IsFiniteSet(Counted) /\ Sum(Delta, Counted) \in Int
      /\ \A m \in DOMAIN made : Delta'[m] = Delta[m] /\ Delta[m] \in Int
      /\ Sum(Delta', Counted) = Sum(Delta, Counted)
  BY <1>1, Appends, Summable, SumsStay DEF Inv, Frame
<1>3. SUFFICES hstock' = Base + Sum(Delta', Counted')
  BY DEF CountedOnce, Counted
<1>4. CASE StockSame \/ \E d \in Device : ApplyStock(d)
  <2>1. UNCHANGED <<decided, made, hstock>>
    BY <1>4 DEF StockSame, ApplyStock, server
  <2>2. Counted' = Counted
    BY <2>1 DEF Counted
  <2> QED
    BY <1>1, <1>2, <2>1, <2>2
<1>5. ASSUME NEW d \in Device, NEW mv \in Move, Made(d, mv)
      PROVE  hstock' = Base + Sum(Delta', Counted')
  <2>1. UNCHANGED <<decided, hstock>> /\ DOMAIN made' = DOMAIN made \cup {Len(made) + 1}
        /\ made'[Len(made) + 1].kind # "web"
    BY <1>1, <1>5, Appends DEF Made, server
  <2>2. Counted' = Counted
    BY <1>1, <2>1 DEF Counted, MadeGrows
  <2> QED
    BY <1>1, <1>2, <2>1, <2>2
<1>6. ASSUME NEW delta \in Deltas, WebChange(delta)
      PROVE  hstock' = Base + Sum(Delta', Counted')
  <2> DEFINE n == Len(made) + 1
  <2>1. /\ decided' = decided /\ hstock' = hstock + delta /\ DOMAIN made' = DOMAIN made \cup {n}
        /\ made'[n].kind = "web" /\ made'[n].delta = delta /\ n \notin DOMAIN made
    BY <1>1, <1>6, Appends DEF WebChange
  <2>2. Counted' = Counted \cup {n} /\ n \notin Counted
    BY <1>1, <2>1 DEF Counted, MadeGrows
  <2>3. Delta'[n] = delta
    BY <2>1 DEF Delta
  <2> HIDE DEF n
  <2>4. Sum(Delta', Counted \cup {n}) = Delta'[n] + Sum(Delta', Counted)
    <3>1. \A y \in Counted \cup {n} : Delta'[y] \in Int
      BY <1>1, <1>2, <2>3
    <3> QED
      BY <1>2, <2>2, <3>1, SumAdd
  <2> QED
    BY <1>1, <1>2, <2>1, <2>2, <2>3, <2>4
<1>7. ASSUME NEW r \in Pushes, Apply(r), UNCHANGED made
      PROVE  hstock' = Base + Sum(Delta', Counted')
  <2>1. /\ r.m \notin decided /\ hstock' = hstock + Delta[r.m] /\ decided' = decided \cup {r.m}
        /\ r.m \in DOMAIN made /\ made[r.m].kind # "web"
    BY <1>7, PushesSound DEF Apply, Sound
  <2>2. Counted' = Counted \cup {r.m} /\ r.m \notin Counted
    BY <1>7, <2>1 DEF Counted
  <2>3. Sum(Delta', Counted \cup {r.m}) = Delta'[r.m] + Sum(Delta', Counted)
    <3>1. \A y \in Counted \cup {r.m} : Delta'[y] \in Int
      BY <1>1, <1>2, <2>1
    <3> QED
      BY <1>2, <2>2, <3>1, SumAdd
  <2> QED
    BY <1>1, <1>2, <2>1, <2>2, <2>3
<1> QED
  BY <1>1, <1>4, <1>5, <1>6, <1>7 DEF Effect

\* The returns of a sale that are decided.
Back(s) == ReturnsOf(s, decided)

LEMMA ReturnsStep ==
    ASSUME Inv, Numbers, Decided, ReturnsWithinSale, [Next]_vars
    PROVE  ReturnsWithinSale'
<1>1. Effect /\ MadeGrows /\ RowsGrow /\ decided \in SUBSET DOMAIN made /\ Typed
  BY Effects, Appends DEF Inv, Frame, Ids
<1>2. /\ \A m \in DOMAIN made : Delta'[m] = Delta[m] /\ Delta[m] = made[m].delta /\ Delta[m] \in Int
      /\ \A S \in SUBSET DOMAIN made : IsFiniteSet(S) /\ Sum(Delta, S) \in Int
                                       /\ Sum(Delta', S) = Sum(Delta, S)
  BY <1>1, Summable, SumsStay
<1>3. \A s \in decided : made[s].kind = "sale" => -Delta[s] - Sum(Delta, Back(s)) >= 0
  BY DEF ReturnsWithinSale, Remaining, Back
<1>4. SUFFICES ASSUME NEW s \in decided', made'[s].kind = "sale"
               PROVE  -Delta'[s] - Sum(Delta', Back(s)') >= 0
  BY DEF ReturnsWithinSale, Remaining, Back
<1>5. CASE decided' = decided
  <2>1. Back(s)' = Back(s) /\ Back(s) \in SUBSET DOMAIN made
    BY <1>1, <1>5 DEF Back, ReturnsOf, MadeGrows
  <2>2. s \in DOMAIN made /\ made[s].kind = "sale"
    BY <1>1, <1>4, <1>5 DEF MadeGrows
  <2>3. Sum(Delta', Back(s)) = Sum(Delta, Back(s)) /\ Delta'[s] = Delta[s]
    BY <1>2, <2>1, <2>2
  <2> QED
    BY <1>3, <1>5, <2>1, <2>2, <2>3
<1>6. ASSUME NEW r \in Pushes, Apply(r), UNCHANGED made
      PROVE  -Delta'[s] - Sum(Delta', Back(s)') >= 0
  <2>0. made[r.m].kind = "return" => PerLine(r.m) = Delta[r.m]
    <3>1. \A x \in Int : x \div 1 = x
      OBVIOUS
    <3> QED
      BY <1>6, <3>1, PushesSound DEF Apply, Acceptable, PerLine
  <2>1. /\ r.m \notin decided /\ decided' = decided \cup {r.m} /\ r.m \in DOMAIN made
        /\ made[r.m].kind = "return" =>
              /\ made[r.m].of \in decided
              /\ Delta[r.m] <= -Delta[made[r.m].of] - Sum(Delta, Back(made[r.m].of))
    BY <1>6, <2>0, PushesSound DEF Apply, Acceptable, Remaining, Back
  <2>2. Delta' = Delta /\ s \in DOMAIN made /\ made[s].kind = "sale"
    BY <1>1, <1>4, <1>6, <2>1 DEF Delta
  <2>3. Back(s) \in SUBSET DOMAIN made /\ r.m \notin Back(s)
    BY <1>1, <2>1 DEF Back, ReturnsOf
  <2>4. /\ Delta[s] \in Int /\ Delta[r.m] \in Int /\ IsFiniteSet(Back(s))
        /\ Sum(Delta, Back(s)) \in Int
    BY <1>2, <2>1, <2>2, <2>3
  <2>5. CASE made[r.m].kind = "return" /\ made[r.m].of = s
    <3>1. Back(s)' = Back(s) \cup {r.m}
      BY <1>6, <2>1, <2>5 DEF Back, ReturnsOf
    <3>2. Sum(Delta, Back(s) \cup {r.m}) = Delta[r.m] + Sum(Delta, Back(s))
      <4>1. \A y \in Back(s) \cup {r.m} : Delta[y] \in Int
        BY <1>2, <2>3, <2>4
      <4> QED
        BY <2>3, <2>4, <4>1, SumAdd
    <3> QED
      BY <2>1, <2>2, <2>4, <2>5, <3>1, <3>2
  <2>6. CASE ~(made[r.m].kind = "return" /\ made[r.m].of = s)
    <3>1. Back(s)' = Back(s)
      BY <1>6, <2>1, <2>6 DEF Back, ReturnsOf
    <3>2. CASE s \in decided
      BY <1>3, <2>2, <3>1, <3>2
    <3>3. CASE s \notin decided
      <4>1. Back(s) = {}
        BY <3>3 DEF Decided, Back, ReturnsOf
      <4>2. Sum(Delta, {}) = 0
        BY SumEmpty
      <4>3. Delta[s] <= 0
        BY <1>2, <2>2 DEF Decided
      <4> QED
        BY <2>2, <2>4, <3>1, <4>1, <4>2, <4>3
    <3> QED
      BY <3>2, <3>3
  <2> QED
    BY <2>5, <2>6
<1>7. decided' = decided \/ \E r \in Pushes : Apply(r) /\ UNCHANGED made
  BY <1>1 DEF Effect, StockSame, Made, WebChange, ApplyStock, server
<1> QED
  BY <1>5, <1>6, <1>7

-----------------------------------------------------------------------------
(* The stock of a device *)

\* One row for an identity; what a device knows it made or pulled, and what it made
\* it knows.
Identified ==
    /\ \A i, j \in DOMAIN hosted : hosted[i].m = hosted[j].m => i = j
    /\ \A d \in Device : \A m \in known[d] : made[m].by = d \/ m \in HostedIds
    /\ \A d \in Device : \A m \in DOMAIN made : made[m].by = d => m \in known[d]

LEMMA IdentifiedStep ==
    ASSUME Inv, Numbers, Identified, [Next]_vars
    PROVE  Identified'
<1>1. /\ Effect /\ MadeGrows /\ RowsGrow
      /\ \A d \in Device : known[d] \subseteq DOMAIN made
      /\ known \in [Device -> SUBSET Nat]
      /\ \A i \in DOMAIN hosted : hosted[i].m \in DOMAIN made
  BY Effects, Appends DEF Inv, Frame, Ids, Typed
<1>2. HostedIds \subseteq HostedIds'
  BY <1>1 DEF HostedIds, RowsGrow
<1>5. \A d \in Device : \A m \in known[d] : made'[m].by = d \/ m \in HostedIds'
  BY <1>1, <1>2 DEF Identified, MadeGrows
<1>6. CASE StockSame
  BY <1>6 DEF StockSame, server, Identified, HostedIds
<1>7. ASSUME NEW d \in Device, NEW mv \in Move, Made(d, mv) PROVE Identified'
  <2>1. /\ made'[Len(made) + 1] = mv /\ mv.by = d /\ hosted' = hosted
        /\ DOMAIN made' = DOMAIN made \cup {Len(made) + 1}
        /\ known' = [known EXCEPT ![d] = @ \cup {Len(made) + 1}]
    BY <1>1, <1>7, Appends DEF Made, server
  <2>2. \A x \in Device : \A m \in known'[x] : m \in known[x] \/ (x = d /\ m = Len(made) + 1)
    BY <1>1, <2>1
  <2>3. \A x \in Device : \A m \in DOMAIN made' : made'[m].by = x => m \in known'[x]
    BY <1>1, <2>1 DEF Identified, MadeGrows
  <2> QED
    BY <1>2, <1>5, <2>1, <2>2, <2>3 DEF Identified
<1>8. ASSUME NEW delta \in Deltas, WebChange(delta) PROVE Identified'
  <2>1. /\ DOMAIN hosted' = DOMAIN hosted \cup {Len(hosted) + 1}
        /\ hosted'[Len(hosted) + 1].m \notin DOMAIN made /\ known' = known
        /\ DOMAIN made' = DOMAIN made \cup {Len(made) + 1}
    BY <1>1, <1>8, Appends DEF WebChange
  <2>2. made'[Len(made) + 1].by = Web /\ Web \notin Device
    <3>1. made \in Seq(Move)
      BY DEF Inv, Frame, Typed
    <3> QED
      BY <1>8, <3>1, StockAssumption DEF WebChange
  <2>3. \A x \in Device : \A m \in DOMAIN made' : made'[m].by = x => m \in known'[x]
    BY <1>1, <2>1, <2>2 DEF Identified, MadeGrows
  <2>4. \A i, j \in DOMAIN hosted' : hosted'[i].m = hosted'[j].m => i = j
    BY <1>1, <2>1 DEF Identified, RowsGrow
  <2> QED
    BY <1>5, <2>1, <2>3, <2>4 DEF Identified
<1>9. ASSUME NEW r \in Pushes, Apply(r), UNCHANGED <<made, known>> PROVE Identified'
  <2>1. /\ DOMAIN hosted' = DOMAIN hosted \cup {Len(hosted) + 1}
        /\ hosted'[Len(hosted) + 1].m = r.as /\ r.as \notin HostedIds
    BY <1>1, <1>9, Appends DEF Apply, Acceptable
  <2>2. \A i \in DOMAIN hosted : hosted'[i] = hosted[i] /\ hosted[i].m # r.as
    BY <1>1, <2>1 DEF RowsGrow, HostedIds
  <2>3. \A i, j \in DOMAIN hosted' : hosted'[i].m = hosted'[j].m => i = j
    BY <2>1, <2>2 DEF Identified
  <2> QED
    BY <1>5, <1>9, <2>3 DEF Identified
<1>10. ASSUME NEW d \in Device, ApplyStock(d) PROVE Identified'
  <2>1. /\ UNCHANGED <<hosted, made>> /\ rec[d].page \subseteq DOMAIN hosted
        /\ known' = [known EXCEPT ![d] = @ \cup {hosted[i].m : i \in rec[d].page}]
    BY <1>10 DEF ApplyStock, server, Inv, Frame, Pages
  <2>2. \A x \in Device : known[x] \subseteq known'[x]
                          /\ \A m \in known'[x] : m \in known[x] \/ m \in HostedIds
    BY <1>1, <2>1 DEF HostedIds
  <2> QED
    BY <1>2, <1>5, <2>1, <2>2 DEF Identified
<1> QED
  BY <1>1, <1>6, <1>7, <1>8, <1>9, <1>10 DEF Effect

\* The rows of which a device does not have the movement.
Missing(d) == {i \in DOMAIN hosted : hosted[i].m \notin known[d]}

LEMMA Shifted ==
    ASSUME NEW s \in Int, NEW a \in Int, NEW h \in Int, NEW b \in Int, NEW x \in Int,
           s + a = h + b
    PROVE  (s + x) + a = h + (x + b) /\ s + (x + a) = (h + x) + b
  OBVIOUS

LEMMA ExplainedStep ==
    ASSUME Inv, Numbers, Identified, Explained, [Next]_vars
    PROVE  Explained'
<1>1. /\ Effect /\ MadeGrows /\ RowsGrow /\ Typed /\ Deltas \subseteq Int
      /\ hstock \in Nat /\ stock \in [Device -> Nat] /\ known \in [Device -> SUBSET Nat]
      /\ Len(made) + 1 \notin DOMAIN made /\ Len(hosted) + 1 \notin DOMAIN hosted
      /\ \A x \in Device : known[x] \subseteq DOMAIN made
      /\ \A i \in DOMAIN hosted : hosted[i].m \in DOMAIN made
  BY Effects, Appends, StockAssumption DEF Inv, Frame, Ids, Typed, Numbers
<1>2. /\ \A m \in DOMAIN made : Delta'[m] = Delta[m] /\ Delta[m] = made[m].delta /\ Delta[m] \in Int
      /\ \A i \in DOMAIN hosted : RowDelta'[i] = RowDelta[i] /\ RowDelta[i] \in Int
      /\ \A S \in SUBSET DOMAIN made : IsFiniteSet(S) /\ Sum(Delta, S) \in Int
                                       /\ Sum(Delta', S) = Sum(Delta, S)
      /\ \A S \in SUBSET DOMAIN hosted : IsFiniteSet(S) /\ Sum(RowDelta, S) \in Int
                                         /\ Sum(RowDelta', S) = Sum(RowDelta, S)
  BY <1>1, Summable, SumsStay
<1> SUFFICES ASSUME NEW d \in Device \ Late
             PROVE  stock'[d] + Sum(RowDelta', Missing(d)') = hstock' + Sum(Delta', Undecided(d)')
  BY DEF Explained, Missing
<1>3. /\ stock[d] + Sum(RowDelta, Missing(d)) = hstock + Sum(Delta, Undecided(d))
      /\ Missing(d) \in SUBSET DOMAIN hosted /\ Undecided(d) \in SUBSET DOMAIN made
      /\ stock[d] \in Nat
  BY <1>1 DEF Explained, Missing, Undecided
<1>4. /\ Sum(RowDelta, Missing(d)) \in Int /\ Sum(RowDelta', Missing(d)) = Sum(RowDelta, Missing(d))
      /\ Sum(Delta, Undecided(d)) \in Int /\ Sum(Delta', Undecided(d)) = Sum(Delta, Undecided(d))
      /\ IsFiniteSet(Missing(d)) /\ IsFiniteSet(Undecided(d))
  BY <1>2, <1>3
<1>5. CASE StockSame
  <2>1. /\ Missing(d)' = Missing(d) /\ Undecided(d)' = Undecided(d)
        /\ stock'[d] = stock[d] /\ hstock' = hstock
    BY <1>5 DEF StockSame, server, Missing, Undecided
  <2> QED
    BY <1>3, <1>4, <2>1
<1>6. ASSUME NEW x \in Device, NEW mv \in Move, Made(x, mv)
      PROVE  stock'[d] + Sum(RowDelta', Missing(d)') = hstock' + Sum(Delta', Undecided(d)')
  <2> DEFINE n == Len(made) + 1
  <2>1. /\ DOMAIN made' = DOMAIN made \cup {n} /\ made'[n] = mv
        /\ UNCHANGED <<hosted, hstock, decided>> /\ mv.by = x
        /\ stock' = [stock EXCEPT ![x] = @ + mv.delta]
        /\ known' = [known EXCEPT ![x] = @ \cup {n}]
        /\ n \notin DOMAIN made /\ mv.delta \in Int
    BY <1>1, <1>6, Appends DEF Made, server, Move
  <2> HIDE DEF n
  <2>2. n \notin decided /\ \A m \in DOMAIN made : made'[m] = made[m]
    BY <1>1, <2>1 DEF MadeGrows, Inv, Frame, Ids
  <2>3. CASE x # d
    <3>1. stock'[d] = stock[d] /\ known'[d] = known[d]
      BY <1>1, <2>1, <2>3
    <3>2. Missing(d)' = Missing(d) /\ Undecided(d)' = Undecided(d)
      BY <2>1, <2>2, <2>3, <3>1 DEF Missing, Undecided
    <3> QED
      BY <1>3, <1>4, <2>1, <3>1, <3>2
  <2>4. CASE x = d
    <3>1. stock'[d] = stock[d] + mv.delta /\ known'[d] = known[d] \cup {n}
      BY <1>1, <2>1, <2>4
    <3>2. Missing(d)' = Missing(d)
      BY <1>1, <2>1, <3>1 DEF Missing
    <3>3. Undecided(d)' = Undecided(d) \cup {n} /\ n \notin Undecided(d)
      BY <1>3, <2>1, <2>2, <2>4 DEF Undecided
    <3>4. Delta'[n] = mv.delta
      BY <2>1 DEF Delta
    <3>5. Sum(Delta', Undecided(d) \cup {n}) = Delta'[n] + Sum(Delta', Undecided(d))
      <4>1. \A y \in Undecided(d) \cup {n} : Delta'[y] \in Int
        BY <1>2, <1>3, <2>1, <3>4
      <4> QED
        BY <1>4, <3>3, <4>1, SumAdd
    <3>6. Sum(Delta', Undecided(d)') = mv.delta + Sum(Delta, Undecided(d))
      BY <1>4, <3>3, <3>4, <3>5
    <3>7. Sum(RowDelta', Missing(d)') = Sum(RowDelta, Missing(d))
      BY <1>4, <3>2
    <3>8. (stock[d] + mv.delta) + Sum(RowDelta, Missing(d))
              = hstock + (mv.delta + Sum(Delta, Undecided(d)))
      <4>1. hstock \in Int /\ stock[d] \in Int /\ mv.delta \in Int
        BY <1>1, <1>3, <2>1
      <4> QED
        BY <1>3, <1>4, <4>1, Shifted
    <3> QED
      BY <2>1, <3>1, <3>6, <3>7, <3>8
  <2> QED
    BY <2>3, <2>4
<1>7. ASSUME DOMAIN hosted' = DOMAIN hosted \cup {Len(hosted) + 1},
             hosted'[Len(hosted) + 1].m \notin known[d],
             hosted'[Len(hosted) + 1].delta \in Int,
             hstock' = hstock + hosted'[Len(hosted) + 1].delta, UNCHANGED <<known, stock>>,
             Undecided(d)' = Undecided(d)
      PROVE  stock'[d] + Sum(RowDelta', Missing(d)') = hstock' + Sum(Delta', Undecided(d)')
  <2> DEFINE k == Len(hosted) + 1
  <2>1. Missing(d)' = Missing(d) \cup {k} /\ k \notin Missing(d)
    BY <1>1, <1>7 DEF Missing, RowsGrow
  <2>2. Undecided(d)' = Undecided(d)
    BY <1>7
  <2>3. RowDelta'[k] = hosted'[k].delta
    BY <1>7 DEF RowDelta
  <2>4. Sum(RowDelta', Missing(d) \cup {k}) = RowDelta'[k] + Sum(RowDelta', Missing(d))
    <3>1. \A y \in Missing(d) \cup {k} : RowDelta'[y] \in Int
      BY <1>2, <1>3, <1>7, <2>3
    <3> HIDE DEF k
    <3> QED
      BY <1>4, <2>1, <3>1, SumAdd
  <2> HIDE DEF k
  <2>5. hstock' = hstock + hosted'[k].delta /\ hosted'[k].delta \in Int /\ stock'[d] = stock[d]
    BY <1>7 DEF k
  <2>6. Sum(RowDelta', Missing(d)') = hosted'[k].delta + Sum(RowDelta, Missing(d))
    BY <1>4, <2>1, <2>3, <2>4
  <2>7. Sum(Delta', Undecided(d)') = Sum(Delta, Undecided(d))
    BY <1>4, <2>2
  <2>8. stock[d] + (hosted'[k].delta + Sum(RowDelta, Missing(d)))
            = (hstock + hosted'[k].delta) + Sum(Delta, Undecided(d))
    <3>1. hstock \in Int /\ stock[d] \in Int
      BY <1>1, <1>3
    <3> QED
      BY <1>3, <1>4, <2>5, <3>1, Shifted
  <2> QED
    BY <2>5, <2>6, <2>7, <2>8
<1>8. ASSUME NEW delta \in Deltas, WebChange(delta)
      PROVE  stock'[d] + Sum(RowDelta', Missing(d)') = hstock' + Sum(Delta', Undecided(d)')
  <2>1. /\ DOMAIN hosted' = DOMAIN hosted \cup {Len(hosted) + 1}
        /\ hosted'[Len(hosted) + 1].m = Len(made) + 1
        /\ hosted'[Len(hosted) + 1].delta = delta
        /\ hstock' = hstock + delta /\ UNCHANGED <<known, stock, decided>>
        /\ DOMAIN made' = DOMAIN made \cup {Len(made) + 1}
    BY <1>1, <1>8, Appends DEF WebChange
  <2>2. hosted'[Len(hosted) + 1].m \notin known[d]
    BY <1>1, <2>1
  <2>3. Undecided(d)' = Undecided(d)
    <3>1. made'[Len(made) + 1].by = Web /\ Web \notin Device
      BY <1>1, <1>8, StockAssumption DEF WebChange, Typed
    <3> QED
      BY <1>1, <2>1, <3>1 DEF Undecided, MadeGrows
  <2> QED
    BY <1>1, <1>7, <2>1, <2>2, <2>3
<1>9. ASSUME NEW r \in Pushes, Apply(r), UNCHANGED <<made, known, stock>>
      PROVE  stock'[d] + Sum(RowDelta', Missing(d)') = hstock' + Sum(Delta', Undecided(d)')
  <2>1. /\ DOMAIN hosted' = DOMAIN hosted \cup {Len(hosted) + 1}
        /\ hosted'[Len(hosted) + 1].m = r.as /\ hosted'[Len(hosted) + 1].delta = Delta[r.m]
        /\ hstock' = hstock + Delta[r.m] /\ r.as \notin HostedIds
        /\ decided' = decided \cup {r.m} /\ r.m \notin decided
        /\ r.m \in DOMAIN made /\ Delta[r.m] \in Int
        /\ r.as \in DOMAIN made /\ made[r.as].by = made[r.m].by
    BY <1>1, <1>9, Appends, PushesSound DEF Apply, Acceptable, Sound
  <2>2. CASE made[r.m].by # d
    <3>1. r.as \notin known[d]
      BY <2>1, <2>2 DEF Identified
    <3>2. Undecided(d)' = Undecided(d)
      BY <1>9, <2>1, <2>2 DEF Undecided
    <3> QED
      BY <1>7, <1>9, <2>1, <3>1, <3>2
  <2>3. CASE made[r.m].by = d
    <3>0. r.as \in known[d]
      BY <2>1, <2>3 DEF Identified
    <3>1. Missing(d)' = Missing(d)
      BY <1>1, <1>9, <2>1, <3>0 DEF Missing, RowsGrow
    <3>2. Undecided(d)' = Undecided(d) \ {r.m} /\ r.m \in Undecided(d)
      BY <1>9, <2>1, <2>3 DEF Undecided
    <3>3. Sum(Delta, Undecided(d)) = Delta[r.m] + Sum(Delta, Undecided(d) \ {r.m})
      <4>1. \A y \in Undecided(d) : Delta[y] \in Int
        BY <1>2, <1>3
      <4> QED
        BY <1>4, <3>2, <4>1, SumTake
    <3>4. Delta' = Delta /\ stock'[d] = stock[d]
      BY <1>9 DEF Delta
    <3>5. Sum(Delta, Undecided(d) \ {r.m}) \in Int
      BY <1>2, <1>3
    <3> QED
      BY <1>1, <1>3, <1>4, <2>1, <3>1, <3>2, <3>3, <3>4, <3>5
  <2> QED
    BY <2>2, <2>3
<1>10. ASSUME NEW x \in Device, ApplyStock(x)
       PROVE  stock'[d] + Sum(RowDelta', Missing(d)') = hstock' + Sum(Delta', Undecided(d)')
  <2> DEFINE page == rec[x].page
             N == News(x, page)
  <2>1. /\ UNCHANGED <<made, hosted, hstock, decided>> /\ page \subseteq DOMAIN hosted
        /\ stock' = [stock EXCEPT ![x] = @ + Sum(RowDelta, N)]
        /\ known' = [known EXCEPT ![x] = @ \cup {hosted[i].m : i \in page}]
    BY <1>10 DEF ApplyStock, server, Inv, Frame, Pages
  <2>2. Delta' = Delta /\ RowDelta' = RowDelta
    BY <2>1 DEF Delta, RowDelta
  <2>3. CASE x # d
    <3>1. stock'[d] = stock[d] /\ known'[d] = known[d]
      BY <1>1, <2>1, <2>3
    <3>2. Missing(d)' = Missing(d) /\ Undecided(d)' = Undecided(d)
      BY <2>1, <3>1 DEF Missing, Undecided
    <3> QED
      BY <1>3, <2>1, <2>2, <3>1, <3>2
  <2>4. CASE x = d
    <3>1. /\ stock'[d] = stock[d] + Sum(RowDelta, N)
          /\ known'[d] = known[d] \cup {hosted[i].m : i \in page}
      BY <1>1, <2>1, <2>4
    <3>2. Undecided(d)' = Undecided(d)
      BY <2>1 DEF Undecided
    <3>3. N \in SUBSET Missing(d) /\ Missing(d)' = Missing(d) \ N
      <4>1. N = {i \in page : hosted[i].m \notin known[d]}
        BY <2>4 DEF News
      <4>2. ASSUME NEW i \in Missing(d)
            PROVE  hosted[i].m \in {hosted[j].m : j \in page} <=> i \in page
        <5>1. \A j \in page : hosted[i].m = hosted[j].m => i = j
          BY <2>1 DEF Missing, Identified
        <5> QED
          BY <5>1
      <4> HIDE DEF N, page
      <4>3. \A i : i \in Missing(d)' <=> i \in Missing(d) /\ hosted[i].m \notin {hosted[j].m : j \in page}
        BY <2>1, <3>1 DEF Missing
      <4>4. \A i : i \in N <=> i \in Missing(d) /\ i \in page
        BY <2>1, <4>1 DEF Missing
      <4> QED
        BY <4>2, <4>3, <4>4
    <3>4. Sum(RowDelta, Missing(d)) = Sum(RowDelta, N) + Sum(RowDelta, Missing(d) \ N)
      <4>1. \A y \in Missing(d) : RowDelta[y] \in Int
        BY <1>2, <1>3
      <4> HIDE DEF N
      <4> QED
        BY <1>4, <3>3, <4>1, SumSplit
    <3>5. Sum(RowDelta, N) \in Int /\ Sum(RowDelta, Missing(d) \ N) \in Int
      BY <1>2, <1>3, <3>3
    <3> HIDE DEF N, page
    <3> QED
      BY <1>3, <1>4, <2>1, <2>2, <3>1, <3>2, <3>3, <3>4, <3>5
  <2> QED
    BY <2>3, <2>4
<1> QED
  BY <1>1, <1>5, <1>6, <1>8, <1>9, <1>10 DEF Effect

-----------------------------------------------------------------------------
(* Sales and returns in the books of a device *)

\* The cursor of sales and returns is at one of them or at none, and none it has
\* passed over is missing but for the ties.
Ledgers ==
    /\ salesCursor \in [Device -> Nat]
    /\ \A d \in Device : salesCursor[d] \in {0} \cup InLedger
    /\ \A d \in Device : \A i \in InLedger :
          salesCursor[d] # 0 /\ i \notin SalesAfter(salesCursor[d])
              => hosted[i].for \in books[d] \/ Tied(i)

UpTo(i) == {j \in InLedger : j <= i /\ LedgerKind(j) = LedgerKind(i)}

\* Ids of either table grow with the rows.
Numerals ==
    /\ InLedger \subseteq DOMAIN hosted /\ DOMAIN hosted = 1 .. Len(hosted)
    /\ Len(hosted) \in Nat
    /\ \A i \in InLedger : LedgerKind(i) \in {"sale", "return"} /\ LedgerId(i) \in 0 .. Len(hosted)
    /\ \A i, j \in InLedger :
          j < i /\ LedgerKind(j) = LedgerKind(i) => LedgerId(j) < LedgerId(i)

LEMMA LedgerIds == Frame => Numerals
<1> SUFFICES ASSUME Frame PROVE Numerals
  OBVIOUS
<1>1. InLedger \subseteq DOMAIN hosted /\ DOMAIN hosted = 1 .. Len(hosted) /\ Len(hosted) \in Nat
  BY DEF InLedger, Frame, Typed
<1>2. IsFiniteSet(DOMAIN hosted) /\ Cardinality(DOMAIN hosted) <= Len(hosted)
  <2> DEFINE n == Len(hosted)
  <2>1. IsFiniteSet(1 .. n) /\ Cardinality(1 .. n) = IF 1 > n THEN 0 ELSE n - 1 + 1
    BY <1>1, FS_Interval
  <2> QED
    BY <1>1, <2>1
<1>3. ASSUME NEW i \in InLedger
      PROVE  /\ IsFiniteSet(UpTo(i)) /\ Cardinality(UpTo(i)) \in Nat
             /\ Cardinality(UpTo(i)) <= Len(hosted) /\ LedgerId(i) = Cardinality(UpTo(i))
  <2>1. UpTo(i) \in SUBSET DOMAIN hosted
    BY <1>1 DEF UpTo
  <2>2. IsFiniteSet(UpTo(i)) /\ Cardinality(UpTo(i)) <= Cardinality(DOMAIN hosted)
    BY <1>2, <2>1, FS_Subset
  <2>3. Cardinality(UpTo(i)) \in Nat /\ Cardinality(DOMAIN hosted) \in Nat
    BY <1>2, <2>2, FS_CardinalityType
  <2>4. LedgerId(i) = Cardinality(UpTo(i))
    BY DEF LedgerId, UpTo
  <2> QED
    BY <1>1, <1>2, <2>2, <2>3, <2>4
<1>4. ASSUME NEW i \in InLedger, NEW j \in InLedger, j < i, LedgerKind(j) = LedgerKind(i)
      PROVE  LedgerId(j) < LedgerId(i)
  <2>1. i \in Nat /\ j \in Nat /\ InLedger \subseteq Nat
    BY <1>1
  <2>2. i \in UpTo(i) /\ i \notin UpTo(j)
    BY <1>4, <2>1 DEF UpTo
  <2>4. UpTo(j) \in SUBSET UpTo(i)
    <3> SUFFICES ASSUME NEW x \in UpTo(j) PROVE x \in UpTo(i)
      OBVIOUS
    <3>1. x \in InLedger /\ x \in Nat /\ x <= j /\ LedgerKind(x) = LedgerKind(j)
      BY <2>1 DEF UpTo
    <3> QED
      BY <1>4, <2>1, <3>1 DEF UpTo
  <2>3. Cardinality(UpTo(j)) <= Cardinality(UpTo(i)) /\ Cardinality(UpTo(i)) # Cardinality(UpTo(j))
    BY <1>3, <2>2, <2>4, FS_Subset
  <2> QED
    BY <1>3, <2>3
<1>5. \A i \in InLedger : LedgerKind(i) \in {"sale", "return"}
  BY DEF InLedger, LedgerKind, Sent
<1> QED
  BY <1>1, <1>3, <1>4, <1>5 DEF Numerals

LEMMA LedgerIdsNext == Frame' => Numerals'
  BY LedgerIds, PTL

LEMMA LastSalesExists ==
    ASSUME Frame, NEW S \in SUBSET InLedger, S # {}
    PROVE  LastSales(S) \in S
<1>1. /\ \A i \in InLedger : /\ i \in Nat /\ LedgerKind(i) \in {"sale", "return"}
                             /\ LedgerId(i) \in 0 .. Len(hosted)
      /\ Len(hosted) \in Nat
  BY LedgerIds DEF Numerals
<1>2. ASSUME NEW i \in InLedger, NEW j \in InLedger, LedgerKind(j) = LedgerKind(i),
             LedgerId(j) = LedgerId(i)
      PROVE  j = i
  BY <1>1, <1>2, LedgerIds DEF Numerals
<1> DEFINE Ms(i) == Millisecond(hosted[i].at)
<1>3. Now \in Nat /\ \A i \in InLedger : Ms(i) \in 0 .. Now
  <2>1. Now \in Nat /\ \A i \in InLedger : hosted[i].at \in 0 .. Now
    BY DEF Frame, Typed, Times, Now, InLedger
  <2> QED
    BY <2>1 DEF Millisecond
<1> DEFINE Times0 == {Ms(i) : i \in S}
<1>4. PICK t \in Times0 : \A u \in Times0 : u <= t
  <2>1. Times0 \in SUBSET (0 .. Now) /\ Times0 # {}
    BY <1>3
  <2> HIDE DEF Times0
  <2> QED
    BY <1>3, <2>1, Greatest
<1> DEFINE Latest == {i \in S : Ms(i) = t}
           Numbers0 == {LedgerId(i) : i \in Latest}
<1>5. PICK k \in Numbers0 : \A u \in Numbers0 : u <= k
  <2>1. Numbers0 \in SUBSET (0 .. Len(hosted)) /\ Numbers0 # {}
    BY <1>1, <1>4
  <2> HIDE DEF Numbers0
  <2> QED
    BY <1>1, <2>1, Greatest
<1>6. PICK i \in Latest : /\ LedgerId(i) = k
                          /\ \A j \in Latest : LedgerId(j) = k /\ LedgerKind(j) = "return" => j = i
  <2>1. CASE \E j \in Latest : LedgerId(j) = k /\ LedgerKind(j) = "return"
    BY <1>2, <2>1
  <2>2. CASE ~ \E j \in Latest : LedgerId(j) = k /\ LedgerKind(j) = "return"
    BY <1>5, <2>2
  <2> QED
    BY <2>1, <2>2
<1>7. ASSUME NEW j \in S \ {i}
      PROVE  SalesBefore(j, i) \/ (~SalesBefore(i, j) /\ LedgerKind(j) = "sale")
  <2>1. /\ Ms(j) \in Nat /\ Ms(i) = t /\ Ms(j) <= t /\ t \in Nat
        /\ LedgerId(j) \in Nat /\ k \in Nat /\ LedgerId(i) = k
    BY <1>1, <1>3, <1>4, <1>6
  <2>2. CASE Ms(j) < t
    BY <2>1, <2>2 DEF SalesBefore
  <2>3. CASE Ms(j) = t
    <3>1. LedgerId(j) <= k
      BY <1>5, <2>3
    <3>2. CASE LedgerId(j) < k
      BY <2>1, <2>3, <3>2 DEF SalesBefore
    <3>3. CASE LedgerId(j) = k
      <4>1. LedgerKind(j) = "sale"
        BY <1>1, <1>6, <1>7, <2>3, <3>3
      <4>2. ~SalesBefore(i, j)
        BY <2>1, <2>3, <3>3 DEF SalesBefore
      <4> QED
        BY <4>1, <4>2
    <3> QED
      BY <2>1, <3>1, <3>2, <3>3
  <2> QED
    BY <2>1, <2>2, <2>3
<1>8. \E x \in S : \A j \in S \ {x} : SalesBefore(j, x) \/ (~SalesBefore(x, j) /\ LedgerKind(j) = "sale")
  BY <1>6, <1>7
<1> QED
  BY <1>8 DEF LastSales

\* A row of a sale or a return comes last, and under a greater id than the others
\* of its kind.
LedgerGrows ==
    /\ InLedger \subseteq InLedger'
    /\ \A i \in InLedger : /\ hosted'[i] = hosted[i]
                           /\ LedgerKind(i)' = LedgerKind(i) /\ LedgerId(i)' = LedgerId(i)
    /\ \A i \in InLedger' \ InLedger : \A j \in InLedger :
          /\ hosted[j].at <= hosted'[i].at
          /\ LedgerKind(j)' = LedgerKind(i)' => LedgerId(j)' < LedgerId(i)'

LEMMA LedgerStep == ASSUME Inv, Inv', Effect PROVE LedgerGrows
<1>1. /\ MadeGrows /\ RowsGrow /\ Len(hosted) \in Nat /\ DOMAIN hosted = 1 .. Len(hosted)
      /\ Len(hosted) + 1 \notin DOMAIN hosted
      /\ \A i \in DOMAIN hosted : hosted[i].for \in DOMAIN made
  BY Appends DEF Inv, Frame, Ids, Typed
<1>0. PICK n \in Nat : n = Len(hosted) + 1
  BY <1>1
<1>2. \/ hosted' = hosted
      \/ /\ DOMAIN hosted' = DOMAIN hosted \cup {n}
         /\ LedgerKind(n)' \in {"sale", "return"} =>
               \A i \in DOMAIN hosted : hosted[i].at <= hosted'[n].at
  <2>1. ASSUME StockSame \/ \E d \in Device : ApplyStock(d) PROVE hosted' = hosted
    BY <2>1 DEF StockSame, ApplyStock, server
  <2>2. ASSUME NEW d \in Device, NEW mv \in Move, Made(d, mv) PROVE hosted' = hosted
    BY <2>2 DEF Made, server
  <2>3. ASSUME NEW delta \in Deltas, WebChange(delta)
        PROVE  DOMAIN hosted' = DOMAIN hosted \cup {n} /\ LedgerKind(n)' = "web"
    <3>1. /\ DOMAIN hosted' = DOMAIN hosted \cup {n} /\ hosted'[n].for = Len(made) + 1
          /\ made'[Len(made) + 1].kind = "web"
      BY <1>0, <2>3, Appends
    <3> QED
      BY <3>1 DEF LedgerKind
  <2>4. ASSUME NEW r \in Pushes, Apply(r), UNCHANGED made
        PROVE  /\ DOMAIN hosted' = DOMAIN hosted \cup {n}
               /\ LedgerKind(n)' \in {"sale", "return"} =>
                     \A i \in DOMAIN hosted : hosted[i].at <= hosted'[n].at
    <3>1. /\ DOMAIN hosted' = DOMAIN hosted \cup {n} /\ hosted'[n].for = r.m
          /\ made[r.m].kind # "op" => \A i \in DOMAIN hosted : hosted[i].at <= hosted'[n].at
      BY <1>0, <2>4, Appends
    <3>2. r.m \in DOMAIN made /\ made' = made
      BY <2>4, PushesSound
    <3>3. LedgerKind(n)' = made[r.m].kind
      BY <3>1, <3>2 DEF LedgerKind
    <3> QED
      BY <3>1, <3>3
  <2> QED
    BY <2>1, <2>2, <2>3, <2>4 DEF Effect
<1>3. /\ DOMAIN hosted' \subseteq DOMAIN hosted \cup {n}
      /\ \A i \in DOMAIN hosted : hosted'[i] = hosted[i] /\ LedgerKind(i)' = LedgerKind(i)
  BY <1>1, <1>2 DEF RowsGrow, MadeGrows, LedgerKind
<1>4. \A i \in DOMAIN hosted : i \in InLedger' <=> i \in InLedger
  BY <1>1, <1>3 DEF InLedger, LedgerKind, RowsGrow
<1>5. ASSUME NEW i \in InLedger PROVE LedgerId(i)' = LedgerId(i)
  <2>1. i \in DOMAIN hosted /\ i < n /\ i \in Nat /\ n \in Nat
    BY <1>0, <1>1 DEF InLedger
  <2>2. {j \in InLedger' : j <= i /\ LedgerKind(j)' = LedgerKind(i)'} = UpTo(i)
    <3>1. \A j \in InLedger' : j \in DOMAIN hosted \/ j = n
      BY <1>3 DEF InLedger
    <3>2. InLedger \subseteq DOMAIN hosted
      BY DEF InLedger
    <3> QED
      BY <1>3, <1>4, <2>1, <3>1, <3>2 DEF UpTo
  <2> QED
    BY <2>2 DEF LedgerId, UpTo
<1>6. ASSUME NEW i \in InLedger' \ InLedger, NEW j \in InLedger
      PROVE  /\ hosted[j].at <= hosted'[i].at
             /\ LedgerKind(j)' = LedgerKind(i)' => LedgerId(j)' < LedgerId(i)'
  <2>1. i = n /\ j \in DOMAIN hosted /\ j < i /\ j \in InLedger' /\ i \in DOMAIN hosted'
    BY <1>0, <1>1, <1>3, <1>4 DEF InLedger
  <2>2. hosted' # hosted
    BY <1>0, <1>1, <2>1
  <2>3. LedgerKind(i)' \in {"sale", "return"} /\ Frame'
    BY LedgerIdsNext DEF Inv, Numerals
  <2>4. LedgerKind(j)' = LedgerKind(i)' => LedgerId(j)' < LedgerId(i)'
    BY <2>1, <2>3, LedgerIdsNext DEF Numerals
  <2> QED
    BY <1>2, <2>1, <2>2, <2>3, <2>4
<1> QED
  BY <1>3, <1>4, <1>5, <1>6 DEF LedgerGrows, InLedger

\* The books only grow, and one device at a time moves its cursor.
LEMMA BooksStep ==
    ASSUME Inv, Ledgers, [Next]_vars
    PROVE  /\ \A d \in Device : books[d] \subseteq books'[d]
           /\ salesCursor' = salesCursor \/ \E d \in Device : PullSales(d)
<1>0. books \in [Device -> SUBSET Nat]
  BY DEF Inv, Frame, Typed
<1>1. ASSUME NEW d \in Device, Work(d)
      PROVE  salesCursor' = salesCursor /\ \A x \in Device : books[x] \subseteq books'[x]
  <2>1. ASSUME NEW delta \in Deltas, NEW kind \in Noted, StockOperation(d, kind, delta)
        PROVE  UNCHANGED <<salesCursor, books>>
    BY <2>1 DEF StockOperation, Record
  <2>2. ASSUME NEW q \in Quantities, Sell(d, q)
        PROVE  salesCursor' = salesCursor /\ books' = [books EXCEPT ![d] = @ \cup {Len(made) + 1}]
    BY <2>2 DEF Sell, Record
  <2>3. ASSUME NEW s \in books[d], NEW q \in Quantities, NEW lines \in 1 .. MaxLines,
               TakeBack(d, s, q, lines)
        PROVE  salesCursor' = salesCursor /\ books' = [books EXCEPT ![d] = @ \cup {Len(made) + 1}]
    BY <2>3 DEF TakeBack, Record
  <2>4. CASE Join(d)
    BY <2>4 DEF Join
  <2> QED
    BY <1>0, <1>1, <2>1, <2>2, <2>3, <2>4 DEF Work
<1>2. ASSUME NEW d \in Device, Reconcile(d), ~PullSales(d)
      PROVE  UNCHANGED <<salesCursor, books>>
  BY <1>2 DEF Reconcile, Load, Push, PushRefused, Ack, PullStock, ApplyStock, ApplyRefused,
              PullSalesRefused
<1>3. ASSUME NEW d \in Device, PullSales(d)
      PROVE  \A x \in Device : books[x] \subseteq books'[x]
  BY <1>0, <1>3 DEF PullSales
<1>4. ASSUME \/ \E delta \in Deltas : WebChange(delta)
             \/ \E r \in late : Arrive(r)
             \/ \E d \in Device : GiveUp(d) \/ Restart(d)
             \/ UNCHANGED vars
      PROVE  UNCHANGED <<salesCursor, books>>
  BY <1>4 DEF WebChange, Arrive, GiveUp, Restart, vars
<1> QED
  BY <1>1, <1>2, <1>3, <1>4 DEF Next

LEMMA PullSalesLedgers ==
    ASSUME Inv, Ledgers, NEW d \in Device, PullSales(d)
    PROVE  Ledgers'
<1> DEFINE c == salesCursor[d]
           page == SalesAfter(c)
           last == IF page = {} THEN c ELSE LastSales(page)
<1>1. /\ made' = made /\ hosted' = hosted /\ salesCursor' = [salesCursor EXCEPT ![d] = last]
      /\ books' = [books EXCEPT ![d] = @ \cup {hosted[i].for : i \in page}]
  BY DEF PullSales, server
<1>2. /\ InLedger' = InLedger
      /\ \A i : hosted'[i] = hosted[i] /\ LedgerKind(i)' = LedgerKind(i)
      /\ \A i : LedgerId(i)' = LedgerId(i)
  BY <1>1 DEF InLedger, LedgerKind, LedgerId
<1>3. (\A x : SalesAfter(x)' = SalesAfter(x)) /\ (\A i : Tied(i)' <=> Tied(i))
  BY <1>1, <1>2 DEF SalesAfter, Tied
<1>4. /\ page \in SUBSET InLedger /\ InLedger \subseteq Nat /\ c \in {0} \cup InLedger
      /\ salesCursor \in [Device -> Nat] /\ books \in [Device -> SUBSET Nat]
  BY LedgerIds DEF SalesAfter, Ledgers, Inv, Frame, Typed, Numerals
<1>5. last \in {0} \cup InLedger /\ (page = {} => last = c)
  <2>1. page # {} => LastSales(page) \in page
    BY <1>4, LastSalesExists DEF Inv
  <2> QED
    BY <1>4, <2>1
<1> HIDE DEF last
<1>6. /\ salesCursor'[d] = last /\ books'[d] = books[d] \cup {hosted[i].for : i \in page}
      /\ \A x \in Device \ {d} : salesCursor'[x] = salesCursor[x] /\ books'[x] = books[x]
      /\ salesCursor' \in [Device -> Nat]
  BY <1>1, <1>4, <1>5
<1>7. ASSUME NEW i \in InLedger, last # 0, i \notin SalesAfter(last)
      PROVE  hosted[i].for \in books'[d] \/ Tied(i)
  <2>1. CASE i \in page
    BY <1>6, <2>1
  <2>2. CASE i \notin page
    <3>1. c # 0
      BY <2>2 DEF SalesAfter
    <3> QED
      BY <1>6, <2>2, <3>1 DEF Ledgers
  <2> QED
    BY <2>1, <2>2
<1>8. ASSUME NEW x \in Device, NEW i \in InLedger, salesCursor'[x] # 0,
             i \notin SalesAfter(salesCursor'[x])
      PROVE  hosted[i].for \in books'[x] \/ Tied(i)
  BY <1>6, <1>7, <1>8 DEF Ledgers
<1>9. \A x \in Device : salesCursor'[x] \in {0} \cup InLedger
  BY <1>5, <1>6 DEF Ledgers
<1> QED
  BY <1>2, <1>3, <1>6, <1>8, <1>9 DEF Ledgers

LEMMA LedgersStep == ASSUME Inv, Inv', Numbers, Ledgers, [Next]_vars PROVE Ledgers'
<1>1. LedgerGrows
  BY Effects, LedgerStep
<1>2. CASE \E d \in Device : PullSales(d)
  BY <1>2, PullSalesLedgers
<1>3. CASE salesCursor' = salesCursor
  <2>1. \A d \in Device : books[d] \subseteq books'[d]
    BY BooksStep
  <2>2. /\ InLedger \subseteq DOMAIN hosted /\ InLedger' \subseteq DOMAIN hosted'
        /\ \A i \in DOMAIN hosted : hosted[i].at \in Nat
        /\ \A i \in DOMAIN hosted' : hosted'[i].at \in Nat
    BY DEF InLedger, Inv, Frame, Times
  <2>3. \A i \in InLedger : LedgerId(i) \in Nat
    BY LedgerIds DEF Inv, Numerals
  <2>4. \A i \in InLedger' : LedgerId(i)' \in Nat
    BY LedgerIdsNext DEF Inv, Numerals
  <2> SUFFICES ASSUME NEW d \in Device, NEW i \in InLedger', salesCursor[d] # 0,
                      i \notin SalesAfter(salesCursor[d])'
               PROVE  hosted'[i].for \in books'[d] \/ Tied(i)'
    BY <1>1, <1>3 DEF Ledgers, LedgerGrows, SalesAfter
  <2>0. PICK c \in Nat : c = salesCursor[d]
    BY DEF Ledgers
  <2>5. c \in InLedger /\ hosted'[c] = hosted[c] /\ LedgerId(c)' = LedgerId(c) /\ c \in InLedger'
    BY <1>1, <2>0 DEF Ledgers, LedgerGrows
  <2>6. ~(hosted'[c].at < hosted'[i].at) /\ ~(hosted'[c].at = hosted'[i].at /\ LedgerId(c)' < LedgerId(i)')
    BY <1>3, <2>0 DEF SalesAfter
  <2>7. CASE i \in InLedger
    <3>1. i \notin SalesAfter(c)
      BY <1>1, <2>0, <2>5, <2>6, <2>7 DEF LedgerGrows, SalesAfter
    <3>2. hosted[i].for \in books[d] \/ Tied(i)
      BY <2>0, <2>7, <3>1 DEF Ledgers
    <3>3. Tied(i) => Tied(i)'
      BY <1>1, <2>7 DEF Tied, LedgerGrows
    <3> QED
      BY <1>1, <2>1, <2>7, <3>2, <3>3 DEF LedgerGrows
  <2>8. CASE i \notin InLedger
    <3>1. /\ hosted[c].at <= hosted'[i].at
          /\ LedgerKind(c)' = LedgerKind(i)' => LedgerId(c)' < LedgerId(i)'
      BY <1>1, <2>5, <2>8 DEF LedgerGrows
    <3>2. hosted'[c].at \in Nat /\ hosted'[i].at \in Nat /\ LedgerId(c)' \in Nat /\ LedgerId(i)' \in Nat
      BY <2>2, <2>4, <2>5
    <3>3. hosted'[c].at = hosted'[i].at /\ LedgerId(i)' <= LedgerId(c)'
      BY <2>5, <2>6, <3>1, <3>2
    <3>4. LedgerKind(c)' # LedgerKind(i)'
      BY <3>1, <3>2, <3>3
    <3> QED
      BY <2>5, <3>3, <3>4 DEF Tied
  <2> QED
    BY <2>7, <2>8
<1> QED
  BY <1>2, <1>3, BooksStep

-----------------------------------------------------------------------------
(* The theorems *)

LEMMA InitInv == Init => Inv
<1> SUFFICES ASSUME Init PROVE Inv
  OBVIOUS
<1>1. PICK d \in Device :
        made = <<[by |-> d, kind |-> "sale", delta |-> -Sold, of |-> 0, lines |-> 1, at |-> 2]>>
  BY DEF Init
<1>2. Sold \in Nat /\ -Sold \in Int
  BY StockAssumption
<1>3. made \in Seq(Move) /\ DOMAIN made = {1} /\ Len(made) = 1 /\ made[1].by = d
      /\ made[1].at = 2 /\ made[1].kind = "sale"
  BY <1>1, <1>2 DEF Move, Kind
<1>4. hosted \in Seq(Row) /\ DOMAIN hosted = {1} /\ Len(hosted) = 1 /\ hosted[1].m = 1
      /\ hosted[1].for = 1 /\ hosted[1].at = 3
  BY <1>2 DEF Init, Row
<1>5. Fresh \in Reconciler /\ Fresh.todo = {} /\ Fresh.page = {} /\ Fresh.step = "load"
  BY DEF Fresh, Reconciler
<1>6. \A x \in Device : /\ rec[x] = Fresh /\ unsent[x] = {} /\ known[x] \subseteq {1}
                        /\ cursor[x] \in {0, 1} /\ (cursor[x] = 1 => known[x] = {1})
  BY DEF Init
<1>7. decided = {1} /\ late = {}
  BY DEF Init
<1>8. Typed
  BY <1>3, <1>4, <1>5, <1>6, <1>7 DEF Typed, Init
<1>9. Ids /\ Times /\ Pages
  BY <1>3, <1>4, <1>5, <1>6, <1>7 DEF Ids, Times, Pages, Now
<1>10. Acked /\ HostedOps /\ SentIsHosted /\ Pulls
  BY <1>3, <1>4, <1>5, <1>6, <1>7
     DEF Acked, HostedOps, SentIsHosted, Pulls, PageWhole, Passed, After
<1> QED
  BY <1>8, <1>9, <1>10 DEF Inv, Frame

LEMMA InitStock == Init => Numbers /\ Decided /\ CountedOnce /\ ReturnsWithinSale
<1> SUFFICES ASSUME Init PROVE Numbers /\ Decided /\ CountedOnce /\ ReturnsWithinSale
  OBVIOUS
<1>1. /\ DOMAIN made = {1} /\ made[1].kind = "sale" /\ made[1].delta = -Sold
      /\ decided = {1} /\ hstock = Base - Sold
  BY DEF Init
<1>2. /\ Base \in Nat /\ Sold \in Nat /\ Base - Sold \in Nat /\ -Sold \in Int /\ -Sold <= 0
      /\ 0 \in 0 .. MaxFaults
  BY StockAssumption
<1>3. Numbers
  BY <1>2 DEF Init, Numbers
<1>4. Decided
  BY <1>1, <1>2 DEF Decided
<1>5. Sum(Delta, {}) = 0 /\ Delta[1] = -Sold
  BY <1>1, SumEmpty DEF Delta
<1>6. CountedOnce
  <2>1. decided \cup {m \in DOMAIN made : made[m].kind = "web"} = {} \cup {1}
    BY <1>1
  <2>2. Sum(Delta, {} \cup {1}) = Delta[1] + Sum(Delta, {})
    <3>1. \A y \in {} \cup {1} : Delta[y] \in Int
      BY <1>2, <1>5
    <3> QED
      BY <3>1, SumAdd, FS_EmptySet
  <2> QED
    BY <1>1, <1>2, <1>5, <2>1, <2>2 DEF CountedOnce
<1>7. ReturnsWithinSale
  <2>1. ReturnsOf(1, decided) = {}
    BY <1>1 DEF ReturnsOf
  <2> QED
    BY <1>1, <1>2, <1>5, <2>1 DEF ReturnsWithinSale, Remaining
<1> QED
  BY <1>3, <1>4, <1>6, <1>7

LEMMA InitDevices == Init => Identified /\ Explained
<1> SUFFICES ASSUME Init PROVE Identified /\ Explained
  OBVIOUS
<1>1. /\ DOMAIN hosted = {1} /\ hosted[1].m = 1 /\ decided = {1} /\ hstock = Base - Sold
      /\ late = {} /\ \A d \in Device : rec[d].todo = {}
  BY DEF Init, Fresh
<1>2. \A d \in Device : known[d] \subseteq {1}
  BY DEF Init
<1>3. \A d \in Device \ Late : known[d] = {1} /\ stock[d] = Base - Sold
  BY DEF Init
<1>4. HostedIds = {1}
  BY <1>1 DEF HostedIds
<1>5. Identified
  <2>1. PICK d \in Device \ Late : DOMAIN made = {1} /\ made[1].by = d
    BY DEF Init
  <2> QED
    BY <1>1, <1>2, <1>3, <1>4, <2>1 DEF Identified
<1>6. Explained
  <2> SUFFICES ASSUME NEW d \in Device \ Late
               PROVE  stock[d] + Sum(RowDelta, {i \in DOMAIN hosted : hosted[i].m \notin known[d]})
                          = hstock + Sum(Delta, Undecided(d))
    BY DEF Explained
  <2>1. {i \in DOMAIN hosted : hosted[i].m \notin known[d]} = {} /\ Undecided(d) = {}
    BY <1>1, <1>3 DEF Undecided, Init
  <2> QED
    BY <1>1, <1>3, <2>1, SumEmpty
<1> QED
  BY <1>5, <1>6

LEMMA InitLedgers == Init => Ledgers
<1> SUFFICES ASSUME Init PROVE Ledgers
  OBVIOUS
<1>1. /\ DOMAIN hosted = {1} /\ hosted[1].for = 1 /\ made[1].kind = "sale"
      /\ books = known /\ salesCursor = cursor
      /\ cursor = [d \in Device |-> IF d \in Late THEN 0 ELSE 1]
      /\ known = [d \in Device |-> IF d \in Late THEN {} ELSE {1}]
  BY DEF Init
<1>2. InLedger = {1}
  BY <1>1 DEF InLedger, Sent
<1> QED
  BY <1>1, <1>2 DEF Ledgers

LEMMA NextInv == Inv /\ [Next]_vars => Inv'
<1> SUFFICES ASSUME Inv, [Next]_vars PROVE Inv'
  OBVIOUS
<1>1. ASSUME NEW d \in Device, Reconcile(d) PROVE Inv'
  BY <1>1, LoadInv, PushInv, PushRefusedInv, AckInv, PullStockInv, ApplyStockInv, EndInv
     DEF Reconcile
<1>2. CASE UNCHANGED vars
  BY <1>2 DEF vars, Inv, Frame, Typed, Ids, Sound, Times, Now, Pages, Acked, First, HostedOps,
              SentIsHosted, Pulls, PageWhole, Passed, StampedHere, After, Before
<1> QED
  BY <1>1, <1>2, WebInv, ArriveInv, WorkInv, GiveUpInv, RestartInv DEF Next

\* Every variable holds a value of its type: the stock stays a natural number on
\* the server and on every device, whatever is pushed, refused or pulled
\* (desktop-stock-movements.ts push, stock-movement-sync.ts apply).
THEOREM StockTyped == Spec => []TypeOK
<1>1. Inv /\ Numbers /\ Ledgers => TypeOK
  BY DEF Inv, Frame, Typed, Numbers, Ledgers, TypeOK
<1>2. Init => Inv /\ Numbers /\ Ledgers
  BY InitInv, InitStock, InitLedgers
<1>3. Inv /\ Numbers /\ Ledgers /\ [Next]_vars => (Inv /\ Numbers /\ Ledgers)'
  BY NextInv, NumbersStep, LedgersStep
<1> QED
  BY <1>1, <1>2, <1>3, PTL DEF Spec

\* The hosted stock is where it began plus every change of the web and every
\* mutation the server has decided, each once, however often it was pushed
\* (desktop-stock-movements.ts and desktop-sales.ts push, sync_mutations).
THEOREM EveryChangeCountsOnce == Spec => []CountedOnce
<1> DEFINE I == Inv /\ Numbers /\ Decided /\ CountedOnce
<1>1. Init => I
  BY InitInv, InitStock
<1>2. I /\ [Next]_vars => I'
  BY NextInv, NumbersStep, DecidedStep, CountedStep
<1> QED
  BY <1>1, <1>2, PTL DEF Spec

\* No more of a sale comes back than was sold, whichever devices take it back
\* and in whatever order their returns reach the server (desktop-sales.ts
\* return push, under the lock of the sale).
THEOREM NoMoreBackThanSold == Spec => []ReturnsWithinSale
<1> DEFINE I == Inv /\ Numbers /\ Decided /\ ReturnsWithinSale
<1>1. Init => I
  BY InitInv, InitStock
<1>2. I /\ [Next]_vars => I'
  BY NextInv, NumbersStep, DecidedStep, ReturnsStep
<1> QED
  BY <1>1, <1>2, PTL DEF Spec

\* The stock of a device differs from the hosted one by exactly the rows it has not
\* pulled and its mutations the server has not decided, whatever is pushed, lost,
\* repeated or refused; also when several of its returns of one sale are pushed
\* under the client id of the newest, or a return names its product twice
\* (stock-movement-sync.ts apply, sales-sync.ts outbox, desktop-sales.ts push).
THEOREM StockIsExplained == Spec => []Explained
<1> DEFINE I == Inv /\ Numbers /\ Identified /\ Explained
<1>1. Init => I
  BY InitInv, InitStock, InitDevices
<1>2. I /\ [Next]_vars => I'
  BY NextInv, NumbersStep, IdentifiedStep, ExplainedStep
<1> QED
  BY <1>1, <1>2, PTL DEF Spec

\* What a device no longer has to send, the server has, for any number of
\* devices and movements and however often requests time out, arrive late or
\* find a restarted desktop (reconcile, with both push endpoints).
THEOREM NothingForgotten == Spec => []SentIsHosted
<1>1. Inv => SentIsHosted
  BY DEF Inv
<1> QED
  BY <1>1, InitInv, NextInv, PTL DEF Spec

\* No cursor of a device ever passes over a movement that the server has stamped
\* itself, though movements that keep the time of their device come in between;
\* nor does the cursor of sales and returns, but for one tied with another of the
\* other table (desktop-stock-movements.ts and desktop-sales.ts pull).
THEOREM NoStampedMovementSkipped == Spec => []StampedHereIsPulled
<1> DEFINE I == Inv /\ Numbers /\ Ledgers
<1>1. I => StampedHereIsPulled
  <2> SUFFICES ASSUME Inv, Ledgers PROVE StampedHereIsPulled
    OBVIOUS
  <2>1. \A d \in Device : Passed(d)
    BY DEF Inv, Pulls
  <2> QED
    BY <2>1 DEF Passed, StampedHere, Ledgers, StampedHereIsPulled
<1>2. Init => I
  BY InitInv, InitStock, InitLedgers
<1>3. I /\ [Next]_vars => I'
  BY NextInv, NumbersStep, LedgersStep
<1> QED
  BY <1>1, <1>2, <1>3, PTL DEF Spec

================================================================================
