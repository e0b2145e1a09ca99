---------------------------- MODULE MasterDataProofs ----------------------------
(***************************************************************************)
(* Promises of MasterDataSync for any number of devices, rows, edits and   *)
(* faults: no change overwrites one its author had not seen, an edit that  *)
(* its device takes for synced has arrived, a deleted row stays deleted,   *)
(* and a row a device calls synced shows what the server has.              *)
(***************************************************************************)
EXTENDS MasterDataSync, FiniteSetTheorems, WellFoundedInduction, TLAPS

-----------------------------------------------------------------------------
(* Numbers, sequences and sets *)

LEMMA Greatest ==
    ASSUME NEW n \in Nat, NEW S \in SUBSET (0 .. n), S # {}
    PROVE  Max(S) \in S /\ \A x \in S : x <= Max(S)
<1> DEFINE Gap == {n - x : x \in S}
<1>1. Gap \in SUBSET Nat /\ Gap # {}
  <2>1. \A x \in S : n - x \in Nat
    OBVIOUS
  <2> QED
    BY <2>1
<1>2. PICK g \in Gap : \A h \in Gap : <<h, g>> \notin OpToRel(<, Nat)
  BY <1>1, WFMin, NatLessThanWellFounded, Zenon
<1>3. \A h \in Gap : ~(h < g)
  <2> TAKE h \in Gap
  <2>1. h \in Nat /\ g \in Nat
    BY <1>1
  <2>2. <<h, g>> \in Nat \X Nat /\ <<h, g>>[1] = h /\ <<h, g>>[2] = g
    BY <2>1
  <2> QED
    BY <1>2, <2>2, Zenon DEF OpToRel
<1>4. PICK m \in S : g = n - m
  OBVIOUS
<1>5. ASSUME NEW x \in S PROVE m >= x
  <2>1. n - x \in Gap /\ ~(n - x < n - m)
    BY <1>3, <1>4
  <2>2. x \in 0 .. n /\ m \in 0 .. n
    OBVIOUS
  <2> QED
    BY <2>1, <2>2
<1>6. Max(S) \in S /\ \A x \in S : Max(S) >= x
  BY <1>5 DEF Max
<1>7. \A x \in S : x \in Int
  OBVIOUS
<1> QED
  BY <1>6, <1>7

LEMMA Listed ==
    ASSUME NEW S, IsFiniteSet(S)
    PROVE  /\ SetToSeq(S) \in Seq(S)
           /\ \A x \in S : \E i \in DOMAIN SetToSeq(S) : SetToSeq(S)[i] = x
           /\ \A i, j \in DOMAIN SetToSeq(S) : SetToSeq(S)[i] = SetToSeq(S)[j] => i = j
<1> DEFINE n == Cardinality(S)
<1>1. n \in Nat /\ ExistsBijection(1 .. n, S)
  BY FS_CardinalityType
<1>2. PICK f : f \in Bijection(1 .. n, S)
  BY <1>1 DEF ExistsBijection
<1>3. f \in [1 .. n -> S] /\ IsInjective(f)
  BY <1>2 DEF Bijection, Injection, IsInjective
<1>4. SetToSeq(S) \in [1 .. n -> S] /\ IsInjective(SetToSeq(S))
  BY <1>3, Zenon DEF SetToSeq
<1> DEFINE g == SetToSeq(S)
<1> HIDE DEF g
<1>5. g \in [1 .. n -> S] /\ IsInjective(g)
  BY <1>4 DEF g
<1>6. \A i, j \in DOMAIN g : g[i] = g[j] => i = j
  BY <1>5 DEF IsInjective
<1>7. g \in Seq(S)
  BY <1>1, <1>5
<1>8. \A x \in S : \E i \in DOMAIN g : g[i] = x
  <2>1. g \in Injection(1 .. n, S)
    BY <1>5 DEF IsInjective, Injection
  <2>2. IsFiniteSet(1 .. n) /\ Cardinality(1 .. n) = n
    BY <1>1, FS_Interval
  <2>3. g \in Surjection(1 .. n, S)
    BY <2>1, <2>2, FS_Injection
  <2> QED
    BY <2>3, <1>5 DEF Surjection
<1> QED
  BY <1>6, <1>7, <1>8 DEF g

LEMMA AppendFacts ==
    ASSUME NEW S, NEW s \in Seq(S), NEW e \in S
    PROVE  /\ Append(s, e) \in Seq(S)
           /\ DOMAIN s = 1 .. Len(s) /\ Len(s) \in Nat
           /\ Len(Append(s, e)) = Len(s) + 1
           /\ DOMAIN Append(s, e) = DOMAIN s \cup {Len(s) + 1}
           /\ \A i \in DOMAIN s : Append(s, e)[i] = s[i]
           /\ Append(s, e)[Len(s) + 1] = e
  OBVIOUS

LEMMA ConcatFacts ==
    ASSUME NEW S, NEW s \in Seq(S), NEW t \in Seq(S)
    PROVE  /\ s \o t \in Seq(S)
           /\ DOMAIN s = 1 .. Len(s) /\ Len(s) \in Nat
           /\ DOMAIN t = 1 .. Len(t) /\ Len(t) \in Nat
           /\ Len(s \o t) = Len(s) + Len(t)
           /\ DOMAIN (s \o t) = 1 .. (Len(s) + Len(t))
           /\ \A i \in DOMAIN s : (s \o t)[i] = s[i]
           /\ \A i \in DOMAIN (s \o t) \ DOMAIN s : i - Len(s) \in DOMAIN t /\ (s \o t)[i] = t[i - Len(s)]
  OBVIOUS

-----------------------------------------------------------------------------
(* Histories that grow: hosted versions and edits *)

Later(k, l) ==
    /\ k \in Seq(Version) /\ l \in Seq(Version)
    /\ DOMAIN k \subseteq DOMAIN l
    /\ \A i \in DOMAIN k : l[i] = k[i]

\* Only the state of an edit ever changes.
Kept(es, fs) ==
    /\ es \in Seq(Edit) /\ fs \in Seq(Edit)
    /\ DOMAIN es \subseteq DOMAIN fs
    /\ \A e \in DOMAIN es : /\ fs[e].by = es[e].by /\ fs[e].row = es[e].row
                            /\ fs[e].op = es[e].op /\ fs[e].over = es[e].over

\* No version follows one in which its row is deleted.
Final(l) == \A i, j \in DOMAIN l : i < j /\ l[i].row = l[j].row => l[i].data.is # 0

\* Every version is of a row somebody has made.
Named(l, es) == \A i \in DOMAIN l : \E e \in DOMAIN es : es[e].row = l[i].row

\* A version made by a device has an edit, which follows the version it was made on.
Seen(l, es) ==
    \A i \in DOMAIN l :
        l[i].by # 0 /\ l[i].data.is # 0
        => /\ l[i].data.is \in DOMAIN es
           /\ es[l[i].data.is].over # 0
              => es[l[i].data.is].over = Max({j \in 1 .. i - 1 : l[j].row = l[i].row})

\* What a push carries: the version its row was at, and the newest edit of the
\* device, made on that version.
Sound(es, l, p) ==
    /\ p \in Push /\ p.m \in DOMAIN es
    /\ p.base # 0 => p.base \in DOMAIN l /\ l[p.base].row = es[p.m].row
    /\ p.data.is # 0 => /\ p.data.is \in DOMAIN es /\ p.m <= p.data.is
                        /\ es[p.data.is].row = es[p.m].row /\ es[p.data.is].by = es[p.m].by
                        /\ es[p.data.is].over = p.base

Arrived(l, es, m) ==
    \E i \in DOMAIN l :
        /\ l[i].row = es[m].row
        /\ \/ l[i].data.is = 0
           \/ /\ l[i].data.is \in DOMAIN es /\ l[i].data.is >= m
              /\ es[l[i].data.is].by = es[m].by

\* While a device has something of a row to send, the row holds its newest edit
\* (or is deleted), made on the version the device has of it.
Latest(es, c, b, d, r) ==
    \A m \in DOMAIN es :
        es[m].by = d /\ es[m].row = r /\ es[m].state = "pending" /\ c # 0
        => /\ c \in DOMAIN es /\ m <= c
           /\ es[c].by = d /\ es[c].row = r /\ es[c].over = b

LEMMA SoundStays ==
    ASSUME NEW es, NEW fs, NEW k, NEW l, NEW p, Kept(es, fs), Later(k, l), Sound(es, k, p)
    PROVE  Sound(fs, l, p)
  BY DEF Kept, Later, Sound

LEMMA ArrivedStays ==
    ASSUME NEW es, NEW fs, NEW k, NEW l, Kept(es, fs), Later(k, l),
           NEW m \in DOMAIN es, Arrived(k, es, m)
    PROVE  Arrived(l, fs, m)
<1>1. PICK i \in DOMAIN k : /\ k[i].row = es[m].row
                            /\ \/ k[i].data.is = 0
                               \/ /\ k[i].data.is \in DOMAIN es /\ k[i].data.is >= m
                                  /\ es[k[i].data.is].by = es[m].by
  BY DEF Arrived
<1>2. i \in DOMAIN l /\ l[i] = k[i]
  BY DEF Later
<1>3. l[i].row = fs[m].row
  BY <1>1, <1>2 DEF Kept
<1>4. l[i].data.is # 0 => fs[l[i].data.is].by = fs[m].by /\ l[i].data.is \in DOMAIN fs
  BY <1>1, <1>2 DEF Kept
<1> QED
  BY <1>1, <1>2, <1>3, <1>4 DEF Arrived

LEMMA NamedStays ==
    ASSUME NEW es, NEW fs, NEW l, Kept(es, fs), Named(l, es)
    PROVE  Named(l, fs)
  BY DEF Kept, Named

LEMMA SeenStays ==
    ASSUME NEW es, NEW fs, NEW l, Kept(es, fs), Seen(l, es)
    PROVE  Seen(l, fs)
  BY DEF Kept, Seen

LEMMA SameLog == ASSUME NEW l \in Seq(Version) PROVE Later(l, l)
  BY DEF Later

LEMMA SameEdits == ASSUME NEW es \in Seq(Edit) PROVE Kept(es, es)
  BY DEF Kept

\* New versions of rows that are alive, the last of which may be a deletion.
LEMMA FinalStays ==
    ASSUME NEW k, NEW l, Later(k, l), Final(k),
           \A i \in DOMAIN l \ DOMAIN k :
               /\ \A j \in DOMAIN k : k[j].row = l[i].row => k[j].data.is # 0
               /\ l[i].data.is # 0 \/ i = Len(l)
    PROVE  Final(l)
<1> SUFFICES ASSUME NEW i \in DOMAIN l, NEW j \in DOMAIN l, i < j, l[i].row = l[j].row
             PROVE  l[i].data.is # 0
  BY DEF Final
<1>0. DOMAIN l = 1 .. Len(l) /\ DOMAIN k = 1 .. Len(k) /\ Len(l) \in Nat /\ Len(k) \in Nat
  BY DEF Later
<1>1. CASE j \in DOMAIN k
  <2>1. i \in DOMAIN k
    BY <1>0, <1>1
  <2> QED
    BY <1>1, <2>1 DEF Later, Final
<1>2. CASE j \notin DOMAIN k /\ i \in DOMAIN k
  BY <1>2 DEF Later
<1>3. CASE i \notin DOMAIN k
  <2>1. i # Len(l)
    BY <1>0
  <2> QED
    BY <1>3, <2>1
<1> QED
  BY <1>1, <1>2, <1>3

\* The last version of a row in a history.
Newest(l, r) == Max({0} \cup {i \in DOMAIN l : l[i].row = r})

LEMMA NewestFacts ==
    ASSUME NEW l \in Seq(Version), NEW r
    PROVE  /\ Newest(l, r) \in {0} \cup DOMAIN l /\ Newest(l, r) \in Nat
           /\ Newest(l, r) # 0 => l[Newest(l, r)].row = r
           /\ \A i \in DOMAIN l : l[i].row = r => i <= Newest(l, r)
<1> DEFINE S == {0} \cup {i \in DOMAIN l : l[i].row = r}
<1>1. DOMAIN l = 1 .. Len(l) /\ Len(l) \in Nat
  OBVIOUS
<1>2. S \in SUBSET (0 .. Len(l)) /\ S # {}
  BY <1>1
<1>3. Max(S) \in S /\ \A x \in S : x <= Max(S)
  BY <1>1, <1>2, Greatest
<1>4. Newest(l, r) = Max(S)
  BY DEF Newest
<1> QED
  BY <1>1, <1>3, <1>4

LEMMA StampFacts ==
    ASSUME log \in Seq(Version), NEW r
    PROVE  /\ Stamp(r) \in {0} \cup DOMAIN log /\ Stamp(r) \in Nat
           /\ Stamp(r) # 0 => log[Stamp(r)].row = r
           /\ \A i \in DOMAIN log : log[i].row = r => i <= Stamp(r)
<1>1. Stamp(r) = Newest(log, r)
  BY DEF Stamp, Newest
<1> QED
  BY <1>1, NewestFacts

LEMMA Alive ==
    ASSUME log \in Seq(Version), Final(log), NEW r, There(r) \/ Stamp(r) = 0
    PROVE  \A i \in DOMAIN log : log[i].row = r => log[i].data.is # 0
<1> SUFFICES ASSUME NEW i \in DOMAIN log, log[i].row = r
             PROVE  log[i].data.is # 0
  OBVIOUS
<1>0. DOMAIN log = 1 .. Len(log) /\ Len(log) \in Nat
  OBVIOUS
<1>1. i <= Stamp(r) /\ Stamp(r) # 0 /\ Stamp(r) \in DOMAIN log /\ log[Stamp(r)].row = r
  BY <1>0, StampFacts
<1>2. log[Stamp(r)].data.is # 0
  BY <1>1 DEF There, Hosted, Missing
<1>3. CASE i = Stamp(r)
  BY <1>2, <1>3
<1>4. CASE i < Stamp(r)
  BY <1>1, <1>4 DEF Final
<1> QED
  BY <1>0, <1>1, <1>3, <1>4

LEMMA RemovalFacts ==
    ASSUME log \in Seq(Version), NEW r \in Row, NEW m \in Nat
    PROVE  LET l == Removal(r, m) IN
           /\ Later(log, l) /\ Len(l) > Len(log)
           /\ l[Len(l)] = [row |-> r, data |-> Missing, by |-> m]
           /\ \A i \in DOMAIN l \ DOMAIN log :
                i # Len(l) => /\ l[i].by = 0 /\ l[i].data.is # 0
                              /\ l[i].row \in Row /\ There(l[i].row)
           /\ \A i \in DOMAIN l \ DOMAIN log : ~l[i].data.filed
           /\ \A q \in FiledUnder(r) : There(q) /\ Hosted(q).filed
                => \E i \in DOMAIN l \ DOMAIN log : l[i].row = q
<1> DEFINE S == {q \in FiledUnder(r) : There(q) /\ Hosted(q).filed}
           filed == SetToSeq(S)
           unfiled(q) == [row |-> q, data |-> [is |-> Hosted(q).is, filed |-> FALSE], by |-> 0]
           t == [i \in DOMAIN filed |-> unfiled(filed[i])]
           last == [row |-> r, data |-> Missing, by |-> m]
           l == Removal(r, m)
<1>1. S \subseteq Row /\ IsFiniteSet(S)
  BY MasterAssumption, FS_Subset DEF FiledUnder
<1>2. filed \in Seq(S) /\ \A q \in S : \E i \in DOMAIN filed : filed[i] = q
  BY <1>1, Listed
<1>3. \A q \in S : unfiled(q) \in Version /\ Hosted(q).is # 0
  <2> TAKE q \in S
  <2>1. There(q) /\ q \in Row
    BY <1>1
  <2>2. Hosted(q) = log[Stamp(q)].data /\ Stamp(q) \in DOMAIN log /\ Hosted(q).is # 0
    BY <2>1, StampFacts DEF There, Hosted, Missing
  <2>3. log[Stamp(q)] \in Version
    BY <2>2
  <2> QED
    BY <2>1, <2>2, <2>3 DEF Version, Content
<1>4. t \in Seq(Version) /\ Len(t) = Len(filed) /\ DOMAIN t = DOMAIN filed
  BY <1>2, <1>3
<1>5. last \in Version
  BY DEF Version, Content, Missing
<1> HIDE DEF filed, last
<1>6. l = log \o t \o <<last>>
  BY DEF Removal, filed, last
<1>7. /\ log \o t \in Seq(Version) /\ Len(log \o t) = Len(log) + Len(t)
      /\ Len(log) \in Nat /\ Len(t) \in Nat
      /\ DOMAIN log = 1 .. Len(log)
      /\ \A i \in DOMAIN log : (log \o t)[i] = log[i]
      /\ \A i \in DOMAIN (log \o t) \ DOMAIN log :
            i - Len(log) \in DOMAIN t /\ (log \o t)[i] = t[i - Len(log)]
  BY <1>4, ConcatFacts
<1> DEFINE k == log \o t
<1> HIDE DEF t, k, l
<1>8. /\ k \in Seq(Version) /\ Len(k) = Len(log) + Len(t)
      /\ \A i \in DOMAIN log : k[i] = log[i]
      /\ \A i \in DOMAIN k \ DOMAIN log : i - Len(log) \in DOMAIN t /\ k[i] = t[i - Len(log)]
  BY <1>7 DEF k
<1>9. l = Append(k, last)
  BY <1>6, <1>8 DEF k
<1>10. /\ l \in Seq(Version) /\ Len(l) = Len(k) + 1 /\ DOMAIN l = DOMAIN k \cup {Len(k) + 1}
       /\ DOMAIN k = 1 .. Len(k)
       /\ \A i \in DOMAIN k : l[i] = k[i]
       /\ l[Len(k) + 1] = last
  BY <1>5, <1>8, <1>9, AppendFacts
<1>11. DOMAIN log \subseteq DOMAIN k
  BY <1>7, <1>8, <1>10
<1>12. Later(log, l)
  BY <1>8, <1>10, <1>11 DEF Later
<1>13. Len(l) > Len(log)
  BY <1>7, <1>8, <1>10
<1>14. ASSUME NEW i \in DOMAIN l \ DOMAIN log, i # Len(l)
       PROVE  /\ l[i].by = 0 /\ l[i].data.is # 0 /\ ~l[i].data.filed
              /\ l[i].row \in Row /\ There(l[i].row)
  <2>1. i \in DOMAIN k \ DOMAIN log
    BY <1>10, <1>14
  <2>2. PICK j \in DOMAIN filed : l[i] = unfiled(filed[j])
    BY <1>4, <1>8, <1>10, <2>1 DEF t
  <2>3. filed[j] \in S
    BY <1>2, <2>2
  <2> QED
    BY <1>1, <1>3, <2>2, <2>3
<1>15. l[Len(l)].data = Missing /\ ~Missing.filed
  BY <1>10 DEF last, Missing
<1>16. ASSUME NEW q \in S
       PROVE  \E i \in DOMAIN l \ DOMAIN log : l[i].row = q
  <2>1. PICK j \in DOMAIN filed : filed[j] = q
    BY <1>2
  <2>2. j \in 1 .. Len(t) /\ t[j].row = q
    BY <1>4, <1>7, <2>1 DEF t
  <2> DEFINE i == Len(log) + j
  <2>3. i \in DOMAIN k /\ i \notin DOMAIN log /\ i - Len(log) = j
    <3>1. DOMAIN k = 1 .. (Len(log) + Len(t)) /\ DOMAIN log = 1 .. Len(log)
      BY <1>7, <1>8, <1>10
    <3>2. Len(log) \in Nat /\ Len(t) \in Nat
      BY <1>7
    <3> QED
      BY <2>2, <3>1, <3>2
  <2> HIDE DEF i
  <2>4. k[i] = t[j] /\ l[i] = k[i]
    BY <1>8, <1>10, <2>3
  <2>5. i \in DOMAIN l \ DOMAIN log
    BY <1>10, <2>3
  <2>6. l[i].row = q
    BY <2>2, <2>4
  <2> QED
    BY <2>5, <2>6
<1>17. \A i \in DOMAIN l \ DOMAIN log : ~l[i].data.filed
  BY <1>14, <1>15
<1> QED
  BY <1>10, <1>12, <1>13, <1>14, <1>16, <1>17 DEF l, last

\* What a step adds to the hosted versions, when the row is there or was never.
LEMMA RemovalKeeps ==
    ASSUME log \in Seq(Version), edits \in Seq(Edit), Final(log), Named(log, edits),
           Seen(log, edits),
           NEW r \in Row, NEW m \in Nat, There(r) \/ Stamp(r) = 0,
           \E e \in DOMAIN edits : edits[e].row = r
    PROVE  LET l == Removal(r, m) IN
           Later(log, l) /\ Final(l) /\ Named(l, edits) /\ Seen(l, edits)
<1> DEFINE l == Removal(r, m)
<1>1. /\ Later(log, l) /\ Len(l) > Len(log)
      /\ l[Len(l)] = [row |-> r, data |-> Missing, by |-> m]
      /\ \A i \in DOMAIN l \ DOMAIN log :
           i # Len(l) => /\ l[i].by = 0 /\ l[i].data.is # 0
                         /\ l[i].row \in Row /\ There(l[i].row)
  BY RemovalFacts
<1> HIDE DEF l
<1>2. l[Len(l)].row = r /\ l[Len(l)].data.is = 0
  BY <1>1 DEF Missing
<1>3. ASSUME NEW i \in DOMAIN l \ DOMAIN log
      PROVE  /\ There(l[i].row) \/ Stamp(l[i].row) = 0
             /\ \E e \in DOMAIN edits : edits[e].row = l[i].row
             /\ l[i].data.is # 0 \/ i = Len(l)
             /\ l[i].by = 0 \/ l[i].data.is = 0
  <2>1. CASE i = Len(l)
    BY <1>2, <2>1
  <2>2. CASE i # Len(l)
    <3>1. There(l[i].row) /\ l[i].by = 0 /\ l[i].data.is # 0
      BY <1>1, <2>2
    <3>2. Stamp(l[i].row) \in DOMAIN log /\ log[Stamp(l[i].row)].row = l[i].row
      BY <3>1, StampFacts DEF There, Hosted, Missing
    <3> QED
      BY <3>1, <3>2 DEF Named
  <2> QED
    BY <2>1, <2>2
<1>4. \A i \in DOMAIN l \ DOMAIN log :
        /\ \A j \in DOMAIN log : log[j].row = l[i].row => log[j].data.is # 0
        /\ l[i].data.is # 0 \/ i = Len(l)
  BY <1>3, Alive
<1>5. Final(l)
  BY <1>1, <1>4, FinalStays
<1>6. Named(l, edits)
  BY <1>1, <1>3 DEF Named, Later
<1>7. Seen(l, edits)
  <2> SUFFICES ASSUME NEW i \in DOMAIN l, l[i].by # 0, l[i].data.is # 0
               PROVE  /\ l[i].data.is \in DOMAIN edits
                      /\ edits[l[i].data.is].over # 0
                         => edits[l[i].data.is].over = Max({j \in 1 .. i - 1 : l[j].row = l[i].row})
    BY DEF Seen
  <2>1. i \in DOMAIN log /\ l[i] = log[i]
    BY <1>1, <1>3 DEF Later
  <2>2. DOMAIN log = 1 .. Len(log) /\ Len(log) \in Nat
    OBVIOUS
  <2>3. \A j \in 1 .. i - 1 : l[j] = log[j]
    BY <1>1, <2>1, <2>2 DEF Later
  <2>4. {j \in 1 .. i - 1 : l[j].row = l[i].row} = {j \in 1 .. i - 1 : log[j].row = log[i].row}
    BY <2>1, <2>3
  <2> QED
    BY <2>1, <2>4 DEF Seen
<1> QED
  BY <1>1, <1>5, <1>6, <1>7 DEF l

LEMMA ChangeKeeps ==
    ASSUME log \in Seq(Version), Final(log),
           NEW es \in Seq(Edit), Named(log, es), Seen(log, es),
           NEW r \in Row, NEW c \in Content, NEW m \in Nat,
           There(r) \/ Stamp(r) = 0, c.is # 0,
           \E e \in DOMAIN es : es[e].row = r,
           m # 0 => c.is \in DOMAIN es /\ (es[c.is].over # 0 => es[c.is].over = Stamp(r))
    PROVE  LET l == Change(r, c, m) IN
           /\ Later(log, l) /\ Final(l) /\ Named(l, es) /\ Seen(l, es)
           /\ l[Len(l)].row = r /\ l[Len(l)].data = c /\ Len(l) \in DOMAIN l
<1> DEFINE l == Change(r, c, m)
           n == Len(log) + 1
<1>1. [row |-> r, data |-> c, by |-> m] \in Version
  BY DEF Version
<1>2. /\ l \in Seq(Version) /\ Len(l) = n
      /\ DOMAIN log = 1 .. Len(log) /\ Len(log) \in Nat
      /\ DOMAIN l = DOMAIN log \cup {n}
      /\ \A i \in DOMAIN log : l[i] = log[i]
      /\ l[n] = [row |-> r, data |-> c, by |-> m]
  BY <1>1, AppendFacts DEF Change
<1> HIDE DEF l
<1>3. Later(log, l)
  BY <1>2 DEF Later
<1>4. \A i \in DOMAIN l \ DOMAIN log :
        /\ \A j \in DOMAIN log : log[j].row = l[i].row => log[j].data.is # 0
        /\ l[i].data.is # 0 \/ i = Len(l)
  BY <1>2, Alive
<1>5. Final(l)
  BY <1>3, <1>4, FinalStays
<1>6. Named(l, es)
  BY <1>2 DEF Named
<1>7. Seen(l, es)
  <2> SUFFICES ASSUME NEW i \in DOMAIN l, l[i].by # 0, l[i].data.is # 0
               PROVE  /\ l[i].data.is \in DOMAIN es
                      /\ es[l[i].data.is].over # 0
                         => es[l[i].data.is].over = Max({j \in 1 .. i - 1 : l[j].row = l[i].row})
    BY DEF Seen
  <2>1. \A j \in 1 .. i - 1 : l[j] = log[j]
    BY <1>2
  <2> DEFINE Old == {j \in 1 .. i - 1 : l[j].row = l[i].row}
  <2>2. CASE i \in DOMAIN log
    <3>1. Old = {j \in 1 .. i - 1 : log[j].row = log[i].row}
      BY <1>2, <2>1, <2>2
    <3> QED
      BY <1>2, <2>2, <3>1 DEF Seen
  <2>3. CASE i = n
    <3>1. l[i].data.is \in DOMAIN es
      BY <1>2, <2>3
    <3>2. ASSUME es[c.is].over # 0 PROVE es[c.is].over = Max(Old)
      <4>1. es[c.is].over = Stamp(r)
        BY <1>2, <2>3, <3>2
      <4>2. Old = {j \in DOMAIN log : log[j].row = r}
        BY <1>2, <2>1, <2>3
      <4>3. Stamp(r) \in Old /\ Old \in SUBSET (0 .. Len(log))
        BY <1>2, <3>2, <4>1, <4>2, StampFacts
      <4>4. Max(Old) \in Old /\ \A x \in Old : x <= Max(Old)
        <5> HIDE DEF Old
        <5> QED
          BY <1>2, <4>3, Greatest
      <4>5. Max(Old) <= Stamp(r)
        BY <4>2, <4>4, StampFacts
      <4>6. Stamp(r) <= Max(Old) /\ Max(Old) \in Int /\ Stamp(r) \in Int
        <5>1. Max(Old) \in 0 .. Len(log) /\ Stamp(r) \in 0 .. Len(log)
          BY <4>3, <4>4, Zenon
        <5>2. Stamp(r) <= Max(Old)
          BY <4>3, <4>4, Zenon
        <5> QED
          BY <1>2, <5>1, <5>2
      <4> QED
        BY <4>1, <4>5, <4>6
    <3> QED
      BY <1>2, <2>3, <3>1, <3>2
  <2> QED
    BY <1>2, <2>2, <2>3
<1> QED
  BY <1>2, <1>3, <1>5, <1>6, <1>7 DEF l

\* The hosted push transaction.
LEMMA ApplyFacts ==
    ASSUME log \in Seq(Version), edits \in Seq(Edit), Final(log), Named(log, edits),
           Seen(log, edits), NEW p, Sound(edits, log, p), Apply(p)
    PROVE  /\ Later(log, log') /\ Final(log') /\ Named(log', edits) /\ Seen(log', edits)
           /\ edits[p.m].op = "upsert" => Arrived(log', edits, p.m)
<1> DEFINE e == edits[p.m]
           r == e.row
<1>0. /\ p \in Push /\ p.m \in DOMAIN edits /\ e \in Edit /\ r \in Row /\ p.m \in Nat
      /\ p.base \in Nat /\ p.data \in Content
  <2>1. p \in Push /\ p.m \in DOMAIN edits
    BY DEF Sound
  <2>2. e \in Edit
    BY <2>1
  <2> QED
    BY <2>1, <2>2 DEF Edit, Push
<1>1. log' = Effect(p) /\ ~Stale(p) /\ ~Broken(p)
  BY DEF Apply
<1>2. CASE Stamp(r) # 0 /\ ~There(r)
  <2>1. log' = log
    BY <1>1, <1>2 DEF Effect
  <2>2. Arrived(log, edits, p.m)
    <3>1. Stamp(r) \in DOMAIN log /\ log[Stamp(r)].row = r
      BY <1>2, StampFacts
    <3>2. log[Stamp(r)].data.is = 0
      BY <1>2 DEF There, Hosted
    <3> QED
      BY <3>1, <3>2 DEF Arrived
  <2> QED
    BY <2>1, <2>2, SameLog
<1>3. CASE ~(Stamp(r) # 0 /\ ~There(r)) /\ e.op = "delete"
  <2>1. log' = Removal(r, p.m)
    BY <1>1, <1>3 DEF Effect
  <2> QED
    BY <1>0, <1>3, <2>1, RemovalKeeps
<1>4. CASE ~(Stamp(r) # 0 /\ ~There(r)) /\ e.op # "delete"
  <2>1. log' = Change(r, p.data, p.m)
    BY <1>1, <1>4 DEF Effect
  <2>2. p.data.is # 0
    BY <1>1, <1>4 DEF Broken
  <2>3. /\ p.data.is \in DOMAIN edits /\ edits[p.data.is].over = p.base
        /\ p.m <= p.data.is /\ edits[p.data.is].by = e.by /\ p.data.is \in Nat
    BY <1>0, <2>2 DEF Sound
  <2>4. p.base # 0 => p.base = Stamp(r)
    <3> SUFFICES ASSUME p.base # 0 PROVE p.base = Stamp(r)
      OBVIOUS
    <3>1. p.base \in DOMAIN log /\ log[p.base].row = r
      BY DEF Sound
    <3>2. Stamp(r) # 0
      BY <3>1, StampFacts
    <3> QED
      BY <1>1, <3>2 DEF Stale
  <2>5. LET l == Change(r, p.data, p.m) IN
           /\ Later(log, l) /\ Final(l) /\ Named(l, edits) /\ Seen(l, edits)
           /\ l[Len(l)].row = r /\ l[Len(l)].data = p.data /\ Len(l) \in DOMAIN l
    BY <1>0, <1>4, <2>2, <2>3, <2>4, ChangeKeeps
  <2>6. Arrived(log', edits, p.m)
    BY <2>1, <2>3, <2>5 DEF Arrived
  <2> QED
    BY <2>1, <2>5, <2>6
<1> QED
  BY <1>2, <1>3, <1>4

-----------------------------------------------------------------------------
(* The invariant *)

\* The version a device has of a row is a version of that row.
Based ==
    \A d \in Device, r \in Row :
        base[d][r] # 0 => base[d][r] \in DOMAIN log /\ log[base[d][r]].row = r

Pages == \A d \in Device : run[d].page \subseteq DOMAIN log

Requests ==
    /\ \A d \in Device : \A p \in run[d].todo : Sound(edits, log, p)
    /\ \A p \in late : Sound(edits, log, p)

Queues == \A d \in Device, r \in Row : Latest(edits, copy[d][r].is, base[d][r], d, r)

\* A device acknowledges what the server has applied.
Verdicts ==
    \A d \in Device : run[d].step = "ack" => \A p \in run[d].todo :
        First(d, p) => p.m \in DOMAIN decided /\ decided[p.m] = "applied"

Arrivals ==
    \A m \in DOMAIN decided :
        /\ m \in DOMAIN edits
        /\ decided[m] = "applied" /\ edits[m].op = "upsert" => Arrived(log, edits, m)

Acked ==
    \A e \in DOMAIN edits :
        edits[e].by # Web /\ edits[e].op = "upsert" /\ edits[e].state = "synced"
        => Arrived(log, edits, e)

History == Final(log) /\ Named(log, edits) /\ Seen(log, edits)

Inv ==
    /\ TypeOK /\ History /\ Based /\ Pages /\ Requests
    /\ Queues /\ Verdicts /\ Arrivals /\ Acked

LEMMA Grown ==
    ASSUME Kept(edits, edits'), Later(log, log')
    PROVE  /\ \A p : Sound(edits, log, p) => Sound(edits', log', p)
           /\ \A m \in DOMAIN edits : Arrived(log, edits, m) => Arrived(log', edits', m)
           /\ Based /\ base' = base => Based'
           /\ Pages /\ run' = run => Pages'
           /\ Requests /\ run' = run /\ late' = late => Requests'
           /\ Arrivals /\ decided' = decided => Arrivals'
<1>1. \A p : Sound(edits, log, p) => Sound(edits', log', p)
  BY SoundStays
<1>2. \A m \in DOMAIN edits : Arrived(log, edits, m) => Arrived(log', edits', m)
  BY ArrivedStays
<1>3. Based /\ base' = base => Based'
  BY DEF Based, Later
<1>4. Pages /\ run' = run => Pages'
  BY DEF Pages, Later
<1>5. Requests /\ run' = run /\ late' = late => Requests'
  BY <1>1 DEF Requests
<1>6. Arrivals /\ decided' = decided => Arrivals'
  <2> SUFFICES ASSUME Arrivals, decided' = decided, NEW m \in DOMAIN decided
               PROVE  /\ m \in DOMAIN edits'
                      /\ decided[m] = "applied" /\ edits'[m].op = "upsert"
                         => Arrived(log', edits', m)
    BY DEF Arrivals
  <2>1. m \in DOMAIN edits /\ m \in DOMAIN edits' /\ edits'[m].op = edits[m].op
    BY DEF Arrivals, Kept
  <2> QED
    BY <1>2, <2>1 DEF Arrivals
<1> QED
  BY <1>1, <1>2, <1>3, <1>4, <1>5, <1>6

LEMMA AckedStays ==
    ASSUME Kept(edits, edits'), Later(log, log'), Acked,
           \A e \in DOMAIN edits' : /\ edits'[e].by # Web /\ edits'[e].op = "upsert"
                                    /\ edits'[e].state = "synced"
                => e \in DOMAIN edits /\ (edits[e].state = "synced" \/ Arrived(log, edits, e))
    PROVE  Acked'
<1> SUFFICES ASSUME NEW e \in DOMAIN edits', edits'[e].by # Web, edits'[e].op = "upsert",
                    edits'[e].state = "synced"
             PROVE  Arrived(log', edits', e)
  BY DEF Acked
<1>1. e \in DOMAIN edits /\ (edits[e].state = "synced" \/ Arrived(log, edits, e))
  OBVIOUS
<1>2. edits'[e].by = edits[e].by /\ edits'[e].op = edits[e].op
  BY <1>1 DEF Kept
<1>3. Arrived(log, edits, e)
  BY <1>1, <1>2 DEF Acked
<1> QED
  BY <1>1, <1>3, Grown

LEMMA InitInv == Init => Inv
<1> SUFFICES ASSUME Init PROVE Inv
  OBVIOUS
<1> DEFINE first == SetToSeq(Original)
<1>1. first \in Seq(Original)
  BY MasterAssumption, FS_Subset, Listed
<1> HIDE DEF first
<1>2. \A i \in DOMAIN first : first[i] \in Row /\ i \in Nat \ {0}
  BY <1>1, MasterAssumption
<1>3. /\ edits = [i \in DOMAIN first |-> WebEdit(first[i])]
      /\ log = [i \in DOMAIN first |->
                  [row |-> first[i], data |-> [is |-> i, filed |-> FALSE], by |-> 0]]
      /\ DOMAIN first = 1 .. Len(first) /\ Len(first) \in Nat
  BY <1>1 DEF Init, first
<1>4. edits \in Seq(Edit)
  <2>1. \A i \in DOMAIN first : WebEdit(first[i]) \in Edit
    BY <1>2 DEF WebEdit, Edit
  <2> QED
    BY <1>3, <2>1
<1>5. log \in Seq(Version)
  <2>1. \A i \in DOMAIN first :
           [row |-> first[i], data |-> [is |-> i, filed |-> FALSE], by |-> 0] \in Version
    BY <1>2 DEF Version, Content
  <2> QED
    BY <1>3, <2>1
<1>6. TypeOK
  BY <1>4, <1>5, MasterAssumption DEF TypeOK, Init, Content, Missing, Reconciler, Idle, Push
<1>7. Final(log) /\ Seen(log, edits)
  BY <1>2, <1>3 DEF Final, Seen
<1>8. Named(log, edits)
  BY <1>3 DEF Named, WebEdit
<1>9. Based /\ Pages /\ Requests /\ Verdicts /\ Arrivals
  BY DEF Init, Based, Pages, Requests, Verdicts, Arrivals, Idle
<1>10. \A e \in DOMAIN edits : edits[e].by = Web
  BY <1>3 DEF WebEdit
<1>11. Acked /\ Queues
  BY <1>10, MasterAssumption DEF Acked, Queues, Latest
<1> QED
  BY <1>6, <1>7, <1>8, <1>9, <1>11 DEF Inv, History

-----------------------------------------------------------------------------
(* The web *)

LEMMA WebStep ==
    ASSUME Inv, NEW w \in Edit, w.by = Web, edits' = Append(edits, w),
           Later(log, log'), Final(log'), Named(log', edits'), Seen(log', edits'),
           UNCHANGED <<decided, local, run, late, faults>>
    PROVE  Inv'
<1> DEFINE n == Len(edits) + 1
<1>0. edits \in Seq(Edit) /\ log' \in Seq(Version)
  BY DEF Inv, TypeOK, Later
<1>1. /\ edits' \in Seq(Edit) /\ DOMAIN edits' = DOMAIN edits \cup {n}
      /\ \A e \in DOMAIN edits : edits'[e] = edits[e]
      /\ edits'[n] = w
  BY <1>0, AppendFacts
<1>2. Kept(edits, edits')
  BY <1>0, <1>1 DEF Kept
<1>3. TypeOK'
  BY <1>0, <1>1 DEF Inv, TypeOK, local
<1>4. History'
  BY DEF History
<1>5. Based' /\ Pages' /\ Requests' /\ Arrivals'
  BY <1>2, Grown DEF Inv, local
<1>6. Verdicts'
  BY DEF Inv, Verdicts, First, local
<1>7. Acked'
  BY <1>1, <1>2, AckedStays DEF Inv
<1>8. Queues'
  <2> SUFFICES ASSUME NEW d \in Device, NEW r \in Row
               PROVE  Latest(edits', copy[d][r].is, base[d][r], d, r)
    BY DEF Queues, local
  <2>1. Latest(edits, copy[d][r].is, base[d][r], d, r)
    BY DEF Inv, Queues
  <2>2. w.by # d
    BY MasterAssumption
  <2> QED
    BY <1>1, <2>1, <2>2 DEF Latest
<1> QED
  BY <1>3, <1>4, <1>5, <1>6, <1>7, <1>8 DEF Inv

LEMMA WebCreateKeeps ==
    ASSUME Inv, NEW r \in Row, WebCreate(r)
    PROVE  Inv'
<1> DEFINE c == [is |-> Len(edits) + 1, filed |-> Category[r] # None /\ There(Category[r])]
<1>1. /\ edits \in Seq(Edit) /\ log \in Seq(Version) /\ History
      /\ \A e \in DOMAIN edits : edits[e].row # r
      /\ edits' = Append(edits, WebEdit(r)) /\ log' = Change(r, c, 0)
      /\ UNCHANGED <<decided, local, run, late, faults>>
  BY DEF Inv, TypeOK, WebCreate
<1>2. WebEdit(r) \in Edit /\ WebEdit(r).by = Web /\ WebEdit(r).row = r
  BY DEF WebEdit, Edit
<1>3. /\ Kept(edits, edits') /\ edits' \in Seq(Edit)
      /\ \E e \in DOMAIN edits' : edits'[e].row = r
  BY <1>1, <1>2, AppendFacts DEF Kept
<1>4. Named(log, edits') /\ Seen(log, edits')
  BY <1>1, <1>3, NamedStays, SeenStays DEF History
<1>5. Stamp(r) = 0
  BY <1>1, StampFacts DEF History, Named
<1>6. c \in Content /\ c.is # 0
  BY <1>1 DEF Content
<1> HIDE DEF c
<1>7. Later(log, log') /\ Final(log') /\ Named(log', edits') /\ Seen(log', edits')
  <2>1. Final(log) /\ (There(r) \/ Stamp(r) = 0)
    BY <1>1, <1>5 DEF History
  <2>2. LET l == Change(r, c, 0) IN
        Later(log, l) /\ Final(l) /\ Named(l, edits') /\ Seen(l, edits')
    BY <1>1, <1>3, <1>4, <1>6, <2>1, ChangeKeeps
  <2> QED
    BY <1>1, <2>2
<1> QED
  BY <1>1, <1>2, <1>7, WebStep

LEMMA WebUpdateKeeps ==
    ASSUME Inv, NEW r \in Row, WebUpdate(r)
    PROVE  Inv'
<1> DEFINE c == [Hosted(r) EXCEPT !.is = Len(edits) + 1]
<1>1. /\ edits \in Seq(Edit) /\ log \in Seq(Version) /\ History /\ There(r)
      /\ edits' = Append(edits, WebEdit(r)) /\ log' = Change(r, c, 0)
      /\ UNCHANGED <<decided, local, run, late, faults>>
  BY DEF Inv, TypeOK, WebUpdate
<1>2. WebEdit(r) \in Edit /\ WebEdit(r).by = Web /\ WebEdit(r).row = r
  BY DEF WebEdit, Edit
<1>3. /\ Kept(edits, edits') /\ edits' \in Seq(Edit)
      /\ \E e \in DOMAIN edits' : edits'[e].row = r
  BY <1>1, <1>2, AppendFacts DEF Kept
<1>4. Named(log, edits') /\ Seen(log, edits')
  BY <1>1, <1>3, NamedStays, SeenStays DEF History
<1>5. Hosted(r) \in Content
  <2>1. Stamp(r) \in DOMAIN log => log[Stamp(r)] \in Version
    BY <1>1
  <2> QED
    BY <1>1, <2>1, StampFacts DEF Hosted, Version, Missing, Content
<1>6. c \in Content /\ c.is # 0
  BY <1>1, <1>5 DEF Content
<1> HIDE DEF c
<1>7. Later(log, log') /\ Final(log') /\ Named(log', edits') /\ Seen(log', edits')
  BY <1>1, <1>3, <1>4, <1>6, ChangeKeeps DEF History
<1> QED
  BY <1>1, <1>2, <1>7, WebStep

LEMMA WebDeleteKeeps ==
    ASSUME Inv, NEW r \in Row, WebDelete(r)
    PROVE  Inv'
<1> DEFINE w == [WebEdit(r) EXCEPT !.op = "delete"]
<1>1. /\ edits \in Seq(Edit) /\ log \in Seq(Version) /\ History /\ There(r)
      /\ edits' = Append(edits, w) /\ log' = Removal(r, 0)
      /\ UNCHANGED <<decided, local, run, late, faults>>
  BY DEF Inv, TypeOK, WebDelete
<1>2. w \in Edit /\ w.by = Web
  BY DEF WebEdit, Edit
<1> HIDE DEF w
<1>3. Kept(edits, edits')
  BY <1>1, <1>2, AppendFacts DEF Kept
<1>4. \E e \in DOMAIN edits : edits[e].row = r
  BY <1>1, StampFacts DEF History, Named, There, Hosted, Missing
<1>5. Later(log, log') /\ Final(log') /\ Named(log', edits) /\ Seen(log', edits)
  BY <1>1, <1>4, RemovalKeeps DEF History
<1>6. Named(log', edits') /\ Seen(log', edits')
  BY <1>3, <1>5, NamedStays, SeenStays
<1> QED
  BY <1>1, <1>2, <1>5, <1>6, WebStep

-----------------------------------------------------------------------------
(* Local changes *)

LEMMA LocalStep ==
    ASSUME Inv, Kept(edits, edits'), \A e \in DOMAIN edits : edits'[e] = edits[e],
           \A e \in DOMAIN edits' \ DOMAIN edits : edits'[e].state = "pending",
           copy' \in [Device -> [Row -> Content]],
           status' \in [Device -> [Row -> {"unknown", "pending", "synced", "conflict"}]],
           Queues', UNCHANGED <<server, base, cursor, run, late, faults>>
    PROVE  Inv'
<1>1. edits' \in Seq(Edit) /\ log \in Seq(Version) /\ log' = log /\ Later(log, log')
  BY SameLog DEF Kept, Inv, TypeOK, server
<1>2. TypeOK'
  BY <1>1 DEF Inv, TypeOK, server
<1>3. History'
  BY <1>1, NamedStays, SeenStays DEF Inv, History
<1>4. Based' /\ Pages' /\ Requests' /\ Arrivals'
  BY <1>1, Grown DEF Inv, server
<1>5. Verdicts'
  BY DEF Inv, Verdicts, First, server
<1>6. Acked'
  BY <1>1, AckedStays DEF Inv
<1> QED
  BY <1>2, <1>3, <1>4, <1>5, <1>6 DEF Inv

\* A new edit of a row a device writes at the same time.
LEMMA OneEdit ==
    ASSUME Inv, NEW d \in Device, NEW r \in Row, NEW c \in Content,
           c.is = Len(edits) + 1,
           edits' = Append(edits, LocalEdit(d, r, "upsert")),
           copy' = [copy EXCEPT ![d][r] = c],
           status' \in [Device -> [Row -> {"unknown", "pending", "synced", "conflict"}]],
           UNCHANGED <<server, base, cursor, run, late, faults>>
    PROVE  Inv'
<1> DEFINE n == Len(edits) + 1
           w == LocalEdit(d, r, "upsert")
<1>0. edits \in Seq(Edit) /\ base \in [Device -> [Row -> Nat]] /\ copy \in [Device -> [Row -> Content]]
  BY DEF Inv, TypeOK
<1>1. w \in Edit /\ w.by = d /\ w.row = r /\ w.over = base[d][r] /\ w.state = "pending"
  BY <1>0 DEF LocalEdit, Edit
<1> HIDE DEF w
<1>2. /\ edits' \in Seq(Edit) /\ DOMAIN edits' = DOMAIN edits \cup {n}
      /\ DOMAIN edits = 1 .. Len(edits) /\ Len(edits) \in Nat
      /\ \A e \in DOMAIN edits : edits'[e] = edits[e]
      /\ edits'[n] = w
  BY <1>0, <1>1, AppendFacts DEF w
<1>3. Kept(edits, edits') /\ copy' \in [Device -> [Row -> Content]]
  BY <1>0, <1>2 DEF Kept
<1>4. Queues'
  <2> SUFFICES ASSUME NEW x \in Device, NEW q \in Row
               PROVE  Latest(edits', copy'[x][q].is, base[x][q], x, q)
    BY DEF Queues
  <2>1. CASE x = d /\ q = r
    <3>1. copy'[x][q].is = n
      BY <1>0, <2>1
    <3> QED
      BY <1>1, <1>2, <2>1, <3>1 DEF Latest
  <2>2. CASE ~(x = d /\ q = r)
    <3>1. copy'[x][q] = copy[x][q]
      BY <1>0, <2>2
    <3>2. Latest(edits, copy[x][q].is, base[x][q], x, q)
      BY DEF Inv, Queues
    <3> QED
      BY <1>1, <1>2, <2>2, <3>1, <3>2 DEF Latest
  <2> QED
    BY <2>1, <2>2
<1> QED
  BY <1>1, <1>2, <1>3, <1>4, LocalStep

LEMMA LocalCreateKeeps ==
    ASSUME Inv, NEW d \in Device, NEW r \in Row, LocalCreate(d, r)
    PROVE  Inv'
<1> DEFINE c == [is |-> Len(edits) + 1,
                 filed |-> Category[r] # None /\ copy[d][Category[r]].is # 0]
<1>1. c \in Content /\ c.is = Len(edits) + 1
  BY DEF Content, Inv, TypeOK
<1> HIDE DEF c
<1>2. status' \in [Device -> [Row -> {"unknown", "pending", "synced", "conflict"}]]
  BY DEF LocalCreate, Inv, TypeOK
<1>3. /\ edits' = Append(edits, LocalEdit(d, r, "upsert"))
      /\ copy' = [copy EXCEPT ![d][r] = c]
      /\ UNCHANGED <<server, base, cursor, run, late, faults>>
  BY DEF LocalCreate, c
<1> QED
  BY <1>1, <1>2, <1>3, OneEdit

LEMMA LocalUpdateKeeps ==
    ASSUME Inv, NEW d \in Device, NEW r \in Row, LocalUpdate(d, r)
    PROVE  Inv'
<1> DEFINE c == [copy[d][r] EXCEPT !.is = Len(edits) + 1]
<1>0. edits \in Seq(Edit) /\ copy \in [Device -> [Row -> Content]]
  BY DEF Inv, TypeOK
<1>1. c \in Content /\ c.is = Len(edits) + 1
  <2>1. copy[d][r] \in Content
    BY <1>0
  <2> QED
    BY <1>0, <2>1 DEF Content
<1>2. copy' = [copy EXCEPT ![d][r] = c]
  BY <1>0 DEF LocalUpdate
<1> HIDE DEF c
<1>3. status' \in [Device -> [Row -> {"unknown", "pending", "synced", "conflict"}]]
  BY DEF LocalUpdate, Inv, TypeOK
<1>4. /\ edits' = Append(edits, LocalEdit(d, r, "upsert"))
      /\ UNCHANGED <<server, base, cursor, run, late, faults>>
  BY DEF LocalUpdate
<1> QED
  BY <1>1, <1>2, <1>3, <1>4, OneEdit

LEMMA LocalDeleteKeeps ==
    ASSUME Inv, NEW d \in Device, NEW r \in Row, LocalDelete(d, r)
    PROVE  Inv'
<1> DEFINE S == {q \in FiledUnder(r) : copy[d][q].is # 0 /\ copy[d][q].filed}
           filed == SetToSeq(S)
           edit(q) == Len(edits) + (CHOOSE i \in DOMAIN filed : filed[i] = q)
           t == [i \in DOMAIN filed |-> LocalEdit(d, filed[i], "upsert")]
           last == LocalEdit(d, r, "delete")
<1>0. edits \in Seq(Edit) /\ base \in [Device -> [Row -> Nat]] /\ copy \in [Device -> [Row -> Content]]
  BY DEF Inv, TypeOK
<1>1. S \subseteq Row /\ IsFiniteSet(S)
  BY MasterAssumption, FS_Subset DEF FiledUnder
<1>2. /\ filed \in Seq(S)
      /\ \A x \in S : \E i \in DOMAIN filed : filed[i] = x
      /\ \A i, j \in DOMAIN filed : filed[i] = filed[j] => i = j
  BY <1>1, Listed
<1>3. /\ edits' = edits \o t \o <<last>>
      /\ copy' = [copy EXCEPT ![d] = [q \in Row |->
                      IF q = r THEN Missing
                      ELSE IF q \in Range(filed) THEN [is |-> edit(q), filed |-> FALSE]
                      ELSE @[q]]]
      /\ status' = [status EXCEPT ![d][r] = "pending"]
      /\ UNCHANGED <<server, base, cursor, run, late, faults>>
  BY DEF LocalDelete
<1> HIDE DEF filed
<1>4. /\ t \in Seq(Edit) /\ DOMAIN t = DOMAIN filed
      /\ \A i \in DOMAIN filed : t[i] = LocalEdit(d, filed[i], "upsert") /\ filed[i] \in S
  <2>1. \A i \in DOMAIN filed : filed[i] \in S /\ LocalEdit(d, filed[i], "upsert") \in Edit
    BY <1>0, <1>1, <1>2 DEF LocalEdit, Edit
  <2> QED
    BY <1>2, <2>1
<1>5. last \in Edit
  BY <1>0 DEF LocalEdit, Edit
<1> HIDE DEF S, t, last
<1> DEFINE es == edits \o t
<1>6. /\ es \in Seq(Edit) /\ Len(es) = Len(edits) + Len(t)
      /\ Len(edits) \in Nat /\ Len(t) \in Nat
      /\ DOMAIN edits = 1 .. Len(edits) /\ DOMAIN t = 1 .. Len(t)
      /\ DOMAIN es = 1 .. (Len(edits) + Len(t))
      /\ \A i \in DOMAIN edits : es[i] = edits[i]
      /\ \A i \in DOMAIN es \ DOMAIN edits : i - Len(edits) \in DOMAIN t /\ es[i] = t[i - Len(edits)]
  BY <1>0, <1>4, ConcatFacts
<1> HIDE DEF es
<1> DEFINE n == Len(edits) + Len(t) + 1
<1>7. /\ edits' \in Seq(Edit) /\ DOMAIN edits' = DOMAIN es \cup {n}
      /\ \A i \in DOMAIN es : edits'[i] = es[i]
      /\ edits'[n] = last
  <2>1. edits' = Append(es, last)
    BY <1>3, <1>5, <1>6 DEF es
  <2>2. /\ Append(es, last) \in Seq(Edit) /\ DOMAIN Append(es, last) = DOMAIN es \cup {Len(es) + 1}
        /\ \A i \in DOMAIN es : Append(es, last)[i] = es[i]
        /\ Append(es, last)[Len(es) + 1] = last
    BY <1>5, <1>6, AppendFacts
  <2>3. Len(es) + 1 = n
    BY <1>6
  <2> QED
    BY <2>1, <2>2, <2>3
<1>8. /\ DOMAIN edits \subseteq DOMAIN edits'
      /\ \A e \in DOMAIN edits : edits'[e] = edits[e]
  BY <1>6, <1>7
<1>9. Kept(edits, edits')
  BY <1>0, <1>7, <1>8 DEF Kept
<1>10. ASSUME NEW e \in DOMAIN edits' \ DOMAIN edits
       PROVE  /\ edits'[e].state = "pending" /\ edits'[e].by = d
              /\ edits'[e].over = base[d][edits'[e].row]
              /\ \/ edits'[e].row = r
                 \/ e - Len(edits) \in DOMAIN filed /\ edits'[e].row = filed[e - Len(edits)]
  <2>1. CASE e = n
    BY <1>7, <2>1 DEF last, LocalEdit
  <2>2. CASE e # n
    BY <1>4, <1>6, <1>7, <2>2 DEF LocalEdit
  <2> QED
    BY <2>1, <2>2
<1>11. ASSUME NEW q \in S
       PROVE  /\ q \in Range(filed) /\ edit(q) \in DOMAIN edits' /\ edit(q) \in Nat
              /\ edit(q) - Len(edits) \in DOMAIN filed /\ filed[edit(q) - Len(edits)] = q
              /\ edit(q) > Len(edits)
              /\ edits'[edit(q)] = LocalEdit(d, q, "upsert")
  <2>1. PICK i \in DOMAIN filed : filed[i] = q
    BY <1>2
  <2>2. (CHOOSE j \in DOMAIN filed : filed[j] = q) = i
    BY <1>2, <2>1
  <2>3. i \in 1 .. Len(t) /\ edit(q) = Len(edits) + i
    BY <1>4, <1>6, <2>1, <2>2
  <2>4. edit(q) \in DOMAIN es /\ edit(q) \notin DOMAIN edits
    BY <1>6, <2>3
  <2>5. es[edit(q)] = t[i]
    BY <1>6, <2>3, <2>4
  <2>6. edits'[edit(q)] = LocalEdit(d, q, "upsert")
    BY <1>4, <1>7, <2>1, <2>4, <2>5
  <2> QED
    BY <1>6, <1>7, <2>1, <2>3, <2>4, <2>6 DEF Range
<1> HIDE DEF edit
<1>12. Range(filed) = S
  BY <1>2, <1>4, <1>11 DEF Range
<1>13. \A x \in Device, q \in Row :
          /\ x = d /\ q = r => copy'[x][q].is = 0
          /\ x = d /\ q # r /\ q \in S => copy'[x][q].is = edit(q)
          /\ ~(x = d /\ (q = r \/ q \in S)) => copy'[x][q] = copy[x][q]
  <2> TAKE x \in Device, q \in Row
  <2>1. x = d /\ q = r => copy'[x][q] = Missing
    BY <1>0, <1>3
  <2>2. x = d /\ q # r /\ q \in S => copy'[x][q] = [is |-> edit(q), filed |-> FALSE]
    BY <1>0, <1>3, <1>12
  <2>3. ~(x = d /\ (q = r \/ q \in S)) => copy'[x][q] = copy[x][q]
    BY <1>0, <1>3, <1>12
  <2> QED
    BY <2>1, <2>2, <2>3 DEF Missing
<1>14. copy' \in [Device -> [Row -> Content]]
  <2> DEFINE f == [q \in Row |-> IF q = r THEN Missing
                      ELSE IF q \in Range(filed) THEN [is |-> edit(q), filed |-> FALSE]
                      ELSE copy[d][q]]
  <2>1. f \in [Row -> Content]
    BY <1>0, <1>11, <1>12 DEF Missing, Content
  <2>2. copy' = [copy EXCEPT ![d] = f]
    BY <1>3
  <2> HIDE DEF f
  <2> QED
    BY <1>0, <2>1, <2>2
<1>15. status' \in [Device -> [Row -> {"unknown", "pending", "synced", "conflict"}]]
  BY <1>3 DEF Inv, TypeOK
<1>16. Queues'
  <2> SUFFICES ASSUME NEW x \in Device, NEW q \in Row
               PROVE  Latest(edits', copy'[x][q].is, base[x][q], x, q)
    BY <1>3 DEF Queues
  <2>1. CASE x = d /\ q = r
    BY <1>13, <2>1 DEF Latest
  <2>2. CASE x = d /\ q # r /\ q \in S
    <3>1. copy'[x][q].is = edit(q)
      BY <1>13, <2>2
    <3>2. edits'[edit(q)].by = d /\ edits'[edit(q)].row = q /\ edits'[edit(q)].over = base[d][q]
      <4>1. edits'[edit(q)] = LocalEdit(d, q, "upsert")
        BY <1>11, <2>2
      <4> QED
        BY <4>1 DEF LocalEdit
    <3>3. ASSUME NEW m \in DOMAIN edits', edits'[m].row = q PROVE m <= edit(q)
      <4>1. CASE m \in DOMAIN edits
        BY <1>6, <1>11, <2>2, <4>1
      <4>2. CASE m \notin DOMAIN edits
        <5>1. m - Len(edits) \in DOMAIN filed /\ filed[m - Len(edits)] = q
          BY <1>10, <2>2, <3>3, <4>2
        <5>2. m - Len(edits) = edit(q) - Len(edits)
          BY <1>2, <1>11, <2>2, <5>1
        <5> QED
          BY <1>6, <1>7, <1>11, <2>2, <5>2
      <4> QED
        BY <4>1, <4>2
    <3> QED
      BY <1>11, <2>2, <3>1, <3>2, <3>3 DEF Latest
  <2>3. CASE ~(x = d /\ (q = r \/ q \in S))
    <3>1. copy'[x][q] = copy[x][q]
      BY <1>13, <2>3
    <3>2. Latest(edits, copy[x][q].is, base[x][q], x, q)
      BY DEF Inv, Queues
    <3>3. \A m \in DOMAIN edits' \ DOMAIN edits : ~(edits'[m].by = x /\ edits'[m].row = q)
      BY <1>4, <1>10, <2>3
    <3> QED
      BY <1>8, <3>1, <3>2, <3>3 DEF Latest
  <2> QED
    BY <2>1, <2>2, <2>3
<1> QED
  BY <1>3, <1>8, <1>9, <1>10, <1>14, <1>15, <1>16, LocalStep

-----------------------------------------------------------------------------
(* The hosted push *)

LEMMA HostedStep ==
    ASSUME Inv, NEW p, Sound(edits, log, p), UNCHANGED <<edits, local>>,
           \/ Apply(p) \/ Conflict(p) \/ Unavailable(p) \/ Fail(p)
           \/ \E o \in Outcome : Replay(p, o)
    PROVE  /\ Later(log, log') /\ History' /\ Based' /\ Queues' /\ Arrivals' /\ Acked'
           /\ \A m \in DOMAIN decided' : decided'[m] \in Outcome
           /\ \A m \in DOMAIN decided : m \in DOMAIN decided' /\ decided'[m] = decided[m]
           /\ \A q : Sound(edits, log, q) => Sound(edits', log', q)
           /\ Apply(p) => p.m \in DOMAIN decided' /\ decided'[p.m] = "applied"
<1>0. /\ edits \in Seq(Edit) /\ log \in Seq(Version) /\ History /\ edits' = edits
      /\ \A m \in DOMAIN decided : decided[m] \in Outcome
      /\ p.m \in DOMAIN edits
  BY DEF Inv, TypeOK, Sound
<1>1. Kept(edits, edits')
  BY <1>0, SameEdits
<1>2. CASE Apply(p)
  <2>1. /\ Later(log, log') /\ Final(log') /\ Named(log', edits) /\ Seen(log', edits)
        /\ edits[p.m].op = "upsert" => Arrived(log', edits, p.m)
    BY <1>0, <1>2, ApplyFacts DEF History
  <2>2. /\ DOMAIN decided' = DOMAIN decided \cup {p.m} /\ p.m \notin DOMAIN decided
        /\ decided'[p.m] = "applied"
        /\ \A m \in DOMAIN decided : decided'[m] = decided[m]
    BY <1>2 DEF Apply, Decide
  <2>3. /\ \A q : Sound(edits, log, q) => Sound(edits', log', q)
        /\ \A m \in DOMAIN edits : Arrived(log, edits, m) => Arrived(log', edits', m)
        /\ Based'
    BY <1>1, <2>1, Grown DEF Inv, local
  <2>4. Arrivals'
    <3> SUFFICES ASSUME NEW m \in DOMAIN decided'
                 PROVE  /\ m \in DOMAIN edits
                        /\ decided'[m] = "applied" /\ edits[m].op = "upsert"
                           => Arrived(log', edits, m)
      BY <1>0 DEF Arrivals
    <3>1. CASE m = p.m
      BY <1>0, <2>1, <3>1
    <3>2. CASE m # p.m
      BY <1>0, <2>2, <2>3, <3>2 DEF Inv, Arrivals
    <3> QED
      BY <3>1, <3>2
  <2>5. Acked'
    BY <1>0, <1>1, <2>1, AckedStays DEF Inv
  <2> QED
    BY <1>0, <2>1, <2>2, <2>3, <2>4, <2>5 DEF Inv, History, Queues, Outcome, local
<1>3. ASSUME log' = log,
             \/ decided' = decided
             \/ /\ DOMAIN decided' = DOMAIN decided \cup {p.m} /\ p.m \notin DOMAIN decided
                /\ decided'[p.m] = "conflict"
                /\ \A m \in DOMAIN decided : decided'[m] = decided[m],
             ~Apply(p)
      PROVE  /\ Later(log, log') /\ History' /\ Based' /\ Queues' /\ Arrivals' /\ Acked'
             /\ \A m \in DOMAIN decided' : decided'[m] \in Outcome
             /\ \A m \in DOMAIN decided : m \in DOMAIN decided' /\ decided'[m] = decided[m]
             /\ \A q : Sound(edits, log, q) => Sound(edits', log', q)
  <2>1. Later(log, log')
    BY <1>0, <1>3, SameLog
  <2>2. /\ \A q : Sound(edits, log, q) => Sound(edits', log', q)
        /\ Based'
    BY <1>1, <2>1, Grown DEF Inv, local
  <2>3. Arrivals'
    BY <1>0, <1>3 DEF Inv, Arrivals
  <2>4. Acked'
    BY <1>0, <1>1, <2>1, AckedStays DEF Inv
  <2> QED
    BY <1>0, <1>3, <2>1, <2>2, <2>3, <2>4 DEF Inv, History, Queues, Outcome, local
<1>4. CASE Conflict(p) /\ ~Apply(p)
  BY <1>3, <1>4 DEF Conflict, Decide
<1>5. CASE ~Apply(p) /\ (Unavailable(p) \/ Fail(p) \/ \E o \in Outcome : Replay(p, o))
  BY <1>3, <1>5 DEF Unavailable, Fail, Replay, server
<1> QED
  BY <1>2, <1>4, <1>5

LEMMA ArriveKeeps ==
    ASSUME Inv, NEW p \in late, Arrive(p)
    PROVE  Inv'
<1>1. Sound(edits, log, p) /\ UNCHANGED <<edits, local, run, faults>>
  BY DEF Inv, Requests, Arrive
<1>2. /\ Later(log, log') /\ History' /\ Based' /\ Queues' /\ Arrivals' /\ Acked'
      /\ \A m \in DOMAIN decided' : decided'[m] \in Outcome
      /\ \A m \in DOMAIN decided : m \in DOMAIN decided' /\ decided'[m] = decided[m]
      /\ \A q : Sound(edits, log, q) => Sound(edits', log', q)
  <2>1. UNCHANGED <<edits, local>>
    BY <1>1
  <2>2. \/ Apply(p) \/ Conflict(p) \/ Unavailable(p) \/ Fail(p)
        \/ \E o \in Outcome : Replay(p, o)
    BY DEF Arrive
  <2> QED
    BY <1>1, <2>1, <2>2, HostedStep
<1>3. late' = late \ {p}
  BY DEF Arrive
<1>4. TypeOK'
  BY <1>1, <1>2, <1>3 DEF Inv, TypeOK, Later, local
<1>5. Pages'
  BY <1>1, <1>2 DEF Inv, Pages, Later
<1>6. Requests'
  BY <1>1, <1>2, <1>3 DEF Inv, Requests
<1>7. Verdicts'
  BY <1>1, <1>2 DEF Inv, Verdicts, First
<1> QED
  BY <1>2, <1>4, <1>5, <1>6, <1>7 DEF Inv

LEMMA PushNextKeeps ==
    ASSUME Inv, NEW d \in Device, PushNext(d)
    PROVE  Inv'
<1>1. PICK p \in run[d].todo :
        /\ run[d].step = "push" /\ First(d, p)
        /\ \/ /\ Apply(p) \/ Replay(p, "applied")
              /\ run' = [run EXCEPT ![d].step = "ack"]
           \/ /\ Conflict(p) \/ Unavailable(p) \/ Replay(p, "conflict")
              /\ run' = [run EXCEPT ![d].step = "conflict"]
  BY DEF PushNext
<1>2. UNCHANGED <<edits, local, late, faults>>
  BY DEF PushNext
<1>3. Sound(edits, log, p)
  BY DEF Inv, Requests
<1>4. /\ Later(log, log') /\ History' /\ Based' /\ Queues' /\ Arrivals' /\ Acked'
      /\ \A m \in DOMAIN decided' : decided'[m] \in Outcome
      /\ \A m \in DOMAIN decided : m \in DOMAIN decided' /\ decided'[m] = decided[m]
      /\ \A q : Sound(edits, log, q) => Sound(edits', log', q)
      /\ Apply(p) => p.m \in DOMAIN decided' /\ decided'[p.m] = "applied"
  <2>1. UNCHANGED <<edits, local>>
    BY <1>2
  <2>2. \/ Apply(p) \/ Conflict(p) \/ Unavailable(p) \/ Fail(p)
        \/ \E o \in Outcome : Replay(p, o)
    BY <1>1 DEF Outcome
  <2> QED
    BY <1>3, <2>1, <2>2, HostedStep
<1>5. run \in [Device -> Reconciler]
  BY DEF Inv, TypeOK
<1>6. /\ run' \in [Device -> Reconciler]
      /\ \A x \in Device : /\ run'[x].todo = run[x].todo /\ run'[x].page = run[x].page
                           /\ x # d => run'[x] = run[x]
  <2>1. run[d] \in Reconciler
    BY <1>5
  <2>2. \A s \in {"ack", "conflict"} : [run[d] EXCEPT !.step = s] \in Reconciler
    BY <2>1 DEF Reconciler
  <2>3. PICK s \in {"ack", "conflict"} : run' = [run EXCEPT ![d].step = s]
    BY <1>1
  <2> QED
    BY <1>5, <2>2, <2>3 DEF Reconciler
<1>7. TypeOK'
  BY <1>2, <1>4, <1>6 DEF Inv, TypeOK, Later, local
<1>8. Pages'
  BY <1>4, <1>6 DEF Inv, Pages, Later
<1>9. Requests'
  BY <1>2, <1>4, <1>6 DEF Inv, Requests
<1>10. Verdicts'
  <2> SUFFICES ASSUME NEW x \in Device, run'[x].step = "ack", NEW q \in run'[x].todo,
                      \A y \in run'[x].todo : q.m <= y.m
               PROVE  q.m \in DOMAIN decided' /\ decided'[q.m] = "applied"
    BY DEF Verdicts, First
  <2>1. CASE x # d
    BY <1>4, <1>6, <2>1 DEF Inv, Verdicts, First
  <2>2. CASE x = d
    <3>1. Apply(p) \/ Replay(p, "applied")
      <4>1. run[d] \in Reconciler
        BY <1>5
      <4>2. run' = [run EXCEPT ![d].step = "conflict"] => run'[d].step = "conflict"
        BY <1>5, <4>1 DEF Reconciler
      <4> QED
        BY <1>1, <2>2, <4>2
    <3>2. q \in run[d].todo /\ q.m <= p.m /\ p.m <= q.m
      BY <1>1, <1>6, <2>2 DEF First
    <3>3. q \in Push /\ p \in Push
      BY <1>5, <1>1, <3>2 DEF Reconciler
    <3>4. q.m = p.m
      BY <3>2, <3>3 DEF Push
    <3>5. Replay(p, "applied") => p.m \in DOMAIN decided /\ decided[p.m] = "applied"
      BY DEF Replay
    <3> QED
      BY <1>4, <3>1, <3>4, <3>5
  <2> QED
    BY <2>1, <2>2
<1> QED
  BY <1>4, <1>7, <1>8, <1>9, <1>10 DEF Inv

-----------------------------------------------------------------------------
(* The reconciler *)

LEMMA RunStep ==
    ASSUME Inv, NEW d \in Device, NEW x \in Reconciler, run' = [run EXCEPT ![d] = x],
           x.step # "ack", \A p \in x.todo : Sound(edits, log, p), x.page \subseteq DOMAIN log,
           \A p \in late' : p \in late \/ Sound(edits, log, p),
           faults' \in 0 .. MaxFaults, UNCHANGED <<edits, server, local>>
    PROVE  Inv'
<1>1. \A y \in Device : run'[y] = IF y = d THEN x ELSE run[y]
  BY DEF Inv, TypeOK
<1>2. \A p : Sound(edits, log, p) => p \in Push
  BY DEF Sound
<1>3. TypeOK'
  BY <1>2 DEF Inv, TypeOK, local, server
<1>4. History' /\ Based' /\ Queues' /\ Arrivals' /\ Acked'
  BY DEF Inv, History, Based, Queues, Arrivals, Acked, local, server
<1>5. Pages'
  BY <1>1 DEF Inv, Pages, server
<1>6. Requests'
  BY <1>1 DEF Inv, Requests, server
<1>7. Verdicts'
  BY <1>1 DEF Inv, Verdicts, First, server
<1> QED
  BY <1>3, <1>4, <1>5, <1>6, <1>7 DEF Inv

LEMMA LoadKeeps ==
    ASSUME Inv, NEW d \in Device, Load(d)
    PROVE  Inv'
<1>0. /\ edits \in Seq(Edit) /\ base \in [Device -> [Row -> Nat]]
      /\ copy \in [Device -> [Row -> Content]] /\ Based /\ Queues
  BY DEF Inv, TypeOK
<1>1. ASSUME NEW p \in Outbox(d)
      PROVE  Sound(edits, log, p)
  <2>1. PICK e \in DOMAIN edits : IsPending(d, e) /\ p = Prepared(d, e)
    BY DEF Outbox
  <2> DEFINE r == edits[e].row
  <2>2. edits[e] \in Edit /\ r \in Row /\ e \in Nat
    <3>1. edits[e] \in Edit /\ e \in Nat
      BY <1>0
    <3> QED
      BY <3>1 DEF Edit
  <2>3. p.m = e /\ p.base = base[d][r]
    BY <2>1 DEF Prepared
  <2>4. p.data = Missing \/ p.data = copy[d][r]
    BY <2>1 DEF Prepared
  <2>5. p \in Push
    <3>1. base[d][r] \in Nat /\ copy[d][r] \in Content /\ Missing \in Content
      BY <1>0, <2>2 DEF Missing, Content
    <3>2. p = [m |-> e, base |-> base[d][r], data |-> p.data]
      BY <2>1 DEF Prepared
    <3> HIDE DEF r
    <3>3. p.data \in Content
      BY <2>4, <3>1
    <3> QED
      BY <2>2, <3>1, <3>2, <3>3 DEF Push
  <2>6. p.base # 0 => p.base \in DOMAIN log /\ log[p.base].row = r
    BY <1>0, <2>2, <2>3 DEF Based
  <2>7. p.data.is # 0 => /\ p.data.is \in DOMAIN edits /\ e <= p.data.is
                         /\ edits[p.data.is].row = r /\ edits[p.data.is].by = edits[e].by
                         /\ edits[p.data.is].over = base[d][r]
    <3> SUFFICES ASSUME p.data.is # 0
                 PROVE  /\ p.data.is \in DOMAIN edits /\ e <= p.data.is
                        /\ edits[p.data.is].row = r /\ edits[p.data.is].by = edits[e].by
                        /\ edits[p.data.is].over = base[d][r]
      OBVIOUS
    <3>1. p.data = copy[d][r]
      BY <2>4 DEF Missing
    <3>2. Latest(edits, copy[d][r].is, base[d][r], d, r)
      BY <1>0, <2>2 DEF Queues
    <3>3. edits[e].by = d /\ edits[e].row = r /\ edits[e].state = "pending"
      BY <2>1 DEF IsPending
    <3> QED
      BY <3>1, <3>2, <3>3 DEF Latest
  <2> QED
    BY <2>3, <2>5, <2>6, <2>7 DEF Sound
<1> DEFINE x == [step |-> "push", todo |-> Outbox(d), page |-> {}]
<1>2. x \in Reconciler
  <2>1. Outbox(d) \subseteq Push
    BY <1>1 DEF Sound
  <2> QED
    BY <2>1 DEF Reconciler
<1>3. /\ x.step # "ack" /\ x.page \subseteq DOMAIN log /\ x.todo = Outbox(d)
      /\ run' = [run EXCEPT ![d] = x]
      /\ late' = late /\ faults' \in 0 .. MaxFaults /\ UNCHANGED <<edits, server, local>>
  BY DEF Load, Inv, TypeOK
<1> HIDE DEF x
<1>4. \A p \in x.todo : Sound(edits, log, p)
  BY <1>1, <1>3
<1> QED
  BY <1>2, <1>3, <1>4, RunStep

LEMMA IdleFacts ==
    Idle \in Reconciler /\ Idle.step # "ack" /\ Idle.todo = {} /\ Idle.page = {}
  BY DEF Idle, Reconciler

LEMMA StopKeeps ==
    ASSUME Inv, NEW d \in Device,
           PushFails(d) \/ PageFails(d) \/ GiveUp(d) \/ Restart(d)
    PROVE  Inv'
<1>1. /\ run' = [run EXCEPT ![d] = Idle]
      /\ UNCHANGED <<edits, server, local>>
  BY DEF PushFails, PageFails, GiveUp, Restart, Fail, server
<1>2. faults' \in 0 .. MaxFaults
  <2>1. MaxFaults \in Nat
    BY MasterAssumption
  <2> QED
    BY <2>1 DEF PushFails, PageFails, GiveUp, Restart, Inv, TypeOK
<1>3. \A p \in late' : p \in late \/ Sound(edits, log, p)
  BY DEF PushFails, PageFails, GiveUp, Restart, Inv, Requests
<1> QED
  BY <1>1, <1>2, <1>3, IdleFacts, RunStep

LEMMA PullKeeps ==
    ASSUME Inv, NEW d \in Device, Pull(d)
    PROVE  Inv'
<1> DEFINE x == [run[d] EXCEPT !.step = "apply", !.page = NextPage(cursor[d])]
<1>0. run \in [Device -> Reconciler] /\ log \in Seq(Version) /\ run[d].todo = {}
  BY DEF Inv, TypeOK, Pull
<1>1. NextPage(cursor[d]) \subseteq DOMAIN log
  BY DEF NextPage, Changed
<1>2. x \in Reconciler /\ x.step # "ack" /\ x.todo = {} /\ x.page \subseteq DOMAIN log
  <2>1. run[d] \in Reconciler /\ DOMAIN log \subseteq Nat
    BY <1>0
  <2> QED
    BY <1>0, <1>1, <2>1 DEF Reconciler
<1>3. run' = [run EXCEPT ![d] = x]
  BY <1>0 DEF Pull
<1> HIDE DEF x
<1>4. late' = late /\ faults' \in 0 .. MaxFaults /\ UNCHANGED <<edits, server, local>>
  BY DEF Pull, Inv, TypeOK
<1> QED
  BY <1>2, <1>3, <1>4, RunStep

\* A device takes note of what became of a mutation.
LEMMA Settled ==
    ASSUME Inv, NEW d \in Device, NEW p \in run[d].todo,
           NEW s \in {"synced", "conflict"}, First(d, p),
           s = "synced" => run[d].step = "ack",
           edits' = [edits EXCEPT ![p.m].state = s], run' = Popped(d, p),
           status' \in [Device -> [Row -> {"unknown", "pending", "synced", "conflict"}]],
           UNCHANGED <<server, copy, base, cursor, late, faults>>
    PROVE  Inv'
<1>0. /\ edits \in Seq(Edit) /\ log \in Seq(Version) /\ run \in [Device -> Reconciler]
      /\ log' = log /\ p.m \in DOMAIN edits
  BY DEF Inv, TypeOK, server, Requests, Sound
<1>1. /\ edits' \in Seq(Edit) /\ DOMAIN edits' = DOMAIN edits
      /\ \A e \in DOMAIN edits :
           /\ edits'[e].by = edits[e].by /\ edits'[e].row = edits[e].row
           /\ edits'[e].op = edits[e].op /\ edits'[e].over = edits[e].over
           /\ edits'[e].state = IF e = p.m THEN s ELSE edits[e].state
  <2>1. [edits[p.m] EXCEPT !.state = s] \in Edit
    <3>1. edits[p.m] \in Edit
      BY <1>0
    <3> QED
      BY <3>1 DEF Edit
  <2>2. edits' = [edits EXCEPT ![p.m] = [edits[p.m] EXCEPT !.state = s]]
    OBVIOUS
  <2>3. \A e \in DOMAIN edits : edits[e] \in Edit
    BY <1>0
  <2> QED
    BY <1>0, <2>1, <2>2, <2>3 DEF Edit
<1>2. Kept(edits, edits') /\ Later(log, log')
  BY <1>0, <1>1, SameLog DEF Kept
<1>3. /\ run' \in [Device -> Reconciler] /\ run'[d].step = "push"
      /\ run'[d].todo = run[d].todo \ {p} /\ run'[d].page = run[d].page
      /\ \A x \in Device : x # d => run'[x] = run[x]
  <2>1. run[d] \in Reconciler
    BY <1>0
  <2> DEFINE x == [run[d] EXCEPT !.step = "push", !.todo = @ \ {p}]
  <2>2. x \in Reconciler /\ x.step = "push" /\ x.todo = run[d].todo \ {p} /\ x.page = run[d].page
    BY <2>1 DEF Reconciler
  <2>3. run' = [run EXCEPT ![d] = x]
    BY <1>0 DEF Popped
  <2> HIDE DEF x
  <2> QED
    BY <1>0, <2>2, <2>3
<1>4. TypeOK'
  BY <1>1, <1>3 DEF Inv, TypeOK, server
<1>5. History'
  BY <1>0, <1>2, NamedStays, SeenStays DEF Inv, History
<1>6. Based' /\ Arrivals'
  BY <1>2, Grown DEF Inv, server
<1>7. Pages'
  BY <1>0, <1>3 DEF Inv, Pages
<1>8. Requests'
  <2>1. \A q : Sound(edits, log, q) => Sound(edits', log', q)
    BY <1>2, Grown
  <2>2. \A x \in Device : run'[x].todo \subseteq run[x].todo
    BY <1>3
  <2> QED
    BY <2>1, <2>2 DEF Inv, Requests
<1>9. Verdicts'
  BY <1>3 DEF Inv, Verdicts, First, server
<1>10. Queues'
  BY <1>1 DEF Inv, Queues, Latest
<1>11. Acked'
  <2>1. s = "synced" /\ edits[p.m].op = "upsert" => Arrived(log, edits, p.m)
    BY <1>0 DEF Inv, Verdicts, Arrivals
  <2> QED
    BY <1>1, <1>2, <2>1, AckedStays DEF Inv
<1> QED
  BY <1>4, <1>5, <1>6, <1>7, <1>8, <1>9, <1>10, <1>11 DEF Inv

LEMMA AckKeeps ==
    ASSUME Inv, NEW d \in Device, Ack(d) \/ RecordConflict(d)
    PROVE  Inv'
<1>1. status \in [Device -> [Row -> {"unknown", "pending", "synced", "conflict"}]]
  BY DEF Inv, TypeOK
<1>2. CASE Ack(d)
  <2>1. PICK p \in run[d].todo :
          /\ run[d].step = "ack" /\ First(d, p)
          /\ edits' = [edits EXCEPT ![p.m].state = "synced"]
          /\ run' = Popped(d, p)
    BY <1>2 DEF Ack
  <2>2. status' = status /\ UNCHANGED <<server, copy, base, cursor, late, faults>>
    BY <1>2 DEF Ack, local
  <2> QED
    BY <1>1, <2>1, <2>2, Settled
<1>3. CASE RecordConflict(d)
  <2>1. PICK p \in run[d].todo :
          /\ run[d].step = "conflict" /\ First(d, p)
          /\ edits' = [edits EXCEPT ![p.m].state = "conflict"]
          /\ status' = [status EXCEPT ![d][edits[p.m].row] = "conflict"]
          /\ run' = Popped(d, p)
    BY <1>3 DEF RecordConflict
  <2>2. status' \in [Device -> [Row -> {"unknown", "pending", "synced", "conflict"}]]
    BY <1>1, <2>1
  <2>3. UNCHANGED <<server, copy, base, cursor, late, faults>>
    BY <1>3 DEF RecordConflict
  <2> QED
    BY <2>1, <2>2, <2>3, Settled
<1> QED
  BY <1>2, <1>3

LEMMA ApplyPageKeeps ==
    ASSUME Inv, NEW d \in Device, NEW kept \in SUBSET Row, ApplyPage(d, kept)
    PROVE  Inv'
<1> DEFINE page == run[d].page
           news == Applied(d, page)
           removed == Gone(news) \ kept
           blocked == RowsOf(page) \ RowsOf(news)
           written == Written(d, news)
           at(r) == VersionOf(r, news)
           known == RowsOf(news) \ Gone(news)
<1>0. /\ edits \in Seq(Edit) /\ log \in Seq(Version) /\ run \in [Device -> Reconciler]
      /\ copy \in [Device -> [Row -> Content]] /\ base \in [Device -> [Row -> Nat]]
      /\ status \in [Device -> [Row -> {"unknown", "pending", "synced", "conflict"}]]
      /\ cursor \in [Device -> Nat]
      /\ DOMAIN log = 1 .. Len(log) /\ Len(log) \in Nat
      /\ page \subseteq DOMAIN log
  BY DEF Inv, TypeOK, Pages
<1>1. /\ copy' = [copy EXCEPT ![d] = [r \in Row |->
             IF r \in written THEN log[at(r)].data
             ELSE IF r \in removed THEN Missing
             ELSE IF Category[r] \in removed THEN [copy[d][r] EXCEPT !.filed = FALSE]
             ELSE copy[d][r]]]
      /\ base' = [base EXCEPT ![d] = [r \in Row |->
             IF r \in known THEN at(r) ELSE base[d][r]]]
      /\ status' = [status EXCEPT ![d] = [r \in Row |->
             IF r \in blocked THEN "conflict"
             ELSE IF r \in RowsOf(news) /\ (r \notin Gone(news) \/ status[d][r] # "unknown")
                  THEN "synced"
             ELSE status[d][r]]]
      /\ edits' = [e \in DOMAIN edits |->
             IF IsPending(d, e) /\ edits[e].row \in blocked
             THEN [edits[e] EXCEPT !.state = "conflict"] ELSE edits[e]]
      /\ cursor' = [cursor EXCEPT ![d] = Max({cursor[d]} \cup page)]
      /\ run' = [run EXCEPT ![d] = Idle]
      /\ UNCHANGED <<server, late, faults>>
  BY <1>0 DEF ApplyPage
<1>2. /\ news \subseteq page
      /\ \A r \in RowsOf(news) : /\ at(r) \in news /\ log[at(r)].row = r
                                 /\ \A m \in DOMAIN edits : ~(IsPending(d, m) /\ edits[m].row = r)
      /\ written \subseteq RowsOf(news) /\ removed \subseteq RowsOf(news) /\ known \subseteq RowsOf(news)
  <2>1. news \subseteq page /\ \A i \in news : Pending(d, log[i].row) = {}
    BY DEF Applied
  <2>2. ASSUME NEW r \in RowsOf(news)
        PROVE  /\ at(r) \in news /\ log[at(r)].row = r
               /\ \A m \in DOMAIN edits : ~(IsPending(d, m) /\ edits[m].row = r)
    <3> HIDE DEF news
    <3>1. \E i \in news : log[i].row = r
      BY DEF RowsOf
    <3>2. at(r) \in news /\ log[at(r)].row = r
      BY <3>1 DEF VersionOf
    <3> QED
      BY <2>1, <3>2 DEF Pending
  <2> QED
    BY <2>1, <2>2 DEF Written, Gone
<1> HIDE DEF news, removed, blocked, written, known, at
<1>3. \A r \in Row : /\ copy'[d][r].is = IF r \in written THEN log[at(r)].data.is
                                        ELSE IF r \in removed THEN 0 ELSE copy[d][r].is
                     /\ copy'[d][r] \in Content
                     /\ base'[d][r] = IF r \in known THEN at(r) ELSE base[d][r]
  <2> TAKE r \in Row
  <2>1. copy[d][r] \in Content
    BY <1>0
  <2>2. CASE r \in written
    <3>1. at(r) \in DOMAIN log
      BY <1>0, <1>2, <2>2
    <3>2. log[at(r)].data \in Content
      <4>1. log[at(r)] \in Version
        BY <1>0, <3>1
      <4> QED
        BY <4>1 DEF Version
    <3> QED
      BY <1>0, <1>1, <2>2, <3>2
  <2>3. CASE r \notin written /\ r \in removed
    <3>1. copy'[d][r] = Missing
      BY <1>0, <1>1, <2>3
    <3> QED
      BY <1>0, <1>1, <2>3, <3>1 DEF Missing, Content
  <2>4. CASE r \notin written /\ r \notin removed
    <3>1. copy'[d][r] = copy[d][r] \/ copy'[d][r] = [copy[d][r] EXCEPT !.filed = FALSE]
      BY <1>0, <1>1, <2>4
    <3>2. [copy[d][r] EXCEPT !.filed = FALSE] \in Content /\ [copy[d][r] EXCEPT !.filed = FALSE].is = copy[d][r].is
      BY <2>1 DEF Content
    <3> QED
      BY <1>0, <1>1, <2>1, <2>4, <3>1, <3>2
  <2> QED
    BY <2>2, <2>3, <2>4
<1>4. \A x \in Device : x # d => copy'[x] = copy[x] /\ base'[x] = base[x] /\ run'[x] = run[x]
  BY <1>0, <1>1
<1>5. /\ edits' \in Seq(Edit) /\ DOMAIN edits' = DOMAIN edits
      /\ \A e \in DOMAIN edits :
           /\ edits'[e].by = edits[e].by /\ edits'[e].row = edits[e].row
           /\ edits'[e].op = edits[e].op /\ edits'[e].over = edits[e].over
           /\ edits'[e].state = edits[e].state \/ edits'[e].state = "conflict"
  <2>1. \A e \in DOMAIN edits : edits[e] \in Edit
    BY <1>0
  <2>2. \A e \in DOMAIN edits :
           /\ [edits[e] EXCEPT !.state = "conflict"] \in Edit
           /\ edits'[e] = edits[e] \/ edits'[e] = [edits[e] EXCEPT !.state = "conflict"]
    BY <1>1, <2>1 DEF Edit
  <2>3. DOMAIN edits = 1 .. Len(edits) /\ Len(edits) \in Nat /\ DOMAIN edits' = DOMAIN edits
    BY <1>0, <1>1
  <2>4. \A e \in DOMAIN edits : edits'[e] \in Edit
    BY <2>1, <2>2
  <2>5. edits' \in Seq(Edit)
    BY <1>1, <2>3, <2>4
  <2> QED
    BY <2>1, <2>2, <2>3, <2>5 DEF Edit
<1>6. Kept(edits, edits') /\ log' = log /\ Later(log, log')
  BY <1>0, <1>1, <1>5, SameLog DEF Kept, server
<1>7. copy' \in [Device -> [Row -> Content]] /\ base' \in [Device -> [Row -> Nat]]
  <2>1. \A r \in Row : base'[d][r] \in Nat
    <3>1. \A r \in Row : r \in known => at(r) \in DOMAIN log
      BY <1>0, <1>2
    <3>2. \A r \in Row : base[d][r] \in Nat
      BY <1>0
    <3> QED
      BY <1>0, <1>3, <3>1, <3>2
  <2>2. \A x \in Device, r \in Row : copy'[x][r] \in Content /\ base'[x][r] \in Nat
    BY <1>0, <1>3, <1>4, <2>1
  <2>3. /\ DOMAIN copy' = Device /\ DOMAIN base' = Device
        /\ \A x \in Device : /\ copy'[x] = [r \in Row |-> copy'[x][r]]
                             /\ base'[x] = [r \in Row |-> base'[x][r]]
    BY <1>0, <1>1, <1>4
  <2>4. \A x \in Device : copy'[x] \in [Row -> Content] /\ base'[x] \in [Row -> Nat]
    BY <2>2, <2>3
  <2>5. copy' = [x \in Device |-> copy'[x]] /\ base' = [x \in Device |-> base'[x]]
    BY <1>0, <1>1
  <2> QED
    BY <2>4, <2>5
<1>8. cursor' \in [Device -> Nat]
  <2> DEFINE S == {cursor[d]} \cup page
             top == cursor[d] + Len(log)
  <2>1. top \in Nat /\ S \in SUBSET (0 .. top) /\ S # {}
    BY <1>0
  <2>2. Max(S) \in S
    <3> HIDE DEF S, top
    <3> QED
      BY <2>1, Greatest
  <2>3. Max(S) \in Nat
    BY <1>0, <2>2
  <2> QED
    BY <1>0, <1>1, <2>3
<1>9. status' \in [Device -> [Row -> {"unknown", "pending", "synced", "conflict"}]]
  BY <1>0, <1>1
<1>10. run' \in [Device -> Reconciler] /\ run'[d] = Idle
  BY <1>0, <1>1, IdleFacts
<1>11. TypeOK'
  BY <1>1, <1>5, <1>7, <1>8, <1>9, <1>10 DEF Inv, TypeOK, server
<1>12. History'
  BY <1>6, NamedStays, SeenStays DEF Inv, History
<1>13. Arrivals'
  BY <1>1, <1>6, Grown DEF Inv, server
<1>14. Based'
  <2> SUFFICES ASSUME NEW x \in Device, NEW r \in Row, base'[x][r] # 0
               PROVE  base'[x][r] \in DOMAIN log /\ log[base'[x][r]].row = r
    BY <1>6 DEF Based
  <2>1. CASE x = d /\ r \in known
    BY <1>0, <1>2, <1>3, <2>1
  <2>2. CASE ~(x = d /\ r \in known)
    BY <1>3, <1>4, <2>2 DEF Inv, Based
  <2> QED
    BY <2>1, <2>2
<1>15. Pages'
  BY <1>4, <1>6, <1>10, IdleFacts DEF Inv, Pages
<1>16. Requests'
  <2>1. \A q : Sound(edits, log, q) => Sound(edits', log', q)
    BY <1>6, Grown
  <2>2. \A x \in Device : run'[x].todo \subseteq run[x].todo
    BY <1>4, <1>10, IdleFacts
  <2> QED
    BY <1>1, <2>1, <2>2 DEF Inv, Requests
<1>17. Verdicts'
  BY <1>1, <1>4, <1>10, IdleFacts DEF Inv, Verdicts, First, server
<1>18. Queues'
  <2> SUFFICES ASSUME NEW x \in Device, NEW r \in Row, NEW m \in DOMAIN edits',
                      edits'[m].by = x, edits'[m].row = r, edits'[m].state = "pending",
                      copy'[x][r].is # 0
               PROVE  /\ copy'[x][r].is \in DOMAIN edits' /\ m <= copy'[x][r].is
                      /\ edits'[copy'[x][r].is].by = x /\ edits'[copy'[x][r].is].row = r
                      /\ edits'[copy'[x][r].is].over = base'[x][r]
    BY DEF Queues, Latest
  <2>1. m \in DOMAIN edits /\ edits[m].by = x /\ edits[m].row = r /\ edits[m].state = "pending"
    BY <1>5
  <2>2. x = d => r \notin RowsOf(news)
    BY <1>2, <2>1 DEF IsPending
  <2>3. x = d => (copy'[x][r].is = copy[x][r].is \/ copy'[x][r].is = 0) /\ base'[x][r] = base[x][r]
    BY <1>2, <1>3, <2>2
  <2>4. copy'[x][r].is = copy[x][r].is /\ base'[x][r] = base[x][r]
    BY <1>4, <2>3
  <2>5. Latest(edits, copy[x][r].is, base[x][r], x, r)
    BY DEF Inv, Queues
  <2>6. /\ copy[x][r].is \in DOMAIN edits /\ m <= copy[x][r].is
        /\ edits[copy[x][r].is].by = x /\ edits[copy[x][r].is].row = r
        /\ edits[copy[x][r].is].over = base[x][r]
    BY <2>1, <2>4, <2>5 DEF Latest
  <2> QED
    BY <1>5, <2>4, <2>6
<1>19. Acked'
  BY <1>5, <1>6, AckedStays DEF Inv
<1> QED
  BY <1>11, <1>12, <1>13, <1>14, <1>15, <1>16, <1>17, <1>18, <1>19 DEF Inv

-----------------------------------------------------------------------------
(* A copy that is in step                                                  *)

Ahead == \A d \in Device : cursor[d] <= Len(log)

\* A page holds one version of a row, and no change up to its end is missing.
Paged ==
    \A d \in Device :
        /\ \A i \in run[d].page : cursor[d] < i
        /\ \A i, j \in run[d].page : log[i].row = log[j].row => i = j
        /\ \A r \in Row : cursor[d] < Stamp(r)
              => Stamp(r) \in run[d].page \/ \A i \in run[d].page : i < Stamp(r)

\* What the server has applied of a pending edit is still to be pulled.
Echoes ==
    \A d \in Device, r \in Row, e \in DOMAIN decided :
        /\ IsPending(d, e) /\ edits[e].row = r /\ decided[e] = "applied" /\ There(r)
        => cursor[d] < Stamp(r)

\* No hosted row is filed under one that is gone.
FiledThere == \A r \in Row : Hosted(r).filed => There(r) /\ There(Category[r])

\* A device sends its own edits.
Own == \A d \in Device : \A p \in run[d].todo : edits[p.m].by = d

Copies == Own /\ InStep /\ Ahead /\ Paged /\ Echoes /\ FiledThere

LEMMA StampGrows ==
    ASSUME Later(log, log'), NEW r
    PROVE  /\ Stamp(r) \in Nat /\ Stamp(r)' \in Nat /\ Stamp(r) <= Stamp(r)' /\ Stamp(r) <= Len(log)
           /\ \/ /\ Stamp(r)' = Stamp(r) /\ Hosted(r)' = Hosted(r) /\ (There(r)' <=> There(r))
                 /\ \A i \in DOMAIN log' \ DOMAIN log : log'[i].row # r
              \/ /\ Stamp(r)' > Len(log) /\ Stamp(r)' \in DOMAIN log' \ DOMAIN log
                 /\ Hosted(r)' = log'[Stamp(r)'].data /\ log'[Stamp(r)'].row = r
<1>1. /\ log \in Seq(Version) /\ log' \in Seq(Version) /\ DOMAIN log \subseteq DOMAIN log'
      /\ \A i \in DOMAIN log : log'[i] = log[i]
      /\ DOMAIN log = 1 .. Len(log) /\ Len(log) \in Nat
      /\ DOMAIN log' = 1 .. Len(log')
  BY DEF Later
<1>2. Stamp(r) = Newest(log, r) /\ Stamp(r)' = Newest(log', r)
  BY DEF Stamp, Newest
<1>3. /\ Stamp(r) \in {0} \cup DOMAIN log /\ Stamp(r) \in Nat
      /\ Stamp(r) # 0 => log[Stamp(r)].row = r
      /\ \A i \in DOMAIN log : log[i].row = r => i <= Stamp(r)
  BY <1>1, <1>2, NewestFacts
<1>4. /\ Stamp(r)' \in {0} \cup DOMAIN log' /\ Stamp(r)' \in Nat
      /\ Stamp(r)' # 0 => log'[Stamp(r)'].row = r
      /\ \A i \in DOMAIN log' : log'[i].row = r => i <= Stamp(r)'
  BY <1>1, <1>2, NewestFacts
<1> DEFINE s == Stamp(r)
           t == Newest(log', r)
<1>5. Hosted(r)' = IF t = 0 THEN Missing ELSE log'[t].data
  BY <1>2 DEF Hosted
<1>6. Hosted(r) = IF s = 0 THEN Missing ELSE log[s].data
  BY DEF Hosted
<1>7. /\ s \in {0} \cup DOMAIN log /\ s \in Nat /\ (s # 0 => log[s].row = r)
      /\ \A i \in DOMAIN log : log[i].row = r => i <= s
      /\ t \in {0} \cup DOMAIN log' /\ t \in Nat /\ (t # 0 => log'[t].row = r)
      /\ \A i \in DOMAIN log' : log'[i].row = r => i <= t
  BY <1>2, <1>3, <1>4
<1> HIDE DEF s, t
<1>8. s <= t
  BY <1>1, <1>7
<1>9. CASE t \in {0} \cup DOMAIN log
  <2>1. t <= s
    BY <1>1, <1>7, <1>9
  <2>2. s = t
    BY <1>7, <1>8, <2>1
  <2>3. Hosted(r)' = Hosted(r)
    BY <1>1, <1>5, <1>6, <1>7, <2>2
  <2>4. There(r)' <=> There(r)
    BY <2>3 DEF There
  <2>5. \A i \in DOMAIN log' \ DOMAIN log : log'[i].row # r
    BY <1>1, <1>7, <1>9
  <2> QED
    BY <1>1, <1>2, <1>7, <1>8, <2>2, <2>3, <2>4, <2>5 DEF s, t
<1>10. CASE t \notin {0} \cup DOMAIN log
  <2>1. t > Len(log) /\ t \in DOMAIN log' \ DOMAIN log
    BY <1>1, <1>7, <1>10
  <2> QED
    BY <1>1, <1>2, <1>5, <1>7, <1>8, <1>10, <2>1 DEF s, t
<1> QED
  BY <1>9, <1>10

\* The server changes, and the devices do not.
LEMMA ServerGrows ==
    ASSUME Inv, Copies, Later(log, log'), UNCHANGED local,
           \A d \in Device : run'[d].page = run[d].page /\ run'[d].todo = run[d].todo,
           \A e \in DOMAIN edits : edits'[e].by = edits[e].by,
           \A d \in Device, r \in Row : Pending(d, r)' = Pending(d, r),
           \A d \in Device, r \in Row, e \in DOMAIN decided' :
               /\ IsPending(d, e)' /\ edits'[e].row = r /\ decided'[e] = "applied" /\ There(r)'
               => \/ /\ e \in DOMAIN decided /\ IsPending(d, e) /\ edits[e].row = r
                     /\ decided[e] = "applied"
                  \/ Stamp(r)' > Len(log),
           FiledThere'
    PROVE  Copies'
<1>0. /\ log \in Seq(Version) /\ Len(log) \in Nat /\ cursor \in [Device -> Nat]
      /\ DOMAIN log = 1 .. Len(log) /\ log' \in Seq(Version) /\ Len(log') \in Nat
      /\ DOMAIN log' = 1 .. Len(log')
      /\ cursor' = cursor /\ copy' = copy /\ status' = status
      /\ \A d \in Device : run[d].page \subseteq DOMAIN log
      /\ \A d \in Device : cursor[d] \in Nat /\ cursor[d] <= Len(log)
  BY DEF Inv, TypeOK, Later, local, Pages, Copies, Ahead
<1>1. InStep'
  <2> SUFFICES ASSUME NEW d \in Device, NEW r \in Row, status[d][r] = "synced",
                      Pending(d, r) = {}, Stamp(r)' <= cursor[d], There(r)',
                      copy[d][r].is # 0
               PROVE  copy[d][r] = Hosted(r)'
    BY <1>0 DEF InStep
  <2>1. Stamp(r)' \in Nat /\ ~(Stamp(r)' > Len(log))
    BY <1>0, StampGrows
  <2>2. Stamp(r)' = Stamp(r) /\ Hosted(r)' = Hosted(r) /\ There(r)
    BY <2>1, StampGrows
  <2> QED
    BY <2>2 DEF Copies, InStep
<1>2. Ahead'
  <2>1. Len(log) <= Len(log')
    BY <1>0 DEF Later
  <2> QED
    BY <1>0, <2>1 DEF Ahead
<1>3. Paged'
  <2> SUFFICES ASSUME NEW d \in Device
               PROVE  /\ \A i \in run[d].page : cursor[d] < i
                      /\ \A i, j \in run[d].page : log'[i].row = log'[j].row => i = j
                      /\ \A r \in Row : cursor[d] < Stamp(r)'
                           => Stamp(r)' \in run[d].page \/ \A i \in run[d].page : i < Stamp(r)'
    BY <1>0 DEF Paged
  <2>1. \A i \in run[d].page : cursor[d] < i /\ i \in 1 .. Len(log) /\ log'[i] = log[i]
    BY <1>0 DEF Copies, Paged, Later
  <2>2. \A i, j \in run[d].page : log'[i].row = log'[j].row => i = j
    BY <2>1 DEF Copies, Paged
  <2>3. ASSUME NEW r \in Row, cursor[d] < Stamp(r)'
        PROVE  Stamp(r)' \in run[d].page \/ \A i \in run[d].page : i < Stamp(r)'
    <3>1. CASE Stamp(r)' = Stamp(r)
      BY <2>3, <3>1 DEF Copies, Paged
    <3>2. CASE Stamp(r)' > Len(log)
      BY <1>0, <2>1, <3>2, StampGrows
    <3> QED
      BY <3>1, <3>2, StampGrows
  <2> QED
    BY <2>1, <2>2, <2>3
<1>4. Echoes'
  <2> SUFFICES ASSUME NEW d \in Device, NEW r \in Row, NEW e \in DOMAIN decided',
                      IsPending(d, e)', edits'[e].row = r, decided'[e] = "applied", There(r)'
               PROVE  cursor[d] < Stamp(r)'
    BY <1>0 DEF Echoes
  <2>1. CASE Stamp(r)' > Len(log)
    BY <1>0, <2>1, StampGrows
  <2>2. CASE ~(Stamp(r)' > Len(log))
    <3>1. Stamp(r)' = Stamp(r) /\ There(r)
      BY <2>2, StampGrows
    <3>2. e \in DOMAIN decided /\ IsPending(d, e) /\ edits[e].row = r /\ decided[e] = "applied"
      BY <2>2
    <3> QED
      BY <3>1, <3>2 DEF Copies, Echoes
  <2> QED
    BY <2>1, <2>2
<1>5. Own'
  BY DEF Copies, Own, Inv, Requests, Sound
<1> QED
  BY <1>1, <1>2, <1>3, <1>4, <1>5 DEF Copies

LEMMA FiledChange ==
    ASSUME log \in Seq(Version), NEW r \in Row, NEW c \in Content, NEW m \in Nat,
           FiledThere, Later(log, log'), log' = Change(r, c, m),
           c.is # 0, c.filed => There(Category[r])
    PROVE  FiledThere' /\ Stamp(r)' > Len(log)
<1>1. [row |-> r, data |-> c, by |-> m] \in Version
  BY DEF Version
<1> DEFINE n == Len(log) + 1
<1>2. /\ DOMAIN log' = DOMAIN log \cup {n} /\ log'[n] = [row |-> r, data |-> c, by |-> m]
      /\ DOMAIN log = 1 .. Len(log) /\ Len(log) \in Nat
  BY <1>1, AppendFacts DEF Change
<1>3. n \in DOMAIN log' \ DOMAIN log /\ log'[n].row = r /\ log'[n].data = c
  BY <1>2
<1>4. Stamp(r)' > Len(log) /\ Hosted(r)' = c
  <2>1. Stamp(r)' > Len(log) /\ Stamp(r)' \in DOMAIN log' \ DOMAIN log
        /\ Hosted(r)' = log'[Stamp(r)'].data
    BY <1>3, StampGrows
  <2>2. Stamp(r)' = n
    BY <1>2, <2>1
  <2> QED
    BY <1>3, <2>1, <2>2
<1>5. ASSUME NEW q, q # r PROVE Hosted(q)' = Hosted(q) /\ (There(q)' <=> There(q))
  <2>1. \A i \in DOMAIN log' \ DOMAIN log : log'[i].row # q
    BY <1>2, <1>3, <1>5
  <2> QED
    BY <2>1, StampGrows
<1>6. ASSUME NEW q, There(q) PROVE There(q)'
  <2>1. CASE q = r
    BY <1>4, <2>1 DEF There
  <2>2. CASE q # r
    BY <1>5, <1>6, <2>2
  <2> QED
    BY <2>1, <2>2
<1>7. FiledThere'
  <2> SUFFICES ASSUME NEW q \in Row, Hosted(q)'.filed
               PROVE  There(q)' /\ There(Category[q])'
    BY DEF FiledThere
  <2>1. CASE q = r
    <3>1. There(q)'
      BY <1>4, <2>1 DEF There
    <3> QED
      BY <1>4, <1>6, <2>1, <3>1
  <2>2. CASE q # r
    <3>1. There(q) /\ There(Category[q])
      BY <1>5, <2>2 DEF FiledThere
    <3> QED
      BY <1>6, <3>1
  <2> QED
    BY <2>1, <2>2
<1> QED
  BY <1>4, <1>7

LEMMA FiledRemoval ==
    ASSUME log \in Seq(Version), NEW r \in Row, NEW m \in Nat,
           FiledThere, Later(log, log'), log' = Removal(r, m)
    PROVE  FiledThere' /\ ~There(r)'
<1>1. /\ Len(log') > Len(log) /\ log'[Len(log')] = [row |-> r, data |-> Missing, by |-> m]
      /\ \A i \in DOMAIN log' \ DOMAIN log : i # Len(log') => log'[i].data.is # 0
      /\ \A i \in DOMAIN log' \ DOMAIN log : ~log'[i].data.filed
      /\ \A q \in FiledUnder(r) : There(q) /\ Hosted(q).filed
           => \E i \in DOMAIN log' \ DOMAIN log : log'[i].row = q
  BY RemovalFacts
<1>2. /\ DOMAIN log = 1 .. Len(log) /\ Len(log) \in Nat
      /\ DOMAIN log' = 1 .. Len(log') /\ Len(log') \in Nat
  BY DEF Later
<1> DEFINE n == Len(log')
<1>3. n \in DOMAIN log' \ DOMAIN log /\ log'[n].row = r /\ log'[n].data = Missing
  BY <1>1, <1>2
<1>4. ~There(r)'
  <2>1. Stamp(r)' \in DOMAIN log' \ DOMAIN log /\ Hosted(r)' = log'[Stamp(r)'].data
    BY <1>3, StampGrows
  <2>2. Stamp(r)' = n
    <3>1. Stamp(r)' = Newest(log', r)
      BY DEF Stamp, Newest
    <3>2. n <= Newest(log', r) /\ Newest(log', r) \in Nat
      BY <1>3, NewestFacts DEF Later
    <3> QED
      BY <1>2, <2>1, <3>1, <3>2
  <2>3. Hosted(r)' = Missing
    BY <1>3, <2>1, <2>2
  <2> QED
    BY <2>3 DEF There, Missing
<1>5. ASSUME NEW q, q # r, There(q) PROVE There(q)'
  <2>1. CASE There(q)' <=> There(q)
    BY <1>5, <2>1
  <2>2. CASE /\ Stamp(q)' \in DOMAIN log' \ DOMAIN log /\ Hosted(q)' = log'[Stamp(q)'].data
             /\ log'[Stamp(q)'].row = q
    <3>1. Stamp(q)' # n
      BY <1>3, <1>5, <2>2
    <3>2. log'[Stamp(q)'].data.is # 0
      BY <1>1, <2>2, <3>1
    <3> QED
      BY <2>2, <3>2 DEF There
  <2> QED
    BY <2>1, <2>2, StampGrows
<1>6. FiledThere'
  <2> SUFFICES ASSUME NEW q \in Row, Hosted(q)'.filed
               PROVE  There(q)' /\ There(Category[q])'
    BY DEF FiledThere
  <2>1. Hosted(q)' = Hosted(q) /\ (There(q)' <=> There(q))
        /\ \A i \in DOMAIN log' \ DOMAIN log : log'[i].row # q
    <3>1. ~ /\ Stamp(q)' \in DOMAIN log' \ DOMAIN log
            /\ Hosted(q)' = log'[Stamp(q)'].data
      BY <1>1
    <3> QED
      BY <3>1, StampGrows
  <2>2. Hosted(q).filed /\ There(q) /\ There(Category[q])
    BY <2>1 DEF FiledThere
  <2>3. Category[q] # r
    BY <1>1, <2>1, <2>2 DEF FiledUnder
  <2> QED
    BY <1>5, <2>1, <2>2, <2>3
<1> QED
  BY <1>4, <1>6

LEMMA InitCopies == Init => Copies
<1> SUFFICES ASSUME Init PROVE Copies
  OBVIOUS
<1> DEFINE first == SetToSeq(Original)
<1>1. first \in Seq(Original)
  BY MasterAssumption, FS_Subset, Listed
<1>2. /\ log = [i \in DOMAIN first |->
                  [row |-> first[i], data |-> [is |-> i, filed |-> FALSE], by |-> 0]]
      /\ DOMAIN first = 1 .. Len(first) /\ Len(first) \in Nat
  BY <1>1 DEF Init
<1> HIDE DEF first
<1>3. log \in Seq(Version) /\ Len(log) \in Nat /\ \A i \in DOMAIN log : ~log[i].data.filed
  BY <1>2, InitInv DEF Inv, TypeOK
<1>4. InStep /\ Ahead /\ Echoes
  BY <1>3, MasterAssumption DEF Init, InStep, Ahead, Echoes
<1>5. Paged /\ Own
  BY DEF Init, Paged, Own, Idle
<1>6. FiledThere
  <2> SUFFICES ASSUME NEW r \in Row PROVE ~Hosted(r).filed
    BY DEF FiledThere
  <2>1. Stamp(r) \in {0} \cup DOMAIN log
    BY <1>3, StampFacts
  <2> QED
    BY <1>3, <2>1 DEF Hosted, Missing
<1> QED
  BY <1>4, <1>5, <1>6 DEF Copies

LEMMA WebCopies ==
    ASSUME Inv, Copies, NEW w \in Edit, w.state # "pending", edits' = Append(edits, w),
           Later(log, log'), FiledThere', UNCHANGED <<decided, local, run, late, faults>>
    PROVE  Copies'
<1> DEFINE n == Len(edits) + 1
<1>1. /\ edits \in Seq(Edit) /\ DOMAIN edits' = DOMAIN edits \cup {n} /\ edits'[n] = w
      /\ n \notin DOMAIN edits
      /\ \A e \in DOMAIN edits : edits'[e] = edits[e]
  <2>1. edits \in Seq(Edit)
    BY DEF Inv, TypeOK
  <2> QED
    BY <2>1, AppendFacts
<1> HIDE DEF n
<1>2. \A d \in Device, r \in Row : Pending(d, r)' = Pending(d, r)
  <2> TAKE d \in Device, r \in Row
  <2> DEFINE P(e) == edits'[e].by = d /\ edits'[e].state = "pending" /\ edits'[e].row = r
  <2>1. Pending(d, r)' = {e \in DOMAIN edits' : P(e)}
    BY DEF Pending, IsPending
  <2>2. Pending(d, r) = {e \in DOMAIN edits : P(e)}
    BY <1>1 DEF Pending, IsPending
  <2>3. ~P(n)
    BY <1>1
  <2> QED
    BY <1>1, <2>1, <2>2, <2>3
<1>3. \A e \in DOMAIN decided' : e \in DOMAIN edits /\ edits'[e] = edits[e]
  BY <1>1 DEF Inv, Arrivals
<1>4. \A d \in Device, r \in Row, e \in DOMAIN decided' :
          /\ IsPending(d, e)' /\ edits'[e].row = r /\ decided'[e] = "applied" /\ There(r)'
          => /\ e \in DOMAIN decided /\ IsPending(d, e) /\ edits[e].row = r
             /\ decided[e] = "applied"
  BY <1>3 DEF IsPending
<1>5. UNCHANGED local /\ \A d \in Device : run'[d].page = run[d].page /\ run'[d].todo = run[d].todo
  OBVIOUS
<1>6. \A e \in DOMAIN edits : edits'[e].by = edits[e].by
  BY <1>1
<1> QED
  BY <1>2, <1>4, <1>5, <1>6, ServerGrows

LEMMA WebCreateCopies ==
    ASSUME Inv, Copies, NEW r \in Row, WebCreate(r)
    PROVE  Copies'
<1> DEFINE c == [is |-> Len(edits) + 1, filed |-> Category[r] # None /\ There(Category[r])]
<1>1. /\ edits \in Seq(Edit) /\ log \in Seq(Version) /\ FiledThere
      /\ edits' = Append(edits, WebEdit(r)) /\ log' = Change(r, c, 0)
      /\ UNCHANGED <<decided, local, run, late, faults>>
  BY DEF Inv, TypeOK, WebCreate, Copies
<1>2. WebEdit(r) \in Edit /\ WebEdit(r).state # "pending"
  BY DEF WebEdit, Edit
<1>3. c \in Content /\ c.is # 0 /\ (c.filed => There(Category[r]))
  <2>1. Len(edits) + 1 \in Nat /\ Len(edits) + 1 # 0
    BY <1>1
  <2>2. (Category[r] # None /\ There(Category[r])) \in BOOLEAN
    OBVIOUS
  <2> QED
    BY <2>1, <2>2 DEF Content
<1>4. [row |-> r, data |-> c, by |-> 0] \in Version
  BY <1>3 DEF Version
<1> HIDE DEF c
<1>5. Later(log, log')
  BY <1>1, <1>4, AppendFacts DEF Later, Change
<1>6. FiledThere'
  BY <1>1, <1>3, <1>5, FiledChange
<1> QED
  BY <1>1, <1>2, <1>5, <1>6, WebCopies

LEMMA WebUpdateCopies ==
    ASSUME Inv, Copies, NEW r \in Row, WebUpdate(r)
    PROVE  Copies'
<1> DEFINE c == [Hosted(r) EXCEPT !.is = Len(edits) + 1]
<1>1. /\ edits \in Seq(Edit) /\ log \in Seq(Version) /\ FiledThere /\ There(r)
      /\ edits' = Append(edits, WebEdit(r)) /\ log' = Change(r, c, 0)
      /\ UNCHANGED <<decided, local, run, late, faults>>
  BY DEF Inv, TypeOK, WebUpdate, Copies
<1>2. WebEdit(r) \in Edit /\ WebEdit(r).state # "pending"
  BY DEF WebEdit, Edit
<1>3. Hosted(r) \in Content
  <2>1. Stamp(r) \in DOMAIN log => log[Stamp(r)] \in Version
    BY <1>1
  <2> QED
    BY <1>1, <2>1, StampFacts DEF Hosted, Version, Missing, Content
<1>4. c \in Content /\ c.is # 0 /\ (c.filed => There(Category[r]))
  BY <1>1, <1>3 DEF Content, FiledThere
<1>5. [row |-> r, data |-> c, by |-> 0] \in Version
  BY <1>4 DEF Version
<1> HIDE DEF c
<1>6. Later(log, log')
  BY <1>1, <1>5, AppendFacts DEF Later, Change
<1>7. FiledThere'
  BY <1>1, <1>4, <1>6, FiledChange
<1> QED
  BY <1>1, <1>2, <1>6, <1>7, WebCopies

LEMMA WebDeleteCopies ==
    ASSUME Inv, Copies, NEW r \in Row, WebDelete(r)
    PROVE  Copies'
<1> DEFINE w == [WebEdit(r) EXCEPT !.op = "delete"]
<1>1. /\ log \in Seq(Version) /\ FiledThere
      /\ edits' = Append(edits, w) /\ log' = Removal(r, 0)
      /\ UNCHANGED <<decided, local, run, late, faults>>
  BY DEF Inv, TypeOK, WebDelete, Copies
<1>2. w \in Edit /\ w.state # "pending"
  BY DEF WebEdit, Edit
<1> HIDE DEF w
<1>3. Later(log, log')
  BY <1>1, RemovalFacts
<1>4. FiledThere'
  BY <1>1, <1>3, FiledRemoval
<1> QED
  BY <1>1, <1>2, <1>3, <1>4, WebCopies

\* A push, awaited or late.
LEMMA PushCopies ==
    ASSUME Inv, Copies, NEW p, Sound(edits, log, p), UNCHANGED <<edits, local>>,
           \/ Apply(p) \/ Conflict(p) \/ Unavailable(p) \/ Fail(p)
           \/ \E o \in Outcome : Replay(p, o),
           \A d \in Device : run'[d].page = run[d].page /\ run'[d].todo = run[d].todo
    PROVE  Copies'
<1> DEFINE e == edits[p.m]
           r == e.row
<1>0. /\ edits \in Seq(Edit) /\ log \in Seq(Version) /\ edits' = edits /\ FiledThere
      /\ p.m \in DOMAIN edits /\ p.m \in Nat /\ p.data \in Content
      /\ e \in Edit /\ r \in Row
  <2>1. edits \in Seq(Edit) /\ log \in Seq(Version) /\ FiledThere
    BY DEF Inv, TypeOK, Copies
  <2>2. p \in Push /\ p.m \in DOMAIN edits
    BY DEF Sound
  <2>3. e \in Edit
    BY <2>1, <2>2
  <2> QED
    BY <2>1, <2>2, <2>3 DEF Edit, Push
<1>1. Later(log, log')
  BY HostedStep
<1>2. ASSUME Apply(p)
      PROVE  /\ FiledThere'
             /\ DOMAIN decided' = DOMAIN decided \cup {p.m}
             /\ \A m \in DOMAIN decided : decided'[m] = decided[m]
             /\ There(r)' => Stamp(r)' > Len(log)
  <2>0. /\ log' = Effect(p) /\ ~Broken(p) /\ ~Dependent(p)
        /\ DOMAIN decided' = DOMAIN decided \cup {p.m}
        /\ \A m \in DOMAIN decided : decided'[m] = decided[m]
    BY <1>2 DEF Apply, Decide
  <2>1. ASSUME NEW q \in Row, e.row = q
        PROVE  FiledThere' /\ (There(q)' => Stamp(q)' > Len(log))
    <3>1. CASE Stamp(q) # 0 /\ ~There(q)
      <4>1. log' = log
        BY <2>0, <2>1, <3>1 DEF Effect
      <4>2. There(q)' <=> There(q)
        BY <4>1 DEF There, Hosted, Stamp
      <4>3. \A x : Hosted(x)' = Hosted(x) /\ (There(x)' <=> There(x))
        BY <4>1 DEF There, Hosted, Stamp
      <4>4. FiledThere'
        BY <1>0, <4>3 DEF FiledThere
      <4> QED
        BY <3>1, <4>2, <4>4
    <3>2. CASE ~(Stamp(q) # 0 /\ ~There(q)) /\ e.op = "delete"
      <4>1. log' = Removal(q, p.m)
        BY <2>0, <2>1, <3>2 DEF Effect
      <4> QED
        BY <1>0, <1>1, <4>1, FiledRemoval
    <3>3. CASE ~(Stamp(q) # 0 /\ ~There(q)) /\ e.op # "delete"
      <4>1. log' = Change(q, p.data, p.m)
        BY <2>0, <2>1, <3>3 DEF Effect
      <4>2. p.data.is # 0 /\ (p.data.filed => There(Category[q]))
        BY <2>0, <2>1, <3>3 DEF Broken, Dependent
      <4> QED
        BY <1>0, <1>1, <4>1, <4>2, FiledChange
    <3> QED
      BY <3>1, <3>2, <3>3
  <2>2. \A q \in Row : q = r => (There(q)' => Stamp(q)' > Len(log))
    BY <2>1
  <2>3. FiledThere'
    BY <1>0, <2>1
  <2> QED
    BY <1>0, <2>0, <2>2, <2>3
<1>3. ASSUME ~Apply(p)
      PROVE  /\ FiledThere'
             /\ \A m \in DOMAIN decided' : decided'[m] = "applied"
                  => m \in DOMAIN decided /\ decided[m] = "applied"
  <2>1. log' = log
    BY <1>3 DEF Conflict, Unavailable, Fail, Replay, server
  <2>2. FiledThere'
    <3>1. \A x : Hosted(x)' = Hosted(x) /\ (There(x)' <=> There(x))
      BY <2>1 DEF There, Hosted, Stamp
    <3> QED
      BY <1>0, <3>1 DEF FiledThere
  <2>3. CASE Conflict(p)
    BY <2>2, <2>3 DEF Conflict, Decide
  <2>4. CASE Unavailable(p) \/ Fail(p) \/ \E o \in Outcome : Replay(p, o)
    BY <2>2, <2>4 DEF Unavailable, Fail, Replay, server
  <2> QED
    BY <1>3, <2>3, <2>4
<1>4. \A d \in Device, q \in Row : Pending(d, q)' = Pending(d, q)
  BY <1>0 DEF Pending, IsPending
<1>5. ASSUME NEW d \in Device, NEW q \in Row, NEW m \in DOMAIN decided',
             IsPending(d, m)', edits'[m].row = q, decided'[m] = "applied", There(q)'
      PROVE  \/ /\ m \in DOMAIN decided /\ IsPending(d, m) /\ edits[m].row = q
                /\ decided[m] = "applied"
             \/ Stamp(q)' > Len(log)
  <2>1. IsPending(d, m) /\ edits[m].row = q
    BY <1>0, <1>5 DEF IsPending
  <2>2. CASE m \in DOMAIN decided /\ decided[m] = "applied"
    BY <2>1, <2>2
  <2>3. CASE ~(m \in DOMAIN decided /\ decided[m] = "applied")
    <3>1. Apply(p) /\ m = p.m
      BY <1>2, <1>3, <1>5, <2>3
    <3>2. q = r
      BY <2>1, <3>1
    <3>3. \A x \in Row : x = r => (There(x)' => Stamp(x)' > Len(log))
      BY <1>2, <3>1
    <3> QED
      BY <1>5, <3>2, <3>3
  <2> QED
    BY <2>2, <2>3
<1>6. UNCHANGED local /\ FiledThere' /\ \A m \in DOMAIN edits : edits'[m].by = edits[m].by
  BY <1>0, <1>2, <1>3
<1> QED
  BY <1>1, <1>4, <1>5, <1>6, ServerGrows

\* Local edits, each with a mutation in the queue.
LEMMA LocalCopies ==
    ASSUME Inv, Copies, DOMAIN edits \subseteq DOMAIN edits',
           \A e \in DOMAIN edits : edits'[e] = edits[e],
           \A d \in Device, r \in Row : Pending(d, r)' = {}
               => copy'[d][r] = copy[d][r] /\ status'[d][r] = status[d][r],
           UNCHANGED <<server, base, cursor, run, late, faults>>
    PROVE  Copies'
<1>1. log' = log /\ decided' = decided /\ cursor' = cursor /\ run' = run
  BY DEF server
<1>2. \A r : Stamp(r)' = Stamp(r) /\ Hosted(r)' = Hosted(r) /\ (There(r)' <=> There(r))
  BY <1>1 DEF There, Hosted, Stamp
<1>3. ASSUME NEW d \in Device, NEW r \in Row, Pending(d, r)' = {}
      PROVE  Pending(d, r) = {}
  BY <1>3 DEF Pending, IsPending
<1>4. InStep'
  <2> SUFFICES ASSUME NEW d \in Device, NEW r \in Row, status'[d][r] = "synced",
                      Pending(d, r)' = {}, Stamp(r) <= cursor[d], There(r), copy'[d][r].is # 0
               PROVE  copy'[d][r] = Hosted(r)
    BY <1>1, <1>2 DEF InStep
  <2> QED
    BY <1>3 DEF Copies, InStep
<1>5. Ahead' /\ Paged'
  BY <1>1, <1>2 DEF Copies, Ahead, Paged
<1>6. Echoes'
  <2>1. \A e \in DOMAIN decided : e \in DOMAIN edits /\ edits'[e] = edits[e]
    BY DEF Inv, Arrivals
  <2>2. \A d \in Device, e \in DOMAIN decided : IsPending(d, e)' <=> IsPending(d, e)
    BY <2>1 DEF IsPending
  <2> QED
    BY <1>1, <1>2, <2>1, <2>2 DEF Copies, Echoes
<1>7. FiledThere'
  BY <1>2 DEF Copies, FiledThere
<1>8. Own'
  BY <1>1 DEF Copies, Own, Inv, Requests, Sound
<1> QED
  BY <1>4, <1>5, <1>6, <1>7, <1>8 DEF Copies

LEMMA LocalEditCopies ==
    ASSUME Inv, Copies, NEW d \in Device, NEW r \in Row, LocalCreate(d, r) \/ LocalUpdate(d, r)
    PROVE  Copies'
<1> DEFINE n == Len(edits) + 1
           w == LocalEdit(d, r, "upsert")
<1>0. /\ edits \in Seq(Edit) /\ base \in [Device -> [Row -> Nat]]
      /\ copy \in [Device -> [Row -> Content]]
      /\ status \in [Device -> [Row -> {"unknown", "pending", "synced", "conflict"}]]
  BY DEF Inv, TypeOK
<1>1. w \in Edit /\ w.by = d /\ w.row = r /\ w.state = "pending"
  BY <1>0 DEF LocalEdit, Edit
<1>2. edits' = Append(edits, w) /\ UNCHANGED <<server, base, cursor, run, late, faults>>
  BY DEF LocalCreate, LocalUpdate
<1> HIDE DEF w
<1>3. /\ DOMAIN edits' = DOMAIN edits \cup {n} /\ edits'[n] = w
      /\ \A e \in DOMAIN edits : edits'[e] = edits[e]
  BY <1>0, <1>1, <1>2, AppendFacts
<1>4. ASSUME NEW x \in Device, NEW q \in Row, Pending(x, q)' = {}
      PROVE  copy'[x][q] = copy[x][q] /\ status'[x][q] = status[x][q]
  <2>1. ~(x = d /\ q = r)
    BY <1>1, <1>3, <1>4 DEF Pending, IsPending
  <2>2. CASE LocalCreate(d, r)
    BY <1>0, <2>1, <2>2 DEF LocalCreate
  <2>3. CASE LocalUpdate(d, r)
    BY <1>0, <2>1, <2>3 DEF LocalUpdate
  <2> QED
    BY <2>2, <2>3
<1> QED
  BY <1>2, <1>3, <1>4, LocalCopies

LEMMA LocalDeleteCopies ==
    ASSUME Inv, Copies, NEW d \in Device, NEW r \in Row, LocalDelete(d, r)
    PROVE  Copies'
<1> DEFINE S == {q \in FiledUnder(r) : copy[d][q].is # 0 /\ copy[d][q].filed}
           filed == SetToSeq(S)
           edit(q) == Len(edits) + (CHOOSE i \in DOMAIN filed : filed[i] = q)
           t == [i \in DOMAIN filed |-> LocalEdit(d, filed[i], "upsert")]
           last == LocalEdit(d, r, "delete")
<1>0. /\ edits \in Seq(Edit) /\ base \in [Device -> [Row -> Nat]]
      /\ copy \in [Device -> [Row -> Content]]
      /\ status \in [Device -> [Row -> {"unknown", "pending", "synced", "conflict"}]]
  BY DEF Inv, TypeOK
<1>1. S \subseteq Row /\ IsFiniteSet(S)
  BY MasterAssumption, FS_Subset DEF FiledUnder
<1>2. filed \in Seq(S)
  BY <1>1, Listed
<1>3. /\ edits' = edits \o t \o <<last>>
      /\ copy' = [copy EXCEPT ![d] = [q \in Row |->
                      IF q = r THEN Missing
                      ELSE IF q \in Range(filed) THEN [is |-> edit(q), filed |-> FALSE]
                      ELSE @[q]]]
      /\ status' = [status EXCEPT ![d][r] = "pending"]
      /\ UNCHANGED <<server, base, cursor, run, late, faults>>
  BY DEF LocalDelete
<1> HIDE DEF filed, edit
<1>4. /\ t \in Seq(Edit) /\ DOMAIN t = DOMAIN filed
      /\ \A i \in DOMAIN filed : /\ t[i].by = d /\ t[i].row = filed[i] /\ t[i].state = "pending"
  <2>1. \A i \in DOMAIN filed : filed[i] \in S /\ LocalEdit(d, filed[i], "upsert") \in Edit
    BY <1>0, <1>1, <1>2 DEF LocalEdit, Edit
  <2> QED
    BY <1>2, <2>1 DEF LocalEdit
<1>5. last \in Edit /\ last.by = d /\ last.row = r /\ last.state = "pending"
  BY <1>0 DEF LocalEdit, Edit
<1> HIDE DEF S, t, last
<1> DEFINE es == edits \o t
<1>6. /\ es \in Seq(Edit) /\ Len(edits) \in Nat /\ Len(t) \in Nat
      /\ DOMAIN edits = 1 .. Len(edits) /\ DOMAIN t = 1 .. Len(t)
      /\ DOMAIN es = 1 .. (Len(edits) + Len(t))
      /\ \A i \in DOMAIN edits : es[i] = edits[i]
      /\ \A i \in DOMAIN es \ DOMAIN edits : i - Len(edits) \in DOMAIN t /\ es[i] = t[i - Len(edits)]
  BY <1>0, <1>4, ConcatFacts
<1> HIDE DEF es
<1>7. /\ DOMAIN edits' = DOMAIN es \cup {Len(es) + 1}
      /\ \A i \in DOMAIN es : edits'[i] = es[i]
      /\ edits'[Len(es) + 1] = last
  <2>1. edits' = Append(es, last)
    BY <1>3, <1>5, <1>6 DEF es
  <2> QED
    BY <1>5, <1>6, <2>1, AppendFacts
<1>8. DOMAIN edits \subseteq DOMAIN edits' /\ \A e \in DOMAIN edits : edits'[e] = edits[e]
  BY <1>6, <1>7
<1>9. Pending(d, r)' # {}
  BY <1>5, <1>7 DEF Pending, IsPending
<1>10. ASSUME NEW i \in DOMAIN filed, NEW q \in Row, filed[i] = q
       PROVE  Pending(d, q)' # {}
  <2> DEFINE e == Len(edits) + i
  <2>1. e \in DOMAIN es /\ e \notin DOMAIN edits /\ e - Len(edits) = i
    <3>1. i \in 1 .. Len(t)
      BY <1>4, <1>6
    <3> QED
      BY <1>6, <3>1
  <2> HIDE DEF e
  <2>2. es[e] = t[i]
    BY <1>6, <2>1
  <2>3. e \in DOMAIN edits' /\ edits'[e] = t[i]
    BY <1>7, <2>1, <2>2
  <2>4. edits'[e].by = d /\ edits'[e].row = q /\ edits'[e].state = "pending"
    BY <1>4, <1>10, <2>3
  <2> QED
    BY <2>3, <2>4 DEF Pending, IsPending
<1>11. ASSUME NEW x \in Device, NEW q \in Row, Pending(x, q)' = {}
       PROVE  copy'[x][q] = copy[x][q] /\ status'[x][q] = status[x][q]
  <2>1. x = d => q # r
    BY <1>9, <1>11
  <2>2. x = d => q \notin Range(filed)
    <3> SUFFICES ASSUME x = d, NEW i \in DOMAIN filed, filed[i] = q
                 PROVE  FALSE
      BY DEF Range
    <3> QED
      BY <1>10, <1>11
  <2>3. status'[x][q] = status[x][q]
    BY <1>0, <1>3, <2>1
  <2>4. copy'[x][q] = copy[x][q]
    BY <1>0, <1>3, <2>1, <2>2
  <2> QED
    BY <2>3, <2>4
<1> QED
  BY <1>3, <1>8, <1>11, LocalCopies

\* Steps of a reconciler that write nothing.
LEMMA RunCopies ==
    ASSUME Inv, Copies, UNCHANGED <<edits, server, local>>, Paged', Own'
    PROVE  Copies'
<1>1. \A r : Stamp(r)' = Stamp(r) /\ Hosted(r)' = Hosted(r) /\ (There(r)' <=> There(r))
  BY DEF There, Hosted, Stamp, server
<1>2. \A d, r : Pending(d, r)' = Pending(d, r)
  BY DEF Pending, IsPending
<1>3. InStep'
  BY <1>1, <1>2 DEF Copies, InStep, local
<1>4. Ahead'
  BY DEF Copies, Ahead, local, server
<1>5. Echoes'
  BY <1>1 DEF Copies, Echoes, IsPending, local, server
<1>6. FiledThere'
  BY <1>1 DEF Copies, FiledThere
<1> QED
  BY <1>3, <1>4, <1>5, <1>6 DEF Copies

LEMMA EmptyPage ==
    ASSUME Inv, Copies, NEW d \in Device, NEW x, x.page = {}, run' = [run EXCEPT ![d] = x],
           \A p \in x.todo : edits[p.m].by = d,
           UNCHANGED <<edits, server, local>>
    PROVE  Copies'
<1>1. /\ \A y \in Device : run'[y].page = run[y].page \/ run'[y].page = {}
      /\ log' = log /\ cursor' = cursor
  BY DEF Inv, TypeOK, server, local
<1>2. \A r : Stamp(r)' = Stamp(r)
  BY <1>1 DEF Stamp
<1>3. Paged'
  BY <1>1, <1>2 DEF Copies, Paged
<1>4. Own'
  <2>1. \A y \in Device : run'[y] = IF y = d THEN x ELSE run[y]
    BY DEF Inv, TypeOK
  <2> QED
    BY <2>1 DEF Copies, Own
<1> QED
  BY <1>3, <1>4, RunCopies

LEMMA PullCopies ==
    ASSUME Inv, Copies, NEW d \in Device, Pull(d)
    PROVE  Copies'
<1> DEFINE c == cursor[d]
           P == NextPage(c)
           B(k) == {j \in Changed(c) : j < k}
<1>0. /\ log \in Seq(Version) /\ DOMAIN log = 1 .. Len(log) /\ Len(log) \in Nat
      /\ c \in Nat /\ PageSize \in Nat
      /\ UNCHANGED <<edits, server, local>> /\ log' = log /\ cursor' = cursor
  BY MasterAssumption DEF Inv, TypeOK, Pull, server, local
<1>1. run'[d].page = P /\ run'[d].todo = run[d].todo /\ \A x \in Device : x # d => run'[x] = run[x]
  <2>1. run \in [Device -> Reconciler] /\ run[d] \in Reconciler
    BY DEF Inv, TypeOK
  <2>2. run' = [run EXCEPT ![d].step = "apply", ![d].page = P]
    BY DEF Pull
  <2> HIDE DEF P
  <2> QED
    BY <2>1, <2>2 DEF Reconciler
<1>2. Changed(c) \subseteq 1 .. Len(log) /\ \A i \in Changed(c) : c < i /\ i = Stamp(log[i].row)
  BY <1>0 DEF Changed
<1>3. P = {i \in Changed(c) : Cardinality(B(i)) < PageSize}
  BY DEF NextPage
<1> HIDE DEF P
<1>4. \A i, j \in P : log[i].row = log[j].row => i = j
  BY <1>2, <1>3
<1>5. ASSUME NEW r \in Row, c < Stamp(r), Stamp(r) \notin P, NEW i \in P
      PROVE  i < Stamp(r)
  <2> DEFINE s == Stamp(r)
  <2>1. s \in DOMAIN log /\ log[s].row = r /\ s \in Nat
    BY <1>0, <1>5, StampFacts
  <2>2. s \in Changed(c)
    BY <1>5, <2>1 DEF Changed
  <2> HIDE DEF s
  <2>3. \A k : IsFiniteSet(B(k)) /\ Cardinality(B(k)) \in Nat
    <3>1. IsFiniteSet(1 .. Len(log))
      BY <1>0, FS_Interval
    <3>2. \A k : B(k) \subseteq 1 .. Len(log)
      BY <1>2
    <3> QED
      BY <3>1, <3>2, FS_Subset, FS_CardinalityType
  <2>4. ~(Cardinality(B(s)) < PageSize)
    BY <1>3, <1>5, <2>2 DEF s
  <2>5. Cardinality(B(i)) < PageSize /\ i \in Nat
    BY <1>0, <1>2, <1>3
  <2>6. ASSUME s <= i PROVE FALSE
    <3> DEFINE S == B(s)
               T == B(i)
    <3>1. S \subseteq T
      BY <1>0, <1>2, <2>1, <2>5, <2>6
    <3>2. IsFiniteSet(T) /\ Cardinality(S) \in Nat /\ Cardinality(T) \in Nat
      BY <2>3
    <3>3. ~(Cardinality(S) < PageSize) /\ Cardinality(T) < PageSize
      BY <2>4, <2>5
    <3> HIDE DEF S, T
    <3>4. Cardinality(S) <= Cardinality(T)
      BY <3>1, <3>2, FS_Subset
    <3> QED
      BY <1>0, <3>2, <3>3, <3>4
  <2> QED
    BY <2>1, <2>5, <2>6 DEF s
<1>6. \A i \in P : c < i
  BY <1>2, <1>3
<1>7. Paged'
  <2> SUFFICES ASSUME NEW x \in Device
               PROVE  /\ \A i \in run'[x].page : cursor[x] < i
                      /\ \A i, j \in run'[x].page : log[i].row = log[j].row => i = j
                      /\ \A r \in Row : cursor[x] < Stamp(r)
                           => Stamp(r) \in run'[x].page \/ \A i \in run'[x].page : i < Stamp(r)
    BY <1>0 DEF Paged, Stamp
  <2>1. CASE x = d
    BY <1>1, <1>4, <1>5, <1>6, <2>1
  <2>2. CASE x # d
    BY <1>1, <2>2 DEF Copies, Paged
  <2> QED
    BY <2>1, <2>2
<1>8. Own'
  BY <1>0, <1>1 DEF Copies, Own
<1> QED
  BY <1>0, <1>7, <1>8, RunCopies

\* A mutation is acknowledged or a conflict is recorded.
LEMMA SettledCopies ==
    ASSUME Inv, Copies, NEW d \in Device, Ack(d) \/ RecordConflict(d)
    PROVE  Copies'
<1>1. PICK p \in run[d].todo :
        /\ First(d, p) /\ run' = Popped(d, p)
        /\ \/ /\ run[d].step = "ack" /\ edits' = [edits EXCEPT ![p.m].state = "synced"]
              /\ status' = status
           \/ /\ edits' = [edits EXCEPT ![p.m].state = "conflict"]
              /\ status' = [status EXCEPT ![d][edits[p.m].row] = "conflict"]
  BY DEF Ack, RecordConflict, local
<1>2. /\ log' = log /\ decided' = decided /\ copy' = copy /\ cursor' = cursor
  BY DEF Ack, RecordConflict, local, server
<1>3. /\ edits \in Seq(Edit) /\ p.m \in DOMAIN edits /\ edits[p.m] \in Edit
      /\ status \in [Device -> [Row -> {"unknown", "pending", "synced", "conflict"}]]
      /\ run \in [Device -> Reconciler] /\ run[d] \in Reconciler
  BY DEF Inv, TypeOK, Requests, Sound
<1>4. /\ DOMAIN edits' = DOMAIN edits /\ edits'[p.m].state # "pending"
      /\ \A e \in DOMAIN edits : /\ e # p.m => edits'[e] = edits[e]
                                 /\ edits'[e].by = edits[e].by /\ edits'[e].row = edits[e].row
  <2>1. PICK s \in {"synced", "conflict"} : edits' = [edits EXCEPT ![p.m].state = s]
    BY <1>1
  <2>2. edits' = [edits EXCEPT ![p.m] = [edits[p.m] EXCEPT !.state = s]]
    BY <2>1
  <2> QED
    BY <1>3, <2>2 DEF Edit
<1>5. \A x \in Device : run'[x].page = run[x].page /\ run'[x].todo \subseteq run[x].todo
  BY <1>1, <1>3 DEF Popped, Reconciler
<1>6. \A r : Stamp(r)' = Stamp(r) /\ Hosted(r)' = Hosted(r) /\ (There(r)' <=> There(r))
  BY <1>2 DEF There, Hosted, Stamp
<1>7. ASSUME NEW x \in Device, NEW e \in DOMAIN edits, IsPending(x, e)'
      PROVE  IsPending(x, e) /\ edits'[e].row = edits[e].row
  BY <1>4, <1>7 DEF IsPending
<1>8. InStep'
  <2> SUFFICES ASSUME NEW x \in Device, NEW r \in Row, status'[x][r] = "synced",
                      Pending(x, r)' = {}, Stamp(r) <= cursor[x], There(r), copy[x][r].is # 0
               PROVE  copy[x][r] = Hosted(r)
    BY <1>2, <1>6 DEF InStep
  <2>1. status[x][r] = "synced" /\ (x = d /\ r = edits[p.m].row => run[d].step = "ack")
    BY <1>1, <1>3
  <2>2. \A e \in DOMAIN edits : IsPending(x, e) /\ edits[e].row = r => e = p.m
    BY <1>4 DEF Pending, IsPending
  <2>3. CASE Pending(x, r) = {}
    BY <2>1, <2>3 DEF Copies, InStep
  <2>4. CASE Pending(x, r) # {}
    <3>1. IsPending(x, p.m) /\ edits[p.m].row = r
      BY <2>2, <2>4 DEF Pending
    <3>2. x = d
      BY <3>1 DEF Copies, Own, IsPending
    <3>3. p.m \in DOMAIN decided /\ decided[p.m] = "applied"
      BY <1>1, <2>1, <3>1, <3>2 DEF Inv, Verdicts
    <3>4. cursor[x] < Stamp(r)
      BY <3>1, <3>3 DEF Copies, Echoes
    <3>5. cursor[x] \in Nat /\ Stamp(r) \in Nat
      BY StampFacts DEF Inv, TypeOK
    <3> QED
      BY <3>4, <3>5
  <2> QED
    BY <2>3, <2>4
<1>9. Ahead' /\ Paged'
  BY <1>2, <1>5, <1>6 DEF Copies, Ahead, Paged
<1>10. Echoes'
  <2>1. \A e \in DOMAIN decided : e \in DOMAIN edits
    BY DEF Inv, Arrivals
  <2> QED
    BY <1>2, <1>6, <1>7, <2>1 DEF Copies, Echoes
<1>11. FiledThere'
  BY <1>6 DEF Copies, FiledThere
<1>12. Own'
  BY <1>4, <1>5 DEF Copies, Own, Inv, Requests, Sound
<1> QED
  BY <1>8, <1>9, <1>10, <1>11, <1>12 DEF Copies

LEMMA ReconcileCopies ==
    ASSUME Inv, Copies, NEW d \in Device,
           \/ Load(d) \/ PushNext(d) \/ PushFails(d) \/ PageFails(d) \/ GiveUp(d) \/ Restart(d)
    PROVE  Copies'
<1>1. CASE Load(d)
  <2> DEFINE x == [step |-> "push", todo |-> Outbox(d), page |-> {}]
  <2>1. x.page = {} /\ run' = [run EXCEPT ![d] = x] /\ x.todo = Outbox(d)
    BY <1>1 DEF Load
  <2> HIDE DEF x
  <2>2. \A p \in x.todo : edits[p.m].by = d
    BY <2>1 DEF Outbox, Prepared, IsPending
  <2>3. UNCHANGED <<edits, server, local>>
    BY <1>1 DEF Load
  <2> QED
    BY <2>1, <2>2, <2>3, EmptyPage
<1>2. CASE PushNext(d)
  <2>1. PICK p \in run[d].todo :
          /\ \/ /\ Apply(p) \/ Replay(p, "applied")
                /\ run' = [run EXCEPT ![d].step = "ack"]
             \/ /\ Conflict(p) \/ Unavailable(p) \/ Replay(p, "conflict")
                /\ run' = [run EXCEPT ![d].step = "conflict"]
    BY <1>2 DEF PushNext
  <2>2. Sound(edits, log, p) /\ UNCHANGED <<edits, local>>
    BY <1>2 DEF Inv, Requests, PushNext
  <2>3. \/ Apply(p) \/ Conflict(p) \/ Unavailable(p) \/ Fail(p)
        \/ \E o \in Outcome : Replay(p, o)
    BY <2>1 DEF Outcome
  <2>4. \A x \in Device : run'[x].page = run[x].page /\ run'[x].todo = run[x].todo
    <3>1. run \in [Device -> Reconciler] /\ run[d] \in Reconciler
      BY DEF Inv, TypeOK
    <3>2. PICK s \in {"ack", "conflict"} : run' = [run EXCEPT ![d].step = s]
      BY <2>1
    <3> QED
      BY <3>1, <3>2 DEF Reconciler
  <2> QED
    BY <2>2, <2>3, <2>4, PushCopies
<1>3. CASE PushFails(d) \/ PageFails(d) \/ GiveUp(d) \/ Restart(d)
  <2>1. /\ run' = [run EXCEPT ![d] = Idle]
        /\ UNCHANGED <<edits, server, local>>
    BY <1>3 DEF PushFails, PageFails, GiveUp, Restart, Fail, server
  <2> QED
    BY <2>1, IdleFacts, EmptyPage
<1> QED
  BY <1>1, <1>2, <1>3

LEMMA ArriveCopies ==
    ASSUME Inv, Copies, NEW p \in late, Arrive(p)
    PROVE  Copies'
<1>1. Sound(edits, log, p) /\ UNCHANGED <<edits, local>> /\ run' = run
  BY DEF Inv, Requests, Arrive
<1>2. \/ Apply(p) \/ Conflict(p) \/ Unavailable(p) \/ Fail(p)
      \/ \E o \in Outcome : Replay(p, o)
  BY DEF Arrive
<1> QED
  BY <1>1, <1>2, PushCopies

LEMMA ApplyPageCopies ==
    ASSUME Inv, Copies, NEW d \in Device, NEW kept \in SUBSET Row, ApplyPage(d, kept)
    PROVE  Copies'
<1> DEFINE page == run[d].page
           news == Applied(d, page)
           removed == Gone(news) \ kept
           blocked == RowsOf(page) \ RowsOf(news)
           written == Written(d, news)
           at(r) == VersionOf(r, news)
           top == Max({cursor[d]} \cup page)
<1>0. /\ edits \in Seq(Edit) /\ log \in Seq(Version) /\ run \in [Device -> Reconciler]
      /\ copy \in [Device -> [Row -> Content]]
      /\ status \in [Device -> [Row -> {"unknown", "pending", "synced", "conflict"}]]
      /\ cursor \in [Device -> Nat] /\ cursor[d] \in Nat
      /\ DOMAIN log = 1 .. Len(log) /\ Len(log) \in Nat
      /\ page \subseteq DOMAIN log
      /\ InStep /\ Ahead /\ Paged /\ Echoes /\ FiledThere /\ Own
  BY DEF Inv, TypeOK, Pages, Copies
<1>1. /\ copy' = [copy EXCEPT ![d] = [r \in Row |->
             IF r \in written THEN log[at(r)].data
             ELSE IF r \in removed THEN Missing
             ELSE IF Category[r] \in removed THEN [copy[d][r] EXCEPT !.filed = FALSE]
             ELSE copy[d][r]]]
      /\ status' = [status EXCEPT ![d] = [r \in Row |->
             IF r \in blocked THEN "conflict"
             ELSE IF r \in RowsOf(news) /\ (r \notin Gone(news) \/ status[d][r] # "unknown")
                  THEN "synced"
             ELSE status[d][r]]]
      /\ edits' = [e \in DOMAIN edits |->
             IF IsPending(d, e) /\ edits[e].row \in blocked
             THEN [edits[e] EXCEPT !.state = "conflict"] ELSE edits[e]]
      /\ cursor' = [cursor EXCEPT ![d] = top]
      /\ run' = [run EXCEPT ![d] = Idle]
      /\ log' = log /\ decided' = decided
  BY <1>0 DEF ApplyPage, server
<1>2. /\ news \subseteq page
      /\ \A r \in RowsOf(news) : /\ at(r) \in news /\ log[at(r)].row = r
                                 /\ Pending(d, r) = {}
      /\ \A r \in Gone(news) : log[at(r)].data.is = 0
      /\ written \subseteq RowsOf(news) \ Gone(news)
      /\ \A r \in RowsOf(news) \ Gone(news) :
            log[at(r)].data.is # 0 /\ (r \notin written => copy[d][r].is = 0)
      /\ Gone(news) \subseteq RowsOf(news)
  <2>1. news \subseteq page /\ \A i \in news : Pending(d, log[i].row) = {}
    BY DEF Applied
  <2>2. ASSUME NEW r \in RowsOf(news)
        PROVE  /\ at(r) \in news /\ log[at(r)].row = r
               /\ Pending(d, r) = {}
    <3> HIDE DEF news
    <3>1. \E i \in news : log[i].row = r
      BY DEF RowsOf
    <3>2. at(r) \in news /\ log[at(r)].row = r
      BY <3>1 DEF VersionOf
    <3> QED
      BY <2>1, <3>2
  <2> HIDE DEF news
  <2> QED
    BY <2>1, <2>2 DEF Written, Gone
<1>3. /\ top \in Nat /\ cursor[d] <= top /\ \A i \in page : i <= top
      /\ top = cursor[d] \/ top \in page
  <2> DEFINE S == {cursor[d]} \cup page
             n == cursor[d] + Len(log)
  <2>1. n \in Nat /\ S \in SUBSET (0 .. n) /\ S # {}
    BY <1>0
  <2>2. Max(S) \in S /\ \A x \in S : x <= Max(S)
    <3> HIDE DEF S, n
    <3> QED
      BY <2>1, Greatest
  <2>3. top \in S /\ \A x \in S : x <= top
    BY <2>2 DEF top
  <2> HIDE DEF top
  <2> QED
    BY <1>0, <2>3
<1> HIDE DEF news, removed, blocked, written, at, top
<1>4. \A r : Stamp(r)' = Stamp(r) /\ Hosted(r)' = Hosted(r) /\ (There(r)' <=> There(r))
  BY <1>1 DEF There, Hosted, Stamp
\* A row on the page whose newest version the cursor reaches is there as it is now.
<1>5. ASSUME NEW r \in Row, Stamp(r) <= top, NEW i \in page, log[i].row = r
      PROVE  i = Stamp(r)
  <2>1. i \in DOMAIN log /\ i \in Nat /\ cursor[d] < i /\ i <= Stamp(r) /\ Stamp(r) \in Nat
    BY <1>0, <1>5, StampFacts DEF Paged
  <2>2. Stamp(r) # 0 /\ log[Stamp(r)].row = r /\ cursor[d] < Stamp(r)
    BY <1>0, <2>1, StampFacts
  <2>3. Stamp(r) \in page
    <3>1. ASSUME \A j \in page : j < Stamp(r) PROVE FALSE
      BY <1>0, <1>3, <1>5, <2>1, <2>2, <3>1
    <3> QED
      BY <1>0, <2>2, <3>1 DEF Paged
  <2> QED
    BY <1>0, <1>5, <2>2, <2>3 DEF Paged
\* The cursor passes over no change of a row that is not on the page.
<1>6. ASSUME NEW r \in Row, r \notin RowsOf(page), cursor[d] < Stamp(r)
      PROVE  top < Stamp(r)
  <2>1. Stamp(r) \in Nat /\ Stamp(r) # 0 /\ log[Stamp(r)].row = r
    BY <1>0, <1>6, StampFacts
  <2>2. Stamp(r) \notin page
    BY <1>6, <2>1 DEF RowsOf
  <2>3. \A i \in page : i < Stamp(r)
    BY <1>0, <1>6, <2>2 DEF Paged
  <2> QED
    BY <1>3, <1>6, <2>3
<1>7. ASSUME NEW x \in Device, NEW e \in DOMAIN edits
      PROVE  /\ IsPending(x, e)' => /\ IsPending(x, e)
                                    /\ x = d => edits[e].row \notin blocked
             /\ IsPending(x, e) /\ (x # d \/ edits[e].row \notin blocked) => IsPending(x, e)'
             /\ edits'[e].row = edits[e].row /\ edits'[e].by = edits[e].by
  <2>1. edits[e] \in Edit
    BY <1>0
  <2>2. CASE IsPending(d, e) /\ edits[e].row \in blocked
    <3>1. edits'[e] = [edits[e] EXCEPT !.state = "conflict"]
      BY <1>1, <2>2
    <3>2. /\ edits'[e].state = "conflict" /\ edits'[e].row = edits[e].row
          /\ edits'[e].by = edits[e].by
      BY <2>1, <3>1 DEF Edit
    <3> QED
      BY <2>2, <3>2 DEF IsPending
  <2>3. CASE ~(IsPending(d, e) /\ edits[e].row \in blocked)
    <3>1. edits'[e] = edits[e]
      BY <1>1, <2>3
    <3> QED
      BY <2>3, <3>1 DEF IsPending
  <2> QED
    BY <2>2, <2>3
<1>8. DOMAIN edits' = DOMAIN edits
  BY <1>1
<1>9. ASSUME NEW x \in Device, NEW r \in Row, x # d \/ r \notin blocked, Pending(x, r)' = {}
      PROVE  Pending(x, r) = {}
  <2> SUFFICES ASSUME NEW e \in DOMAIN edits, IsPending(x, e), edits[e].row = r
               PROVE  FALSE
    BY DEF Pending
  <2>1. IsPending(x, e)' /\ edits'[e].row = r /\ e \in DOMAIN edits'
    BY <1>7, <1>8, <1>9
  <2> QED
    BY <1>9, <2>1 DEF Pending
<1>10. \A x \in Device : x # d => /\ copy'[x] = copy[x] /\ status'[x] = status[x]
                                  /\ cursor'[x] = cursor[x] /\ run'[x] = run[x]
  BY <1>0, <1>1
<1>11. cursor'[d] = top /\ run'[d] = Idle
  BY <1>0, <1>1
<1>12. InStep'
  <2> SUFFICES ASSUME NEW x \in Device, NEW r \in Row, status'[x][r] = "synced",
                      Pending(x, r)' = {}, Stamp(r) <= cursor'[x], There(r), copy'[x][r].is # 0
               PROVE  copy'[x][r] = Hosted(r)
    BY <1>4 DEF InStep
  <2>1. CASE x # d
    BY <1>0, <1>9, <1>10, <2>1 DEF InStep
  <2>2. CASE x = d
    <3>0. /\ copy'[d][r] = IF r \in written THEN log[at(r)].data
                           ELSE IF r \in removed THEN Missing
                           ELSE IF Category[r] \in removed THEN [copy[d][r] EXCEPT !.filed = FALSE]
                           ELSE copy[d][r]
          /\ status'[d][r] = IF r \in blocked THEN "conflict"
                             ELSE IF r \in RowsOf(news) /\ (r \notin Gone(news) \/ status[d][r] # "unknown")
                             THEN "synced" ELSE status[d][r]
          /\ copy[d][r] \in Content
      BY <1>0, <1>1
    <3>1. r \notin blocked /\ Stamp(r) <= top /\ Pending(d, r) = {}
      BY <1>9, <1>11, <2>2, <3>0
    <3>2. Stamp(r) # 0 /\ Hosted(r) = log[Stamp(r)].data /\ Hosted(r).is # 0
      BY DEF There, Hosted, Missing
    <3>3. r \notin removed
      BY <2>2, <3>0, <1>2 DEF removed, Missing
    <3>4. CASE r \in RowsOf(news)
      <4>1. at(r) = Stamp(r)
        BY <1>2, <1>5, <3>1, <3>4
      <4>2. r \notin Gone(news)
        BY <1>2, <3>2, <4>1
      <4>3. r \in written
        <5>1. [copy[d][r] EXCEPT !.filed = FALSE].is = copy[d][r].is
          BY <3>0 DEF Content
        <5>2. r \notin written => copy'[d][r].is = copy[d][r].is
          BY <3>0, <3>3, <5>1
        <5> QED
          BY <1>2, <2>2, <3>4, <4>2, <5>2
      <4> QED
        BY <2>2, <3>0, <3>2, <4>1, <4>3
    <3>5. CASE r \notin RowsOf(news)
      <4>1. r \notin RowsOf(page) /\ r \notin written
        BY <1>2, <3>1, <3>5 DEF blocked
      <4>2. Stamp(r) <= cursor[d]
        <5>1. Stamp(r) \in Nat /\ cursor[d] \in Nat /\ top \in Nat
          BY <1>0, <1>3, StampFacts
        <5>2. ~(cursor[d] < Stamp(r))
          <6> SUFFICES ASSUME cursor[d] < Stamp(r) PROVE FALSE
            OBVIOUS
          <6>1. top < Stamp(r)
            BY <1>6, <4>1
          <6> QED
            BY <3>1, <5>1, <6>1
        <5> QED
          BY <5>1, <5>2
      <4>3. status[d][r] = "synced"
        BY <2>2, <3>0, <3>1, <3>5
      <4>4. copy[d][r].is # 0
        BY <2>2, <3>0, <3>3, <4>1 DEF Content
      <4>5. copy[d][r] = Hosted(r)
        BY <1>0, <3>1, <4>2, <4>3, <4>4 DEF InStep
      <4>6. ASSUME Category[r] \in removed PROVE copy[d][r].filed = FALSE
        <5> DEFINE c == Category[r]
        <5>1. c \in Gone(news) /\ at(c) \in page /\ log[at(c)].row = c /\ log[at(c)].data.is = 0
          BY <1>2, <4>6 DEF removed
        <5>2. ~There(c)
          <6>1. at(c) \in DOMAIN log
            BY <1>0, <5>1
          <6>2. ~(\A i \in DOMAIN log : log[i].row = c => log[i].data.is # 0)
            BY <5>1, <6>1
          <6>3. Final(log)
            BY DEF Inv, History
          <6> HIDE DEF c
          <6> QED
            BY <1>0, <6>2, <6>3, Alive
        <5>3. ~Hosted(r).filed
          BY <1>0, <5>2 DEF FiledThere
        <5> QED
          BY <3>0, <4>5, <5>3 DEF Content
      <4>7. copy'[d][r] = copy[d][r]
        <5>1. copy[d][r].filed = FALSE => [copy[d][r] EXCEPT !.filed = FALSE] = copy[d][r]
          BY <3>0 DEF Content
        <5> QED
          BY <3>0, <3>3, <4>1, <4>6, <5>1
      <4> QED
        BY <2>2, <4>5, <4>7
    <3> QED
      BY <3>4, <3>5
  <2> QED
    BY <2>1, <2>2
<1>13. Ahead'
  <2>1. top <= Len(log)
    <3>1. cursor[d] <= Len(log) /\ \A i \in page : i <= Len(log)
      BY <1>0 DEF Ahead
    <3> QED
      BY <1>3, <3>1
  <2>2. \A x \in Device : cursor'[x] <= Len(log)
    BY <1>0, <1>10, <1>11, <2>1 DEF Ahead
  <2> QED
    BY <1>1, <2>2 DEF Ahead
<1>14. Paged' /\ Own'
  <2>1. \A x \in Device : run'[x].page = {} \/ (x # d /\ run'[x] = run[x])
    BY <1>10, <1>11, IdleFacts
  <2>2. \A x \in Device : run'[x].todo = {} \/ run'[x] = run[x]
    BY <1>10, <1>11, IdleFacts
  <2>3. Paged'
    BY <1>0, <1>1, <1>4, <1>10, <2>1 DEF Paged
  <2>4. Own'
    BY <1>0, <1>7, <2>2 DEF Own, Inv, Requests, Sound
  <2> QED
    BY <2>3, <2>4
<1>15. Echoes'
  <2> SUFFICES ASSUME NEW x \in Device, NEW r \in Row, NEW e \in DOMAIN decided,
                      IsPending(x, e)', edits'[e].row = r, decided[e] = "applied", There(r)
               PROVE  cursor'[x] < Stamp(r)
    BY <1>1, <1>4 DEF Echoes
  <2>1. e \in DOMAIN edits
    BY DEF Inv, Arrivals
  <2>2. IsPending(x, e) /\ edits[e].row = r /\ (x = d => r \notin blocked)
    BY <1>7, <2>1
  <2>3. cursor[x] < Stamp(r)
    BY <1>0, <2>2 DEF Echoes
  <2>4. CASE x # d
    BY <1>10, <2>3, <2>4
  <2>5. CASE x = d
    <3>1. r \notin RowsOf(news)
      BY <1>2, <2>1, <2>2, <2>5 DEF Pending
    <3>2. r \notin RowsOf(page)
      BY <2>2, <2>5, <3>1 DEF blocked
    <3> QED
      BY <1>6, <1>11, <2>3, <2>5, <3>2
  <2> QED
    BY <2>4, <2>5
<1>16. FiledThere'
  BY <1>0, <1>4 DEF FiledThere
<1> QED
  BY <1>12, <1>13, <1>14, <1>15, <1>16 DEF Copies

LEMMA StepCopies == Inv /\ Copies /\ [Next]_vars => Copies'
<1> SUFFICES ASSUME Inv, Copies, [Next]_vars PROVE Copies'
  OBVIOUS
<1>1. CASE UNCHANGED vars
  <2>1. UNCHANGED <<edits, server, local>> /\ run' = run
    BY <1>1 DEF vars, server, local
  <2>2. Paged' /\ Own'
    BY <2>1 DEF Copies, Paged, Own, Stamp, server, local
  <2> QED
    BY <2>1, <2>2, RunCopies
<1>2. CASE \E r \in Row : WebCreate(r) \/ WebUpdate(r) \/ WebDelete(r)
  BY <1>2, WebCreateCopies, WebUpdateCopies, WebDeleteCopies
<1>3. CASE \E p \in late : Arrive(p)
  BY <1>3, ArriveCopies
<1>4. ASSUME NEW d \in Device, Work(d) PROVE Copies'
  BY <1>4, LocalEditCopies, LocalDeleteCopies DEF Work
<1>5. ASSUME NEW d \in Device, Reconcile(d) PROVE Copies'
  BY <1>5, ReconcileCopies, SettledCopies, PullCopies, ApplyPageCopies DEF Reconcile
<1>6. ASSUME NEW d \in Device, GiveUp(d) \/ Restart(d) PROVE Copies'
  BY <1>6, ReconcileCopies
<1> QED
  BY <1>1, <1>2, <1>3, <1>4, <1>5, <1>6 DEF Next

-----------------------------------------------------------------------------
(* The theorems *)

LEMMA StepInv == Inv /\ [Next]_vars => Inv'
<1> SUFFICES ASSUME Inv, [Next]_vars PROVE Inv'
  OBVIOUS
<1>1. CASE UNCHANGED vars
  BY <1>1 DEF vars, Inv, TypeOK, History, Based, Pages, Requests, Queues, Verdicts, First,
              Arrivals, Acked
<1>2. CASE \E r \in Row : WebCreate(r) \/ WebUpdate(r) \/ WebDelete(r)
  BY <1>2, WebCreateKeeps, WebUpdateKeeps, WebDeleteKeeps
<1>3. CASE \E p \in late : Arrive(p)
  BY <1>3, ArriveKeeps
<1>4. ASSUME NEW d \in Device, Work(d) PROVE Inv'
  BY <1>4, LocalCreateKeeps, LocalUpdateKeeps, LocalDeleteKeeps DEF Work
<1>5. ASSUME NEW d \in Device, Reconcile(d) PROVE Inv'
  BY <1>5, LoadKeeps, PushNextKeeps, StopKeeps, AckKeeps, PullKeeps, ApplyPageKeeps DEF Reconcile
<1>6. ASSUME NEW d \in Device, GiveUp(d) \/ Restart(d) PROVE Inv'
  BY <1>6, StopKeeps
<1> QED
  BY <1>1, <1>2, <1>3, <1>4, <1>5, <1>6 DEF Next

LEMMA AlwaysInv == Spec => []Inv
  BY InitInv, StepInv, PTL DEF Spec

\* Every variable keeps its type, for any devices, rows and bounds.
THEOREM MasterTyped == Spec => []TypeOK
<1>1. Inv => TypeOK
  BY DEF Inv
<1> QED
  BY <1>1, AlwaysInv, PTL

\* A hosted row that was deleted never comes back, whatever devices that have not
\* heard of it still send.
THEOREM DeletedStaysDeleted == Spec => []DeletedForGood
<1>1. Inv => DeletedForGood
  BY DEF Inv, History, Final, DeletedForGood
<1> QED
  BY <1>1, AlwaysInv, PTL

\* An edit made on a version the device had pulled replaces exactly that version.
THEOREM NothingUnseenOverwritten == Spec => []NoUnseenOverwritten
<1>1. Inv => NoUnseenOverwritten
  BY DEF Inv, History, Seen, NoUnseenOverwritten
<1> QED
  BY <1>1, AlwaysInv, PTL

\* An edit that its device takes for synced has reached the hosted row.
THEOREM SyncedHasArrived == Spec => []SyncedEditsArrived
<1>1. Inv => SyncedEditsArrived
  BY DEF Inv, Acked, Arrived, SyncedEditsArrived
<1> QED
  BY <1>1, AlwaysInv, PTL

\* A device that calls a row synced, has nothing of it to send and has pulled
\* beyond its last change shows what the server has, unless the row was deleted
\* on one of the two sides.
THEOREM SyncedCopyIsHosted == Spec => []InStep
<1>1. Copies => InStep
  BY DEF Copies
<1> QED
  BY <1>1, AlwaysInv, InitCopies, StepCopies, PTL DEF Spec

=============================================================================
