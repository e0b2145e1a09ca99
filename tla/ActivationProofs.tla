--------------------------- MODULE ActivationProofs ---------------------------
(***************************************************************************)
(* Safety of Activation for any number of connections, installations,      *)
(* codes and grants, and any quotas.                                       *)
(***************************************************************************)
EXTENDS Activation, FiniteSetTheorems, TLAPS

\* A request names the rows its kind is about.
Requests ==
    \A k \in Conn :
        /\ conn[k].req \in {"activate", "token"} => conn[k].token \in Code
        /\ conn[k].req = "grant" => conn[k].token \in Grant
        /\ conn[k].req = "device" => conn[k].inst \in Inst
        /\ conn[k].req = "licensed" => conn[k].token = NoOne
        /\ conn[k].issuing # "no" => conn[k].inst \in Inst

\* What a request knows between its check and its commit, because of the locks
\* it holds.
Issuer(k) ==
    LET q == conn[k] IN
    /\ q.req = IF q.issuing = "activate" THEN "activate" ELSE "licensed"
    /\ q.inst \in IF q.issuing = "legacy" THEN Web ELSE Desktop
    /\ holder["licence"] = k /\ holder["business"] = k
    /\ Serving
    /\ device[q.inst] = "none" => SlotAvailable(q.inst)
    /\ q.issuing # "offline" => holder[q.inst] = k /\ device[q.inst] # "revoked"

Issuers == \A k \in Conn : conn[k].issuing # "no" => Issuer(k)

IInv ==
    /\ TypeOK
    /\ Requests
    /\ Issuers
    /\ QuotaHeld
    /\ RevokedLicenceHasNoDevice
    /\ ActivationIsAtomic
    /\ OnlineCertificatesAreEarned

-----------------------------------------------------------------------------
(* Types *)

TypeInv == TypeOK /\ Requests

LEMMA InitType == Init => TypeInv
BY ActivationAssumption
DEF Init, TypeInv, TypeOK, Requests, Inst, Token, Row, Quota, Transaction, Idle, Request, Route

\* The four transactions that go on to sign.
LEMMA NextTransaction ==
    ASSUME TypeInv, NEW k \in Conn, NEW i \in Inst, NEW route \in Route,
           IssueNext(k, i, route)
    PROVE  /\ conn' \in [Conn -> Transaction]
           /\ Requests'
           /\ conn'[k].inst = i /\ conn'[k].issuing = route /\ conn'[k].req = conn[k].req
           /\ \A j \in Conn \ {k} : conn'[j] = conn[j]
<1> DEFINE tx == [conn[k] EXCEPT !.inst = i, !.issuing = route]
<1>1. tx \in Transaction /\ tx.req = conn[k].req /\ tx.token = conn[k].token /\ tx.inst = i
      /\ tx.issuing = route
  BY DEF TypeInv, TypeOK, Transaction
<1>2. conn' = [conn EXCEPT ![k] = tx]
  BY DEF IssueNext
<1> HIDE DEF tx
<1>3. conn' \in [Conn -> Transaction]
  BY <1>1, <1>2 DEF TypeInv, TypeOK
<1>4. conn'[k] = tx /\ \A j \in Conn \ {k} : conn'[j] = conn[j]
  BY <1>2 DEF TypeInv, TypeOK
<1>5. Requests'
  BY <1>1, <1>4 DEF TypeInv, Requests
<1> QED
  BY <1>1, <1>3, <1>4, <1>5

\* Ending a transaction releases its locks and no other.
LEMMA EndFacts ==
    ASSUME TypeInv, NEW k \in Conn, End(k)
    PROVE  /\ conn' \in [Conn -> Transaction]
           /\ holder' \in [Row -> Conn \cup {NoOne}]
           /\ Requests'
           /\ conn'[k].issuing = "no"
           /\ \A j \in Conn \ {k} : conn'[j] = conn[j]
           /\ \A r \in Row, j \in Conn \ {k} : holder[r] = j => holder'[r] = j
<1>1. Idle \in Transaction /\ Idle.req = "idle" /\ Idle.issuing = "no"
  BY DEF Idle, Transaction
<1>2. /\ conn' = [conn EXCEPT ![k] = Idle]
      /\ conn' \in [Conn -> Transaction]
      /\ conn'[k] = Idle
      /\ \A j \in Conn \ {k} : conn'[j] = conn[j]
  BY <1>1 DEF End, TypeInv, TypeOK
<1>3. Requests'
  BY <1>1, <1>2 DEF TypeInv, Requests
<1>4. /\ holder' \in [Row -> Conn \cup {NoOne}]
      /\ \A r \in Row, j \in Conn \ {k} : holder[r] = j => holder'[r] = j
  BY DEF End, TypeInv, TypeOK
<1> QED
  BY <1>1, <1>2, <1>3, <1>4

\* A request's transaction.
LEMMA RegisteredType ==
    ASSUME TypeOK, NEW i \in Inst
    PROVE  /\ Registered(i) \in [Inst -> {"none", "active", "revoked"}]
           /\ \A j \in Inst \ {i} : Registered(i)[j] = device[j]
           /\ Registered(i)[i] = IF device[i] = "none" THEN "active" ELSE device[i]
BY DEF TypeOK, Registered

LEMMA TypeStep == TypeInv /\ [Next]_vars => TypeInv'
<1> SUFFICES ASSUME TypeInv, TypeOK, Requests, [Next]_vars PROVE TypeOK' /\ Requests'
  BY DEF TypeInv
<1>1. ASSUME NEW k \in Conn, NEW req \in Request,
               NEW t \in Token \cup {NoOne}, NEW i \in Inst \cup {NoOne}, Begin(k, req, t, i)
      PROVE  TypeOK' /\ Requests'
  <2> DEFINE tx == [req |-> req, token |-> t, inst |-> i, issuing |-> "no"]
  <2>1. tx \in Transaction /\ tx.req = req /\ tx.token = t /\ tx.inst = i /\ tx.issuing = "no"
    BY DEF Transaction
  <2>2. conn' = [conn EXCEPT ![k] = tx]
    BY <1>1 DEF Begin
  <2>3. Requests'
    <3>1. /\ req \in {"activate", "token"} => t \in Code
          /\ req = "grant" => t \in Grant
          /\ req = "device" => i \in Inst
          /\ req = "licensed" => t = NoOne
      BY <1>1 DEF Begin
    <3> HIDE DEF tx
    <3> QED
      BY <2>1, <2>2, <3>1 DEF Requests, TypeOK
  <2>4. conn' \in [Conn -> Transaction]
    BY <2>1, <2>2 DEF TypeOK
  <2>5. holder' \in [Row -> Conn \cup {NoOne}]
    BY <1>1 DEF Begin, TypeOK, First, Locks, Row
  <2> QED
    BY <1>1, <2>3, <2>4, <2>5 DEF Begin, TypeOK
<1>2. ASSUME NEW k \in Conn, Acquire(k)
      PROVE  TypeOK' /\ Requests'
  <2>1. UNCHANGED <<licence, business, token, device, conn, certs, unearned>>
    BY <1>2 DEF Acquire
  <2>2. holder' \in [Row -> Conn \cup {NoOne}]
    BY <1>2 DEF Acquire, TypeOK
  <2> QED
    BY <2>1, <2>2 DEF TypeOK, Requests
<1>3. ASSUME NEW k \in Conn, Rollback(k)
      PROVE  TypeOK' /\ Requests'
  <2>1. End(k)
    BY <1>3 DEF Rollback
  <2>2. Requests' /\ conn' \in [Conn -> Transaction] /\ holder' \in [Row -> Conn \cup {NoOne}]
    BY <2>1, EndFacts
  <2> QED
    BY <1>3, <2>2 DEF Rollback, TypeOK
<1>4. ASSUME NEW k \in Conn, Evict(k)
      PROVE  TypeOK' /\ Requests'
  <2>1. End(k)
    BY <1>4 DEF Evict
  <2>2. Requests' /\ conn' \in [Conn -> Transaction] /\ holder' \in [Row -> Conn \cup {NoOne}]
    BY <2>1, EndFacts
  <2> QED
    BY <1>4, <2>2 DEF Evict, TypeOK
<1>5. ASSUME NEW k \in Conn, NEW i \in Inst, CheckActivate(k, i)
      PROVE  TypeOK' /\ Requests'
  <2>1. IssueNext(k, i, "activate") /\ holder' = [holder EXCEPT ![i] = k]
    BY <1>5 DEF CheckActivate, LockDevice
  <2>2. conn' \in [Conn -> Transaction] /\ Requests'
    BY <2>1, NextTransaction DEF Route
  <2> QED
    BY <2>1, <2>2 DEF IssueNext, TypeOK
<1>6. ASSUME NEW k \in Conn, NEW i \in Inst, CheckValidate(k, i)
      PROVE  TypeOK' /\ Requests'
  <2>1. IssueNext(k, i, "validate") /\ holder' = [holder EXCEPT ![i] = k]
    BY <1>6 DEF CheckValidate, LockDevice
  <2>2. conn' \in [Conn -> Transaction] /\ Requests'
    BY <2>1, NextTransaction DEF Route
  <2> QED
    BY <2>1, <2>2 DEF IssueNext, TypeOK
<1>7. ASSUME NEW k \in Conn, NEW i \in Inst, CheckOffline(k, i)
      PROVE  TypeOK' /\ Requests'
  <2>1. IssueNext(k, i, "offline") /\ UNCHANGED holder
    BY <1>7 DEF CheckOffline, LockDevice
  <2>2. conn' \in [Conn -> Transaction] /\ Requests'
    BY <2>1, NextTransaction DEF Route
  <2> QED
    BY <2>1, <2>2 DEF IssueNext, TypeOK
<1>8. ASSUME NEW k \in Conn, NEW i \in Inst, CheckLegacy(k, i)
      PROVE  TypeOK' /\ Requests'
  <2>1. IssueNext(k, i, "legacy") /\ holder' = [holder EXCEPT ![i] = k]
    BY <1>8 DEF CheckLegacy, LockDevice
  <2>2. conn' \in [Conn -> Transaction] /\ Requests'
    BY <2>1, NextTransaction DEF Route
  <2> QED
    BY <2>1, <2>2 DEF IssueNext, TypeOK
<1>9. ASSUME NEW k \in Conn, NEW i \in Inst, SessionDevice(k, i)
      PROVE  TypeOK' /\ Requests'
  <2>1. End(k)
    BY <1>9 DEF SessionDevice
  <2>2. Requests' /\ conn' \in [Conn -> Transaction] /\ holder' \in [Row -> Conn \cup {NoOne}]
    BY <2>1, EndFacts
  <2> QED
    BY <1>9, <2>2, RegisteredType DEF SessionDevice, TypeOK
<1>10. ASSUME NEW k \in Conn, NEW i \in Inst, ActivateByGrant(k, i)
      PROVE  TypeOK' /\ Requests'
  <2>1. End(k)
    BY <1>10 DEF ActivateByGrant
  <2>2. Requests' /\ conn' \in [Conn -> Transaction] /\ holder' \in [Row -> Conn \cup {NoOne}]
    BY <2>1, EndFacts
  <2>3. conn[k].token \in Token
    BY <1>10 DEF ActivateByGrant, Holds, Requests, Token
  <2> QED
    BY <1>10, <2>2, RegisteredType, <2>3 DEF ActivateByGrant, TypeOK
<1>11. ASSUME NEW k \in Conn, Certify(k)
      PROVE  TypeOK' /\ Requests'
  <2>1. End(k)
    BY <1>11 DEF Certify
  <2>2. Requests' /\ conn' \in [Conn -> Transaction] /\ holder' \in [Row -> Conn \cup {NoOne}]
    BY <2>1, EndFacts
  <2>3. conn[k].inst \in Inst /\ conn[k].issuing \in Route
    BY <1>11 DEF Certify, Requests, TypeOK, Transaction
  <2>4. token' \in [Token -> [state : {"unissued", "live", "dead", "used"}, by : Inst \cup {NoOne}]]
    BY <1>11, <2>3 DEF Certify, TypeOK
  <2>5. device' \in [Inst -> {"none", "active", "revoked"}]
    BY <1>11, <2>3, RegisteredType DEF Certify
  <2>6. certs' \subseteq Inst /\ unearned' \subseteq Route
    BY <1>11, <2>3 DEF Certify, TypeOK
  <2> QED
    BY <1>11, <2>2, <2>4, <2>5, <2>6 DEF Certify, TypeOK
<1>12. ASSUME NEW k \in Conn, RevokeDevice(k)
      PROVE  TypeOK' /\ Requests'
  <2>1. End(k)
    BY <1>12 DEF RevokeDevice
  <2>2. Requests' /\ conn' \in [Conn -> Transaction] /\ holder' \in [Row -> Conn \cup {NoOne}]
    BY <2>1, EndFacts
  <2>3. conn[k].inst \in Inst
    BY <1>12 DEF RevokeDevice, Holds, Requests
  <2> QED
    BY <1>12, <2>2, <2>3 DEF RevokeDevice, TypeOK
<1>13. ASSUME NEW k \in Conn, NEW t \in Token, IssueCode(k, t)
      PROVE  TypeOK' /\ Requests'
  <2>1. End(k)
    BY <1>13 DEF IssueCode
  <2>2. Requests' /\ conn' \in [Conn -> Transaction] /\ holder' \in [Row -> Conn \cup {NoOne}]
    BY <2>1, EndFacts
  <2> QED
    BY <1>13, <2>2 DEF IssueCode, TypeOK
<1>14. ASSUME NEW k \in Conn, NEW t \in Token, IssueGrant(k, t)
      PROVE  TypeOK' /\ Requests'
  <2>1. End(k)
    BY <1>14 DEF IssueGrant
  <2>2. Requests' /\ conn' \in [Conn -> Transaction] /\ holder' \in [Row -> Conn \cup {NoOne}]
    BY <2>1, EndFacts
  <2> QED
    BY <1>14, <2>2 DEF IssueGrant, TypeOK
<1>15. ASSUME NEW k \in Conn, NEW t \in Token, Regenerate(k, t)
      PROVE  TypeOK' /\ Requests'
  <2>1. End(k)
    BY <1>15 DEF Regenerate
  <2>2. Requests' /\ conn' \in [Conn -> Transaction] /\ holder' \in [Row -> Conn \cup {NoOne}]
    BY <2>1, EndFacts
  <2> QED
    BY <1>15, <2>2 DEF Regenerate, TypeOK
<1>16. ASSUME NEW k \in Conn, RevokeCode(k)
      PROVE  TypeOK' /\ Requests'
  <2>1. End(k)
    BY <1>16 DEF RevokeCode
  <2>2. Requests' /\ conn' \in [Conn -> Transaction] /\ holder' \in [Row -> Conn \cup {NoOne}]
    BY <2>1, EndFacts
  <2>3. conn[k].token \in Token
    BY <1>16 DEF RevokeCode, Holds, Requests, Token
  <2> QED
    BY <1>16, <2>2, <2>3 DEF RevokeCode, TypeOK
<1>17. ASSUME NEW k \in Conn, NEW q \in Quotas, SetLimits(k, q)
      PROVE  TypeOK' /\ Requests'
  <2>1. End(k)
    BY <1>17 DEF SetLimits
  <2>2. Requests' /\ conn' \in [Conn -> Transaction] /\ holder' \in [Row -> Conn \cup {NoOne}]
    BY <2>1, EndFacts
  <2>3. q \in Quota
    BY ActivationAssumption DEF Quota
  <2> QED
    BY <1>17, <2>2, <2>3 DEF SetLimits, TypeOK
<1>18. ASSUME NEW k \in Conn, NEW q \in Quotas, RefuseLimits(k, q)
      PROVE  TypeOK' /\ Requests'
  <2>1. Idle \in Transaction /\ Idle.req = "idle" /\ Idle.issuing = "no"
    BY DEF Idle, Transaction
  <2> QED
    BY <1>18, <2>1 DEF RefuseLimits, TypeOK, Requests
<1>19. ASSUME NEW k \in Conn, NEW s \in {"active", "suspended", "inactive"}, SetStatus(k, s)
      PROVE  TypeOK' /\ Requests'
  <2>1. End(k)
    BY <1>19 DEF SetStatus
  <2>2. Requests' /\ conn' \in [Conn -> Transaction] /\ holder' \in [Row -> Conn \cup {NoOne}]
    BY <2>1, EndFacts
  <2> QED
    BY <1>19, <2>2 DEF SetStatus, TypeOK
<1>20. ASSUME NEW k \in Conn, NEW s \in {"active", "suspended", "inactive"}, UpdateBusiness(k, s)
      PROVE  TypeOK' /\ Requests'
  <2>1. End(k)
    BY <1>20 DEF UpdateBusiness
  <2>2. Requests' /\ conn' \in [Conn -> Transaction] /\ holder' \in [Row -> Conn \cup {NoOne}]
    BY <2>1, EndFacts
  <2> QED
    BY <1>20, <2>2 DEF UpdateBusiness, TypeOK
<1>21. ASSUME NEW k \in Conn, RevokeLicence(k)
      PROVE  TypeOK' /\ Requests'
  <2>1. End(k)
    BY <1>21 DEF RevokeLicence
  <2>2. Requests' /\ conn' \in [Conn -> Transaction] /\ holder' \in [Row -> Conn \cup {NoOne}]
    BY <2>1, EndFacts
  <2> QED
    BY <1>21, <2>2 DEF RevokeLicence, TypeOK
<1>22. ASSUME NEW k \in Conn, Renew(k)
      PROVE  TypeOK' /\ Requests'
  <2>1. End(k)
    BY <1>22 DEF Renew
  <2>2. Requests' /\ conn' \in [Conn -> Transaction] /\ holder' \in [Row -> Conn \cup {NoOne}]
    BY <2>1, EndFacts
  <2> QED
    BY <1>22, <2>2 DEF Renew, TypeOK
<1>23. ASSUME NEW t \in Token, TokenExpires(t)
      PROVE  TypeOK' /\ Requests'
  BY <1>23 DEF TokenExpires, TypeOK, Requests
<1>24. CASE UNCHANGED vars
  BY <1>24 DEF vars, TypeOK, Requests
<1> QED
  BY <1>1, <1>2, <1>3, <1>4, <1>5, <1>6, <1>7, <1>8, <1>9, <1>10, <1>11, <1>12, <1>13, <1>14, <1>15, <1>16, <1>17, <1>18, <1>19, <1>20, <1>21, <1>22, <1>23, <1>24 DEF Next
-----------------------------------------------------------------------------
(* Counting devices *)

LEMMA ActiveFinite ==
    ASSUME NEW S \in SUBSET Inst
    PROVE  IsFiniteSet(Active(S)) /\ Cardinality(Active(S)) \in Nat
<1>1. IsFiniteSet(Inst) /\ Active(S) \in SUBSET Inst
  BY ActivationAssumption DEF Active
<1>2. IsFiniteSet(Active(S))
  BY <1>1, FS_Subset
<1> QED
  BY <1>2, FS_CardinalityType

\* Devices that only leave free the slots they had.
LEMMA Withdraws ==
    ASSUME TypeOK, UNCHANGED licence,
           \A i \in Inst : device'[i] = "active" => device[i] = "active"
    PROVE  /\ QuotaHeld => QuotaHeld'
           /\ \A i \in Inst : SlotAvailable(i) => SlotAvailable(i)'
<1>1. ASSUME NEW S \in SUBSET Inst
      PROVE  /\ Cardinality(Active(S)) \in Nat /\ Cardinality(Active(S)') \in Nat
             /\ Cardinality(Active(S)') <= Cardinality(Active(S))
  <2>1. Active(S)' \in SUBSET Active(S)
    BY DEF Active
  <2>2. IsFiniteSet(Active(S)) /\ Cardinality(Active(S)) \in Nat
    BY ActiveFinite
  <2>3. IsFiniteSet(Active(S)') /\ Cardinality(Active(S)') <= Cardinality(Active(S))
    BY <2>1, <2>2, FS_Subset
  <2> QED
    BY <2>2, <2>3, FS_CardinalityType
<1>2. /\ Inst \in SUBSET Inst /\ Desktop \in SUBSET Inst /\ Web \in SUBSET Inst
  BY DEF Inst
<1>3. /\ licence.quota.total \in Nat
      /\ licence.quota.desktop \in Nat \cup {NoOne}
      /\ licence.quota.web \in Nat \cup {NoOne}
  BY DEF TypeOK, Quota
<1>4. QuotaHeld => QuotaHeld'
  BY <1>1, <1>2, <1>3 DEF QuotaHeld, Fits
<1>5. ASSUME NEW i \in Inst, SlotAvailable(i)
      PROVE  SlotAvailable(i)'
  <2>1. Cardinality(Active(Inst)') < licence'.quota.total
    BY <1>1, <1>2, <1>3, <1>5 DEF SlotAvailable
  <2>2. i \in Desktop => Below(Cardinality(Active(Desktop)'), licence'.quota.desktop)
    BY <1>1, <1>2, <1>3, <1>5 DEF SlotAvailable, Below
  <2>3. i \in Web => Below(Cardinality(Active(Web)'), licence'.quota.web)
    BY <1>1, <1>2, <1>3, <1>5 DEF SlotAvailable, Below
  <2> QED
    BY <2>1, <2>2, <2>3 DEF SlotAvailable
<1> QED
  BY <1>4, <1>5

\* Registering a device fits the quota when the device is known or a slot is free.
LEMMA Registers ==
    ASSUME TypeOK, QuotaHeld, UNCHANGED licence, NEW i \in Inst,
           device' = Registered(i),
           device[i] = "none" => SlotAvailable(i)
    PROVE  QuotaHeld'
<1>1. CASE device[i] # "none"
  <2>1. device' = device
    BY <1>1 DEF Registered, TypeOK
  <2> QED
    BY <2>1 DEF QuotaHeld, Fits, Active
<1>2. CASE device[i] = "none"
  <2>1. ASSUME NEW S \in SUBSET Inst
        PROVE  /\ Cardinality(Active(S)) \in Nat
               /\ Cardinality(Active(S)') =
                    IF i \in S THEN Cardinality(Active(S)) + 1 ELSE Cardinality(Active(S))
    <3>1. IsFiniteSet(Active(S)) /\ Cardinality(Active(S)) \in Nat /\ i \notin Active(S)
      BY <1>2, ActiveFinite DEF Active
    <3>2. CASE i \in S
      <4>1. Active(S)' = Active(S) \cup {i}
        BY <1>2, <3>2, RegisteredType DEF Active
      <4> QED
        BY <3>1, <3>2, <4>1, FS_AddElement
    <3>3. CASE i \notin S
      <4>1. Active(S)' = Active(S)
        BY <1>2, <3>3, RegisteredType DEF Active
      <4> QED
        BY <3>1, <3>3, <4>1
    <3> QED
      BY <3>2, <3>3
  <2>2. /\ Inst \in SUBSET Inst /\ Desktop \in SUBSET Inst /\ Web \in SUBSET Inst
    BY DEF Inst
  <2>3. /\ licence.quota.total \in Nat
        /\ licence.quota.desktop \in Nat \cup {NoOne}
        /\ licence.quota.web \in Nat \cup {NoOne}
    BY DEF TypeOK, Quota
  <2>4. Cardinality(Active(Inst)') <= licence'.quota.total
    BY <1>2, <2>1, <2>2, <2>3 DEF QuotaHeld, Fits, SlotAvailable
  <2>5. licence'.quota.desktop # NoOne =>
          Cardinality(Active(Desktop)') <= licence'.quota.desktop
    BY <1>2, <2>1, <2>2, <2>3 DEF QuotaHeld, Fits, SlotAvailable, Below
  <2>6. licence'.quota.web # NoOne => Cardinality(Active(Web)') <= licence'.quota.web
    BY <1>2, <2>1, <2>2, <2>3 DEF QuotaHeld, Fits, SlotAvailable, Below
  <2> QED
    BY <2>4, <2>5, <2>6 DEF QuotaHeld, Fits
<1> QED
  BY <1>1, <1>2

-----------------------------------------------------------------------------
(* The locks *)

LEMMA RowFacts == "licence" \in Row /\ "business" \in Row /\ Inst \subseteq Row
BY DEF Row

\* A request that locks the licence and lacks no lock holds it.
LEMMA LicenceLock ==
    ASSUME NEW k \in Conn, Pending(k) = {},
           conn[k].req \in {"activate", "grant", "licensed", "regenerate", "licence"}
    PROVE  holder["licence"] = k
BY DEF Pending, Locks

LEMMA BusinessLock ==
    ASSUME NEW k \in Conn, Pending(k) = {},
           conn[k].req \in {"activate", "grant", "licensed", "regenerate", "business"}
    PROVE  holder["business"] = k
BY DEF Pending, Locks

\* Whoever holds the licence or the business is the only one that may be about
\* to sign.
LEMMA Alone ==
    ASSUME Issuers, NEW k \in Conn, holder["licence"] = k \/ holder["business"] = k
    PROVE  \A j \in Conn \ {k} : conn[j].issuing = "no"
BY DEF Issuers, Issuer

\* Requests keep what they know while another one ends or takes free locks.
LEMMA Kept ==
    ASSUME TypeInv, Issuers, NEW k \in Conn,
           \A j \in Conn \ {k} : conn'[j] = conn[j],
           conn'[k].issuing = "no",
           \A r \in Row, j \in Conn \ {k} : holder[r] = j => holder'[r] = j,
           UNCHANGED <<licence, business, device>>
    PROVE  Issuers'
<1> SUFFICES ASSUME NEW j \in Conn, conn'[j].issuing # "no" PROVE Issuer(j)'
  BY DEF Issuers
<1>1. j # k /\ conn'[j] = conn[j] /\ Issuer(j)
  BY DEF Issuers
<1>2. conn[j].inst \in Row
  BY <1>1, RowFacts DEF TypeInv, Requests
<1>3. \A i : SlotAvailable(i)' <=> SlotAvailable(i)
  BY DEF SlotAvailable, Below, Active
<1>4. Serving' <=> Serving
  BY DEF Serving
<1> QED
  BY <1>1, <1>2, <1>3, <1>4, RowFacts DEF Issuer

LEMMA NoIssuer ==
    ASSUME \A j \in Conn : conn'[j].issuing = "no"
    PROVE  Issuers'
BY DEF Issuers

\* Ending a transaction that holds the licence or the business leaves nobody
\* about to sign.
LEMMA EndAlone ==
    ASSUME TypeInv, Issuers, NEW k \in Conn, End(k),
           holder["licence"] = k \/ holder["business"] = k
    PROVE  Issuers'
BY Alone, EndFacts, NoIssuer

\* A request that goes on to sign knows what it has checked.
LEMMA GoesOn ==
    ASSUME TypeInv, Issuers, NEW k \in Conn, NEW i \in Inst, NEW route \in Route,
           IssueNext(k, i, route), Pending(k) = {}, Serving,
           conn[k].req = IF route = "activate" THEN "activate" ELSE "licensed",
           i \in IF route = "legacy" THEN Web ELSE Desktop,
           device[i] = "none" => SlotAvailable(i),
           \/ route = "offline" /\ UNCHANGED holder
           \/ device[i] # "revoked" /\ holder' = [holder EXCEPT ![i] = k]
    PROVE  Issuers'
<1>1. holder["licence"] = k /\ holder["business"] = k
  BY LicenceLock, BusinessLock
<1>2. "licence" \notin Inst /\ "business" \notin Inst
  BY ActivationAssumption
<1>3. holder'["licence"] = k /\ holder'["business"] = k
  BY <1>1, <1>2, RowFacts DEF TypeInv, TypeOK
<1>4. route = "offline" \/ (device[i] # "revoked" /\ holder'[i] = k)
  BY RowFacts DEF TypeInv, TypeOK
<1>5. SlotAvailable(i)' <=> SlotAvailable(i)
  BY DEF SlotAvailable, Below, Active, IssueNext
<1>6. UNCHANGED device /\ (Serving' <=> Serving)
  BY DEF IssueNext, Serving
<1>7. /\ conn'[k].inst = i /\ conn'[k].issuing = route /\ conn'[k].req = conn[k].req
      /\ \A j \in Conn \ {k} : conn'[j].issuing = "no"
  BY <1>1, Alone, NextTransaction
<1>8. Issuer(k)'
  BY <1>3, <1>4, <1>5, <1>6, <1>7 DEF Issuer
<1> QED
  BY <1>7, <1>8 DEF Issuers

-----------------------------------------------------------------------------
(* The inductive invariant *)

Data ==
    /\ QuotaHeld
    /\ RevokedLicenceHasNoDevice
    /\ ActivationIsAtomic
    /\ OnlineCertificatesAreEarned

\* Steps that touch no device and no certificate.
LEMMA Quiet ==
    ASSUME Data, UNCHANGED <<device, certs, unearned>>,
           licence'.quota = licence.quota,
           licence'.status = "revoked" => licence.status = "revoked",
           \A t \in Token : token'[t].state = "used" => token'[t] = token[t]
    PROVE  Data'
<1>1. QuotaHeld' /\ RevokedLicenceHasNoDevice'
  BY DEF Data, QuotaHeld, Fits, Active, RevokedLicenceHasNoDevice
<1>2. ActivationIsAtomic'
  BY DEF Data, ActivationIsAtomic
<1> QED
  BY <1>1, <1>2 DEF Data, OnlineCertificatesAreEarned

LEMMA InitIInv == Init => IInv
<1> SUFFICES ASSUME Init PROVE IInv
  OBVIOUS
<1>1. TypeInv /\ Active(Inst) = {} /\ Active(Desktop) = {} /\ Active(Web) = {}
  BY InitType DEF Init, Active, Inst
<1>2. licence.quota \in Quota /\ licence.status = "active"
  BY <1>1 DEF TypeInv, TypeOK, Init
<1>3. QuotaHeld
  BY <1>1, <1>2, FS_EmptySet DEF QuotaHeld, Fits, Quota
<1>4. Issuers
  BY DEF Init, Issuers, Idle
<1> QED
  BY <1>1, <1>2, <1>3, <1>4
  DEF Init, IInv, TypeInv, RevokedLicenceHasNoDevice, ActivationIsAtomic,
      OnlineCertificatesAreEarned, Inst, Token

LEMMA Step == IInv /\ [Next]_vars => IInv'
<1> SUFFICES ASSUME TypeInv, TypeOK, Requests, Issuers, Data, [Next]_vars
             PROVE  Issuers' /\ Data'
  BY TypeStep DEF IInv, TypeInv, Data
<1>1. ASSUME NEW k \in Conn, NEW req \in Request,
               NEW t \in Token \cup {NoOne}, NEW i \in Inst \cup {NoOne}, Begin(k, req, t, i)
      PROVE  Issuers' /\ Data'
  <2>1. conn[k].issuing = "no" /\ conn'[k].issuing = "no"
    BY <1>1 DEF Begin, Idle, TypeOK
  <2>2. \A j \in Conn \ {k} : conn'[j] = conn[j]
    BY <1>1 DEF Begin, TypeOK
  <2>3. \A r \in Row, j \in Conn : holder[r] = j => holder'[r] = j
    BY <1>1, ActivationAssumption DEF Begin, TypeOK
  <2>4. UNCHANGED <<licence, business, token, device, certs, unearned>>
    BY <1>1 DEF Begin
  <2>5. Issuers'
    BY <2>1, <2>2, <2>3, <2>4, Kept
  <2> QED
    BY <2>4, <2>5, Quiet
<1>2. ASSUME NEW k \in Conn, Acquire(k)
      PROVE  Issuers' /\ Data'
  <2>1. UNCHANGED <<licence, business, token, device, conn, certs, unearned>>
    BY <1>2 DEF Acquire
  <2>2. \A r \in Row, j \in Conn : holder[r] = j => holder'[r] = j
    BY <1>2, ActivationAssumption DEF Acquire, TypeOK
  <2>3. ASSUME NEW j \in Conn, conn'[j].issuing # "no" PROVE Issuer(j)'
    <3>1. Issuer(j) /\ conn[j].inst \in Row
      BY <2>1, <2>3, RowFacts DEF Issuers, Requests
    <3>2. (Serving' <=> Serving) /\ \A i : SlotAvailable(i)' <=> SlotAvailable(i)
      BY <2>1 DEF Serving, SlotAvailable, Below, Active
    <3> QED
      BY <2>1, <2>2, <3>1, <3>2, RowFacts DEF Issuer
  <2> QED
    BY <2>1, <2>3, Quiet DEF Issuers
<1>3. ASSUME NEW k \in Conn, Rollback(k)
      PROVE  Issuers' /\ Data'
  <2>1. End(k) /\ UNCHANGED <<licence, business, token, device, certs, unearned>>
    BY <1>3 DEF Rollback
  <2>2. Issuers'
    BY <2>1, EndFacts, Kept
  <2> QED
    BY <2>1, <2>2, Quiet
<1>4. ASSUME NEW k \in Conn, Evict(k)
      PROVE  Issuers' /\ Data'
  <2>1. End(k) /\ UNCHANGED <<licence, business, token, device, certs, unearned>>
    BY <1>4 DEF Evict
  <2>2. Issuers'
    BY <2>1, EndFacts, Kept
  <2> QED
    BY <2>1, <2>2, Quiet
<1>5. ASSUME NEW k \in Conn, NEW i \in Inst, CheckActivate(k, i)
      PROVE  Issuers' /\ Data'
  <2>1. IssueNext(k, i, "activate") /\ "activate" \in Route
    BY <1>5 DEF CheckActivate, Route
  <2>2. Issuers'
    BY <1>5, <2>1, GoesOn, ActivationAssumption
    DEF CheckActivate, Holds, Registrable, LockDevice
  <2>3. UNCHANGED <<licence, business, token, device, certs, unearned>>
    BY <2>1 DEF IssueNext
  <2> QED
    BY <2>2, <2>3, Quiet
<1>6. ASSUME NEW k \in Conn, NEW i \in Inst, CheckValidate(k, i)
      PROVE  Issuers' /\ Data'
  <2>1. IssueNext(k, i, "validate") /\ "validate" \in Route
    BY <1>6 DEF CheckValidate, Route
  <2>2. Issuers'
    BY <1>6, <2>1, GoesOn, ActivationAssumption
    DEF CheckValidate, Holds, Registrable, LockDevice
  <2>3. UNCHANGED <<licence, business, token, device, certs, unearned>>
    BY <2>1 DEF IssueNext
  <2> QED
    BY <2>2, <2>3, Quiet
<1>7. ASSUME NEW k \in Conn, NEW i \in Inst, CheckOffline(k, i)
      PROVE  Issuers' /\ Data'
  <2>1. IssueNext(k, i, "offline") /\ "offline" \in Route
    BY <1>7 DEF CheckOffline, Route
  <2>2. Issuers'
    BY <1>7, <2>1, GoesOn, ActivationAssumption
    DEF CheckOffline, Holds, Registrable
  <2>3. UNCHANGED <<licence, business, token, device, certs, unearned>>
    BY <2>1 DEF IssueNext
  <2> QED
    BY <2>2, <2>3, Quiet
<1>8. ASSUME NEW k \in Conn, NEW i \in Inst, CheckLegacy(k, i)
      PROVE  Issuers' /\ Data'
  <2>1. IssueNext(k, i, "legacy") /\ "legacy" \in Route
    BY <1>8 DEF CheckLegacy, Route
  <2>2. Issuers'
    BY <1>8, <2>1, GoesOn, ActivationAssumption
    DEF CheckLegacy, Holds, Registrable, LockDevice
  <2>3. UNCHANGED <<licence, business, token, device, certs, unearned>>
    BY <2>1 DEF IssueNext
  <2> QED
    BY <2>2, <2>3, Quiet
<1>9. ASSUME NEW k \in Conn, NEW i \in Inst, SessionDevice(k, i)
      PROVE  Issuers' /\ Data'
  <2>1. End(k)
    BY <1>9 DEF SessionDevice
  <2>2. holder["licence"] = k
    BY <1>9, LicenceLock DEF SessionDevice, Holds
  <2>3. Issuers'
    BY <2>1, <2>2, EndAlone
  <2>4. /\ device' = Registered(i) /\ i \in Web /\ i \notin Desktop /\ Serving
        /\ device[i] = "none" => SlotAvailable(i)
        /\ UNCHANGED <<licence, business, certs, unearned>>
    BY <1>9, ActivationAssumption DEF SessionDevice, Registrable
  <2>5. QuotaHeld'
    BY <2>4, Registers DEF Data
  <2>6. RevokedLicenceHasNoDevice'
    BY <2>4 DEF RevokedLicenceHasNoDevice, Serving
  <2>7. /\ \A j \in Inst \ {i} : device'[j] = device[j]
        /\ device'[i] # "none"
    BY <2>4, RegisteredType
  <2>8. UNCHANGED token
    BY <1>9 DEF SessionDevice
  <2>9. ActivationIsAtomic'
    BY <2>4, <2>7, <2>8 DEF Data, ActivationIsAtomic, Inst
  <2> QED
    BY <2>3, <2>4, <2>5, <2>6, <2>9 DEF Data, OnlineCertificatesAreEarned
<1>10. ASSUME NEW k \in Conn, NEW i \in Inst, ActivateByGrant(k, i)
      PROVE  Issuers' /\ Data'
  <2>1. End(k)
    BY <1>10 DEF ActivateByGrant
  <2>2. holder["licence"] = k
    BY <1>10, LicenceLock DEF ActivateByGrant, Holds
  <2>3. Issuers'
    BY <2>1, <2>2, EndAlone
  <2>4. /\ device' = Registered(i) /\ i \in Web /\ i \notin Desktop /\ Serving
        /\ device[i] = "none" => SlotAvailable(i)
        /\ UNCHANGED <<licence, business, certs, unearned>>
    BY <1>10, ActivationAssumption DEF ActivateByGrant
  <2>5. QuotaHeld'
    BY <2>4, Registers DEF Data
  <2>6. RevokedLicenceHasNoDevice'
    BY <2>4 DEF RevokedLicenceHasNoDevice, Serving
  <2>7. /\ \A j \in Inst \ {i} : device'[j] = device[j]
        /\ device'[i] # "none"
    BY <2>4, RegisteredType
  <2>8. conn[k].token \in Grant /\ conn[k].token \notin Code
        /\ token' = [token EXCEPT ![conn[k].token] = [state |-> "used", by |-> i]]
    BY <1>10, ActivationAssumption DEF ActivateByGrant, Holds, Requests
  <2>9. ActivationIsAtomic'
    <3>1. \A j \in Desktop : device'[j] = device[j]
      BY <2>4, <2>7 DEF Inst
    <3>2. ASSUME NEW t \in Token, token'[t].state = "used"
          PROVE  /\ token'[t].by \in IF t \in Code THEN Desktop ELSE Web
                 /\ device'[token'[t].by] # "none"
      <4>1. CASE t = conn[k].token
        <5>1. token'[t].by = i
          BY <2>8, <4>1 DEF TypeOK
        <5> QED
          BY <2>4, <2>7, <2>8, <4>1, <5>1
      <4>2. CASE t # conn[k].token
        <5>1. token'[t] = token[t]
          BY <2>8, <4>2 DEF TypeOK
        <5> QED
          BY <2>7, <3>2, <5>1 DEF Data, ActivationIsAtomic, Inst
      <4> QED
        BY <4>1, <4>2
    <3> QED
      BY <2>4, <3>1, <3>2 DEF Data, ActivationIsAtomic
  <2> QED
    BY <2>3, <2>4, <2>5, <2>6, <2>9 DEF Data, OnlineCertificatesAreEarned
<1>11. ASSUME NEW k \in Conn, Certify(k)
      PROVE  Issuers' /\ Data'
  <2>1. End(k)
    BY <1>11 DEF Certify
  <2> DEFINE q == conn[k]
               i == q.inst
  <2>2. i \in Inst /\ q.issuing \in Route /\ Issuer(k)
    BY <1>11 DEF Certify, Requests, Issuers, TypeOK, Transaction
  <2>3. Issuers'
    BY <2>1, <2>2, EndAlone DEF Issuer
  <2>4. /\ device' = Registered(i) /\ certs' = certs \cup {i}
        /\ UNCHANGED <<licence, business>>
        /\ token' = [t \in Token |-> IF t = q.token THEN [state |-> "used", by |-> i]
                                     ELSE token[t]]
        /\ unearned' = IF Serving /\ device'[i] = "active" THEN unearned
                       ELSE unearned \cup {q.issuing}
    BY <1>11 DEF Certify
  <2>5. /\ device[i] = "none" => SlotAvailable(i)
        /\ Serving
        /\ q.issuing # "offline" => device[i] # "revoked"
        /\ i \in IF q.issuing = "legacy" THEN Web ELSE Desktop
        /\ q.req = IF q.issuing = "activate" THEN "activate" ELSE "licensed"
    BY <2>2 DEF Issuer
  <2>6. q.token \in Token => q.token \in Code /\ i \in Desktop
    BY <2>5, ActivationAssumption DEF Requests
  <2> HIDE DEF q, i
  <2>7. /\ \A j \in Inst \ {i} : device'[j] = device[j]
        /\ device'[i] = IF device[i] = "none" THEN "active" ELSE device[i]
    BY <2>2, <2>4, RegisteredType
  <2>8. QuotaHeld'
    BY <2>2, <2>4, <2>5, Registers DEF Data
  <2>9. RevokedLicenceHasNoDevice'
    BY <2>4, <2>5 DEF RevokedLicenceHasNoDevice, Serving
  <2>10. ActivationIsAtomic'
    <3>1. \A j \in Desktop : device'[j] # "none" <=> j \in certs'
      BY <2>2, <2>4, <2>7 DEF Data, ActivationIsAtomic, Inst
    <3>2. ASSUME NEW t \in Token, token'[t].state = "used"
          PROVE  /\ token'[t].by \in IF t \in Code THEN Desktop ELSE Web
                 /\ device'[token'[t].by] # "none"
      BY <2>2, <2>4, <2>6, <2>7, <3>2 DEF Data, ActivationIsAtomic, Inst
    <3> QED
      BY <3>1, <3>2 DEF ActivationIsAtomic
  <2>11. OnlineCertificatesAreEarned'
    <3>1. q.issuing # "offline" => device'[i] = "active"
      BY <2>2, <2>5, <2>7 DEF TypeOK
    <3> QED
      BY <2>4, <2>5, <3>1 DEF Data, OnlineCertificatesAreEarned
  <2> QED
    BY <2>3, <2>8, <2>9, <2>10, <2>11 DEF Data
<1>12. ASSUME NEW k \in Conn, RevokeDevice(k)
      PROVE  Issuers' /\ Data'
  <2>1. End(k)
    BY <1>12 DEF RevokeDevice
  <2> DEFINE i == conn[k].inst
  <2>2. i \in Inst /\ holder[i] = k /\ conn[k].req = "device" /\ device[i] # "none"
    BY <1>12, ActivationAssumption DEF RevokeDevice, Holds, Requests, Pending, Locks
  <2>3. /\ UNCHANGED <<licence, business, token, certs, unearned>>
        /\ device' = [device EXCEPT ![i] = "revoked"]
    BY <1>12 DEF RevokeDevice
  <2>4. /\ device'[i] = "revoked"
        /\ \A j \in Inst \ {i} : device'[j] = device[j]
    BY <2>2, <2>3 DEF TypeOK
  <2> HIDE DEF i
  <2>5. /\ QuotaHeld => QuotaHeld'
        /\ \A j \in Inst : SlotAvailable(j) => SlotAvailable(j)'
    BY <2>3, <2>4, Withdraws
  <2>6. RevokedLicenceHasNoDevice'
    BY <2>3, <2>4 DEF Data, RevokedLicenceHasNoDevice, Active
  <2>7. ActivationIsAtomic'
    BY <2>2, <2>3, <2>4 DEF Data, ActivationIsAtomic, Inst
  <2>8. ASSUME NEW j \in Conn, conn'[j].issuing # "no" PROVE Issuer(j)'
    <3>1. j # k /\ conn'[j] = conn[j] /\ Issuer(j) /\ conn[j].inst \in Inst
      BY <2>1, <2>8, EndFacts DEF Issuers, Requests
    <3>2. /\ holder'["licence"] = j /\ holder'["business"] = j
          /\ holder[conn[j].inst] = j => holder'[conn[j].inst] = j
      BY <2>1, <3>1, EndFacts, RowFacts DEF Issuer
    <3>3. conn[j].issuing # "offline" => conn[j].inst # i
      BY <2>2, <3>1 DEF Issuer
    <3>4. Serving' <=> Serving
      BY <2>3 DEF Serving
    <3> QED
      BY <2>4, <2>5, <3>1, <3>2, <3>3, <3>4 DEF Issuer
  <2> QED
    BY <2>3, <2>5, <2>6, <2>7, <2>8 DEF Data, Issuers, OnlineCertificatesAreEarned
<1>13. ASSUME NEW k \in Conn, NEW t \in Token, IssueCode(k, t)
      PROVE  Issuers' /\ Data'
  <2>1. End(k)
    BY <1>13 DEF IssueCode
  <2>2. holder["licence"] = k
    BY <1>13, LicenceLock DEF IssueCode, Holds
  <2>3. Issuers'
    BY <2>1, <2>2, EndAlone
  <2>4. UNCHANGED <<licence, business, device, certs, unearned>>
    BY <1>13 DEF IssueCode
  <2>5. \A u \in Token : token'[u].state = "used" => token'[u] = token[u]
    BY <1>13 DEF IssueCode, TypeOK
  <2> QED
    BY <2>3, <2>4, <2>5, Quiet
<1>14. ASSUME NEW k \in Conn, NEW t \in Token, IssueGrant(k, t)
      PROVE  Issuers' /\ Data'
  <2>1. End(k)
    BY <1>14 DEF IssueGrant
  <2>2. holder["licence"] = k
    BY <1>14, LicenceLock DEF IssueGrant, Holds
  <2>3. Issuers'
    BY <2>1, <2>2, EndAlone
  <2>4. UNCHANGED <<licence, business, device, certs, unearned>>
    BY <1>14 DEF IssueGrant
  <2>5. \A u \in Token : token'[u].state = "used" => token'[u] = token[u]
    BY <1>14 DEF IssueGrant, TypeOK
  <2> QED
    BY <2>3, <2>4, <2>5, Quiet
<1>15. ASSUME NEW k \in Conn, NEW t \in Token, Regenerate(k, t)
      PROVE  Issuers' /\ Data'
  <2>1. End(k)
    BY <1>15 DEF Regenerate
  <2>2. holder["licence"] = k
    BY <1>15, LicenceLock DEF Regenerate, Holds
  <2>3. Issuers'
    BY <2>1, <2>2, EndAlone
  <2>4. UNCHANGED <<licence, business, device, certs, unearned>>
    BY <1>15 DEF Regenerate
  <2>5. \A u \in Token : token'[u].state = "used" => token'[u] = token[u]
    BY <1>15 DEF Regenerate, TypeOK
  <2> QED
    BY <2>3, <2>4, <2>5, Quiet
<1>16. ASSUME NEW k \in Conn, RevokeCode(k)
      PROVE  Issuers' /\ Data'
  <2>1. End(k)
    BY <1>16 DEF RevokeCode
  <2>2. UNCHANGED <<licence, business, device, certs, unearned>>
    BY <1>16 DEF RevokeCode
  <2>3. conn[k].token \in Token
    BY <1>16 DEF RevokeCode, Holds, Requests, Token
  <2>4. \A u \in Token : token'[u].state = "used" => token'[u] = token[u]
    BY <1>16, <2>3 DEF RevokeCode, TypeOK
  <2>5. Issuers'
    BY <2>1, <2>2, EndFacts, Kept
  <2> QED
    BY <2>2, <2>4, <2>5, Quiet
<1>17. ASSUME NEW k \in Conn, NEW q \in Quotas, SetLimits(k, q)
      PROVE  Issuers' /\ Data'
  <2>1. End(k)
    BY <1>17 DEF SetLimits
  <2>2. holder["licence"] = k
    BY <1>17, LicenceLock DEF SetLimits, Holds
  <2>3. Issuers'
    BY <2>1, <2>2, EndAlone
  <2>4. UNCHANGED <<token, device, certs, unearned>> /\ licence'.quota = q
        /\ licence'.status = licence.status /\ Fits(q)
    BY <1>17 DEF SetLimits, TypeOK
  <2>5. QuotaHeld'
    BY <2>4 DEF QuotaHeld, Fits, Active
  <2> QED
    BY <2>3, <2>4, <2>5 DEF Data, RevokedLicenceHasNoDevice, ActivationIsAtomic,
                            OnlineCertificatesAreEarned, Active
<1>18. ASSUME NEW k \in Conn, NEW q \in Quotas, RefuseLimits(k, q)
      PROVE  Issuers' /\ Data'
  <2>1. UNCHANGED <<licence, business, token, device, holder, certs, unearned>>
    BY <1>18 DEF RefuseLimits
  <2>2. conn'[k].issuing = "no" /\ \A j \in Conn \ {k} : conn'[j] = conn[j]
    BY <1>18 DEF RefuseLimits, Idle, TypeOK
  <2>3. Issuers'
    BY <2>1, <2>2, Kept
  <2> QED
    BY <2>1, <2>3, Quiet
<1>19. ASSUME NEW k \in Conn, NEW s \in {"active", "suspended", "inactive"}, SetStatus(k, s)
      PROVE  Issuers' /\ Data'
  <2>1. End(k)
    BY <1>19 DEF SetStatus
  <2>2. holder["licence"] = k
    BY <1>19, LicenceLock DEF SetStatus, Holds
  <2>3. Issuers'
    BY <2>1, <2>2, EndAlone
  <2>4. /\ UNCHANGED <<business, token, device, certs, unearned>>
        /\ licence'.quota = licence.quota /\ licence'.status # "revoked"
    BY <1>19 DEF SetStatus, TypeOK
  <2> QED
    BY <2>3, <2>4, Quiet
<1>20. ASSUME NEW k \in Conn, NEW s \in {"active", "suspended", "inactive"}, UpdateBusiness(k, s)
      PROVE  Issuers' /\ Data'
  <2>1. End(k)
    BY <1>20 DEF UpdateBusiness
  <2>2. holder["business"] = k
    BY <1>20, BusinessLock DEF UpdateBusiness, Holds
  <2>3. Issuers'
    BY <2>1, <2>2, EndAlone
  <2>4. UNCHANGED <<licence, token, device, certs, unearned>>
    BY <1>20 DEF UpdateBusiness
  <2> QED
    BY <2>3, <2>4, Quiet
<1>21. ASSUME NEW k \in Conn, RevokeLicence(k)
      PROVE  Issuers' /\ Data'
  <2>1. End(k)
    BY <1>21 DEF RevokeLicence
  <2>2. holder["licence"] = k
    BY <1>21, LicenceLock DEF RevokeLicence, Holds
  <2>3. Issuers'
    BY <2>1, <2>2, EndAlone
  <2>4. /\ UNCHANGED <<token, certs, unearned>> /\ licence'.quota = licence.quota
        /\ device' = [i \in Inst |-> IF device[i] = "active" THEN "revoked" ELSE device[i]]
    BY <1>21 DEF RevokeLicence, TypeOK
  <2>5. Active(Inst)' = {} /\ Active(Desktop)' = {} /\ Active(Web)' = {}
    BY <2>4 DEF Active, Inst
  <2>6. QuotaHeld'
    BY <2>4, <2>5, FS_EmptySet DEF QuotaHeld, Fits, TypeOK, Quota
  <2>7. \A i \in Inst : device'[i] = "none" <=> device[i] = "none"
    BY <2>4
  <2>8. ActivationIsAtomic'
    BY <2>4, <2>7 DEF Data, ActivationIsAtomic, Inst
  <2> QED
    BY <2>3, <2>4, <2>5, <2>6, <2>8
    DEF Data, RevokedLicenceHasNoDevice, OnlineCertificatesAreEarned
<1>22. ASSUME NEW k \in Conn, Renew(k)
      PROVE  Issuers' /\ Data'
  <2>1. End(k)
    BY <1>22 DEF Renew
  <2>2. holder["licence"] = k
    BY <1>22, LicenceLock DEF Renew, Holds
  <2>3. Issuers'
    BY <2>1, <2>2, EndAlone
  <2>4. /\ UNCHANGED <<business, token, device, certs, unearned>>
        /\ licence'.quota = licence.quota /\ licence'.status # "revoked"
    BY <1>22 DEF Renew, TypeOK
  <2> QED
    BY <2>3, <2>4, Quiet
<1>23. ASSUME NEW t \in Token, TokenExpires(t)
      PROVE  Issuers' /\ Data'
  <2>1. UNCHANGED <<licence, business, device, holder, conn, certs, unearned>>
    BY <1>23 DEF TokenExpires
  <2>2. \A u \in Token : token'[u].state = "used" => token'[u] = token[u]
    BY <1>23 DEF TokenExpires, TypeOK
  <2>3. Issuers'
    BY <2>1 DEF Issuers, Issuer, Serving, SlotAvailable, Below, Active
  <2> QED
    BY <2>1, <2>2, <2>3, Quiet
<1>24. CASE UNCHANGED vars
  <2>1. Issuers'
    BY <1>24 DEF vars, Issuers, Issuer, Serving, SlotAvailable, Below, Active
  <2> QED
    BY <1>24, <2>1, Quiet DEF vars
<1> QED
  BY <1>1, <1>2, <1>3, <1>4, <1>5, <1>6, <1>7, <1>8, <1>9, <1>10, <1>11, <1>12, <1>13, <1>14, <1>15, <1>16, <1>17, <1>18, <1>19, <1>20, <1>21, <1>22, <1>23, <1>24 DEF Next

-----------------------------------------------------------------------------
(* Theorems *)

LEMMA Invariance == Spec => []IInv
<1>1. Init => IInv
  BY InitIInv
<1>2. IInv /\ [Next]_vars => IInv'
  BY Step
<1> QED
  BY <1>1, <1>2, PTL DEF Spec

\* Every state of the control plane is well typed.
THEOREM TypeCorrect == Spec => []TypeOK
<1>1. IInv => TypeOK
  BY DEF IInv
<1> QED
  BY <1>1, Invariance, PTL

\* However many requests register devices and change limits at once, the count
\* taken under the licence's lock stays true until the device is inserted.
THEOREM QuotaIsHeld == Spec => []QuotaHeld
<1>1. IInv => QuotaHeld
  BY DEF IInv
<1> QED
  BY <1>1, Invariance, PTL

\* Revoking a licence revokes every device, those being registered included.
THEOREM NoDeviceOfRevokedLicence == Spec => []RevokedLicenceHasNoDevice
<1>1. IInv => RevokedLicenceHasNoDevice
  BY DEF IInv
<1> QED
  BY <1>1, Invariance, PTL

\* A code is consumed, a device registered and a certificate recorded together.
THEOREM ActivationAtomicity == Spec => []ActivationIsAtomic
<1>1. IInv => ActivationIsAtomic
  BY DEF IInv
<1> QED
  BY <1>1, Invariance, PTL

\* The online routes certify nothing that was revoked before they committed.
THEOREM OnlineCertificates == Spec => []OnlineCertificatesAreEarned
<1>1. IInv => OnlineCertificatesAreEarned
  BY DEF IInv
<1> QED
  BY <1>1, Invariance, PTL

\* What was used or revoked stays so, whatever races for it.
THEOREM TokensEnd == Spec => TokensEndOnce
<1>1. TypeInv /\ [Next]_vars =>
        [\A t \in Token : token[t].state \in {"used", "dead"} => token'[t] = token[t]]_vars
  <2> SUFFICES ASSUME TypeInv, [Next]_vars, NEW t \in Token, token[t].state \in {"used", "dead"},
                      vars' # vars
               PROVE  token'[t] = token[t]
    OBVIOUS
  <2> USE DEF TypeInv, TypeOK
  <2>1. ASSUME UNCHANGED token PROVE token'[t] = token[t]
    BY <2>1
  <2>2. ASSUME NEW k \in Conn, Certify(k) PROVE token'[t] = token[t]
    BY <2>2, ActivationAssumption DEF Certify
  <2>3. ASSUME NEW k \in Conn, NEW i \in Inst, ActivateByGrant(k, i) PROVE token'[t] = token[t]
    BY <2>3 DEF ActivateByGrant
  <2>4. ASSUME NEW k \in Conn, NEW c \in Token,
               IssueCode(k, c) \/ IssueGrant(k, c) \/ Regenerate(k, c)
        PROVE  token'[t] = token[t]
    BY <2>4 DEF IssueCode, IssueGrant, Regenerate, LiveCodes
  <2>5. ASSUME NEW k \in Conn, RevokeCode(k) PROVE token'[t] = token[t]
    <3>1. CASE t # conn[k].token
      BY <2>5, <3>1 DEF RevokeCode
    <3>2. CASE t = conn[k].token
      <4>1. token[t].state = "dead" /\ token'[t] = [token[t] EXCEPT !.state = "dead"]
        BY <2>5, <3>2 DEF RevokeCode
      <4>2. token[t] \in [state : {"unissued", "live", "dead", "used"}, by : Inst \cup {NoOne}]
        OBVIOUS
      <4> QED
        BY <4>1, <4>2
    <3> QED
      BY <3>1, <3>2
  <2>6. ASSUME NEW u \in Token, TokenExpires(u) PROVE token'[t] = token[t]
    BY <2>6 DEF TokenExpires
  <2>7. CASE UNCHANGED vars
    BY <2>7
  <2>8. ASSUME NEW k \in Conn, NEW i \in Inst,
               \/ CheckActivate(k, i) \/ CheckValidate(k, i) \/ CheckOffline(k, i)
               \/ CheckLegacy(k, i) \/ SessionDevice(k, i)
        PROVE  UNCHANGED token
    BY <2>8 DEF CheckActivate, CheckValidate, CheckOffline, CheckLegacy, SessionDevice, IssueNext
  <2>9. ASSUME NEW k \in Conn, NEW q \in Quotas, SetLimits(k, q) \/ RefuseLimits(k, q)
        PROVE  UNCHANGED token
    BY <2>9 DEF SetLimits, RefuseLimits
  <2>10. ASSUME NEW k \in Conn, NEW s \in {"active", "suspended", "inactive"},
                SetStatus(k, s) \/ UpdateBusiness(k, s)
         PROVE  UNCHANGED token
    BY <2>10 DEF SetStatus, UpdateBusiness
  <2>11. ASSUME NEW k \in Conn,
                \/ Acquire(k) \/ Rollback(k) \/ Evict(k) \/ RevokeDevice(k)
                \/ RevokeLicence(k) \/ Renew(k)
         PROVE  UNCHANGED token
    BY <2>11 DEF Acquire, Rollback, Evict, RevokeDevice, RevokeLicence, Renew
  <2>12. ASSUME NEW k \in Conn, NEW req \in Request, NEW u \in Token \cup {NoOne},
                NEW i \in Inst \cup {NoOne}, Begin(k, req, u, i)
         PROVE  UNCHANGED token
    BY <2>12 DEF Begin
  <2> QED
    BY <2>1, <2>2, <2>3, <2>4, <2>5, <2>6, <2>7, <2>8, <2>9, <2>10, <2>11, <2>12 DEF Next
<1>2. Spec => []TypeInv
  BY InitType, TypeStep, PTL DEF Spec
<1> QED
  BY <1>1, <1>2, PTL DEF Spec, TokensEndOnce

===============================================================================
