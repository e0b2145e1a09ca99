------------------------------ MODULE Activation ------------------------------
(***************************************************************************)
(* One commercial licence in the control-plane database: its activation    *)
(* codes and grants, its devices and their quota, its certificates, and    *)
(* the operator's routes that change them (apps/api/src/license).          *)
(*                                                                         *)
(* A request runs on one pooled connection in one transaction.  The model  *)
(* keeps the row locks of PostgreSQL: a request locks its rows one at a    *)
(* time in the order of its FOR UPDATE clause, reads what they protect,    *)
(* and commits or rolls back.  Everything the locks do not protect may     *)
(* change between two steps.                                               *)
(***************************************************************************)
EXTENDS Naturals, FiniteSets

CONSTANTS
    Conn,       \* connections of the control-plane pool
    Desktop,    \* installation ids of Desktops
    Web,        \* installation ids of browsers, PWAs and phones
    Code,       \* one-time Desktop activation codes
    Grant,      \* provisioning activation grants
    Quotas,     \* the limits an operator may choose
    NoOne       \* SQL's null

Inst == Desktop \cup Web
Token == Code \cup Grant

ASSUME ActivationAssumption ==
    /\ IsFiniteSet(Inst)
    /\ Desktop \cap Web = {} /\ Code \cap Grant = {} /\ Token \cap Inst = {}
    /\ {"licence", "business"} \cap (Token \cup Inst) = {}
    /\ NoOne \notin Conn \cup Token \cup Inst \cup Nat \cup {"licence", "business"}
    /\ Quotas # {}
    /\ Quotas \subseteq [total : Nat, desktop : Nat \cup {NoOne}, web : Nat \cup {NoOne}]

VARIABLES
    licence,    \* row of licenses: its status and its quota
    business,   \* vendor_businesses.status, suspended and closed being one
    token,      \* license_activation_codes and provisioning_activation_grants,
                \* "dead" when revoked or expired
    device,     \* license_devices.status, "none" without a row
    holder,     \* which connection holds each row lock
    conn,       \* what each connection is doing
    certs,      \* installations with an approved certificate in license_activations
    unearned    \* history: routes that certified what was no longer entitled

vars == <<licence, business, token, device, holder, conn, certs, unearned>>

-----------------------------------------------------------------------------
(* Types *)

Row == Token \cup Inst \cup {"licence", "business"}

\* The kinds of transaction, told apart by the rows they lock first.
Request == {"activate", "grant", "licensed", "regenerate", "licence", "token",
            "device", "business"}

\* The routes that sign a certificate.
Route == {"activate", "validate", "offline", "legacy"}

Quota == [total : Nat, desktop : Nat \cup {NoOne}, web : Nat \cup {NoOne}]

Transaction ==
    [req : Request \cup {"idle"}, token : Token \cup {NoOne},
     inst : Inst \cup {NoOne}, issuing : Route \cup {"no"}]

Idle == [req |-> "idle", token |-> NoOne, inst |-> NoOne, issuing |-> "no"]

TypeOK ==
    /\ licence \in [status : {"active", "suspended", "revoked"},
                    quota : Quota]
    /\ business \in {"active", "inactive"}
    /\ token \in [Token -> [state : {"unissued", "live", "dead", "used"},
                            by : Inst \cup {NoOne}]]
    /\ device \in [Inst -> {"none", "active", "revoked"}]
    /\ holder \in [Row -> Conn \cup {NoOne}]
    /\ conn \in [Conn -> Transaction]
    /\ certs \subseteq Inst
    /\ unearned \subseteq Route

Init ==
    /\ licence \in [status : {"active"}, quota : Quotas]
    /\ business = "active"
    /\ token = [t \in Token |-> [state |-> "unissued", by |-> NoOne]]
    /\ device = [i \in Inst |-> "none"]
    /\ holder = [r \in Row |-> NoOne]
    /\ conn = [k \in Conn |-> Idle]
    /\ certs = {}
    /\ unearned = {}

-----------------------------------------------------------------------------
(* Row locks and transactions *)

\* Mutant: the activation locks only its code.
LocksOfCode(q) ==
    ({q.token, q.inst} \ {NoOne})
    \cup {r \in {"licence", "business"} :
            q.req \in {"grant", "licensed", "regenerate"} \/ q.req = r}

\* Mutant: the operator's routes read the licence without a lock.
LocksNoLicence(q) ==
    ({q.token, q.inst} \ {NoOne})
    \cup {r \in {"licence", "business"} :
            q.req \in {"activate", "grant", "licensed", "regenerate"}}

\* The rows of a request's FOR UPDATE clause, and the device it updates.
Locks(q) ==
    ({q.token, q.inst} \ {NoOne})
    \cup {r \in {"licence"} :
            q.req \in {"activate", "grant", "licensed", "regenerate", "licence"}}
    \cup {r \in {"business"} :
            q.req \in {"activate", "grant", "licensed", "regenerate", "business"}}

\* Every clause names the token before the licence before the business.
Rank(r) == CASE r \in Token -> 0
             [] r = "licence" -> 1
             [] r = "business" -> 2
             [] OTHER -> 3

First(S) == {r \in S : \A s \in S : Rank(r) <= Rank(s)}

Pending(k) == {r \in Locks(conn[k]) : holder[r] # k}

LiveCodes == {c \in Code : token[c].state = "live"}

\* The rows a connection waits for.  Regenerating is the one request that
\* reaches codes after the licence, in the update of the unused ones.
Wanted(k) ==
    IF Pending(k) # {} THEN First(Pending(k))
    ELSE {c \in LiveCodes : conn[k].req = "regenerate" /\ holder[c] # k}

\* BEGIN and the first row lock; a request still waiting for its first lock is
\* not told apart from one that has not come.
Begin(k, req, t, i) ==
    /\ conn[k] = Idle
    /\ \/ req \in {"licensed", "regenerate", "licence", "business"} /\ t = NoOne /\ i = NoOne
       \/ req \in {"activate", "token"} /\ t \in Code /\ i = NoOne
       \/ req = "grant" /\ t \in Grant /\ i = NoOne
       \/ req = "device" /\ t = NoOne /\ i \in Inst
    /\ LET q == [req |-> req, token |-> t, inst |-> i, issuing |-> "no"]
           needed == {r \in Locks(q) : holder[r] # k}
       IN /\ conn' = [conn EXCEPT ![k] = q]
          /\ \/ /\ needed = {}
                /\ UNCHANGED holder
             \/ \E r \in First(needed) :
                /\ holder[r] = NoOne
                /\ holder' = [holder EXCEPT ![r] = k]
    /\ UNCHANGED <<licence, business, token, device, certs, unearned>>

Acquire(k) ==
    /\ \E r \in Wanted(k) :
        /\ holder[r] = NoOne
        /\ holder' = [holder EXCEPT ![r] = k]
    /\ UNCHANGED <<licence, business, token, device, conn, certs, unearned>>

\* COMMIT or ROLLBACK, then release of the connection.
End(k) ==
    /\ conn' = [conn EXCEPT ![k] = Idle]
    /\ holder' = [r \in Row |-> IF holder[r] = k THEN NoOne ELSE holder[r]]

\* Every way a transaction fails: a refused check, a lost database, a deadlock
\* PostgreSQL resolves by aborting one side, no second connection within 5 s.
Rollback(k) ==
    /\ conn[k] # Idle
    /\ End(k)
    /\ UNCHANGED <<licence, business, token, device, certs, unearned>>

\* The pool closes a connection that was idle for 30 s; PostgreSQL rolls back
\* what was left open on it.
Evict(k) ==
    /\ conn[k] = Idle
    /\ \E r \in Row : holder[r] = k
    /\ End(k)
    /\ UNCHANGED <<licence, business, token, device, certs, unearned>>

\* A request of this kind holds all the rows it asked for.
Holds(k, req) == conn[k].req = req /\ conn[k].issuing = "no" /\ Pending(k) = {}

-----------------------------------------------------------------------------
(* What the handlers check *)

\* A licence past its expires_at, a signature, fingerprint, nonce or lifecycle
\* stage that does not fit: such a request rolls back, as it may in any state.
Serving == licence.status = "active" /\ business = "active"

Active(S) == {i \in S : device[i] = "active"}

Below(n, limit) == limit # NoOne => n < limit

SlotAvailable(i) ==
    /\ Cardinality(Active(Inst)) < licence.quota.total
    /\ i \in Desktop => Below(Cardinality(Active(Desktop)), licence.quota.desktop)
    /\ i \in Web => Below(Cardinality(Active(Web)), licence.quota.web)

\* A known device must be active, a new one needs a slot.
Registrable(i) ==
    /\ device[i] # "revoked"
    /\ device[i] = "none" => SlotAvailable(i)

\* Insert of a new device, or update of what a known one last reported.
Registered(i) == [device EXCEPT ![i] = IF @ = "none" THEN "active" ELSE @]

Fits(q) ==
    /\ Cardinality(Active(Inst)) <= q.total
    /\ q.desktop # NoOne => Cardinality(Active(Desktop)) <= q.desktop
    /\ q.web # NoOne => Cardinality(Active(Web)) <= q.web

\* The select of the device row FOR UPDATE, which waits for its lock.
LockDevice(k, i) ==
    /\ holder[i] \in {NoOne, k}
    /\ holder' = [holder EXCEPT ![i] = k]

IssueNext(k, i, route) ==
    /\ conn' = [conn EXCEPT ![k] = [@ EXCEPT !.inst = i, !.issuing = route]]
    /\ UNCHANGED <<licence, business, token, device, certs, unearned>>

-----------------------------------------------------------------------------
(* Devices *)

\* Mutant: the device is committed before its certificate.
CheckActivateEarly(k, i) ==
    /\ Holds(k, "activate")
    /\ i \in Desktop
    /\ token[conn[k].token].state = "live" /\ Serving /\ Registrable(i)
    /\ LockDevice(k, i)
    /\ device' = Registered(i)
    /\ conn' = [conn EXCEPT ![k] = [@ EXCEPT !.inst = i, !.issuing = "activate"]]
    /\ UNCHANGED <<licence, business, token, certs, unearned>>

\* POST /api/license/device-activate up to the certificate
CheckActivate(k, i) ==
    /\ Holds(k, "activate")
    /\ i \in Desktop
    /\ token[conn[k].token].state = "live"
    /\ Serving
    /\ Registrable(i)
    /\ LockDevice(k, i)
    /\ IssueNext(k, i, "activate")

\* Mutant: the device is read without FOR UPDATE.
CheckValidateUnlocked(k, i) ==
    /\ Holds(k, "licensed")
    /\ i \in Desktop /\ Serving /\ device[i] = "active" /\ i \in certs
    /\ IssueNext(k, i, "validate")
    /\ UNCHANGED holder

\* POST /api/license/device-validate
CheckValidate(k, i) ==
    /\ Holds(k, "licensed")
    /\ i \in Desktop
    /\ Serving
    /\ device[i] = "active"
    /\ i \in certs
    /\ LockDevice(k, i)
    /\ IssueNext(k, i, "validate")

\* POST /api/vendor/offline-activations/issue: the device is read without a
\* lock; the update that follows waits for one.
CheckOffline(k, i) ==
    /\ Holds(k, "licensed")
    /\ i \in Desktop
    /\ Serving
    /\ licence.quota.desktop # 0
    /\ Registrable(i)
    /\ IssueNext(k, i, "offline")
    /\ UNCHANGED holder

\* POST /api/internal/license/activate-legacy
CheckLegacy(k, i) ==
    /\ Holds(k, "licensed")
    /\ i \in Web
    /\ Serving
    /\ Registrable(i)
    /\ LockDevice(k, i)
    /\ IssueNext(k, i, "legacy")

\* issue() reads the runtime Business over a second connection while the first
\* one holds its locks; then the code is consumed if it is still live, and the
\* transaction commits.
Certify(k) ==
    LET q == conn[k] IN
    /\ q.issuing # "no"
    /\ Pending(k) = {}
    /\ \E other \in Conn : conn[other] = Idle
    /\ q.token # NoOne => token[q.token].state = "live"
    /\ token' = [t \in Token |-> IF t = q.token THEN [state |-> "used", by |-> q.inst]
                                 ELSE token[t]]
    /\ device' = Registered(q.inst)
    /\ certs' = certs \cup {q.inst}
    /\ unearned' = IF Serving /\ device'[q.inst] = "active" THEN unearned
                   ELSE unearned \cup {q.issuing}
    /\ End(k)
    /\ UNCHANGED <<licence, business>>

\* Login of a browser or phone, and the session heartbeat
SessionDevice(k, i) ==
    /\ Holds(k, "licensed")
    /\ i \in Web
    /\ Serving
    /\ Registrable(i)
    /\ holder[i] \in {NoOne, k}
    /\ device' = Registered(i)
    /\ End(k)
    /\ UNCHANGED <<licence, business, token, certs, unearned>>

\* POST /api/provision/activate-device
ActivateByGrant(k, i) ==
    /\ Holds(k, "grant")
    /\ i \in Web /\ device[i] = "none"
    /\ token[conn[k].token].state = "live"
    /\ Serving
    /\ SlotAvailable(i)
    /\ device' = Registered(i)
    /\ token' = [token EXCEPT ![conn[k].token] = [state |-> "used", by |-> i]]
    /\ End(k)
    /\ UNCHANGED <<licence, business, certs, unearned>>

RevokeDevice(k) ==
    /\ Holds(k, "device")
    /\ device[conn[k].inst] # "none"
    /\ device' = [device EXCEPT ![conn[k].inst] = "revoked"]
    /\ End(k)
    /\ UNCHANGED <<licence, business, token, certs, unearned>>

-----------------------------------------------------------------------------
(* Codes and grants *)

IssueCode(k, c) ==
    /\ Holds(k, "licensed")
    /\ c \in Code /\ token[c].state = "unissued"
    /\ Serving
    /\ token' = [token EXCEPT ![c].state = "live"]
    /\ End(k)
    /\ UNCHANGED <<licence, business, device, certs, unearned>>

\* The end of POST /api/provision in database_per_tenant mode
IssueGrant(k, g) ==
    /\ Holds(k, "licensed")
    /\ g \in Grant /\ token[g].state = "unissued"
    /\ Serving
    /\ token' = [token EXCEPT ![g].state = "live"]
    /\ End(k)
    /\ UNCHANGED <<licence, business, device, certs, unearned>>

Regenerate(k, c) ==
    /\ Holds(k, "regenerate")
    /\ \A d \in LiveCodes : holder[d] = k
    /\ c \in Code /\ token[c].state = "unissued"
    /\ Serving
    /\ token' = [t \in Token |->
                   IF t = c THEN [token[t] EXCEPT !.state = "live"]
                   ELSE IF t \in LiveCodes THEN [token[t] EXCEPT !.state = "dead"]
                   ELSE token[t]]
    /\ End(k)
    /\ UNCHANGED <<licence, business, device, certs, unearned>>

\* Mutant: a consumed code may be revoked.
RevokeAnyCode(k) ==
    /\ Holds(k, "token")
    /\ token[conn[k].token].state # "unissued"
    /\ token' = [token EXCEPT ![conn[k].token].state = "dead"]
    /\ End(k)
    /\ UNCHANGED <<licence, business, device, certs, unearned>>

RevokeCode(k) ==
    /\ Holds(k, "token")
    /\ token[conn[k].token].state \in {"live", "dead"}
    /\ token' = [token EXCEPT ![conn[k].token].state = "dead"]
    /\ End(k)
    /\ UNCHANGED <<licence, business, device, certs, unearned>>

-----------------------------------------------------------------------------
(* The licence and the business *)

SetLimits(k, q) ==
    /\ Holds(k, "licence")
    /\ q \in Quotas /\ Fits(q)
    /\ licence' = [licence EXCEPT !.quota = q]
    /\ End(k)
    /\ UNCHANGED <<business, token, device, certs, unearned>>

\* The refusal of a limit below current usage returns without a rollback: the
\* connection goes back to the pool with its transaction open.
RefuseLimits(k, q) ==
    /\ Holds(k, "licence")
    /\ q \in Quotas /\ ~Fits(q)
    /\ conn' = [conn EXCEPT ![k] = Idle]
    /\ UNCHANGED <<licence, business, token, device, holder, certs, unearned>>

\* Suspend and reactivate
SetStatus(k, status) ==
    /\ Holds(k, "licence")
    /\ status \in {"active", "suspended"}
    /\ status = "active" => licence.status # "revoked"
    /\ licence' = [licence EXCEPT !.status = status]
    /\ End(k)
    /\ UNCHANGED <<business, token, device, certs, unearned>>

RevokeLicence(k) ==
    /\ Holds(k, "licence")
    /\ \A i \in Active(Inst) : holder[i] \in {NoOne, k}
    /\ licence' = [licence EXCEPT !.status = "revoked"]
    /\ device' = [i \in Inst |-> IF device[i] = "active" THEN "revoked" ELSE device[i]]
    /\ End(k)
    /\ UNCHANGED <<business, token, certs, unearned>>

Renew(k) ==
    /\ Holds(k, "licence")
    /\ licence' = [licence EXCEPT !.status = "active"]
    /\ End(k)
    /\ UNCHANGED <<business, token, device, certs, unearned>>

UpdateBusiness(k, status) ==
    /\ Holds(k, "business")
    /\ status \in {"active", "inactive"}
    /\ business' = status
    /\ End(k)
    /\ UNCHANGED <<licence, token, device, certs, unearned>>

-----------------------------------------------------------------------------
(* Time *)

\* expires_at is compared with now(), when the transaction began: a code that
\* expires under the transaction that locked it is refused or still consumed.
TokenExpires(t) ==
    /\ token[t].state = "live"
    /\ holder[t] = NoOne
    /\ token' = [token EXCEPT ![t].state = "dead"]
    /\ UNCHANGED <<licence, business, device, holder, conn, certs, unearned>>

-----------------------------------------------------------------------------

Next ==
    \/ \E k \in Conn :
        \/ \E req \in Request, t \in Token \cup {NoOne}, i \in Inst \cup {NoOne} :
             Begin(k, req, t, i)
        \/ Acquire(k) \/ Rollback(k) \/ Evict(k)
        \/ \E i \in Inst :
             \/ CheckActivate(k, i) \/ CheckValidate(k, i)
             \/ CheckOffline(k, i) \/ CheckLegacy(k, i)
             \/ SessionDevice(k, i) \/ ActivateByGrant(k, i)
        \/ Certify(k) \/ RevokeDevice(k)
        \/ \E t \in Token : IssueCode(k, t) \/ IssueGrant(k, t) \/ Regenerate(k, t)
        \/ RevokeCode(k)
        \/ \E q \in Quotas : SetLimits(k, q) \/ RefuseLimits(k, q)
        \/ \E s \in {"active", "suspended", "inactive"} : SetStatus(k, s) \/ UpdateBusiness(k, s)
        \/ RevokeLicence(k) \/ Renew(k)
    \/ \E t \in Token : TokenExpires(t)

Spec == Init /\ [][Next]_vars

-----------------------------------------------------------------------------
(* Properties *)

\* A licence never has more active devices than it sells, in total and for each
\* channel, although the count is read before a device is inserted and several
\* routes insert (assertDeviceSlotAvailable, device-limits).
QuotaHeld == Fits(licence.quota)

\* No active device survives the revocation of its licence: none is registered
\* by a request that read the licence before it was revoked.
RevokedLicenceHasNoDevice == licence.status = "revoked" => Active(Inst) = {}

\* A Desktop occupies a slot exactly when a certificate was committed for it, and
\* a used code or grant names a registered device of its channel: consuming a
\* code, registering the device and certifying it are one unit.
ActivationIsAtomic ==
    /\ \A i \in Desktop : device[i] # "none" <=> i \in certs
    /\ \A t \in Token : token[t].state = "used" =>
         /\ token[t].by \in IF t \in Code THEN Desktop ELSE Web
         /\ device[token[t].by] # "none"

\* The online routes certify only a device that is active, of a licence and
\* business that are served, at the moment they commit: whoever revokes first
\* wins.  The offline route reads the device without a lock and is excepted.
OnlineCertificatesAreEarned == unearned \subseteq {"offline"}

\* A used code stays with its device and a revoked one is never used, whichever
\* of activation, revocation, regeneration and expiry race for it.
TokensEndOnce ==
    [][\A t \in Token : token[t].state \in {"used", "dead"} => token'[t] = token[t]]_vars

===============================================================================
