----------------------------- MODULE Provisioning -----------------------------
(***************************************************************************)
(* How a Vendor Business gets its workspace: onboarding requests, attempts *)
(* to prepare a business (apps/api/src/saas) that may overlap, fail and be *)
(* retried, the tenant databases they create, and the legacy recovery with *)
(* a provisioning key.                                                     *)
(*                                                                         *)
(* A handler's statements outside a transaction, and its transactions, are *)
(* one step each; between two steps other handlers act and the API process *)
(* may restart.  Every transaction of the control plane begins by locking  *)
(* the Vendor Business, so that it is one step; only a recovery keeps this *)
(* lock while it works in another database.                                *)
(***************************************************************************)
EXTENDS Naturals

CONSTANTS
    Proc,       \* handlers that may run at once
    Key,        \* idempotency keys of onboarding requests
    Biz,        \* Vendor Business ids
    Legacy,     \* businesses that may be older than onboarding
    Name,       \* business names, one database name each
    Owner,      \* e-mail addresses of owners
    Files,      \* tenant migrations
    Modes,      \* values of SAAS_TENANCY_MODE to consider
    MaxFaults,  \* a bound: how many steps fail or are cut short
    NoOne       \* SQL's null

ASSUME ProvisioningAssumption ==
    /\ Legacy \subseteq Biz
    /\ Files \in Nat \ {0}
    /\ Modes \subseteq {"shared", "database_per_tenant"}
    /\ MaxFaults \in Nat
    /\ NoOne \notin Biz \cup Name \cup Owner \cup Key

VARIABLES
    mode,       \* config.SAAS_TENANCY_MODE
    request,    \* vendor_business_onboarding_requests
    vendor,     \* vendor_businesses: status and name
    recipe,     \* vendor_business_provisioning
    tenant,     \* saas_tenants
    runtime,    \* Vendor Businesses with a row in the control plane's businesses
    licences,   \* how many licences a Vendor Business has
    bound,      \* Vendor Businesses whose runtime is in business_licenses
    database,   \* tenant databases; in shared mode the rows of the runtime
    credential, \* the newest provisioning key of a business
    proc,       \* the handlers
    faults      \* steps that have failed

vars == <<mode, request, vendor, recipe, tenant, runtime, licences, bound,
          database, credential, proc, faults>>

-----------------------------------------------------------------------------
(* Types *)

Setup == [name : Name, owner : Owner]

\* Where a handler is: what it does next.
Stage == {"idle", "onboard", "begin", "reset", "register", "create", "creating", "migrate",
          "apply", "seed", "complete", "read", "consume", "failRecipe", "failTenant"}

Handler ==
    [pc : Stage, recovers : BOOLEAN, key : Key \cup {NoOne}, biz : Biz \cup {NoOne},
     setup : Setup \cup {NoOne}, file : 1 .. Files + 1]

Idle == [pc |-> "idle", recovers |-> FALSE, key |-> NoOne, biz |-> NoOne,
         setup |-> NoOne, file |-> 1]

NoRecipe == [st |-> "none", setup |-> NoOne, error |-> FALSE]

NoDatabase == [exists |-> FALSE, files |-> 0, owner |-> NoOne]

TypeOK ==
    /\ mode \in Modes
    /\ request \in [Key -> [setup : Setup \cup {NoOne}, biz : Biz \cup {NoOne}]]
    /\ vendor \in [Biz -> [st : {"none", "active", "inactive"}, name : Name \cup {NoOne}]]
    /\ recipe \in [Biz -> [st : {"none", "open", "completed"},
                           setup : Setup \cup {NoOne}, error : BOOLEAN]]
    /\ tenant \in [Biz -> [st : {"none", "provisioning", "error", "active"},
                           name : Name \cup {NoOne}]]
    /\ runtime \subseteq Biz
    /\ licences \in [Biz -> Nat]
    /\ bound \subseteq Biz
    /\ database \in [Biz \X Name -> [exists : BOOLEAN, files : 0 .. Files,
                                     owner : Owner \cup {NoOne}]]
    /\ credential \in [Biz -> {"none", "live", "consumed"}]
    /\ proc \in [Proc -> Handler]
    /\ faults \in 0 .. MaxFaults

Init ==
    /\ mode \in Modes
    /\ request = [k \in Key |-> [setup |-> NoOne, biz |-> NoOne]]
    /\ vendor \in [Biz -> [st : {"none", "active"}, name : Name \cup {NoOne}]]
    /\ \A b \in Biz : /\ vendor[b].st = "active" => b \in Legacy
                      /\ vendor[b].st = "active" <=> vendor[b].name # NoOne
    /\ recipe = [b \in Biz |-> NoRecipe]
    /\ tenant = [b \in Biz |-> [st |-> "none", name |-> NoOne]]
    /\ runtime = {}
    /\ licences = [b \in Biz |-> IF vendor[b].st = "active" THEN 1 ELSE 0]
    /\ bound = {}
    /\ database = [d \in Biz \X Name |-> NoDatabase]
    /\ credential = [b \in Biz |-> "none"]
    /\ proc = [p \in Proc |-> Idle]
    /\ faults = 0

-----------------------------------------------------------------------------
(* Handlers *)

At(p, stage) == proc[p].pc = stage

Goto(p, stage) == proc' = [proc EXCEPT ![p].pc = stage]

Done(p) == proc' = [proc EXCEPT ![p] = Idle]

\* Mutant: the database is named after the name the business has now.
TargetOfVendor(p) == <<proc[p].biz, vendor[proc[p].biz].name>>

\* The database a handler works on, named after the setup it was given.
Target(p) == <<proc[p].biz, proc[p].setup.name>>

\* A recovery holds the rows of its key, licence and Vendor Business from its
\* first statement to its commit.
Locked(b) == \E p \in Proc : proc[p].recovers /\ proc[p].biz = b

\* Whatever fails inside the try block of an attempt leads to its catch block;
\* a recovery rolls back and releases its locks.
Failed(p) == IF proc[p].recovers THEN Done(p) ELSE Goto(p, "failRecipe")

Fail(p) ==
    /\ proc[p].pc \in {"register", "create", "creating", "migrate", "apply", "seed",
                       "complete", "read", "consume"}
    /\ Failed(p)
    /\ faults < MaxFaults
    /\ faults' = faults + 1
    /\ UNCHANGED <<mode, request, vendor, recipe, tenant, runtime, licences, bound,
                   database, credential>>

\* The API process restarts, or the database stays away until the handler has
\* given up on recording the failure too.
Crash(p) ==
    /\ ~At(p, "idle")
    /\ Done(p)
    /\ faults < MaxFaults
    /\ faults' = faults + 1
    /\ UNCHANGED <<mode, request, vendor, recipe, tenant, runtime, licences, bound,
                   database, credential>>

-----------------------------------------------------------------------------
(* POST /api/vendor/onboarding *)

\* Mutant: a duplicate does not wait for the key.
ClaimAtOnce(p, k, s) ==
    /\ At(p, "idle")
    /\ request[k].biz = NoOne
    /\ proc' = [proc EXCEPT ![p] = [Idle EXCEPT !.pc = "onboard", !.key = k, !.setup = s]]
    /\ UNCHANGED <<mode, request, vendor, recipe, tenant, runtime, licences, bound,
                   database, credential, faults>>

\* The key is inserted first: a duplicate waits for the transaction that
\* inserted it, and is answered from the committed row if there is one.
Claim(p, k, s) ==
    /\ At(p, "idle")
    /\ request[k].biz = NoOne
    /\ \A q \in Proc : At(q, "onboard") => proc[q].key # k
    /\ proc' = [proc EXCEPT ![p] = [Idle EXCEPT !.pc = "onboard", !.key = k, !.setup = s]]
    /\ UNCHANGED <<mode, request, vendor, recipe, tenant, runtime, licences, bound,
                   database, credential, faults>>

\* Customer, business, recipe and key are committed together; then the first
\* attempt begins.
CommitOnboarding(p, b) ==
    LET s == proc[p].setup IN
    /\ At(p, "onboard")
    /\ vendor[b].st = "none"
    /\ request' = [request EXCEPT ![proc[p].key] = [setup |-> s, biz |-> b]]
    /\ vendor' = [vendor EXCEPT ![b] = [st |-> "active", name |-> s.name]]
    /\ recipe' = [recipe EXCEPT ![b] = [st |-> "open", setup |-> s, error |-> FALSE]]
    /\ proc' = [proc EXCEPT ![p].pc = "begin", ![p].biz = b]
    /\ UNCHANGED <<mode, tenant, runtime, licences, bound, database, credential, faults>>

-----------------------------------------------------------------------------
(* provisionVendorBusiness *)

\* POST /api/vendor/businesses/:id/provision/retry
Retry(p, b) ==
    /\ At(p, "idle")
    /\ recipe[b].st # "none"
    /\ vendor[b].st = "active"
    /\ proc' = [proc EXCEPT ![p] = [Idle EXCEPT !.pc = "reset", !.biz = b,
                                                !.setup = recipe[b].setup]]
    /\ UNCHANGED <<mode, request, vendor, recipe, tenant, runtime, licences, bound,
                   database, credential, faults>>

\* The first attempt reads the business again.
Begin(p) ==
    /\ At(p, "begin")
    /\ \/ vendor[proc[p].biz].st = "active" /\ Goto(p, "reset")
       \/ vendor[proc[p].biz].st # "active" /\ Done(p)
    /\ UNCHANGED <<mode, request, vendor, recipe, tenant, runtime, licences, bound,
                   database, credential, faults>>

\* last_error_code is cleared before the attempt.
Reset(p) ==
    /\ At(p, "reset")
    /\ recipe' = [recipe EXCEPT ![proc[p].biz].error = FALSE]
    /\ Goto(p, IF mode = "shared" THEN "seed" ELSE "register")
    /\ UNCHANGED <<mode, request, vendor, tenant, runtime, licences, bound, database,
                   credential, faults>>

\* The upsert of saas_tenants keeps an active tenant and the name it has.
Register(p) ==
    LET b == proc[p].biz IN
    /\ At(p, "register")
    /\ tenant' = [tenant EXCEPT
                    ![b] = [st |-> IF @.st = "active" THEN "active" ELSE "provisioning",
                            name |-> IF @.st = "none" THEN proc[p].setup.name ELSE @.name]]
    /\ Goto(p, "create")
    /\ UNCHANGED <<mode, request, vendor, recipe, runtime, licences, bound, database,
                   credential, faults>>

\* ensureTenantDatabase looks in pg_database and creates what it did not find.
CheckDatabase(p) ==
    /\ At(p, "create")
    /\ Goto(p, IF database[Target(p)].exists THEN "migrate" ELSE "creating")
    /\ UNCHANGED <<mode, request, vendor, recipe, tenant, runtime, licences, bound,
                   database, credential, faults>>

CreateDatabase(p) ==
    /\ At(p, "creating")
    /\ \/ /\ ~database[Target(p)].exists
          /\ database' = [database EXCEPT ![Target(p)].exists = TRUE]
          /\ Goto(p, "migrate")
       \/ /\ database[Target(p)].exists
          /\ Failed(p)
          /\ UNCHANGED database
    /\ UNCHANGED <<mode, request, vendor, recipe, tenant, runtime, licences, bound,
                   credential, faults>>

\* Mutant: the last file is left out.
CheckFileEarly(p) ==
    /\ At(p, "migrate")
    /\ \/ /\ proc[p].file >= Files
          /\ Goto(p, "seed")
       \/ /\ proc[p].file < Files /\ proc[p].file <= database[Target(p)].files
          /\ proc' = [proc EXCEPT ![p].file = @ + 1]
       \/ /\ database[Target(p)].files < proc[p].file /\ proc[p].file < Files
          /\ Goto(p, "apply")
    /\ UNCHANGED <<mode, request, vendor, recipe, tenant, runtime, licences, bound,
                   database, credential, faults>>

\* Mutant: one file too many.
CheckFileTooFar(p) ==
    /\ At(p, "migrate")
    /\ \/ /\ proc[p].file > Files + 1
          /\ Goto(p, "seed")
       \/ /\ proc[p].file <= database[Target(p)].files
          /\ proc' = [proc EXCEPT ![p].file = @ + 1]
       \/ /\ database[Target(p)].files < proc[p].file /\ proc[p].file <= Files + 1
          /\ Goto(p, "apply")
    /\ UNCHANGED <<mode, request, vendor, recipe, tenant, runtime, licences, bound,
                   database, credential, faults>>

\* Mutant: applied files are not looked up.
CheckFileUnrecorded(p) ==
    /\ At(p, "migrate")
    /\ \/ /\ proc[p].file > Files
          /\ Goto(p, "seed")
       \/ /\ proc[p].file <= Files
          /\ Goto(p, "apply")
    /\ UNCHANGED <<mode, request, vendor, recipe, tenant, runtime, licences, bound,
                   database, credential, faults>>

\* migrateTenantDatabase looks each file up and applies the missing ones, one
\* transaction each.
CheckFile(p) ==
    /\ At(p, "migrate")
    /\ \/ /\ proc[p].file > Files
          /\ Goto(p, "seed")
       \/ /\ proc[p].file <= database[Target(p)].files
          /\ proc' = [proc EXCEPT ![p].file = @ + 1]
       \/ /\ database[Target(p)].files < proc[p].file /\ proc[p].file <= Files
          /\ Goto(p, "apply")
    /\ UNCHANGED <<mode, request, vendor, recipe, tenant, runtime, licences, bound,
                   database, credential, faults>>

\* A file another attempt has applied meanwhile cannot be applied again.
ApplyFile(p) ==
    /\ At(p, "apply")
    /\ \/ /\ database[Target(p)].files < proc[p].file
          /\ database' = [database EXCEPT ![Target(p)].files = proc[p].file]
          /\ proc' = [proc EXCEPT ![p].pc = "migrate", ![p].file = @ + 1]
       \/ /\ database[Target(p)].files >= proc[p].file
          /\ Failed(p)
          /\ UNCHANGED database
    /\ UNCHANGED <<mode, request, vendor, recipe, tenant, runtime, licences, bound,
                   credential, faults>>

\* What is there already is kept, and an owner other than the requested one refused.
EnsureOwner(p) ==
    \/ /\ database[Target(p)].owner \in {NoOne, proc[p].setup.owner}
       /\ database' = [database EXCEPT ![Target(p)].owner = proc[p].setup.owner]
       /\ Goto(p, IF proc[p].recovers THEN "consume" ELSE "complete")
    \/ /\ database[Target(p)].owner \notin {NoOne, proc[p].setup.owner}
       /\ Failed(p)
       /\ UNCHANGED database

\* Business, branch, features and owner, in one transaction that excludes its like.
SeedTenant(p) ==
    /\ At(p, "seed")
    /\ mode = "database_per_tenant"
    /\ EnsureOwner(p)
    /\ UNCHANGED <<mode, request, vendor, recipe, tenant, runtime, licences, bound,
                   credential, faults>>

\* The same rows in the shared database, where a business already there is locked.
SeedShared(p) ==
    /\ At(p, "seed")
    /\ mode = "shared"
    /\ EnsureOwner(p)
    /\ runtime' = runtime \cup {proc[p].biz}
    /\ UNCHANGED <<mode, request, vendor, recipe, tenant, licences, bound, credential,
                   faults>>

\* Mutant: every completion inserts a licence.
CompleteNewLicence(p) ==
    LET b == proc[p].biz IN
    /\ At(p, "complete")
    /\ ~Locked(b)
    /\ vendor[b].st = "active"
    /\ licences' = [licences EXCEPT ![b] = @ + 1]
    /\ runtime' = runtime \cup {b}
    /\ tenant' = IF mode = "shared" THEN tenant ELSE [tenant EXCEPT ![b].st = "active"]
    /\ bound' = bound \cup {b}
    /\ recipe' = [recipe EXCEPT ![b].st = "completed", ![b].error = FALSE]
    /\ Goto(p, "read")
    /\ UNCHANGED <<mode, request, vendor, database, credential, faults>>

\* The last transaction: licence, shadow business, tenant, binding and recipe.
Complete(p) ==
    LET b == proc[p].biz IN
    /\ At(p, "complete")
    /\ ~Locked(b)
    /\ vendor[b].st = "active"
    /\ licences' = [licences EXCEPT ![b] = IF @ = 0 THEN 1 ELSE @]
    /\ runtime' = runtime \cup {b}
    /\ tenant' = IF mode = "shared" THEN tenant ELSE [tenant EXCEPT ![b].st = "active"]
    /\ bound' = bound \cup {b}
    /\ recipe' = [recipe EXCEPT ![b].st = "completed", ![b].error = FALSE]
    /\ Goto(p, "read")
    /\ UNCHANGED <<mode, request, vendor, database, credential, faults>>

\* A business deactivated meanwhile is not completed.
RefuseInactive(p) ==
    /\ At(p, "complete")
    /\ ~Locked(proc[p].biz)
    /\ vendor[proc[p].biz].st # "active"
    /\ Failed(p)
    /\ UNCHANGED <<mode, request, vendor, recipe, tenant, runtime, licences, bound,
                   database, credential, faults>>

\* The lifecycle is read after the commit, still inside the try block.
ReadLifecycle(p) ==
    /\ At(p, "read")
    /\ Done(p)
    /\ UNCHANGED <<mode, request, vendor, recipe, tenant, runtime, licences, bound,
                   database, credential, faults>>

\* The catch block: the recipe first, the tenant unless it is active.
FailRecipe(p) ==
    /\ At(p, "failRecipe")
    /\ recipe' = [recipe EXCEPT ![proc[p].biz].error = TRUE]
    /\ IF mode = "shared" THEN Done(p) ELSE Goto(p, "failTenant")
    /\ UNCHANGED <<mode, request, vendor, tenant, runtime, licences, bound, database,
                   credential, faults>>

\* Mutant: the failure is written over an active tenant.
FailTenantActive(p) ==
    /\ At(p, "failTenant")
    /\ tenant' = [tenant EXCEPT ![proc[p].biz].st =
                    IF @ = "none" THEN @ ELSE "error"]
    /\ Done(p)
    /\ UNCHANGED <<mode, request, vendor, recipe, runtime, licences, bound, database,
                   credential, faults>>

FailTenant(p) ==
    /\ At(p, "failTenant")
    /\ tenant' = [tenant EXCEPT ![proc[p].biz].st =
                    IF @ \in {"none", "active"} THEN @ ELSE "error"]
    /\ Done(p)
    /\ UNCHANGED <<mode, request, vendor, recipe, runtime, licences, bound, database,
                   credential, faults>>

-----------------------------------------------------------------------------
(* Legacy recovery: provisioning keys and POST /api/provision *)

\* A new key revokes the unused ones.
IssueKey(b) ==
    /\ ~Locked(b)
    /\ vendor[b].st = "active" /\ licences[b] > 0 /\ b \notin runtime
    /\ credential' = [credential EXCEPT ![b] = "live"]
    /\ UNCHANGED <<mode, request, vendor, recipe, tenant, runtime, licences, bound,
                   database, proc, faults>>

RevokeKey(b) ==
    /\ ~Locked(b)
    /\ credential[b] = "live"
    /\ credential' = [credential EXCEPT ![b] = "none"]
    /\ UNCHANGED <<mode, request, vendor, recipe, tenant, runtime, licences, bound,
                   database, proc, faults>>

\* Mutant: the key is consumed before the tenant database is there.
RecoverUnprepared(p, b, s) ==
    /\ At(p, "idle")
    /\ ~Locked(b)
    /\ credential[b] = "live"
    /\ vendor[b].st = "active" /\ licences[b] > 0
    /\ b \notin runtime /\ b \notin bound
    /\ proc' = [proc EXCEPT ![p] =
                  [Idle EXCEPT !.pc = "consume",
                               !.recovers = TRUE, !.biz = b, !.setup = s]]
    /\ UNCHANGED <<mode, request, vendor, recipe, tenant, runtime, licences, bound,
                   database, credential, faults>>

\* The customer names the business and the owner in each try.
Recover(p, b, s) ==
    /\ At(p, "idle")
    /\ ~Locked(b)
    /\ credential[b] = "live"
    /\ vendor[b].st = "active" /\ licences[b] > 0
    /\ b \notin runtime /\ b \notin bound
    /\ proc' = [proc EXCEPT ![p] =
                  [Idle EXCEPT !.pc = IF mode = "shared" THEN "consume" ELSE "create",
                               !.recovers = TRUE, !.biz = b, !.setup = s]]
    /\ UNCHANGED <<mode, request, vendor, recipe, tenant, runtime, licences, bound,
                   database, credential, faults>>

\* The transaction that began with the recovery commits.
Consume(p) ==
    LET b == proc[p].biz
        s == proc[p].setup
    IN
    /\ At(p, "consume")
    /\ runtime' = runtime \cup {b}
    /\ bound' = bound \cup {b}
    /\ credential' = [credential EXCEPT ![b] = "consumed"]
    /\ \/ /\ mode = "shared"
          /\ database' = [database EXCEPT ![Target(p)].owner = s.owner]
          /\ UNCHANGED tenant
       \/ /\ mode = "database_per_tenant"
          /\ tenant' = [tenant EXCEPT ![b] = [st |-> "active", name |-> s.name]]
          /\ UNCHANGED database
    /\ Done(p)
    /\ UNCHANGED <<mode, request, vendor, recipe, licences, faults>>

-----------------------------------------------------------------------------
(* The operator *)

\* PUT /api/vendor/businesses/:id; the recipe keeps the first name.
UpdateBusiness(b, st, n) ==
    /\ ~Locked(b)
    /\ vendor[b].st # "none"
    /\ vendor' = [vendor EXCEPT ![b] = [st |-> st, name |-> n]]
    /\ UNCHANGED <<mode, request, recipe, tenant, runtime, licences, bound, database,
                   credential, proc, faults>>

\* POST /api/vendor/licenses
CreateLicence(b) ==
    /\ ~Locked(b)
    /\ vendor[b].st = "active"
    /\ licences[b] = 0
    /\ b \in runtime
    /\ mode = "database_per_tenant" => tenant[b].st = "active"
    /\ licences' = [licences EXCEPT ![b] = @ + 1]
    /\ UNCHANGED <<mode, request, vendor, recipe, tenant, runtime, bound, database,
                   credential, proc, faults>>

-----------------------------------------------------------------------------

Attempt(p) ==
    \/ \E b \in Biz : CommitOnboarding(p, b)
    \/ Begin(p) \/ Reset(p) \/ Register(p) \/ CheckDatabase(p) \/ CreateDatabase(p)
    \/ CheckFile(p) \/ ApplyFile(p) \/ SeedTenant(p) \/ SeedShared(p)
    \/ Complete(p) \/ RefuseInactive(p) \/ ReadLifecycle(p)
    \/ FailRecipe(p) \/ FailTenant(p) \/ Consume(p)

Next ==
    \/ \E p \in Proc :
        \/ Attempt(p) \/ Fail(p) \/ Crash(p)
        \/ \E k \in Key, s \in Setup : Claim(p, k, s)
        \/ \E b \in Biz :
             \/ Retry(p, b)
             \/ \E s \in Setup : Recover(p, b, s)
    \/ \E b \in Biz :
        \/ IssueKey(b) \/ RevokeKey(b) \/ CreateLicence(b)
        \/ \E st \in {"active", "inactive"}, n \in Name : UpdateBusiness(b, st, n)

Spec == Init /\ [][Next]_vars

\* A handler that is neither failed nor killed goes on, and the operator retries
\* a business that is not prepared.
Fairness ==
    /\ \A p \in Proc : WF_vars(Attempt(p))
    /\ \A b \in Biz : SF_vars(\E p \in Proc : recipe[b].st = "open" /\ Retry(p, b))

FairSpec == Spec /\ Fairness

-----------------------------------------------------------------------------
(* Properties *)

\* The lifecycle the control plane shows for a business (commercialLifecycle).
Lifecycle(b) ==
    IF vendor[b].st # "active" THEN "BLOCKED"
    ELSE IF recipe[b].error THEN "PROVISIONING_FAILED"
    ELSE IF licences[b] = 0 THEN "PROVISIONING"
    ELSE IF mode = "shared"
         THEN IF b \in runtime THEN "READY_FOR_ACTIVATION" ELSE "PROVISIONING"
    ELSE IF tenant[b].st = "error" THEN "PROVISIONING_FAILED"
    ELSE IF tenant[b].st = "active" /\ b \in runtime THEN "READY_FOR_ACTIVATION"
    ELSE "PROVISIONING"

Databases(b) == {n \in Name : database[<<b, n>>].exists}

\* The database a tenant is routed to is migrated and has its owner.
Usable(b, n) == database[<<b, n>>].files = Files /\ database[<<b, n>>].owner # NoOne

\* Overlapping attempts, retries and POST /licenses give a business one licence,
\* although no constraint of the table does.
OneLicence == \A b \in Biz : licences[b] <= 1

\* A request sent twice makes one business: every onboarded business is the one
\* its idempotency key answers with, and no handler is about to make another one
\* for an answered key.
EveryBusinessWasRequested ==
    /\ \A b \in Biz : recipe[b].st # "none" => \E k \in Key : request[k].biz = b
    /\ \A p \in Proc : At(p, "onboard") => request[proc[p].key].biz = NoOne

\* What a completed recipe promises is there in both databases, with the owner
\* that was asked for, whichever attempts did the work.
CompletedIsWhole ==
    \A b \in Biz : recipe[b].st = "completed" =>
        /\ licences[b] = 1 /\ b \in runtime /\ b \in bound
        /\ database[<<b, recipe[b].setup.name>>].owner = recipe[b].setup.owner
        /\ mode = "database_per_tenant" =>
             /\ tenant[b] = [st |-> "active", name |-> recipe[b].setup.name]
             /\ Usable(b, tenant[b].name)

\* "No CP activation code is issued until runtime, active licence, and quota
\* configuration are valid": a business shown as ready has a usable runtime.
ReadyIsUsable ==
    \A b \in Biz : Lifecycle(b) = "READY_FOR_ACTIVATION" =>
        /\ b \in runtime /\ licences[b] = 1
        /\ IF mode = "shared" THEN \E n \in Name : database[<<b, n>>].owner # NoOne
           ELSE Usable(b, tenant[b].name)

\* "Retry does not create a second tenant database", renamed or not.
OneDatabase ==
    \A b \in Biz : recipe[b].st # "none" => \A m, n \in Databases(b) : m = n

\* Requests sent again, overlapping attempts and retries make one business, with
\* one licence and one database.
OneOfEach == EveryBusinessWasRequested /\ OneLicence /\ OneDatabase

\* A late or overlapping attempt that fails takes nothing back.
PreparedForGood ==
    [][\A b \in Biz :
         /\ recipe[b].st = "completed" => recipe'[b].st = "completed"
         /\ tenant[b].st = "active" => tenant'[b].st = "active"
         /\ \A n \in Name : database[<<b, n>>].owner # NoOne =>
              database'[<<b, n>>].owner = database[<<b, n>>].owner]_vars

\* An onboarded business is prepared in the end, unless it is deactivated.
EventuallyCompleted ==
    \A b \in Biz : recipe[b].st = "open" ~> (recipe[b].st = "completed" \/ vendor[b].st = "inactive")

===============================================================================
