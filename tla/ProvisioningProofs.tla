-------------------------- MODULE ProvisioningProofs --------------------------
(***************************************************************************)
(* Safety of Provisioning for any number of handlers, keys, businesses,    *)
(* names and migrations, in both modes, however many steps fail.           *)
(***************************************************************************)
EXTENDS Provisioning, TLAPS

-----------------------------------------------------------------------------
(* The inductive invariant *)

\* A handler that has a business to prepare.
Works(p) == proc[p].pc \notin {"idle", "onboard"}

\* What a handler was given, and where it may be.
Given(p) ==
    LET h == proc[p] IN
    /\ h.pc # "idle" => h.setup \in Setup
    /\ h.pc = "onboard" => h.key \in Key /\ ~h.recovers
    /\ Works(p) => h.biz \in Biz
    /\ h.recovers => h.pc \in {"create", "creating", "migrate", "apply", "seed", "consume"}
    /\ h.pc = "consume" => h.recovers
    /\ h.pc \in {"onboard", "begin", "reset", "register", "create", "creating"} => h.file = 1
    /\ mode = "shared" =>
          /\ h.pc \notin {"register", "create", "creating", "migrate", "apply", "failTenant"}
          /\ h.recovers => h.pc = "consume"

\* The setup of an attempt is its recipe's, and its tenant is registered before
\* its database is; a business being recovered has no recipe and no runtime.
Follows(p) ==
    LET h == proc[p] IN
    /\ Works(p) /\ ~h.recovers =>
          /\ recipe[h.biz].st # "none" /\ h.setup = recipe[h.biz].setup
          /\ mode # "shared"
             /\ h.pc \in {"create", "creating", "migrate", "apply", "seed", "complete"}
                => tenant[h.biz].st # "none"
    /\ h.recovers =>
          recipe[h.biz].st = "none" /\ vendor[h.biz].st # "none" /\ h.biz \notin runtime

Store(p) == database[Target(p)]

\* How far a handler has come, whatever others did meanwhile.
Arrived(p) ==
    LET h == proc[p] IN
    /\ h.pc \in {"migrate", "apply"} => h.file <= Store(p).files + 1
    /\ h.pc = "apply" => h.file <= Files
    /\ mode # "shared" /\ h.pc \in {"seed", "complete", "consume"} => Store(p).files = Files
    /\ h.pc = "complete" \/ (h.pc = "consume" /\ mode # "shared") =>
          Store(p).owner = h.setup.owner

Good(p) == Given(p) /\ Follows(p) /\ Arrived(p)

\* Two handlers onboard with two keys, and recover two businesses.
Apart(p, q) ==
    /\ At(p, "onboard") /\ At(q, "onboard") => proc[p].key # proc[q].key
    /\ proc[p].recovers /\ proc[q].recovers => proc[p].biz # proc[q].biz

\* A handler that onboards has a key that is not answered.
Unanswered(p) == At(p, "onboard") => request[proc[p].key].biz = NoOne

Handlers == \A p \in Proc : Good(p) /\ Unanswered(p)

Alone == \A p, q \in Proc : p # q => Apart(p, q)

Businesses ==
    \A b \in Biz :
        /\ recipe[b].st # "none" =>
              recipe[b].setup \in Setup /\ \E k \in Key : request[k].biz = b
        /\ vendor[b].st = "none" => recipe[b].st = "none" /\ licences[b] = 0
        /\ recipe[b].st = "none" /\ vendor[b].st # "none" => licences[b] = 1
        /\ licences[b] <= 1
        /\ recipe[b].st # "none" /\ licences[b] > 0 => b \in runtime

\* A tenant row names the database of the recipe, an active one a usable database.
Tenants ==
    \A b \in Biz :
        /\ recipe[b].st # "none" /\ tenant[b].st # "none" => tenant[b].name = recipe[b].setup.name
        /\ vendor[b].st = "none" => tenant[b].st = "none"
        /\ tenant[b].st = "active" =>
              b \in runtime /\ tenant[b].name \in Name /\ Usable(b, tenant[b].name)

\* The only database of an onboarded business is its recipe's; in shared mode a
\* runtime has an owner from its first row on.
Stores ==
    \A b \in Biz :
        /\ \A n \in Name : database[<<b, n>>].exists =>
              /\ vendor[b].st # "none"
              /\ recipe[b].st # "none" => n = recipe[b].setup.name
        /\ mode = "shared" =>
              (b \in runtime <=> \E n \in Name : database[<<b, n>>].owner # NoOne)

Tables == Businesses /\ Tenants /\ Stores /\ CompletedIsWhole

IInv == TypeOK /\ Tables /\ Handlers /\ Alone

-----------------------------------------------------------------------------
(* What no step takes back *)

Forward ==
    /\ mode' = mode
    /\ \A b \in Biz :
          /\ recipe[b].st # "none" =>
                recipe'[b].st # "none" /\ recipe'[b].setup = recipe[b].setup
          /\ recipe[b].st = "completed" => recipe'[b].st = "completed"
          /\ vendor[b].st # "none" =>
                vendor'[b].st # "none" /\ (recipe[b].st = "none" => recipe'[b].st = "none")
          /\ tenant[b].st # "none" => tenant'[b].st # "none"
          /\ tenant[b].st = "active" => tenant'[b].st = "active"
    /\ \A b \in Biz, n \in Name :
          /\ database[<<b, n>>].files <= database'[<<b, n>>].files
          /\ database[<<b, n>>].owner # NoOne =>
                database'[<<b, n>>].owner = database[<<b, n>>].owner

LEMMA StoreType ==
    ASSUME TypeOK, NEW p \in Proc, proc[p].biz \in Biz, proc[p].setup \in Setup
    PROVE  /\ Target(p) = <<proc[p].biz, proc[p].setup.name>> /\ Target(p) \in Biz \X Name
           /\ proc[p].setup.name \in Name
           /\ proc[p].setup.owner \in Owner /\ proc[p].setup.owner # NoOne
           /\ Store(p) \in [exists : BOOLEAN, files : 0 .. Files, owner : Owner \cup {NoOne}]
  BY ProvisioningAssumption DEF TypeOK, Setup, Store, Target

\* What another handler relies on stays.
LEMMA GoodStays ==
    ASSUME TypeOK, TypeOK', Forward, NEW p \in Proc, Good(p), proc'[p] = proc[p],
           proc[p].recovers => proc[p].biz \notin runtime'
    PROVE  Good(p)'
<1>1. Given(p)'
  BY DEF Good, Given, Forward, Works
<1>2. Follows(p)'
  BY DEF Good, Follows, Given, Forward, Works
<1>3. Arrived(p)'
  <2>1. CASE ~Works(p)
    BY <2>1 DEF Works, Arrived
  <2>2. CASE Works(p)
    <3>1. proc[p].biz \in Biz /\ proc[p].setup \in Setup
      BY <2>2 DEF Good, Given, Works
    <3>2. /\ Target(p) = <<proc[p].biz, proc[p].setup.name>> /\ Target(p)' = Target(p)
          /\ proc[p].setup.name \in Name /\ proc[p].setup.owner # NoOne
          /\ Store(p).files \in 0 .. Files /\ Store(p)'.files \in 0 .. Files
      BY <3>1, StoreType DEF TypeOK, Store, Setup, Target
    <3>3. /\ Store(p).files <= Store(p)'.files
          /\ Store(p).owner # NoOne => Store(p)'.owner = Store(p).owner
      BY <3>1, <3>2 DEF Forward, Store
    <3>4. proc[p].file \in Nat /\ Files \in Nat /\ mode' = mode
      BY ProvisioningAssumption DEF Handler, Forward, TypeOK
    <3> QED
      BY <3>2, <3>3, <3>4 DEF Good, Arrived
  <2> QED
    BY <2>1, <2>2
<1> QED
  BY <1>1, <1>2, <1>3 DEF Good

\* A step of handler p that is good for it and leaves the others alone.
LEMMA HandlerStep ==
    ASSUME IInv, TypeOK', Tables', Forward, NEW p \in Proc, Good(p)', Unanswered(p)',
           \A q \in Proc \ {p} :
              /\ proc'[q] = proc[q] /\ Apart(p, q)'
              /\ At(q, "onboard") => request'[proc[q].key].biz = request[proc[q].key].biz
              /\ proc[q].recovers => proc[q].biz \notin runtime'
    PROVE  IInv'
<1>1. ASSUME NEW q \in Proc, q # p PROVE Good(q)' /\ Unanswered(q)'
  <2>1. Good(q) /\ Unanswered(q)
    BY DEF IInv, Handlers
  <2>2. Good(q)'
    BY <1>1, <2>1, GoodStays DEF IInv
  <2> QED
    BY <1>1, <2>1, <2>2 DEF Unanswered, At
<1>2. Alone'
  BY DEF Alone, Apart, IInv, At
<1> QED
  BY <1>1, <1>2 DEF IInv, Handlers

-----------------------------------------------------------------------------
(* Steps that change no table *)

Still ==
    UNCHANGED <<mode, request, vendor, recipe, tenant, runtime, licences, bound, database>>

LEMMA StillTables ==
    ASSUME IInv, Still
    PROVE  Tables' /\ Forward
<1>1. Forward
  BY DEF Still, Forward, IInv, TypeOK
<1>2. Businesses' /\ Tenants' /\ Stores'
  BY DEF Still, IInv, Tables, Businesses, Tenants, Stores, Usable
<1>3. CompletedIsWhole'
  BY DEF Still, IInv, Tables, CompletedIsWhole, Usable
<1> QED
  BY <1>1, <1>2, <1>3 DEF Tables

LEMMA StillStep ==
    ASSUME IInv, Still, NEW p \in Proc, NEW h \in Handler, proc' = [proc EXCEPT ![p] = h],
           credential' \in [Biz -> {"none", "live", "consumed"}], faults' \in 0 .. MaxFaults,
           Good(p)', Unanswered(p)', \A q \in Proc \ {p} : Apart(p, q)'
    PROVE  IInv' /\ Forward
<1>1. TypeOK'
  BY DEF IInv, TypeOK, Still
<1>2. \A q \in Proc \ {p} :
              /\ proc'[q] = proc[q]
              /\ At(q, "onboard") => request'[proc[q].key].biz = request[proc[q].key].biz
              /\ proc[q].recovers => proc[q].biz \notin runtime'
  BY DEF IInv, TypeOK, Still, Handlers, Good, Follows
<1> QED
  BY <1>1, <1>2, StillTables, HandlerStep DEF IInv

LEMMA IdleType == Idle \in Handler
  BY ProvisioningAssumption DEF Idle, Handler, Stage

\* A handler ends, or goes on with what it has.
LEMMA DoneStep ==
    ASSUME IInv, Still, NEW p \in Proc, Done(p), UNCHANGED credential, faults' \in 0 .. MaxFaults
    PROVE  IInv' /\ Forward
<1>1. proc' = [proc EXCEPT ![p] = Idle] /\ proc'[p] = Idle
  BY DEF Done, IInv, TypeOK
<1>2. Good(p)' /\ Unanswered(p)' /\ \A q \in Proc \ {p} : Apart(p, q)'
  BY <1>1 DEF Good, Given, Follows, Arrived, Works, Unanswered, At, Idle, Apart
<1> QED
  BY <1>1, <1>2, IdleType, StillStep DEF IInv, TypeOK

LEMMA GoStep ==
    ASSUME IInv, Still, NEW p \in Proc, Works(p), NEW st \in Stage, NEW n \in 1 .. Files + 1,
           proc' = [proc EXCEPT ![p] = [@ EXCEPT !.pc = st, !.file = n]], st \notin {"idle", "onboard"},
           UNCHANGED credential, faults' \in 0 .. MaxFaults, Good(p)'
    PROVE  IInv' /\ Forward
<1>0. proc[p] \in Handler /\ proc \in [Proc -> Handler]
  BY DEF IInv, TypeOK
<1> DEFINE h == [proc[p] EXCEPT !.pc = st, !.file = n]
<1>1. h \in Handler /\ h.pc = st /\ h.recovers = proc[p].recovers /\ h.biz = proc[p].biz
  BY <1>0 DEF Handler
<1> HIDE DEF h
<1>2. proc' = [proc EXCEPT ![p] = h] /\ proc'[p] = h /\ \A q \in Proc \ {p} : proc'[q] = proc[q]
  BY <1>0 DEF h
<1>3. Unanswered(p)' /\ \A q \in Proc \ {p} : Apart(p, q)'
  BY <1>1, <1>2 DEF Unanswered, At, Apart, IInv, Alone
<1> QED
  BY <1>1, <1>2, <1>3, StillStep DEF IInv, TypeOK

LEMMA Here ==
    ASSUME IInv, NEW p \in Proc
    PROVE  /\ proc[p] \in Handler /\ proc \in [Proc -> Handler] /\ Good(p)
           /\ Files \in Nat /\ proc[p].file \in 1 .. Files + 1
           /\ Works(p) =>
                /\ proc[p].biz \in Biz /\ proc[p].setup \in Setup
                /\ Target(p) = <<proc[p].biz, proc[p].setup.name>> /\ Target(p) \in Biz \X Name
                /\ proc[p].setup.name \in Name
                /\ proc[p].setup.owner \in Owner /\ proc[p].setup.owner # NoOne
                /\ Store(p) \in [exists : BOOLEAN, files : 0 .. Files, owner : Owner \cup {NoOne}]
<1>1. proc[p] \in Handler /\ proc \in [Proc -> Handler] /\ Good(p) /\ Files \in Nat
  BY ProvisioningAssumption DEF IInv, TypeOK, Handlers
<1>2. proc[p].file \in 1 .. Files + 1
  BY <1>1 DEF Handler
<1>3. ASSUME Works(p) PROVE proc[p].biz \in Biz /\ proc[p].setup \in Setup
  BY <1>1, <1>3 DEF Good, Given, Works
<1> QED
  BY <1>1, <1>2, <1>3, StoreType DEF IInv

LEMMA GotoIs ==
    ASSUME IInv, NEW p \in Proc, NEW st, Goto(p, st)
    PROVE  proc' = [proc EXCEPT ![p] = [@ EXCEPT !.pc = st, !.file = proc[p].file]]
<1>1. proc[p] \in Handler
  BY Here
<1>2. [proc[p] EXCEPT !.pc = st] = [proc[p] EXCEPT !.pc = st, !.file = proc[p].file]
  BY <1>1 DEF Handler
<1> QED
  BY <1>2 DEF Goto

\* A handler goes on with its business, and nothing else happens.
LEMMA GotoStep ==
    ASSUME IInv, Still, NEW p \in Proc, Works(p), NEW st \in Stage, Goto(p, st),
           st \notin {"idle", "onboard"}, UNCHANGED credential, faults' \in 0 .. MaxFaults,
           Good(p)'
    PROVE  IInv' /\ Forward
<1>1. proc' = [proc EXCEPT ![p] = [@ EXCEPT !.pc = st, !.file = proc[p].file]]
  BY GotoIs
<1> QED
  BY <1>1, Here, GoStep

LEMMA GotoFacts ==
    ASSUME IInv, NEW p \in Proc, NEW st, Goto(p, st)
    PROVE  /\ proc'[p].pc = st /\ proc'[p].recovers = proc[p].recovers
           /\ proc'[p].biz = proc[p].biz /\ proc'[p].setup = proc[p].setup
           /\ proc'[p].key = proc[p].key /\ proc'[p].file = proc[p].file
           /\ \A q \in Proc \ {p} : proc'[q] = proc[q]
  BY Here DEF Goto, Handler

LEMMA FailedStep ==
    ASSUME IInv, Still, NEW p \in Proc, Works(p), Failed(p), UNCHANGED credential,
           faults' \in 0 .. MaxFaults
    PROVE  IInv' /\ Forward
<1>1. CASE proc[p].recovers
  BY <1>1, DoneStep DEF Failed
<1>2. CASE ~proc[p].recovers
  <2>1. Goto(p, "failRecipe")
    BY <1>2 DEF Failed
  <2>2. Good(p)'
    BY <1>2, <2>1, Here, GotoFacts DEF Good, Given, Follows, Arrived, Works, Still
  <2> QED
    BY <2>1, <2>2, GotoStep DEF Stage
<1> QED
  BY <1>1, <1>2

LEMMA StillActions ==
    ASSUME IInv, NEW p \in Proc,
           Fail(p) \/ Crash(p) \/ Begin(p) \/ CheckDatabase(p) \/ CheckFile(p)
              \/ RefuseInactive(p) \/ ReadLifecycle(p)
    PROVE  IInv' /\ Forward
<1>0. faults \in 0 .. MaxFaults /\ MaxFaults \in Nat
  BY ProvisioningAssumption DEF IInv, TypeOK
<1>1. CASE Fail(p) \/ Crash(p)
  <2>1. Still /\ UNCHANGED credential /\ faults' \in 0 .. MaxFaults
    BY <1>0, <1>1 DEF Fail, Crash, Still
  <2>2. CASE Fail(p)
    BY <2>1, <2>2, FailedStep DEF Fail, Works
  <2>3. CASE Crash(p)
    BY <2>1, <2>3, DoneStep DEF Crash
  <2> QED
    BY <1>1, <2>2, <2>3
<1>2. CASE Begin(p)
  <2>1. Still /\ UNCHANGED credential /\ faults' \in 0 .. MaxFaults /\ Works(p)
    BY <1>0, <1>2 DEF Begin, Still, Works, At
  <2>2. CASE Goto(p, "reset")
    <3>1. Good(p)'
      BY <1>2, <2>1, <2>2, Here, GotoFacts
         DEF Good, Given, Follows, Arrived, Works, Still, Begin, At
    <3> QED
      BY <2>1, <2>2, <3>1, GotoStep DEF Stage
  <2> QED
    BY <1>2, <2>1, <2>2, DoneStep DEF Begin
<1>3. CASE CheckDatabase(p)
  <2>1. Still /\ UNCHANGED credential /\ faults' \in 0 .. MaxFaults /\ Works(p) /\ At(p, "create")
    BY <1>0, <1>3 DEF CheckDatabase, Still, Works, At
  <2>2. PICK st \in {"migrate", "creating"} : Goto(p, st)
    BY <1>3 DEF CheckDatabase
  <2>3. Good(p)'
    BY <2>1, <2>2, Here, GotoFacts
       DEF Good, Given, Follows, Arrived, Works, Still, At, Store, Target
  <2> QED
    BY <2>1, <2>2, <2>3, GotoStep DEF Stage
<1>4. CASE CheckFile(p)
  <2>1. Still /\ UNCHANGED credential /\ faults' \in 0 .. MaxFaults /\ Works(p) /\ At(p, "migrate")
    BY <1>0, <1>4 DEF CheckFile, Still, Works, At
  <2>2. CASE proc[p].file > Files /\ Goto(p, "seed")
    <3>1. Store(p).files = Files
      BY <2>1, <2>2, Here DEF Good, Arrived, At
    <3>2. Good(p)'
      BY <2>1, <2>2, <3>1, Here, GotoFacts
         DEF Good, Given, Follows, Arrived, Works, Still, At, Store, Target
    <3> QED
      BY <2>1, <2>2, <3>2, GotoStep DEF Stage
  <2>3. CASE proc[p].file <= Store(p).files /\ proc' = [proc EXCEPT ![p].file = @ + 1]
    <3> DEFINE n == proc[p].file + 1
    <3>1. n \in 1 .. Files + 1 /\ n <= Store(p).files + 1
      BY <2>1, <2>3, Here
    <3>2. proc' = [proc EXCEPT ![p] = [@ EXCEPT !.pc = "migrate", !.file = n]]
      BY <2>1, <2>3, Here DEF At, Handler
    <3> HIDE DEF n
    <3>3. /\ proc'[p].pc = "migrate" /\ proc'[p].recovers = proc[p].recovers
          /\ proc'[p].biz = proc[p].biz /\ proc'[p].setup = proc[p].setup /\ proc'[p].file = n
      BY <3>2, Here DEF Handler
    <3>4. Good(p)'
      BY <2>1, <3>1, <3>3, Here
         DEF Good, Given, Follows, Arrived, Works, Still, At, Store, Target
    <3> QED
      BY <2>1, <3>1, <3>2, <3>4, GoStep DEF Stage
  <2>4. CASE proc[p].file <= Files /\ Goto(p, "apply")
    <3>1. Good(p)'
      BY <2>1, <2>4, Here, GotoFacts
         DEF Good, Given, Follows, Arrived, Works, Still, At, Store, Target
    <3> QED
      BY <2>1, <2>4, <3>1, GotoStep DEF Stage
  <2> QED
    BY <1>4, <2>2, <2>3, <2>4 DEF CheckFile, Store
<1>5. CASE RefuseInactive(p)
  BY <1>0, <1>5, FailedStep DEF RefuseInactive, Still, Works, At
<1>6. CASE ReadLifecycle(p)
  BY <1>0, <1>6, DoneStep DEF ReadLifecycle, Still
<1> QED
  BY <1>1, <1>2, <1>3, <1>4, <1>5, <1>6

\* A request is claimed, an attempt or a recovery begins.
LEMMA BeginActions ==
    ASSUME IInv, NEW p \in Proc,
           \/ \E k \in Key, s \in Setup : Claim(p, k, s)
           \/ \E b \in Biz : Retry(p, b)
           \/ \E b \in Biz, s \in Setup : Recover(p, b, s)
    PROVE  IInv' /\ Forward
<1>0. /\ proc \in [Proc -> Handler] /\ faults \in 0 .. MaxFaults
      /\ credential \in [Biz -> {"none", "live", "consumed"}] /\ 1 \in 1 .. Files + 1
  BY ProvisioningAssumption DEF IInv, TypeOK
<1>1. ASSUME NEW k \in Key, NEW s \in Setup, Claim(p, k, s) PROVE IInv' /\ Forward
  <2> DEFINE h == [Idle EXCEPT !.pc = "onboard", !.key = k, !.setup = s]
  <2>1. h \in Handler /\ h.pc = "onboard" /\ h.key = k /\ h.setup = s /\ ~h.recovers /\ h.file = 1
    BY <1>0 DEF Idle, Handler, Stage
  <2>2. Still /\ proc' = [proc EXCEPT ![p] = h] /\ UNCHANGED <<credential, faults, request>>
        /\ request[k].biz = NoOne
    BY <1>1 DEF Claim, Still
  <2> HIDE DEF h
  <2>3. proc'[p] = h /\ \A q \in Proc \ {p} : proc'[q] = proc[q]
    BY <1>0, <2>2
  <2>4. Good(p)' /\ Unanswered(p)'
    BY <2>1, <2>2, <2>3 DEF Good, Given, Follows, Arrived, Works, Unanswered, At
  <2>5. \A q \in Proc \ {p} : Apart(p, q)'
    BY <1>1, <2>1, <2>3 DEF Apart, At, Claim
  <2> QED
    BY <1>0, <2>1, <2>2, <2>4, <2>5, StillStep
<1>2. ASSUME NEW b \in Biz, Retry(p, b) PROVE IInv' /\ Forward
  <2> DEFINE h == [Idle EXCEPT !.pc = "reset", !.biz = b, !.setup = recipe[b].setup]
  <2>0. recipe[b].st # "none" /\ recipe[b].setup \in Setup
    BY <1>2 DEF Retry, IInv, Tables, Businesses
  <2>1. /\ h \in Handler /\ h.pc = "reset" /\ h.biz = b /\ h.setup = recipe[b].setup
        /\ ~h.recovers /\ h.file = 1
    BY <1>0, <2>0 DEF Idle, Handler, Stage
  <2>2. Still /\ proc' = [proc EXCEPT ![p] = h] /\ UNCHANGED <<credential, faults, recipe, mode>>
    BY <1>2 DEF Retry, Still
  <2> HIDE DEF h
  <2>3. proc'[p] = h /\ \A q \in Proc \ {p} : proc'[q] = proc[q]
    BY <1>0, <2>2
  <2>4. Good(p)' /\ Unanswered(p)' /\ \A q \in Proc \ {p} : Apart(p, q)'
    BY <2>0, <2>1, <2>2, <2>3 DEF Good, Given, Follows, Arrived, Works, Unanswered, At, Apart
  <2> QED
    BY <1>0, <2>1, <2>2, <2>4, StillStep
<1>3. ASSUME NEW b \in Biz, NEW s \in Setup, Recover(p, b, s) PROVE IInv' /\ Forward
  <2> DEFINE st == IF mode = "shared" THEN "consume" ELSE "create"
             h == [Idle EXCEPT !.pc = st, !.recovers = TRUE, !.biz = b, !.setup = s]
  <2>1. /\ h \in Handler /\ h.pc = st /\ h.biz = b /\ h.setup = s /\ h.recovers /\ h.file = 1
    BY <1>0 DEF Idle, Handler, Stage
  <2>2. Still /\ proc' = [proc EXCEPT ![p] = h] /\ UNCHANGED <<credential, faults>>
    BY <1>3 DEF Recover, Still
  <2> HIDE DEF h
  <2>3. proc'[p] = h /\ \A q \in Proc \ {p} : proc'[q] = proc[q]
    BY <1>0, <2>2
  <2>4. recipe[b].st = "none" /\ vendor[b].st # "none" /\ b \notin runtime
    BY <1>3 DEF Recover, IInv, Tables, Businesses, TypeOK
  <2>5. Good(p)' /\ Unanswered(p)'
    BY <2>1, <2>2, <2>3, <2>4
       DEF Still, Good, Given, Follows, Arrived, Works, Unanswered, At
  <2>6. \A q \in Proc \ {p} : Apart(p, q)'
    <3>1. ~Locked(b)
      BY <1>3 DEF Recover
    <3>2. \A q \in Proc : proc[q].recovers => proc[q].biz # b
      BY <3>1 DEF Locked
    <3>3. h.pc # "onboard"
      BY <2>1
    <3> QED
      BY <2>1, <2>3, <3>2, <3>3 DEF Apart, At
  <2> QED
    BY <1>0, <2>1, <2>2, <2>5, <2>6, StillStep
<1> QED
  BY <1>1, <1>2, <1>3

-----------------------------------------------------------------------------
(* The operator *)

LEMMA OperatorStep ==
    ASSUME IInv, TypeOK', Tables', Forward, UNCHANGED <<proc, request, runtime>>
    PROVE  IInv'
<1>1. ASSUME NEW p \in Proc PROVE Good(p)' /\ Unanswered(p)'
  <2>1. Good(p) /\ Unanswered(p)
    BY DEF IInv, Handlers
  <2>2. Good(p)'
    BY <2>1, GoodStays DEF IInv, Good, Follows
  <2> QED
    BY <2>1, <2>2 DEF Unanswered, At
<1>2. Alone'
  BY DEF Alone, Apart, IInv, At
<1> QED
  BY <1>1, <1>2 DEF IInv, Handlers

LEMMA KeyActions ==
    ASSUME IInv, NEW b \in Biz, IssueKey(b) \/ RevokeKey(b)
    PROVE  IInv' /\ Forward
<1>1. Still /\ UNCHANGED <<proc, faults>>
  BY DEF IssueKey, RevokeKey, Still
<1>2. TypeOK'
  BY <1>1 DEF IInv, TypeOK, Still, IssueKey, RevokeKey
<1> QED
  BY <1>1, <1>2, StillTables, OperatorStep DEF Still

LEMMA UpdateAction ==
    ASSUME IInv, NEW b \in Biz, NEW st \in {"active", "inactive"}, NEW n \in Name,
           UpdateBusiness(b, st, n)
    PROVE  IInv' /\ Forward
<1>1. /\ vendor[b].st # "none" /\ vendor'[b].st # "none"
      /\ \A c \in Biz \ {b} : vendor'[c] = vendor[c]
      /\ UNCHANGED <<mode, request, recipe, tenant, runtime, licences, bound, database, proc>>
  BY DEF UpdateBusiness, IInv, TypeOK
<1>2. TypeOK'
  BY DEF IInv, TypeOK, UpdateBusiness
<1>3. Forward
  BY <1>1 DEF Forward, IInv, TypeOK
<1>4. Businesses'
  BY <1>1 DEF IInv, Tables, Businesses
<1>5. Tenants'
  BY <1>1 DEF IInv, Tables, Tenants, Usable
<1>6. Stores'
  BY <1>1 DEF IInv, Tables, Stores
<1>7. CompletedIsWhole'
  BY <1>1 DEF IInv, Tables, CompletedIsWhole, Usable
<1> QED
  BY <1>1, <1>2, <1>3, <1>4, <1>5, <1>6, <1>7, OperatorStep DEF Tables

LEMMA LicenceAction ==
    ASSUME IInv, NEW b \in Biz, CreateLicence(b)
    PROVE  IInv' /\ Forward
<1>1. /\ licences[b] = 0 /\ licences'[b] = 1 /\ b \in runtime /\ vendor[b].st = "active"
      /\ \A c \in Biz \ {b} : licences'[c] = licences[c]
      /\ UNCHANGED <<mode, request, vendor, recipe, tenant, runtime, bound, database, proc>>
  BY DEF CreateLicence, IInv, TypeOK
<1>2. TypeOK'
  BY DEF IInv, TypeOK, CreateLicence
<1>3. Forward
  BY <1>1 DEF Forward, IInv, TypeOK
<1>4. Businesses'
  BY <1>1 DEF IInv, Tables, Businesses
<1>5. Tenants' /\ Stores'
  BY <1>1 DEF IInv, Tables, Tenants, Stores, Usable
<1>6. CompletedIsWhole'
  BY <1>1 DEF IInv, Tables, CompletedIsWhole, Usable
<1> QED
  BY <1>1, <1>2, <1>3, <1>4, <1>5, <1>6, OperatorStep DEF Tables

-----------------------------------------------------------------------------
(* Steps in a tenant database *)

Record == [exists : BOOLEAN, files : 0 .. Files, owner : Owner \cup {NoOne}]

LEMMA DatabaseChange ==
    ASSUME IInv, NEW b \in Biz, NEW n \in Name, NEW r \in Record,
           database' = [database EXCEPT ![<<b, n>>] = r],
           database[<<b, n>>].files <= r.files,
           database[<<b, n>>].owner # NoOne => r.owner = database[<<b, n>>].owner,
           r.exists => /\ vendor[b].st # "none"
                       /\ recipe[b].st # "none" => n = recipe[b].setup.name,
           mode = "shared" => b \in runtime' /\ r.owner # NoOne,
           runtime' \in {runtime, runtime \cup {b}}, bound \subseteq bound',
           UNCHANGED <<mode, request, vendor, recipe, tenant, licences>>
    PROVE  /\ database' \in [Biz \X Name -> Record] /\ runtime' \subseteq Biz
           /\ Tables' /\ Forward
<1>1. /\ database \in [Biz \X Name -> Record] /\ runtime \subseteq Biz
      /\ <<b, n>> \in Biz \X Name /\ database[<<b, n>>] \in Record
  BY DEF IInv, TypeOK, Record
<1>2. \A c \in Biz, m \in Name :
         /\ <<c, m>> \in Biz \X Name
         /\ database'[<<c, m>>] = IF c = b /\ m = n THEN r ELSE database[<<c, m>>]
         /\ database[<<c, m>>] \in Record
  BY <1>1
<1>3. database' \in [Biz \X Name -> Record] /\ runtime' \subseteq Biz /\ runtime \subseteq runtime'
  BY <1>1
<1>4. \A c \in Biz, m \in Name :
         /\ database[<<c, m>>].files <= database'[<<c, m>>].files
         /\ database[<<c, m>>].owner # NoOne =>
               database'[<<c, m>>].owner = database[<<c, m>>].owner
         /\ database[<<c, m>>].files \in 0 .. Files /\ database'[<<c, m>>].files \in 0 .. Files
  <2> SUFFICES ASSUME NEW c \in Biz, NEW m \in Name
               PROVE  /\ database[<<c, m>>].files <= database'[<<c, m>>].files
                      /\ database[<<c, m>>].owner # NoOne =>
                            database'[<<c, m>>].owner = database[<<c, m>>].owner
                      /\ database[<<c, m>>].files \in 0 .. Files
                      /\ database'[<<c, m>>].files \in 0 .. Files
    OBVIOUS
  <2>1. database[<<c, m>>].files \in 0 .. Files /\ r.files \in 0 .. Files
    BY <1>2 DEF Record
  <2>2. CASE c = b /\ m = n
    BY <1>2, <2>1, <2>2
  <2>3. CASE ~(c = b /\ m = n)
    <3>1. database'[<<c, m>>] = database[<<c, m>>]
      BY <1>2, <2>3
    <3> QED
      BY <2>1, <3>1, ProvisioningAssumption
  <2> QED
    BY <2>2, <2>3
<1>10. \A c \in Biz, m \in Name : Usable(c, m) => Usable(c, m)'
  <2> SUFFICES ASSUME NEW c \in Biz, NEW m \in Name, Usable(c, m)
               PROVE  Usable(c, m)'
    OBVIOUS
  <2>1. database[<<c, m>>].files = Files /\ database[<<c, m>>].owner # NoOne
    BY DEF Usable
  <2>2. database'[<<c, m>>].files = Files /\ database'[<<c, m>>].owner # NoOne
    BY <1>4, <2>1, ProvisioningAssumption
  <2> QED
    BY <2>2 DEF Usable
<1>5. Forward
  BY <1>4 DEF Forward
<1>6. Businesses'
  BY <1>3 DEF IInv, Tables, Businesses
<1>7. Tenants'
  BY <1>3, <1>10 DEF IInv, Tables, Tenants
<1>8. Stores'
  <2> SUFFICES ASSUME NEW c \in Biz
               PROVE  /\ \A m \in Name : database'[<<c, m>>].exists =>
                            /\ vendor[c].st # "none"
                            /\ recipe[c].st # "none" => m = recipe[c].setup.name
                      /\ mode = "shared" =>
                           (c \in runtime' <=> \E m \in Name : database'[<<c, m>>].owner # NoOne)
    BY DEF Stores
  <2>1. \A m \in Name : database'[<<c, m>>].exists =>
            vendor[c].st # "none" /\ (recipe[c].st # "none" => m = recipe[c].setup.name)
    BY <1>2 DEF IInv, Tables, Stores
  <2>2. CASE c = b
    BY <1>2, <2>1, <2>2
  <2>3. CASE c # b
    <3>1. (c \in runtime' <=> c \in runtime) /\ \A m \in Name : database'[<<c, m>>] = database[<<c, m>>]
      BY <1>2, <2>3
    <3> QED
      BY <2>1, <3>1 DEF IInv, Tables, Stores
  <2> QED
    BY <2>2, <2>3
<1>9. CompletedIsWhole'
  <2>1. \A c \in Biz : recipe[c].st = "completed" =>
            /\ recipe[c].setup \in Setup /\ recipe[c].setup.name \in Name
            /\ recipe[c].setup.owner # NoOne
    BY ProvisioningAssumption DEF IInv, Tables, Businesses, Setup
  <2>2. \A c \in Biz : recipe[c].st = "completed" =>
            /\ database'[<<c, recipe[c].setup.name>>].owner = recipe[c].setup.owner
    BY <1>4, <2>1 DEF IInv, Tables, CompletedIsWhole
  <2>3. \A c \in Biz : recipe[c].st = "completed" /\ mode = "database_per_tenant" =>
            /\ tenant[c] = [st |-> "active", name |-> recipe[c].setup.name]
            /\ Usable(c, recipe[c].setup.name)
    <3> SUFFICES ASSUME NEW c \in Biz, recipe[c].st = "completed", mode = "database_per_tenant"
                 PROVE  /\ tenant[c] = [st |-> "active", name |-> recipe[c].setup.name]
                        /\ Usable(c, recipe[c].setup.name)
      OBVIOUS
    <3>1. tenant[c] = [st |-> "active", name |-> recipe[c].setup.name] /\ Usable(c, tenant[c].name)
      BY DEF IInv, Tables, CompletedIsWhole
    <3>2. tenant[c].name = recipe[c].setup.name
      BY <3>1
    <3> QED
      BY <3>1, <3>2 DEF Usable
  <2>4. \A c \in Biz : recipe[c].st = "completed" /\ mode = "database_per_tenant" =>
            Usable(c, recipe[c].setup.name)'
    BY <1>10, <2>1, <2>3
  <2> QED
    BY <1>3, <2>1, <2>2, <2>3, <2>4 DEF IInv, Tables, CompletedIsWhole, Usable
<1> QED
  BY <1>3, <1>5, <1>6, <1>7, <1>8, <1>9 DEF Tables

-----------------------------------------------------------------------------
(* Handlers that change tables *)

\* A handler that works on a business adds no runtime but that business's.
LEMMA WorkStep ==
    ASSUME IInv, TypeOK', Tables', Forward, NEW p \in Proc, Works(p), Good(p)',
           \A q \in Proc \ {p} : proc'[q] = proc[q],
           proc'[p].pc # "onboard",
           proc'[p].recovers => proc[p].recovers /\ proc'[p].biz = proc[p].biz,
           request' = request, runtime' \subseteq runtime \cup {proc[p].biz}
    PROVE  IInv'
<1>1. Unanswered(p)' /\ \A q \in Proc \ {p} : Apart(p, q)'
  BY DEF Unanswered, At, Apart, IInv, Alone
<1>2. ASSUME NEW q \in Proc \ {p}, proc[q].recovers PROVE proc[q].biz \notin runtime'
  <2>1. recipe[proc[q].biz].st = "none" /\ proc[q].biz \notin runtime
    BY <1>2 DEF IInv, Handlers, Good, Follows
  <2>2. proc[q].biz # proc[p].biz
    <3>1. CASE proc[p].recovers
      BY <1>2, <3>1 DEF IInv, Alone, Apart
    <3>2. CASE ~proc[p].recovers
      BY <2>1, <3>2 DEF IInv, Handlers, Good, Follows
    <3> QED
      BY <3>1, <3>2
  <2> QED
    BY <2>1, <2>2
<1> QED
  BY <1>1, <1>2, HandlerStep

LEMMA WorkGoto ==
    ASSUME IInv, TypeOK', Tables', Forward, NEW p \in Proc, Works(p), Good(p)',
           NEW st, Goto(p, st), st # "onboard",
           request' = request, runtime' \subseteq runtime \cup {proc[p].biz}
    PROVE  IInv'
<1>1. /\ proc'[p].pc = st /\ proc'[p].recovers = proc[p].recovers
      /\ proc'[p].biz = proc[p].biz /\ \A q \in Proc \ {p} : proc'[q] = proc[q]
  BY GotoFacts
<1> QED
  BY <1>1, WorkStep

LEMMA GotoType ==
    ASSUME IInv, NEW p \in Proc, NEW st \in Stage, Goto(p, st)
    PROVE  proc' \in [Proc -> Handler]
<1>1. proc[p] \in Handler /\ proc \in [Proc -> Handler]
  BY Here
<1>2. [proc[p] EXCEPT !.pc = st] \in Handler
  BY <1>1 DEF Handler
<1> QED
  BY <1>1, <1>2 DEF Goto

LEMMA DoneFacts ==
    ASSUME IInv, NEW p \in Proc, Done(p)
    PROVE  /\ proc' \in [Proc -> Handler] /\ proc'[p] = Idle /\ Good(p)'
           /\ \A q \in Proc \ {p} : proc'[q] = proc[q]
<1>1. proc' \in [Proc -> Handler] /\ proc'[p] = Idle /\ \A q \in Proc \ {p} : proc'[q] = proc[q]
  BY Here, IdleType DEF Done
<1> QED
  BY <1>1 DEF Good, Given, Follows, Arrived, Works, Idle

LEMMA CreateStep == ASSUME IInv, NEW p \in Proc, CreateDatabase(p) PROVE IInv' /\ Forward
<1>1. Works(p) /\ At(p, "creating") /\ mode # "shared"
  BY Here DEF CreateDatabase, Works, At, Good, Given
<1>2. CASE database[Target(p)].exists
  <2>1. Still /\ UNCHANGED credential /\ faults' \in 0 .. MaxFaults /\ Failed(p)
    BY <1>2 DEF CreateDatabase, Still, IInv, TypeOK
  <2> QED
    BY <1>1, <2>1, FailedStep
<1>3. CASE ~database[Target(p)].exists
  <2> DEFINE b == proc[p].biz
             n == proc[p].setup.name
             r == [database[<<b, n>>] EXCEPT !.exists = TRUE]
  <2>1. /\ Target(p) = <<b, n>> /\ b \in Biz /\ n \in Name /\ database[<<b, n>>] \in Record
        /\ Goto(p, "migrate")
        /\ UNCHANGED <<mode, request, vendor, recipe, tenant, runtime, licences, bound,
                       credential, faults>>
    BY <1>1, <1>3, Here DEF CreateDatabase, Store, Record
  <2>2. database' = [database EXCEPT ![<<b, n>>] = r]
    BY <1>3, <2>1 DEF CreateDatabase
  <2>3. /\ r \in Record /\ r.files = database[<<b, n>>].files /\ r.owner = database[<<b, n>>].owner
        /\ database[<<b, n>>].files <= r.files
    <3>1. ASSUME NEW d \in Record
          PROVE  /\ [d EXCEPT !.exists = TRUE] \in Record
                 /\ [d EXCEPT !.exists = TRUE].files = d.files
                 /\ [d EXCEPT !.exists = TRUE].owner = d.owner
      BY DEF Record
    <3>2. \A d \in Record : d.files <= d.files
      BY ProvisioningAssumption DEF Record
    <3> QED
      BY <2>1, <3>1, <3>2
  <2>4. vendor[b].st # "none" /\ (recipe[b].st # "none" => n = recipe[b].setup.name)
    BY <1>1, <2>1, Here DEF Good, Follows, IInv, Tables, Businesses
  <2> HIDE DEF b, n, r
  <2>5. database' \in [Biz \X Name -> Record] /\ Tables' /\ Forward
    BY <1>1, <2>1, <2>2, <2>3, <2>4, DatabaseChange
  <2>6. TypeOK'
    BY <2>1, <2>5, GotoType DEF IInv, TypeOK, Record, Stage
  <2>7. Good(p)'
    <3>1. proc[p].file = 1 /\ Store(p)'.files \in 0 .. Files
      BY <1>1, <2>1, <2>5, Here, GotoFacts DEF Good, Given, At, Store, Target, Record, b, n
    <3> QED
      BY <1>1, <2>1, <3>1, Here, GotoFacts DEF Good, Given, Follows, Arrived, Works, At
  <2> QED
    BY <1>1, <2>1, <2>5, <2>6, <2>7, WorkGoto
<1> QED
  BY <1>2, <1>3

LEMMA ApplyStep == ASSUME IInv, NEW p \in Proc, ApplyFile(p) PROVE IInv' /\ Forward
<1>1. Works(p) /\ At(p, "apply") /\ mode # "shared"
  BY Here DEF ApplyFile, Works, At, Good, Given
<1>2. CASE database[Target(p)].files >= proc[p].file
  <2>1. Still /\ UNCHANGED credential /\ faults' \in 0 .. MaxFaults /\ Failed(p)
    BY <1>1, <1>2, Here DEF ApplyFile, Still, IInv, TypeOK, Store
  <2> QED
    BY <1>1, <2>1, FailedStep
<1>3. CASE database[Target(p)].files < proc[p].file
  <2> DEFINE b == proc[p].biz
             n == proc[p].setup.name
             f == proc[p].file
             r == [database[<<b, n>>] EXCEPT !.files = f]
  <2>1. /\ Target(p) = <<b, n>> /\ b \in Biz /\ n \in Name /\ database[<<b, n>>] \in Record
        /\ f \in 1 .. Files /\ f + 1 \in 1 .. Files + 1
    BY <1>1, Here DEF Store, Record, Good, Arrived, At
  <2>2. /\ database' = [database EXCEPT ![<<b, n>>] = r]
        /\ proc' = [proc EXCEPT ![p].pc = "migrate", ![p].file = @ + 1]
        /\ UNCHANGED <<mode, request, vendor, recipe, tenant, runtime, licences, bound,
                       credential, faults>>
    BY <1>3, <2>1, Here DEF ApplyFile, Record
  <2>3. /\ r \in Record /\ r.files = f /\ r.owner = database[<<b, n>>].owner
        /\ database[<<b, n>>].files <= r.files /\ r.exists = database[<<b, n>>].exists
    BY <1>3, <2>1, ProvisioningAssumption DEF Record
  <2>4. r.exists => vendor[b].st # "none" /\ (recipe[b].st # "none" => n = recipe[b].setup.name)
    BY <2>1, <2>3 DEF IInv, Tables, Stores
  <2> HIDE DEF b, n, r, f
  <2>5. database' \in [Biz \X Name -> Record] /\ Tables' /\ Forward
    BY <1>1, <2>1, <2>2, <2>3, <2>4, DatabaseChange
  <2>6. /\ proc'[p].pc = "migrate" /\ proc'[p].recovers = proc[p].recovers
        /\ proc'[p].biz = proc[p].biz /\ proc'[p].setup = proc[p].setup
        /\ proc'[p].file = f + 1 /\ \A q \in Proc \ {p} : proc'[q] = proc[q]
        /\ proc' \in [Proc -> Handler]
    <3> DEFINE h == [proc[p] EXCEPT !.pc = "migrate", !.file = f + 1]
    <3>1. h \in Handler /\ h.pc = "migrate" /\ h.recovers = proc[p].recovers
          /\ h.biz = proc[p].biz /\ h.setup = proc[p].setup /\ h.file = f + 1
      BY <2>1, Here DEF Handler, Stage
    <3>2. proc' = [proc EXCEPT ![p] = h]
      BY <2>2, Here DEF f
    <3> HIDE DEF h
    <3> QED
      BY <3>1, <3>2, Here
  <2>7. TypeOK'
    BY <2>2, <2>5, <2>6 DEF IInv, TypeOK, Record
  <2>8. Good(p)'
    <3>1. Store(p)'.files = f
      BY <2>1, <2>2, <2>3, <2>6, Here DEF Store, Target, b, n, IInv, TypeOK
    <3> QED
      BY <1>1, <2>1, <2>2, <2>6, <3>1, Here DEF Good, Given, Follows, Arrived, Works, At
  <2> QED
    BY <1>1, <2>2, <2>5, <2>6, <2>7, <2>8, WorkStep
<1> QED
  BY <1>2, <1>3 DEF ApplyFile

LEMMA SeedStep ==
    ASSUME IInv, NEW p \in Proc, SeedTenant(p) \/ SeedShared(p)
    PROVE  IInv' /\ Forward
<1> DEFINE b == proc[p].biz
           n == proc[p].setup.name
           o == proc[p].setup.owner
<1>1. /\ Works(p) /\ At(p, "seed") /\ EnsureOwner(p)
      /\ UNCHANGED <<mode, request, vendor, recipe, tenant, licences, bound, credential, faults>>
      /\ IF mode = "shared" THEN runtime' = runtime \cup {b} ELSE runtime' = runtime
  BY DEF SeedTenant, SeedShared, Works, At
<1>2. /\ Target(p) = <<b, n>> /\ b \in Biz /\ n \in Name /\ database[<<b, n>>] \in Record
      /\ o \in Owner /\ o # NoOne
  BY <1>1, Here DEF Store, Record
<1>3. CASE database[Target(p)].owner \notin {NoOne, o}
  <2>1. mode = "shared" => b \in runtime
    BY <1>2, <1>3 DEF IInv, Tables, Stores
  <2>2. Failed(p) /\ UNCHANGED database
    BY <1>1, <1>3 DEF EnsureOwner
  <2>3. runtime' = runtime
    BY <1>1, <2>1
  <2>4. Still
    BY <1>1, <2>2, <2>3 DEF Still
  <2>5. faults' \in 0 .. MaxFaults
    BY <1>1 DEF IInv, TypeOK
  <2> QED
    BY <1>1, <2>2, <2>4, <2>5, FailedStep
<1>4. CASE database[Target(p)].owner \in {NoOne, o}
  <2> DEFINE r == [database[<<b, n>>] EXCEPT !.owner = o]
             st == IF proc[p].recovers THEN "consume" ELSE "complete"
  <2>1. database' = [database EXCEPT ![<<b, n>>] = r] /\ Goto(p, st)
    BY <1>2, <1>4, <1>1 DEF EnsureOwner
  <2>2. /\ r \in Record /\ r.files = database[<<b, n>>].files /\ r.owner = o
        /\ r.exists = database[<<b, n>>].exists /\ database[<<b, n>>].files <= r.files
    <3>1. ASSUME NEW d \in Record
          PROVE  /\ [d EXCEPT !.owner = o] \in Record
                 /\ [d EXCEPT !.owner = o].files = d.files
                 /\ [d EXCEPT !.owner = o].exists = d.exists
                 /\ [d EXCEPT !.owner = o].owner = o
      BY <1>2 DEF Record
    <3>2. \A d \in Record : d.files <= d.files
      BY ProvisioningAssumption DEF Record
    <3> QED
      BY <1>2, <3>1, <3>2
  <2>3. /\ r.exists => vendor[b].st # "none" /\ (recipe[b].st # "none" => n = recipe[b].setup.name)
        /\ database[<<b, n>>].owner # NoOne => r.owner = database[<<b, n>>].owner
        /\ mode = "shared" => ~proc[p].recovers
        /\ mode # "shared" => r.files = Files
    BY <1>1, <1>2, <1>4, <2>2, Here DEF IInv, Tables, Stores, Good, Given, Arrived, Store, At
  <2> HIDE DEF r
  <2>4. /\ database' \in [Biz \X Name -> Record] /\ runtime' \subseteq Biz /\ Tables' /\ Forward
    <3>1. /\ mode = "shared" => b \in runtime' /\ r.owner # NoOne
          /\ runtime' \in {runtime, runtime \cup {b}} /\ bound \subseteq bound'
      BY <1>1, <1>2, <2>2
    <3> HIDE DEF b, n, o
    <3> QED
      BY <1>1, <1>2, <2>1, <2>2, <2>3, <3>1, DatabaseChange
  <2>5. TypeOK'
    <3>1. st \in Stage
      BY DEF Stage
    <3>2. proc' \in [Proc -> Handler]
      BY <2>1, <3>1, GotoType
    <3> HIDE DEF b, n, o, st
    <3> QED
      BY <1>1, <2>4, <3>2 DEF IInv, TypeOK, Record
  <2>6. Good(p)'
    <3>1. Store(p)' = r
      <4>1. proc'[p].biz = b /\ proc'[p].setup.name = n
        BY <2>1, GotoFacts
      <4>2. database'[<<b, n>>] = r
        BY <1>2, <2>1 DEF IInv, TypeOK
      <4> QED
        BY <4>1, <4>2 DEF Store, Target
    <3>2. Given(p)'
      BY <1>1, <2>1, <2>3, Here, GotoFacts DEF Good, Given, Works, At
    <3>3. Follows(p)'
      BY <1>1, <2>1, <2>3, Here, GotoFacts DEF Good, Follows, Works, At
    <3>4. Arrived(p)'
      BY <1>1, <2>1, <2>2, <2>3, <3>1, Here, GotoFacts DEF Arrived, Works, At
    <3> QED
      BY <3>2, <3>3, <3>4 DEF Good
  <2>7. runtime' \subseteq runtime \cup {b} /\ st # "onboard"
    BY <1>1
  <2> QED
    BY <1>1, <2>1, <2>4, <2>5, <2>6, <2>7, WorkGoto
<1> QED
  BY <1>3, <1>4

-----------------------------------------------------------------------------
(* Steps in the control plane *)

LEMMA ErrorChange ==
    ASSUME IInv, NEW b \in Biz, NEW e \in BOOLEAN,
           recipe' = [recipe EXCEPT ![b].error = e],
           UNCHANGED <<mode, request, vendor, tenant, runtime, licences, bound, database>>
    PROVE  /\ recipe' \in [Biz -> [st : {"none", "open", "completed"},
                                   setup : Setup \cup {NoOne}, error : BOOLEAN]]
           /\ Tables' /\ Forward
           /\ \A c \in Biz : recipe'[c].st = recipe[c].st /\ recipe'[c].setup = recipe[c].setup
<1> DEFINE R == [st : {"none", "open", "completed"}, setup : Setup \cup {NoOne}, error : BOOLEAN]
<1>1. recipe \in [Biz -> R]
  BY DEF IInv, TypeOK
<1>2. \A r \in R : /\ [r EXCEPT !.error = e] \in R
                   /\ [r EXCEPT !.error = e].st = r.st /\ [r EXCEPT !.error = e].setup = r.setup
  OBVIOUS
<1>3. \A c \in Biz : recipe'[c].st = recipe[c].st /\ recipe'[c].setup = recipe[c].setup
  BY <1>1, <1>2
<1>4. recipe' \in [Biz -> R]
  BY <1>1, <1>2
<1> HIDE DEF R
<1>5. Forward
  <2>1. \A x \in Biz, n \in Name : database[<<x, n>>].files <= database[<<x, n>>].files
    BY ProvisioningAssumption DEF IInv, TypeOK
  <2> QED
    BY <1>3, <2>1 DEF Forward
<1>6. Businesses'
  BY <1>3 DEF IInv, Tables, Businesses
<1>7. Tenants'
  BY <1>3 DEF IInv, Tables, Tenants, Usable
<1>8. Stores'
  BY <1>3 DEF IInv, Tables, Stores
<1>9. CompletedIsWhole'
  BY <1>3 DEF IInv, Tables, CompletedIsWhole, Usable
<1> QED
  BY <1>3, <1>4, <1>5, <1>6, <1>7, <1>8, <1>9 DEF Tables, R

Tenant == [st : {"none", "provisioning", "error", "active"}, name : Name \cup {NoOne}]

\* A tenant row that does not become active.
LEMMA TenantChange ==
    ASSUME IInv, NEW b \in Biz, NEW t \in Tenant, tenant' = [tenant EXCEPT ![b] = t],
           tenant[b].st = "active" \/ t.st = "active" => t = tenant[b],
           tenant[b].st # "none" => t.st # "none",
           recipe[b].st # "none" /\ t.st # "none" => t.name = recipe[b].setup.name,
           vendor[b].st # "none",
           UNCHANGED <<mode, request, vendor, recipe, runtime, licences, bound, database>>
    PROVE  /\ tenant' \in [Biz -> Tenant] /\ Tables' /\ Forward
           /\ tenant'[b] = t
<1>1. tenant \in [Biz -> Tenant]
  BY DEF IInv, TypeOK, Tenant
<1>2. \A c \in Biz : tenant'[c] = IF c = b THEN t ELSE tenant[c]
  BY <1>1
<1>3. tenant' \in [Biz -> Tenant]
  BY <1>1
<1>5. Forward
  <2>1. \A x \in Biz, n \in Name : database[<<x, n>>].files <= database[<<x, n>>].files
    BY ProvisioningAssumption DEF IInv, TypeOK
  <2> QED
    BY <1>2, <2>1 DEF Forward
<1>6. Businesses'
  BY DEF IInv, Tables, Businesses
<1>7. Tenants'
  BY <1>2 DEF IInv, Tables, Tenants, Usable
<1>8. Stores'
  BY DEF IInv, Tables, Stores
<1>9. CompletedIsWhole'
  <2>1. \A c \in Biz : tenant[c].st = "active" => tenant'[c] = tenant[c]
    BY <1>2
  <2>2. \A c \in Biz : recipe[c].st = "completed" /\ mode = "database_per_tenant" =>
           tenant[c].st = "active"
    <3> SUFFICES ASSUME NEW c \in Biz, recipe[c].st = "completed", mode = "database_per_tenant"
                 PROVE  tenant[c].st = "active"
      OBVIOUS
    <3>1. tenant[c] = [st |-> "active", name |-> recipe[c].setup.name]
      BY DEF IInv, Tables, CompletedIsWhole
    <3> QED
      BY <3>1
  <2> QED
    BY <2>1, <2>2 DEF IInv, Tables, CompletedIsWhole, Usable
<1> QED
  BY <1>2, <1>3, <1>5, <1>6, <1>7, <1>8, <1>9 DEF Tables

LEMMA ResetStep == ASSUME IInv, NEW p \in Proc, Reset(p) PROVE IInv' /\ Forward
<1> DEFINE b == proc[p].biz
           st == IF mode = "shared" THEN "seed" ELSE "register"
<1>1. /\ Works(p) /\ At(p, "reset") /\ b \in Biz /\ Goto(p, st)
      /\ st \in Stage \ {"onboard"}
      /\ UNCHANGED <<request, runtime>>
  BY Here DEF Reset, Works, At, Stage
<1>2. /\ recipe' \in [Biz -> [st : {"none", "open", "completed"},
                              setup : Setup \cup {NoOne}, error : BOOLEAN]]
      /\ Tables' /\ Forward
      /\ \A c \in Biz : recipe'[c].st = recipe[c].st /\ recipe'[c].setup = recipe[c].setup
  BY <1>1, ErrorChange DEF Reset
<1>3. TypeOK'
  BY <1>1, <1>2, GotoType DEF Reset, IInv, TypeOK
<1>4. Good(p)'
  BY <1>1, <1>2, Here, GotoFacts DEF Reset, Good, Given, Follows, Arrived, Works, At
<1> QED
  BY <1>1, <1>2, <1>3, <1>4, WorkGoto

LEMMA FailRecipeStep == ASSUME IInv, NEW p \in Proc, FailRecipe(p) PROVE IInv' /\ Forward
<1> DEFINE b == proc[p].biz
<1>1. Works(p) /\ At(p, "failRecipe") /\ b \in Biz /\ UNCHANGED <<request, runtime>>
  BY Here DEF FailRecipe, Works, At
<1>2. /\ recipe' \in [Biz -> [st : {"none", "open", "completed"},
                              setup : Setup \cup {NoOne}, error : BOOLEAN]]
      /\ Tables' /\ Forward
      /\ \A c \in Biz : recipe'[c].st = recipe[c].st /\ recipe'[c].setup = recipe[c].setup
  BY <1>1, ErrorChange DEF FailRecipe
<1>3. CASE Done(p)
  <2>1. TypeOK'
    BY <1>2, <1>3, DoneFacts DEF FailRecipe, IInv, TypeOK
  <2> QED
    BY <1>1, <1>2, <1>3, <2>1, DoneFacts, WorkStep DEF Idle
<1>4. CASE mode # "shared" /\ Goto(p, "failTenant")
  <2>1. TypeOK'
    BY <1>2, <1>4, GotoType DEF FailRecipe, IInv, TypeOK, Stage
  <2>2. Good(p)'
    BY <1>1, <1>2, <1>4, Here, GotoFacts
       DEF FailRecipe, Good, Given, Follows, Arrived, Works, At
  <2> QED
    BY <1>1, <1>2, <1>4, <2>1, <2>2, WorkGoto
<1> QED
  BY <1>3, <1>4 DEF FailRecipe

LEMMA RegisterStep == ASSUME IInv, NEW p \in Proc, Register(p) PROVE IInv' /\ Forward
<1> DEFINE b == proc[p].biz
           t == [st |-> IF tenant[b].st = "active" THEN "active" ELSE "provisioning",
                 name |-> IF tenant[b].st = "none" THEN proc[p].setup.name ELSE tenant[b].name]
<1>1. /\ Works(p) /\ At(p, "register") /\ b \in Biz /\ Goto(p, "create") /\ mode # "shared"
      /\ UNCHANGED <<request, runtime>>
      /\ ~proc[p].recovers /\ recipe[b].st # "none" /\ proc[p].setup = recipe[b].setup
      /\ proc[p].setup.name \in Name
  BY Here DEF Register, Works, At, Good, Given, Follows
<1>2. tenant \in [Biz -> Tenant] /\ tenant[b] \in Tenant
  BY <1>1 DEF IInv, TypeOK, Tenant
<1>3. tenant' = [tenant EXCEPT ![b] = t]
  BY <1>1, <1>2 DEF Register
<1>4. /\ t \in Tenant /\ t.st # "none" /\ vendor[b].st # "none"
      /\ t.name = recipe[b].setup.name
      /\ tenant[b].st = "active" \/ t.st = "active" => t = tenant[b]
  BY <1>1, <1>2 DEF Tenant, IInv, Tables, Tenants, Businesses
<1> HIDE DEF t
<1>5. /\ tenant' \in [Biz -> Tenant] /\ Tables' /\ Forward /\ tenant'[b] = t
  <2> HIDE DEF b
  <2> QED
    BY <1>1, <1>3, <1>4, TenantChange DEF Register
<1>6. TypeOK'
  BY <1>1, <1>5, GotoType DEF Register, IInv, TypeOK, Tenant, Stage
<1>7. Good(p)'
  <2>1. /\ proc'[p].pc = "create" /\ ~proc'[p].recovers /\ proc'[p].biz = b
        /\ proc'[p].setup = proc[p].setup /\ proc'[p].file = proc[p].file
    BY <1>1, GotoFacts
  <2>2. proc[p].setup \in Setup /\ proc[p].file = 1
    BY <1>1, Here DEF Good, Given, Works, At
  <2>3. mode' = mode /\ recipe' = recipe
    BY DEF Register
  <2> HIDE DEF b
  <2>4. Given(p)'
    BY <1>1, <2>1, <2>2, <2>3 DEF Given, Works
  <2>5. Follows(p)'
    BY <1>1, <1>4, <1>5, <2>1, <2>3 DEF Follows, Works
  <2>6. Arrived(p)'
    BY <2>1 DEF Arrived
  <2> QED
    BY <2>4, <2>5, <2>6 DEF Good
<1> QED
  BY <1>1, <1>5, <1>6, <1>7, WorkGoto

LEMMA FailTenantStep == ASSUME IInv, NEW p \in Proc, FailTenant(p) PROVE IInv' /\ Forward
<1> DEFINE b == proc[p].biz
           s == IF tenant[b].st \in {"none", "active"} THEN tenant[b].st ELSE "error"
           t == [tenant[b] EXCEPT !.st = s]
<1>1. /\ Works(p) /\ At(p, "failTenant") /\ b \in Biz /\ Done(p) /\ UNCHANGED <<request, runtime>>
      /\ ~proc[p].recovers /\ recipe[b].st # "none"
  BY Here DEF FailTenant, Works, At, Good, Given, Follows
<1>2. tenant \in [Biz -> Tenant] /\ tenant[b] \in Tenant
  BY <1>1 DEF IInv, TypeOK, Tenant
<1>3. tenant' = [tenant EXCEPT ![b] = t]
  BY <1>1, <1>2 DEF FailTenant
<1>4. /\ t \in Tenant /\ t.name = tenant[b].name /\ t.st = s
      /\ tenant[b].st = "active" \/ t.st = "active" => t = tenant[b]
  BY <1>2 DEF Tenant
<1>5. /\ vendor[b].st # "none"
      /\ tenant[b].st # "none" => t.st # "none"
      /\ t.st # "none" => t.name = recipe[b].setup.name
  BY <1>1, <1>4 DEF IInv, Tables, Tenants, Businesses
<1> HIDE DEF t, s
<1>6. /\ tenant' \in [Biz -> Tenant] /\ Tables' /\ Forward
  <2> HIDE DEF b
  <2> QED
    BY <1>1, <1>3, <1>4, <1>5, TenantChange DEF FailTenant
<1>7. TypeOK'
  BY <1>1, <1>6, DoneFacts DEF FailTenant, IInv, TypeOK, Tenant
<1> QED
  BY <1>1, <1>6, <1>7, DoneFacts, WorkStep DEF Idle

LEMMA FilesStay ==
    ASSUME IInv
    PROVE  \A b \in Biz, n \in Name : database[<<b, n>>].files <= database[<<b, n>>].files
  BY ProvisioningAssumption DEF IInv, TypeOK

\* One more business is whole, and the others are as they were.
LEMMA OneMoreWhole ==
    ASSUME CompletedIsWhole, NEW b \in Biz, UNCHANGED <<mode, database>>,
           \A c \in Biz \ {b} :
              recipe'[c] = recipe[c] /\ licences'[c] = licences[c] /\ tenant'[c] = tenant[c],
           runtime \subseteq runtime', bound \subseteq bound',
           licences'[b] = 1, b \in runtime', b \in bound',
           database[<<b, recipe'[b].setup.name>>].owner = recipe'[b].setup.owner,
           mode = "database_per_tenant" =>
              /\ tenant'[b] = [st |-> "active", name |-> recipe'[b].setup.name]
              /\ Usable(b, tenant'[b].name)
    PROVE  CompletedIsWhole'
<1> SUFFICES ASSUME NEW c \in Biz, recipe'[c].st = "completed"
             PROVE  /\ licences'[c] = 1 /\ c \in runtime' /\ c \in bound'
                    /\ database[<<c, recipe'[c].setup.name>>].owner = recipe'[c].setup.owner
                    /\ mode = "database_per_tenant" =>
                          /\ tenant'[c] = [st |-> "active", name |-> recipe'[c].setup.name]
                          /\ database[<<c, tenant'[c].name>>].files = Files
                          /\ database[<<c, tenant'[c].name>>].owner # NoOne
  BY DEF CompletedIsWhole, Usable
<1>1. CASE c = b
  BY <1>1 DEF Usable
<1>2. CASE c # b
  <2>1. recipe'[c] = recipe[c] /\ licences'[c] = licences[c] /\ tenant'[c] = tenant[c]
    BY <1>2
  <2>2. /\ licences[c] = 1 /\ c \in runtime /\ c \in bound
        /\ database[<<c, recipe[c].setup.name>>].owner = recipe[c].setup.owner
        /\ mode = "database_per_tenant" =>
              /\ tenant[c] = [st |-> "active", name |-> recipe[c].setup.name]
              /\ database[<<c, tenant[c].name>>].files = Files
              /\ database[<<c, tenant[c].name>>].owner # NoOne
    BY <2>1 DEF CompletedIsWhole, Usable
  <2> QED
    BY <2>1, <2>2
<1> QED
  BY <1>1, <1>2

\* What the last transaction of an attempt leaves.
LEMMA CompleteChange ==
    ASSUME IInv, NEW b \in Biz, recipe[b].st # "none", vendor[b].st = "active",
           database[<<b, recipe[b].setup.name>>].owner = recipe[b].setup.owner,
           mode # "shared" => /\ tenant[b].st # "none"
                              /\ database[<<b, recipe[b].setup.name>>].files = Files,
           licences' = [licences EXCEPT ![b] = IF @ = 0 THEN 1 ELSE @],
           runtime' = runtime \cup {b},
           tenant' = IF mode = "shared" THEN tenant ELSE [tenant EXCEPT ![b].st = "active"],
           bound' = bound \cup {b},
           recipe' = [recipe EXCEPT ![b].st = "completed", ![b].error = FALSE],
           UNCHANGED <<mode, request, vendor, database>>
    PROVE  /\ recipe' \in [Biz -> [st : {"none", "open", "completed"},
                                   setup : Setup \cup {NoOne}, error : BOOLEAN]]
           /\ tenant' \in [Biz -> Tenant] /\ licences' \in [Biz -> Nat]
           /\ Tables' /\ Forward
           /\ \A c \in Biz : recipe'[c].setup = recipe[c].setup
<1> DEFINE R == [st : {"none", "open", "completed"}, setup : Setup \cup {NoOne}, error : BOOLEAN]
           s == recipe[b].setup
<1>1. /\ recipe \in [Biz -> R] /\ tenant \in [Biz -> Tenant] /\ licences \in [Biz -> Nat]
      /\ mode \in {"shared", "database_per_tenant"} /\ runtime \subseteq Biz
  BY ProvisioningAssumption DEF IInv, TypeOK, Tenant
<1>2. s \in Setup /\ s.name \in Name /\ s.owner # NoOne /\ licences[b] \in {0, 1}
  <2>1. s \in Setup
    BY DEF IInv, Tables, Businesses
  <2>2. licences[b] <= 1 /\ licences[b] \in Nat
    BY <1>1 DEF IInv, Tables, Businesses
  <2> QED
    BY <2>1, <2>2, ProvisioningAssumption DEF Setup
<1>3. /\ recipe' \in [Biz -> R]
      /\ \A c \in Biz \ {b} : recipe'[c] = recipe[c]
      /\ recipe'[b].st = "completed" /\ recipe'[b].setup = s
  <2>1. \A r \in R : /\ [r EXCEPT !.st = "completed", !.error = FALSE] \in R
                     /\ [r EXCEPT !.st = "completed", !.error = FALSE].st = "completed"
                     /\ [r EXCEPT !.st = "completed", !.error = FALSE].setup = r.setup
    OBVIOUS
  <2>2. recipe' = [recipe EXCEPT ![b] = [recipe[b] EXCEPT !.st = "completed", !.error = FALSE]]
    BY <1>1
  <2> HIDE DEF R
  <2>3. recipe[b] \in R
    BY <1>1
  <2> QED
    BY <1>1, <2>1, <2>2, <2>3
<1>4. /\ licences' \in [Biz -> Nat] /\ licences'[b] = 1
      /\ \A c \in Biz \ {b} : licences'[c] = licences[c]
  BY <1>1, <1>2
<1>5. /\ tenant' \in [Biz -> Tenant]
      /\ \A c \in Biz \ {b} : tenant'[c] = tenant[c]
      /\ mode = "shared" => tenant' = tenant
      /\ mode # "shared" => tenant'[b] = [st |-> "active", name |-> s.name]
  <2>1. CASE mode = "shared"
    BY <1>1, <2>1
  <2>2. CASE mode # "shared"
    <3>1. tenant[b] \in Tenant /\ tenant[b].name = s.name
      BY <1>1, <2>2 DEF IInv, Tables, Tenants
    <3>2. [tenant[b] EXCEPT !.st = "active"] = [st |-> "active", name |-> s.name]
      BY <3>1 DEF Tenant
    <3>3. [st |-> "active", name |-> s.name] \in Tenant
      BY <1>2 DEF Tenant
    <3>4. tenant' = [tenant EXCEPT ![b] = [st |-> "active", name |-> s.name]]
      BY <2>2, <3>2
    <3> QED
      BY <1>1, <2>2, <3>3, <3>4
  <2> QED
    BY <2>1, <2>2
<1>6. mode # "shared" => tenant'[b].st = "active" /\ tenant'[b].name = s.name
  BY <1>5
<1>7. \A c \in Biz : recipe'[c].setup = recipe[c].setup
  BY <1>3
<1>8. Forward
  BY <1>3, <1>5, <1>6, FilesStay DEF Forward
<1>9. Businesses'
  BY <1>2, <1>3, <1>4 DEF IInv, Tables, Businesses
<1>10. Tenants'
  <2>1. mode # "shared" => Usable(b, s.name)
    BY <1>2 DEF Usable
  <2>2. \A c \in Biz \ {b} : /\ vendor[c].st = "none" => tenant[c].st = "none"
                             /\ tenant[c].st = "active" =>
                                  /\ c \in runtime /\ tenant[c].name \in Name
                                  /\ Usable(c, tenant[c].name)
                             /\ recipe[c].st # "none" /\ tenant[c].st # "none" =>
                                  tenant[c].name = recipe[c].setup.name
    BY DEF IInv, Tables, Tenants
  <2>3. CASE mode = "shared"
    BY <1>3, <1>5, <2>3 DEF IInv, Tables, Tenants, Usable
  <2>4. CASE mode # "shared"
    BY <1>2, <1>3, <1>5, <1>6, <2>1, <2>2, <2>4 DEF Tenants, Usable
  <2> QED
    BY <2>3, <2>4
<1>11. Stores'
  <2> SUFFICES ASSUME NEW c \in Biz
               PROVE  /\ \A m \in Name : database[<<c, m>>].exists =>
                            /\ vendor[c].st # "none"
                            /\ recipe'[c].st # "none" => m = recipe'[c].setup.name
                      /\ mode = "shared" =>
                           (c \in runtime' <=> \E m \in Name : database[<<c, m>>].owner # NoOne)
    BY DEF Stores
  <2>1. /\ \A m \in Name : database[<<c, m>>].exists =>
              /\ vendor[c].st # "none"
              /\ recipe[c].st # "none" => m = recipe[c].setup.name
        /\ mode = "shared" =>
              (c \in runtime <=> \E m \in Name : database[<<c, m>>].owner # NoOne)
    BY DEF IInv, Tables, Stores
  <2>2. CASE c = b
    BY <1>2, <1>7, <2>1, <2>2
  <2>3. CASE c # b
    BY <1>3, <2>1, <2>3
  <2> QED
    BY <2>2, <2>3
<1>12. CompletedIsWhole'
  <2>1. mode = "database_per_tenant" =>
          tenant'[b] = [st |-> "active", name |-> s.name] /\ Usable(b, tenant'[b].name)
    BY <1>2, <1>5, <1>6 DEF Usable
  <2>2. licences'[b] = 1 /\ b \in runtime' /\ b \in bound' /\ database[<<b, s.name>>].owner = s.owner
    BY <1>4
  <2>3. runtime \subseteq runtime' /\ bound \subseteq bound'
    OBVIOUS
  <2>4. CompletedIsWhole
    BY DEF IInv, Tables
  <2>5. \A c \in Biz \ {b} :
          recipe'[c] = recipe[c] /\ licences'[c] = licences[c] /\ tenant'[c] = tenant[c]
    BY <1>3, <1>4, <1>5
  <2>6. /\ database[<<b, recipe'[b].setup.name>>].owner = recipe'[b].setup.owner
        /\ mode = "database_per_tenant" =>
              /\ tenant'[b] = [st |-> "active", name |-> recipe'[b].setup.name]
              /\ Usable(b, tenant'[b].name)
    BY <1>3, <2>1, <2>2
  <2>7. UNCHANGED <<mode, database>> /\ b \in Biz
    OBVIOUS
  <2> HIDE DEF s, R
  <2> QED
    BY <2>2, <2>3, <2>4, <2>5, <2>6, <2>7, OneMoreWhole, Zenon
<1> QED
  BY <1>3, <1>4, <1>5, <1>7, <1>8, <1>9, <1>10, <1>11, <1>12 DEF Tables

LEMMA CompleteStep == ASSUME IInv, NEW p \in Proc, Complete(p) PROVE IInv' /\ Forward
<1> DEFINE b == proc[p].biz
<1>1. /\ Works(p) /\ At(p, "complete") /\ b \in Biz /\ Goto(p, "read")
      /\ request' = request /\ runtime' = runtime \cup {b} /\ vendor[b].st = "active"
  BY Here DEF Complete, Works, At
<1>2. /\ ~proc[p].recovers /\ recipe[b].st # "none" /\ proc[p].setup = recipe[b].setup
      /\ mode # "shared" => tenant[b].st # "none" /\ Store(p).files = Files
      /\ Store(p).owner = recipe[b].setup.owner
      /\ Store(p) = database[<<b, recipe[b].setup.name>>]
  BY <1>1, Here DEF Good, Given, Follows, Arrived, At, Store
<1>3. /\ recipe' \in [Biz -> [st : {"none", "open", "completed"},
                              setup : Setup \cup {NoOne}, error : BOOLEAN]]
      /\ tenant' \in [Biz -> Tenant] /\ licences' \in [Biz -> Nat]
      /\ Tables' /\ Forward
      /\ \A c \in Biz : recipe'[c].setup = recipe[c].setup
  <2>1. /\ database[<<b, recipe[b].setup.name>>].owner = recipe[b].setup.owner
        /\ mode # "shared" => database[<<b, recipe[b].setup.name>>].files = Files
    BY <1>2
  <2>2. /\ licences' = [licences EXCEPT ![b] = IF @ = 0 THEN 1 ELSE @]
        /\ tenant' = IF mode = "shared" THEN tenant ELSE [tenant EXCEPT ![b].st = "active"]
        /\ bound' = bound \cup {b}
        /\ recipe' = [recipe EXCEPT ![b].st = "completed", ![b].error = FALSE]
        /\ UNCHANGED <<mode, request, vendor, database>>
    BY DEF Complete
  <2> HIDE DEF b
  <2> QED
    BY <1>1, <1>2, <2>1, <2>2, CompleteChange
<1>4. TypeOK'
  <2>1. /\ runtime' \subseteq Biz /\ bound' \subseteq Biz
        /\ UNCHANGED <<mode, request, vendor, database, credential, faults>>
    BY <1>1 DEF Complete, IInv, TypeOK
  <2>2. proc' \in [Proc -> Handler]
    BY <1>1, GotoType DEF Stage
  <2> QED
    BY <1>3, <2>1, <2>2 DEF IInv, TypeOK, Tenant
<1>5. Good(p)'
  <2>1. recipe'[b].st # "none" /\ mode' = mode
    BY <1>1, <1>2, <1>3 DEF Forward
  <2>5. /\ proc'[p].pc = "read" /\ ~proc'[p].recovers /\ proc'[p].biz = b
        /\ proc'[p].setup = proc[p].setup /\ proc[p].setup \in Setup
    <3>1. proc[p].setup \in Setup
      BY <1>1, Here
    <3> QED
      BY <1>1, <1>2, <3>1, GotoFacts
  <2>2. Given(p)'
    BY <1>1, <2>5 DEF Given, Works
  <2>3. Follows(p)'
    <3>1. recipe'[b].setup = proc[p].setup
      BY <1>1, <1>2, <1>3
    <3> QED
      BY <2>5, <2>1, <3>1 DEF Follows, Works
  <2>4. Arrived(p)'
    BY <2>5 DEF Arrived
  <2> QED
    BY <2>2, <2>3, <2>4 DEF Good
<1> QED
  BY <1>1, <1>2, <1>3, <1>4, <1>5, WorkGoto

LEMMA ConsumeStep == ASSUME IInv, NEW p \in Proc, Consume(p) PROVE IInv' /\ Forward
<1> DEFINE b == proc[p].biz
           n == proc[p].setup.name
           o == proc[p].setup.owner
<1>1. /\ Works(p) /\ At(p, "consume") /\ Done(p) /\ proc[p].recovers
      /\ UNCHANGED <<mode, request, vendor, recipe, licences, faults>>
      /\ runtime' = runtime \cup {b} /\ bound' = bound \cup {b}
      /\ credential' = [credential EXCEPT ![b] = "consumed"]
  BY Here DEF Consume, Works, At, Good, Given
<1>2. /\ recipe[b].st = "none" /\ vendor[b].st # "none" /\ b \notin runtime
      /\ b \in Biz /\ n \in Name /\ o \in Owner /\ o # NoOne /\ Target(p) = <<b, n>>
      /\ database[<<b, n>>] \in Record
  BY <1>1, Here DEF Good, Follows, Store, Record
<1>3. /\ tenant \in [Biz -> Tenant] /\ database \in [Biz \X Name -> Record]
      /\ runtime \subseteq Biz /\ bound \subseteq Biz
      /\ credential \in [Biz -> {"none", "live", "consumed"}]
  BY DEF IInv, TypeOK, Tenant, Record
<1>4. /\ tenant' \in [Biz -> Tenant] /\ database' \in [Biz \X Name -> Record]
      /\ Tables' /\ Forward
  <2>1. CASE mode = "shared"
    <3> DEFINE r == [database[<<b, n>>] EXCEPT !.owner = o]
    <3>1. database' = [database EXCEPT ![<<b, n>>] = r] /\ UNCHANGED tenant
      BY <1>2, <2>1 DEF Consume
    <3>2. database[<<b, n>>].owner = NoOne
      BY <1>2, <2>1 DEF IInv, Tables, Stores
    <3>3. /\ r \in Record /\ r.files = database[<<b, n>>].files /\ r.owner = o
          /\ database[<<b, n>>].files <= r.files
      <4>1. ASSUME NEW d \in Record
            PROVE  /\ [d EXCEPT !.owner = o] \in Record
                   /\ [d EXCEPT !.owner = o].files = d.files
                   /\ [d EXCEPT !.owner = o].owner = o
        BY <1>2 DEF Record
      <4> QED
        BY <1>2, <4>1, FilesStay
    <3>4. b \in runtime' /\ runtime' \in {runtime, runtime \cup {b}} /\ bound \subseteq bound'
      BY <1>1
    <3> HIDE DEF r, b, n, o
    <3> QED
      BY <1>1, <1>2, <1>3, <3>1, <3>2, <3>3, <3>4, DatabaseChange
  <2>2. CASE mode # "shared"
    <3>1. /\ tenant' = [tenant EXCEPT ![b] = [st |-> "active", name |-> n]]
          /\ UNCHANGED database
      BY <2>2 DEF Consume
    <3>2. /\ tenant' \in [Biz -> Tenant] /\ tenant'[b].st = "active" /\ tenant'[b].name = n
          /\ \A c \in Biz \ {b} : tenant'[c] = tenant[c]
      BY <1>2, <1>3, <3>1 DEF Tenant
    <3>3. Usable(b, n)
      <4>1. Arrived(p)
        BY Here DEF Good
      <4> QED
        BY <1>1, <1>2, <2>2, <4>1 DEF Arrived, Store, At, Usable
    <3>4. Forward
      BY <1>1, <3>1, <3>2, FilesStay DEF Forward
    <3>5. Businesses'
      BY <1>1, <1>2 DEF IInv, Tables, Businesses
    <3>6. Tenants'
      <4> SUFFICES ASSUME NEW c \in Biz
                   PROVE  /\ recipe[c].st # "none" /\ tenant'[c].st # "none" =>
                                tenant'[c].name = recipe[c].setup.name
                          /\ vendor[c].st = "none" => tenant'[c].st = "none"
                          /\ tenant'[c].st = "active" =>
                                c \in runtime' /\ tenant'[c].name \in Name
                                /\ Usable(c, tenant'[c].name)
        BY <1>1, <3>1 DEF Tenants, Usable
      <4>1. CASE c = b
        BY <1>1, <1>2, <3>2, <3>3, <4>1 DEF Usable
      <4>2. CASE c # b
        BY <1>1, <3>2, <4>2 DEF IInv, Tables, Tenants
      <4> QED
        BY <4>1, <4>2
    <3>7. Stores'
      BY <1>1, <2>2, <3>1 DEF IInv, Tables, Stores
    <3>8. CompletedIsWhole'
      <4>1. \A c \in Biz : recipe[c].st = "completed" => tenant'[c] = tenant[c]
        BY <1>2, <3>2
      <4> QED
        BY <1>1, <3>1, <4>1 DEF IInv, Tables, CompletedIsWhole, Usable
    <3> QED
      BY <1>3, <3>1, <3>2, <3>4, <3>5, <3>6, <3>7, <3>8 DEF Tables
  <2> QED
    BY <2>1, <2>2
<1>5. TypeOK'
  <2>1. /\ runtime' \subseteq Biz /\ bound' \subseteq Biz
        /\ credential' \in [Biz -> {"none", "live", "consumed"}]
    BY <1>1, <1>2, <1>3
  <2>2. proc' \in [Proc -> Handler]
    BY <1>1, DoneFacts
  <2> HIDE DEF b, n, o
  <2> QED
    BY <1>1, <1>4, <2>1, <2>2 DEF IInv, TypeOK, Tenant, Record
<1> QED
  BY <1>1, <1>4, <1>5, DoneFacts, WorkStep DEF Idle

LEMMA CommitStep ==
    ASSUME IInv, NEW p \in Proc, NEW b \in Biz, CommitOnboarding(p, b)
    PROVE  IInv' /\ Forward
<1> DEFINE s == proc[p].setup
           k == proc[p].key
           q0 == [setup |-> s, biz |-> b]
           v == [st |-> "active", name |-> s.name]
           r == [st |-> "open", setup |-> s, error |-> FALSE]
           h == [proc[p] EXCEPT !.pc = "begin", !.biz = b]
<1>1. /\ At(p, "onboard") /\ vendor[b].st = "none"
      /\ request' = [request EXCEPT ![k] = q0] /\ vendor' = [vendor EXCEPT ![b] = v]
      /\ recipe' = [recipe EXCEPT ![b] = r]
      /\ UNCHANGED <<mode, tenant, runtime, licences, bound, database, credential, faults>>
  BY DEF CommitOnboarding
<1>2. /\ proc[p] \in Handler /\ proc \in [Proc -> Handler] /\ s \in Setup /\ k \in Key
      /\ s.name \in Name /\ ~proc[p].recovers /\ request[k].biz = NoOne
      /\ proc' = [proc EXCEPT ![p] = h]
  <2>1. proc[p] \in Handler /\ proc \in [Proc -> Handler] /\ Good(p) /\ Unanswered(p)
    BY DEF IInv, TypeOK, Handlers
  <2>2. s \in Setup /\ k \in Key /\ ~proc[p].recovers /\ request[k].biz = NoOne
    BY <1>1, <2>1 DEF Good, Given, Unanswered, At
  <2> QED
    BY <2>1, <2>2 DEF CommitOnboarding, Setup
<1>3. /\ h \in Handler /\ h.pc = "begin" /\ h.recovers = FALSE /\ h.biz = b /\ h.setup = s
      /\ h.file = proc[p].file
  BY <1>2 DEF Handler, Stage
<1>4. /\ q0 \in [setup : Setup \cup {NoOne}, biz : Biz \cup {NoOne}] /\ q0.biz = b
      /\ v \in [st : {"none", "active", "inactive"}, name : Name \cup {NoOne}]
      /\ v.st = "active"
      /\ r \in [st : {"none", "open", "completed"}, setup : Setup \cup {NoOne}, error : BOOLEAN]
      /\ r.st = "open" /\ r.setup = s
  BY <1>2
<1> HIDE DEF h, q0, v, r, s, k
<1>5. /\ proc'[p] = h /\ \A q \in Proc \ {p} : proc'[q] = proc[q]
      /\ request'[k] = q0 /\ \A j \in Key \ {k} : request'[j] = request[j]
      /\ vendor'[b] = v /\ \A c \in Biz \ {b} : vendor'[c] = vendor[c]
      /\ recipe'[b] = r /\ \A c \in Biz \ {b} : recipe'[c] = recipe[c]
  BY <1>1, <1>2 DEF IInv, TypeOK
<1>6. /\ recipe[b].st = "none" /\ licences[b] = 0 /\ tenant[b].st = "none"
      /\ \A n \in Name : ~database[<<b, n>>].exists
  BY <1>1 DEF IInv, Tables, Businesses, Tenants, Stores
<1>7. TypeOK'
  <2>1. /\ proc' \in [Proc -> Handler]
        /\ request' \in [Key -> [setup : Setup \cup {NoOne}, biz : Biz \cup {NoOne}]]
        /\ vendor' \in [Biz -> [st : {"none", "active", "inactive"}, name : Name \cup {NoOne}]]
        /\ recipe' \in [Biz -> [st : {"none", "open", "completed"},
                                setup : Setup \cup {NoOne}, error : BOOLEAN]]
    BY <1>1, <1>2, <1>3, <1>4 DEF IInv, TypeOK
  <2> QED
    BY <1>1, <2>1 DEF IInv, TypeOK
<1>8. Forward
  BY <1>1, <1>5, <1>6, FilesStay DEF Forward
<1>9. Businesses'
  <2>1. ASSUME NEW c \in Biz, recipe'[c].st # "none"
        PROVE  recipe'[c].setup \in Setup /\ \E j \in Key : request'[j].biz = c
    <3>1. CASE c = b
      BY <1>2, <1>4, <1>5, <3>1
    <3>2. CASE c # b
      <4>1. recipe[c].st # "none"
        BY <1>5, <2>1, <3>2
      <4>2. recipe[c].setup \in Setup /\ \E j \in Key : request[j].biz = c
        BY <4>1 DEF IInv, Tables, Businesses
      <4> QED
        BY <1>2, <1>5, <3>2, <4>2, ProvisioningAssumption
    <3> QED
      BY <3>1, <3>2
  <2>2. licences[b] <= 1 /\ ~(licences[b] > 0)
    BY <1>6
  <2> QED
    BY <1>1, <1>4, <1>5, <1>6, <2>1, <2>2 DEF IInv, Tables, Businesses
<1>10. Tenants'
  BY <1>1, <1>4, <1>5, <1>6 DEF IInv, Tables, Tenants, Usable
<1>11. Stores'
  BY <1>1, <1>4, <1>5, <1>6 DEF IInv, Tables, Stores
<1>12. CompletedIsWhole'
  BY <1>1, <1>4, <1>5 DEF IInv, Tables, CompletedIsWhole, Usable
<1>13. Good(p)' /\ Unanswered(p)'
  <2>1. Given(p)'
    BY <1>1, <1>2, <1>3, <1>5, Here DEF Given, Works, Good, At
  <2>2. Follows(p)' /\ Arrived(p)' /\ Unanswered(p)'
    BY <1>3, <1>4, <1>5 DEF Follows, Arrived, Works, Unanswered, At
  <2> QED
    BY <2>1, <2>2 DEF Good
<1>14. ASSUME NEW q \in Proc \ {p}
       PROVE  /\ Apart(p, q)'
              /\ At(q, "onboard") => request'[proc[q].key].biz = request[proc[q].key].biz
              /\ proc[q].recovers => proc[q].biz \notin runtime'
  <2>1. Apart(p, q)'
    BY <1>3, <1>5 DEF Apart, At
  <2>2. At(q, "onboard") => proc[q].key \in Key \ {k}
    BY <1>1 DEF IInv, Alone, Apart, k, Handlers, Good, Given, At
  <2>3. proc[q].recovers => proc[q].biz \notin runtime
    BY DEF IInv, Handlers, Good, Follows
  <2> QED
    BY <1>1, <1>5, <2>1, <2>2, <2>3
<1> QED
  BY <1>5, <1>7, <1>8, <1>9, <1>10, <1>11, <1>12, <1>13, <1>14, HandlerStep DEF Tables

-----------------------------------------------------------------------------
(* The theorems *)

LEMMA InitInv == ASSUME Init PROVE IInv
<1>1. TypeOK
  <2>1. /\ proc \in [Proc -> Handler] /\ faults \in 0 .. MaxFaults
        /\ NoDatabase \in [exists : BOOLEAN, files : 0 .. Files, owner : Owner \cup {NoOne}]
        /\ NoRecipe \in [st : {"none", "open", "completed"},
                         setup : Setup \cup {NoOne}, error : BOOLEAN]
    BY ProvisioningAssumption, IdleType DEF Init, NoRecipe, NoDatabase
  <2>2. /\ vendor \in [Biz -> [st : {"none", "active", "inactive"}, name : Name \cup {NoOne}]]
        /\ licences \in [Biz -> Nat]
    BY DEF Init
  <2>3. request \in [Key -> [setup : Setup \cup {NoOne}, biz : Biz \cup {NoOne}]]
    BY DEF Init
  <2> QED
    BY <2>1, <2>2, <2>3 DEF Init, TypeOK
<1>2. Businesses
  BY ProvisioningAssumption DEF Init, Businesses, NoRecipe
<1>3. Tenants /\ Stores /\ CompletedIsWhole
  BY DEF Init, Tenants, Stores, CompletedIsWhole, NoRecipe, NoDatabase
<1>4. Handlers /\ Alone
  BY DEF Init, Handlers, Alone, Good, Given, Follows, Arrived, Works, Unanswered, Apart, At, Idle
<1> QED
  BY <1>1, <1>2, <1>3, <1>4 DEF IInv, Tables

LEMMA StutterStep == ASSUME IInv, UNCHANGED vars PROVE IInv' /\ Forward
<1>1. Still /\ UNCHANGED <<proc, request, credential, faults>>
  BY DEF vars, Still
<1>2. TypeOK'
  BY <1>1 DEF IInv, TypeOK, Still
<1> QED
  BY <1>1, <1>2, StillTables, OperatorStep DEF Still

LEMMA NextInv == ASSUME IInv, [Next]_vars PROVE IInv' /\ Forward
<1>1. ASSUME NEW p \in Proc, Attempt(p) PROVE IInv' /\ Forward
  <2>1. CASE \E b \in Biz : CommitOnboarding(p, b)
    BY <2>1, CommitStep
  <2>2. CASE Begin(p) \/ CheckDatabase(p) \/ CheckFile(p) \/ RefuseInactive(p) \/ ReadLifecycle(p)
    BY <2>2, StillActions
  <2>3. CASE Reset(p) \/ Register(p) \/ FailRecipe(p) \/ FailTenant(p)
    BY <2>3, ResetStep, RegisterStep, FailRecipeStep, FailTenantStep
  <2>4. CASE CreateDatabase(p) \/ ApplyFile(p) \/ SeedTenant(p) \/ SeedShared(p)
    BY <2>4, CreateStep, ApplyStep, SeedStep
  <2>5. CASE Complete(p) \/ Consume(p)
    BY <2>5, CompleteStep, ConsumeStep
  <2> QED
    BY <1>1, <2>1, <2>2, <2>3, <2>4, <2>5 DEF Attempt
<1>2. ASSUME NEW p \in Proc,
             \/ Fail(p) \/ Crash(p)
             \/ \E k \in Key, s \in Setup : Claim(p, k, s)
             \/ \E b \in Biz : Retry(p, b) \/ \E s \in Setup : Recover(p, b, s)
      PROVE  IInv' /\ Forward
  BY <1>2, StillActions, BeginActions
<1>3. ASSUME NEW b \in Biz,
             \/ IssueKey(b) \/ RevokeKey(b) \/ CreateLicence(b)
             \/ \E st \in {"active", "inactive"}, n \in Name : UpdateBusiness(b, st, n)
      PROVE  IInv' /\ Forward
  BY <1>3, KeyActions, LicenceAction, UpdateAction
<1> QED
  BY <1>1, <1>2, <1>3, StutterStep DEF Next

LEMMA Invariance == Spec => []IInv
  BY InitInv, NextInv, PTL DEF Spec

\* Every table row, and every handler between two of its statements, has the shape
\* the code of apps/api/src/saas gives it: a handler never leaves its list of
\* migrations, a licence count stays a number, a runtime belongs to a business.
THEOREM ProvisioningTyped == Spec => []TypeOK
<1>1. IInv => TypeOK
  BY DEF IInv
<1> QED
  BY <1>1, Invariance, PTL

\* However often a request is sent and however many attempts overlap, an onboarding
\* key has one business, which has at most one licence and one tenant database
\* (provisionVendorBusiness, ensureTenantDatabase, POST /api/vendor/licenses).
THEOREM NothingIsMadeTwice == Spec => []OneOfEach
<1>1. IInv => OneOfEach
  BY DEF IInv, Tables, Businesses, Stores, Handlers, Unanswered,
         OneOfEach, EveryBusinessWasRequested, OneLicence, OneDatabase, Databases
<1> QED
  BY <1>1, Invariance, PTL

\* A recipe is only marked completed when the control plane and the database it
\* names hold all it promises, whichever attempts did the work, and they keep it.
THEOREM CompletionIsWhole == Spec => []CompletedIsWhole
<1>1. IInv => CompletedIsWhole
  BY DEF IInv, Tables
<1> QED
  BY <1>1, Invariance, PTL

\* A business that commercialLifecycle shows as ready has its licence and a runtime
\* that can be used, prepared by an attempt or by a recovery.
THEOREM ReadinessIsEarned == Spec => []ReadyIsUsable
<1>1. ASSUME IInv PROVE ReadyIsUsable
  <2> SUFFICES ASSUME NEW b \in Biz, Lifecycle(b) = "READY_FOR_ACTIVATION"
               PROVE  /\ b \in runtime /\ licences[b] = 1
                      /\ IF mode = "shared" THEN \E n \in Name : database[<<b, n>>].owner # NoOne
                         ELSE Usable(b, tenant[b].name)
    BY DEF ReadyIsUsable
  <2>1. /\ licences[b] # 0 /\ b \in runtime
        /\ mode # "shared" => tenant[b].st = "active"
    BY DEF Lifecycle
  <2>2. licences[b] = 1
    <3>1. licences[b] \in Nat /\ licences[b] <= 1
      BY <1>1 DEF IInv, TypeOK, Tables, Businesses
    <3> QED
      BY <2>1, <3>1
  <2> QED
    BY <1>1, <2>1, <2>2 DEF IInv, Tables, Tenants, Stores
<1> QED
  BY <1>1, Invariance, PTL

\* No attempt, failure, retry or recovery undoes what another one has committed: a
\* completed recipe, an active tenant and the owner of a database stay.
THEOREM NothingIsTakenBack == Spec => PreparedForGood
<1> DEFINE Kept ==
      \A b \in Biz :
         /\ recipe[b].st = "completed" => recipe'[b].st = "completed"
         /\ tenant[b].st = "active" => tenant'[b].st = "active"
         /\ \A n \in Name : database[<<b, n>>].owner # NoOne =>
              database'[<<b, n>>].owner = database[<<b, n>>].owner
<1>1. IInv /\ [Next]_vars => [Kept]_vars
  BY NextInv DEF Forward
<1> QED
  BY <1>1, Invariance, PTL DEF Spec, PreparedForGood

===============================================================================
