---------------------------- MODULE SiteLifecycle ----------------------------
(***************************************************************************)
(* The life of one site name: WordPressSite objects of that name are       *)
(* created, edited, suspended and deleted through the apiserver, and the   *)
(* operator's single reconcile worker drives the Kubernetes objects and    *)
(* the MySQL server towards them.                                          *)
(*                                                                         *)
(* The operator reads the site and its Secret from an informer cache that  *)
(* lags behind the API server, and writes straight to the API server.      *)
(* Site and Secret writes are optimistic: they carry the resourceVersion   *)
(* that was read and are refused when it is no longer current.  The other  *)
(* objects are written by Server-Side Apply, which has no such check.      *)
(* Every API call of the operator is one action, and between two of them   *)
(* anything else may happen: a user edits or deletes the site, the garbage *)
(* collector runs, a watch event arrives, the operator dies.               *)
(***************************************************************************)
EXTENDS Integers, Resources, MySQLProvisioner

CONSTANTS
    DatabaseName,      \* DatabaseName[c]: the schema a site of spec c asks for
    DatabaseUser,      \* DatabaseUser[c]: the account a site of spec c asks for
    Refused,           \* the specs with a name that validateIdent refuses
    DropDataOnDelete,  \* the operator's DROP_DATA_ON_DELETE
    \* Bounds on what the environment does in one behaviour:
    MaxCreates,        \* sites created under this name, one after the other
    MaxEdits,          \* updateSite, updateSiteYAML and setSuspend calls
    MaxFaults,         \* operator calls that fail or lose their answer
    MaxTampers,        \* owned objects deleted, or the Secret blanked, by hand
    MaxCrashes,        \* operator restarts and leader changes
    MaxWakeups         \* watch events of owned objects with nothing to do

ASSUME NamesAssumption == /\ DatabaseName \in [Config -> Database]
                          /\ DatabaseUser \in [Config -> User]
ASSUME RefusedAssumption == Refused \subseteq Config
ASSUME DropAssumption == DropDataOnDelete \in BOOLEAN
ASSUME BoundsAssumption ==
    /\ MaxCreates \in Nat /\ MaxEdits \in Nat /\ MaxFaults \in Nat
    /\ MaxTampers \in Nat /\ MaxCrashes \in Nat /\ MaxWakeups \in Nat

VARIABLES
    site,         \* the WordPressSite in the API server
    siteLog,      \* its versions the operator's informer has not delivered
    cache,        \* the version in the operator's informer cache
    secret,       \* the Secret <name>-wp in the API server
    secretLog,    \* its versions not delivered yet
    secretCache,  \* the version in the operator's cache
    issued,       \* passwords drawn so far
    workload,     \* the ConfigMap, Deployment, Service and Ingress
    server,       \* the MySQL server
    queue,        \* is the site's key in the work queue?
    pc,           \* the call the reconcile worker makes next, or "idle"
    local,        \* the worker's own copy of the site
    cred,         \* the password ensureSecret returned to it
    budget        \* what the environment may still do

store == <<site, siteLog>>
secrets == <<secret, secretLog, secretCache, issued>>
worker == <<pc, local, cred>>
vars == <<site, siteLog, cache, secrets, workload, server, queue, worker, budget>>

-----------------------------------------------------------------------------
(* Objects                                                                  *)

Phases == {"None", "Provisioning", "Ready", "Suspended", "Error"}

\* A version of the site.  live is FALSE once the object is gone; uid numbers
\* the sites created under the name.  observed is status.observedGeneration,
\* condGen the observedGeneration of the Ready condition setPhase writes.
Site == {s \in [live : BOOLEAN, rv : Nat, uid : Nat, gen : Nat,
                 cfg : Config \union {NoConfig}, suspend : BOOLEAN,
                 deleting : BOOLEAN, finalizer : BOOLEAN,
                 phase : Phases, observed : Nat, condGen : Nat] :
            s.live => s.cfg \in Config}

Gone(s) == [s EXCEPT !.live = FALSE, !.gen = 0, !.cfg = NoConfig,
                     !.suspend = FALSE, !.deleting = FALSE, !.finalizer = FALSE,
                     !.phase = "None", !.observed = 0, !.condGen = 0]

NoSite == [live |-> FALSE, rv |-> 0, uid |-> 0, gen |-> 0, cfg |-> NoConfig,
           suspend |-> FALSE, deleting |-> FALSE, finalizer |-> FALSE,
           phase |-> "None", observed |-> 0, condGen |-> 0]

\* pass stands for the whole Data: the password and the salts are drawn, kept
\* and blanked alike.
Secret == [live : BOOLEAN, rv : Nat, owner : Nat, pass : Nat]

NoSecret == [live |-> FALSE, rv |-> 0, owner |-> 0, pass |-> NoPassword]

Held(s) == s.live /\ s.finalizer /\ ~s.deleting

-----------------------------------------------------------------------------
(* The API server                                                           *)

Spend(what) == budget[what] > 0 /\ budget' = [budget EXCEPT ![what] = @ - 1]

\* A write that changes nothing is no write: same resourceVersion, no event.
StoreSite(s) ==
    IF s = site
    THEN UNCHANGED store
    ELSE /\ site' = [s EXCEPT !.rv = site.rv + 1]
         /\ siteLog' = siteLog \union {site'}

StoreSecret(live, owner, pass) ==
    /\ secret' = [live |-> live, rv |-> secret.rv + 1, owner |-> owner, pass |-> pass]
    /\ secretLog' = secretLog \union {secret'}

\* What the caller sees of a call: it succeeded, it was not executed, or it
\* was executed and the answer was lost.  A caller cannot tell the last two.
Outcome == {"ok", "refused", "lost"}

Charge(out) == IF out = "ok" THEN UNCHANGED budget ELSE Spend("faults")

\* The optimistic check of an Update: same object, same resourceVersion.
Current(s) == site.live /\ s.uid = site.uid /\ s.rv = site.rv

-----------------------------------------------------------------------------
Init ==
    /\ site = NoSite /\ siteLog = {} /\ cache = NoSite
    /\ secret = NoSecret /\ secretLog = {} /\ secretCache = NoSecret
    /\ issued = 0
    /\ workload = [k \in Kinds |-> NoObject]
    /\ server = EmptyServer
    /\ queue = FALSE
    /\ pc = "idle" /\ local = NoSite /\ cred = NoPassword
    /\ budget = [creates |-> MaxCreates, edits |-> MaxEdits, faults |-> MaxFaults,
                 tampers |-> MaxTampers, crashes |-> MaxCrashes, wakeups |-> MaxWakeups]

-----------------------------------------------------------------------------
(* The users of the apiserver.  Each handler's read-modify-write carries a  *)
(* resourceVersion: it takes effect at its Update or not at all.            *)

createSite(c) ==
    /\ ~site.live
    /\ Spend("creates")
    /\ StoreSite([NoSite EXCEPT !.live = TRUE, !.uid = site.uid + 1, !.gen = 1,
                                !.cfg = c])
    /\ UNCHANGED <<cache, secrets, workload, server, queue, worker>>

\* An update of the spec takes the generation up, whatever handler sends it.
Edit(s) ==
    /\ site.live
    /\ s # site
    /\ Spend("edits")
    /\ StoreSite([s EXCEPT !.gen = @ + 1])
    /\ UNCHANGED <<cache, secrets, workload, server, queue, worker>>

updateSite(c) == Edit([site EXCEPT !.cfg = c])

setSuspend(b) == Edit([site EXCEPT !.suspend = b])

updateSiteYAML(c, b) == Edit([site EXCEPT !.cfg = c, !.suspend = b])

\* Delete marks a site that has a finalizer and removes one that has none.
deleteSite ==
    /\ site.live /\ ~site.deleting
    /\ StoreSite(IF site.finalizer
                 THEN [site EXCEPT !.deleting = TRUE, !.gen = @ + 1]
                 ELSE Gone(site))
    /\ UNCHANGED <<cache, secrets, workload, server, queue, worker, budget>>

ApiCall == \/ \E c \in Config : createSite(c) \/ updateSite(c)
           \/ \E b \in BOOLEAN : setSuspend(b)
           \/ \E c \in Config, b \in BOOLEAN : updateSiteYAML(c, b)
           \/ deleteSite

-----------------------------------------------------------------------------
(* The cluster around the operator                                          *)

\* The informer delivers a version, or a later one after a relist, and the
\* event enqueues the site.
DeliverSite ==
    \E v \in siteLog :
        /\ cache' = v
        /\ siteLog' = {w \in siteLog : w.rv > v.rv}
        /\ queue' = TRUE
        /\ UNCHANGED <<site, secrets, workload, server, worker, budget>>

DeliverSecret ==
    \E v \in secretLog :
        /\ secretCache' = v
        /\ secretLog' = {w \in secretLog : w.rv > v.rv}
        /\ queue' = TRUE
        /\ UNCHANGED <<store, cache, secret, issued, workload, server, worker, budget>>

\* The garbage collector removes what is owned by a site that is gone.
Ownerless(object) == object.live /\ ~(site.live /\ object.owner = site.uid)

CollectSecret ==
    /\ Ownerless(secret)
    /\ StoreSecret(FALSE, 0, NoPassword)
    /\ UNCHANGED <<store, cache, secretCache, issued, workload, server, queue,
                   worker, budget>>

CollectObject(k) ==
    /\ Ownerless(workload[k])
    /\ workload' = [workload EXCEPT ![k] = NoObject]
    /\ queue' = TRUE
    /\ UNCHANGED <<store, cache, secrets, server, worker, budget>>

\* Somebody deletes the Secret, blanks it, or deletes an owned object.
TamperSecret ==
    /\ secret.live
    /\ Spend("tampers")
    /\ \/ StoreSecret(FALSE, 0, NoPassword)
       \/ secret.pass # NoPassword /\ StoreSecret(TRUE, secret.owner, NoPassword)
    /\ UNCHANGED <<store, cache, secretCache, issued, workload, server, queue, worker>>

TamperObject(k) ==
    /\ workload[k].live
    /\ Spend("tampers")
    /\ workload' = [workload EXCEPT ![k] = NoObject]
    /\ queue' = TRUE
    /\ UNCHANGED <<store, cache, secrets, server, worker>>

\* An event of an owned object (its status changed) enqueues the site.
WakeUp ==
    /\ ~queue
    /\ Spend("wakeups")
    /\ queue' = TRUE
    /\ UNCHANGED <<store, cache, secrets, workload, server, worker>>

Cluster == \/ DeliverSite
           \/ DeliverSecret
           \/ CollectSecret
           \/ \E k \in Kinds : CollectObject(k)
           \/ TamperSecret
           \/ \E k \in Kinds : TamperObject(k)
           \/ WakeUp

-----------------------------------------------------------------------------
(* The reconcile worker.  A step ends at the worker's next call; pc names   *)
(* that call, and the four calls of setPhase by the phase they write.       *)

Applying == Kinds
Provisioning == {"ensureSecret", "EnsureDatabase"} \union Applying
SettingPhase == {"Ready", "Suspended", "Error", "Provisioning"}
Deleting == {"DropDatabase", "removeFinalizer"}
Calls == {"idle", "addFinalizer"} \union Provisioning \union SettingPhase \union Deleting

Goto(next) == pc' = next /\ UNCHANGED <<local, cred>>

Idle == pc' = "idle" /\ local' = NoSite /\ cred' = NoPassword

\* Reconcile returns an error or RequeueAfter: the key comes back later.
Requeue == Idle /\ queue' = TRUE

Done == Idle /\ UNCHANGED queue

\* The first call once the finalizer is known to be there.
AfterFinalizer(s) == IF s.suspend THEN "ConfigMap" ELSE "ensureSecret"

\* Broken: the finalizer is not put on first.
FirstCall_NoFinalizer(s) ==
    IF s.deleting THEN IF DropDataOnDelete THEN "DropDatabase" ELSE "removeFinalizer"
    ELSE AfterFinalizer(s)

\* The first call of a reconcile that read version s.
FirstCall(s) ==
    IF s.deleting THEN IF DropDataOnDelete THEN "DropDatabase" ELSE "removeFinalizer"
    ELSE IF s.finalizer THEN AfterFinalizer(s) ELSE "addFinalizer"

\* Broken: NotFound is not told from an empty site.
Reconcile_NotFound ==
    /\ pc = "idle" /\ queue
    /\ queue' = FALSE
    /\ local' = cache /\ pc' = FirstCall(cache) /\ UNCHANGED cred
    /\ UNCHANGED <<store, cache, secrets, workload, server, budget>>

\* A site that is not in the cache, or has no finalizer left, needs nothing.
Reconcile ==
    /\ pc = "idle" /\ queue
    /\ queue' = FALSE
    /\ IF cache.live /\ (cache.deleting => cache.finalizer)
       THEN local' = cache /\ pc' = FirstCall(cache) /\ UNCHANGED cred
       ELSE UNCHANGED worker
    /\ UNCHANGED <<store, cache, secrets, workload, server, budget>>

\* An Update of the site: version s replaces the worker's copy if that is
\* still current.
UpdateSite(s, out) == IF out # "refused" /\ Current(local) THEN StoreSite(s)
                                                           ELSE UNCHANGED store

Accepted(out) == out = "ok" /\ Current(local)

\* Broken: a failed update of the finalizer is logged and the reconcile goes on.
addFinalizer_IgnoreError ==
    /\ pc = "addFinalizer"
    /\ \E out \in Outcome :
        /\ Charge(out)
        /\ UpdateSite([local EXCEPT !.finalizer = TRUE], out)
        /\ Goto(AfterFinalizer(local)) /\ UNCHANGED queue
    /\ UNCHANGED <<cache, secrets, workload, server>>

addFinalizer ==
    /\ pc = "addFinalizer"
    /\ \E out \in Outcome :
        /\ Charge(out)
        /\ UpdateSite([local EXCEPT !.finalizer = TRUE], out)
        /\ IF Accepted(out)
           THEN /\ local' = site'
                /\ pc' = AfterFinalizer(local)
                /\ UNCHANGED <<cred, queue>>
           ELSE Requeue
    /\ UNCHANGED <<cache, secrets, workload, server>>

\* The password of the Secret is kept when there is one.  Otherwise one is
\* drawn and written: Create finds no Secret, Update the version in the cache.
KeepSecret ==
    /\ secretCache.live /\ secretCache.pass # NoPassword
    /\ cred' = secretCache.pass
    /\ pc' = "EnsureDatabase" /\ UNCHANGED local
    /\ UNCHANGED <<secret, secretLog, issued, budget>>

\* Broken: the Update does not carry the resourceVersion.
SecretCurrent_NoVersion == secret.live = secretCache.live

SecretCurrent == /\ secret.live = secretCache.live
                 /\ secret.live => secret.rv = secretCache.rv

\* Broken: a failed write is logged and the reconcile goes on with the password.
WriteSecret_IgnoreError ==
    /\ ~(secretCache.live /\ secretCache.pass # NoPassword)
    /\ \E out \in Outcome :
        /\ Charge(out)
        /\ IF out # "refused" /\ SecretCurrent
           THEN StoreSecret(TRUE, local.uid, issued + 1) /\ issued' = issued + 1
           ELSE UNCHANGED <<secret, secretLog, issued>>
        /\ cred' = issued + 1 /\ pc' = "EnsureDatabase" /\ UNCHANGED local

WriteSecret ==
    /\ ~(secretCache.live /\ secretCache.pass # NoPassword)
    /\ \E out \in Outcome :
        /\ Charge(out)
        /\ IF out # "refused" /\ SecretCurrent
           THEN StoreSecret(TRUE, local.uid, issued + 1) /\ issued' = issued + 1
           ELSE UNCHANGED <<secret, secretLog, issued>>
        /\ IF out = "ok" /\ SecretCurrent
           THEN cred' = issued + 1 /\ pc' = "EnsureDatabase" /\ UNCHANGED local
           ELSE Goto("Error")

ensureSecret ==
    /\ pc = "ensureSecret"
    /\ KeepSecret \/ WriteSecret
    /\ UNCHANGED <<store, cache, secretCache, workload, server, queue>>

\* Broken: a failed EnsureDatabase is logged and the reconcile goes on.
ProvisionDatabase_IgnoreError ==
    /\ pc = "EnsureDatabase"
    /\ \E n \in 0..EnsureStatements :
        /\ server' = EnsureDatabase(server, DatabaseName[local.cfg],
                                    DatabaseUser[local.cfg], cred, n)
        /\ n # EnsureStatements => Spend("faults")
        /\ n = EnsureStatements => UNCHANGED budget
        /\ Goto("ConfigMap")
    /\ UNCHANGED <<store, cache, secrets, workload, queue>>

\* Broken: a failed EnsureDatabase cleans up behind itself.
ProvisionDatabase_RollBack ==
    /\ pc = "EnsureDatabase"
    /\ \/ /\ server' = EnsureDatabase(server, DatabaseName[local.cfg],
                                      DatabaseUser[local.cfg], cred, EnsureStatements)
          /\ Goto("ConfigMap") /\ UNCHANGED budget
       \/ /\ server' = DropDatabase(server, DatabaseName[local.cfg],
                                    DatabaseUser[local.cfg], DropStatements)
          /\ Spend("faults") /\ Goto("Provisioning")
    /\ UNCHANGED <<store, cache, secrets, workload, queue>>

\* The whole of EnsureDatabase, or an error: of validateIdent, or after some of
\* the statements.
ProvisionDatabase ==
    /\ pc = "EnsureDatabase"
    /\ \/ /\ local.cfg \in Refused
          /\ Goto("Provisioning") /\ UNCHANGED <<server, budget>>
       \/ /\ local.cfg \notin Refused
          /\ \E n \in 0..EnsureStatements :
              /\ server' = EnsureDatabase(server, DatabaseName[local.cfg],
                                          DatabaseUser[local.cfg], cred, n)
              /\ \/ n = EnsureStatements /\ Goto("ConfigMap") /\ UNCHANGED budget
                 \/ Spend("faults") /\ Goto("Provisioning")
    /\ UNCHANGED <<store, cache, secrets, workload, queue>>

\* reconcileWorkload applies the four objects in this order.
NextCall(k) == CASE k = "ConfigMap"  -> "Deployment"
                 [] k = "Deployment" -> "Service"
                 [] k = "Service"    -> "Ingress"
                 [] k = "Ingress"    -> IF local.suspend THEN "Suspended" ELSE "Ready"

\* Broken: a failed apply does not end reconcileWorkload.
apply_IgnoreError(k) ==
    /\ pc = k
    /\ \E out \in Outcome :
        /\ Charge(out)
        /\ LET object == IF out = "refused" THEN workload[k] ELSE Desired(local)[k]
           IN  /\ workload' = [workload EXCEPT ![k] = object]
               /\ Goto(NextCall(k))
               /\ queue' = (queue \/ object # workload[k])
    /\ UNCHANGED <<store, cache, secrets, server>>

\* Broken: a write always raises an event, as a plain Update that undoes
\* server-side defaults would.
apply_AlwaysWrites(k) ==
    /\ pc = k
    /\ workload' = [workload EXCEPT ![k] = Desired(local)[k]]
    /\ Goto(NextCall(k)) /\ queue' = TRUE
    /\ UNCHANGED <<store, cache, secrets, server, budget>>

\* Server-Side Apply with ForceOwnership: whatever is there becomes what the
\* worker wants.  An object that changes raises an event, one that does not
\* raises none.
apply(k) ==
    /\ pc = k
    /\ \E out \in Outcome :
        /\ Charge(out)
        /\ LET object == IF out = "refused" THEN workload[k] ELSE Desired(local)[k]
           IN  /\ workload' = [workload EXCEPT ![k] = object]
               /\ IF out = "ok"
                  THEN Goto(NextCall(k)) /\ queue' = (queue \/ object # workload[k])
                  ELSE IF local.suspend
                  THEN Requeue
                  ELSE Goto("Error") /\ queue' = (queue \/ object # workload[k])
    /\ UNCHANGED <<store, cache, secrets, server>>

\* Broken: the error of the last status update is dropped.
setPhase_IgnoreError ==
    /\ pc \in SettingPhase
    /\ \E out \in Outcome :
        /\ Charge(out)
        /\ UpdateSite([local EXCEPT !.phase = pc, !.condGen = local.gen,
                         !.observed = IF pc = "Ready" THEN local.gen ELSE @], out)
        /\ IF pc \in {"Ready", "Suspended"} THEN Done ELSE Requeue
    /\ UNCHANGED <<cache, secrets, workload, server>>

\* The status update that ends a reconcile.  Only the full path of Reconcile
\* sets status.observedGeneration.  After Ready and Suspended the key is done
\* when the update succeeds; after Error and Provisioning it always comes back.
setPhase ==
    /\ pc \in SettingPhase
    /\ \E out \in Outcome :
        /\ Charge(out)
        /\ UpdateSite([local EXCEPT !.phase = pc, !.condGen = local.gen,
                         !.observed = IF pc = "Ready" THEN local.gen ELSE @], out)
        /\ IF pc \in {"Ready", "Suspended"} /\ Accepted(out) THEN Done ELSE Requeue
    /\ UNCHANGED <<cache, secrets, workload, server>>

\* Broken: the finalizer comes off although DropDatabase failed.
DropData_IgnoreError ==
    /\ pc = "DropDatabase"
    /\ \E n \in 0..DropStatements :
        /\ server' = DropDatabase(server, DatabaseName[local.cfg],
                                  DatabaseUser[local.cfg], n)
        /\ IF n = DropStatements THEN UNCHANGED budget ELSE Spend("faults")
        /\ Goto("removeFinalizer") /\ UNCHANGED queue
    /\ UNCHANGED <<store, cache, secrets, workload>>

\* reconcileDelete with DropDataOnDelete.  A name validateIdent refuses is
\* refused here too, for as long as the spec has it.
DropData ==
    /\ pc = "DropDatabase"
    /\ \/ local.cfg \in Refused /\ Requeue /\ UNCHANGED <<server, budget>>
       \/ /\ local.cfg \notin Refused
          /\ \E n \in 0..DropStatements :
              /\ server' = DropDatabase(server, DatabaseName[local.cfg],
                                        DatabaseUser[local.cfg], n)
              /\ \/ /\ n = DropStatements
                    /\ Goto("removeFinalizer") /\ UNCHANGED <<queue, budget>>
                 \/ Spend("faults") /\ Requeue
    /\ UNCHANGED <<store, cache, secrets, workload>>

\* Broken: a failed update is not retried.
removeFinalizer_NoRetry ==
    /\ pc = "removeFinalizer"
    /\ \E out \in Outcome :
        /\ Charge(out)
        /\ UpdateSite(Gone(local), out)
        /\ Done
    /\ UNCHANGED <<cache, secrets, workload, server>>

\* The object goes with its only finalizer.
removeFinalizer ==
    /\ pc = "removeFinalizer"
    /\ \E out \in Outcome :
        /\ Charge(out)
        /\ UpdateSite(Gone(local), out)
        /\ IF Accepted(out) THEN Done ELSE Requeue
    /\ UNCHANGED <<cache, secrets, workload, server>>

Worker == \/ Reconcile \/ addFinalizer \/ ensureSecret \/ ProvisionDatabase
          \/ \E k \in Kinds : apply(k)
          \/ setPhase \/ DropData \/ removeFinalizer

\* The operator dies between two calls.  Its successor lists everything and
\* reconciles it.
Crash ==
    /\ Spend("crashes")
    /\ Idle
    /\ cache' = site /\ siteLog' = {}
    /\ secretCache' = secret /\ secretLog' = {}
    /\ queue' = TRUE
    /\ UNCHANGED <<site, secret, issued, workload, server>>

-----------------------------------------------------------------------------
Next == ApiCall \/ Cluster \/ Worker \/ Crash

Spec == Init /\ [][Next]_vars

\* The worker, the informers and the garbage collector keep running; users,
\* faults and crashes may stop at any time.
Fairness ==
    /\ WF_vars(Worker)
    /\ WF_vars(DeliverSite)
    /\ WF_vars(DeliverSecret)
    /\ WF_vars(CollectSecret \/ \E k \in Kinds : CollectObject(k))

FairSpec == Spec /\ Fairness

-----------------------------------------------------------------------------
(* Safety                                                                   *)

Budget == [{"creates", "edits", "faults", "tampers", "crashes", "wakeups"} -> Nat]

\* Every variable has its type, and the worker's copy of the site is in use
\* exactly while it reconciles (the locals of Reconcile).
TypeOK ==
    /\ site \in Site /\ siteLog \subseteq Site /\ cache \in Site
    /\ secret \in Secret /\ secretLog \subseteq Secret /\ secretCache \in Secret
    /\ issued \in Nat
    /\ workload \in [Kinds -> Object]
    /\ server \in Server
    /\ queue \in BOOLEAN
    /\ pc \in Calls /\ local \in Site /\ cred \in Nat
    /\ pc # "idle" => local.live
    /\ budget \in Budget

\* No site of this name ever asks for another schema or account.
OneDatabase == \A c, d \in Config : /\ DatabaseName[c] = DatabaseName[d]
                                    /\ DatabaseUser[c] = DatabaseUser[d]

\* With DropDataOnDelete nothing of the site is on the MySQL server unless the
\* site exists and the finalizer that will clean up is on it: EnsureDatabase is
\* never reached for a site the operator could lose, however stale its cache.
NoOrphanData ==
    DropDataOnDelete /\ OneDatabase =>
        HoldsNothing(server) \/ (site.live /\ site.finalizer)

\* DropDatabase takes data away only from a site that is being deleted, and
\* from the one the worker looked at: a site created again under the same name
\* never loses its schema or account to the deletion of its predecessor.
DropsOnlyDoomedData ==
    [][ \/ server.databases \subseteq server'.databases
           /\ \A u \in User : server'.accounts[u] = NoPassword
                                => server.accounts[u] = NoPassword
        \/ ~OneDatabase
        \/ site.live /\ site.deleting /\ site.uid = local.uid ]_vars

-----------------------------------------------------------------------------
(* Why it is so: the invariant CustodyProofs rests on                       *)

\* Every version of the site the operator has or will get.
Versions == siteLog \union {cache, local}

\* None of them is ahead of the API server, and a version that is current is
\* the site itself: this is what the resourceVersion check relies on.
NothingFromTheFuture ==
    \A v \in Versions : /\ v.rv <= site.rv /\ v.uid <= site.uid
                        /\ v.live /\ v.rv = site.rv => v = site

\* The cache only moves forward.
LogInOrder ==
    \A v \in siteLog : /\ v.rv > cache.rv /\ v.uid >= cache.uid
                       /\ \A w \in siteLog : v.rv < w.rv => v.uid <= w.uid

\* A version under the finalizer and not deleted, however old, speaks of a site
\* that still exists and is still under the finalizer.
HeldStaysHeld ==
    \A v \in Versions : Held(v) => site.live /\ site.finalizer /\ site.uid = v.uid

\* A site that was being deleted is being deleted until it is gone.
DeletingIsFinal ==
    \A v \in Versions :
        v.deleting /\ site.live /\ v.uid = site.uid => site.deleting

VersionsInOrder == /\ NothingFromTheFuture /\ LogInOrder
                   /\ HeldStaysHeld /\ DeletingIsFinal

\* What the worker has established about its copy when it makes a call.
WorkerOnTrack ==
    /\ site.deleting => site.live /\ site.finalizer
    /\ local.uid <= cache.uid
    /\ pc = "addFinalizer" => ~local.deleting
    /\ pc \in Provisioning \union SettingPhase => Held(local)
    /\ pc \in Deleting => local.deleting /\ local.finalizer /\ local.rv <= cache.rv
    /\ pc = "DropDatabase" => DropDataOnDelete

\* Only schemas and accounts some spec asks for are ever created, and never with
\* a blank password.
ServerInUse ==
    /\ server.databases \subseteq {DatabaseName[c] : c \in Config}
    /\ \A u \in User : server.accounts[u] # NoPassword
                          => u \in {DatabaseUser[c] : c \in Config}
    /\ pc = "EnsureDatabase" => cred # NoPassword

\* While there is data the site is held, and neither the cache nor a deletion
\* in progress is about a site before it.
DataIsHeld ==
    DropDataOnDelete /\ OneDatabase /\ ~HoldsNothing(server) =>
        /\ site.live /\ site.finalizer
        /\ cache.uid = site.uid
        /\ pc # "removeFinalizer"
        /\ pc = "DropDatabase" => local.uid = site.uid

\* The worker acts on stale versions only where that does no harm (the order
\* of Reconcile and reconcileDelete): inductive, and implies NoOrphanData.
CustodyInv == VersionsInOrder /\ WorkerOnTrack /\ ServerInUse /\ DataIsHeld

-----------------------------------------------------------------------------
(* What the status and an idle operator mean                                *)

Untouched == budget.tampers = MaxTampers

AccountReady(s, pass) ==
    /\ DatabaseName[s.cfg] \in server.databases
    /\ <<DatabaseUser[s.cfg], DatabaseName[s.cfg]>> \in server.grants
    /\ server.accounts[DatabaseUser[s.cfg]] # NoPassword
    /\ server.accounts[DatabaseUser[s.cfg]] = pass

\* What setPhase reports for the current generation is so: the objects are
\* exactly those the spec asks for, and behind Ready there is a schema with an
\* account that may use it (the status updates at the end of Reconcile).
ReadyAccurate ==
    site.live /\ ~site.deleting /\ site.condGen = site.gen /\ Untouched =>
        /\ site.phase \in {"Ready", "Suspended"} => workload = Desired(site)
        /\ site.phase = "Ready" =>
               AccountReady(site, server.accounts[DatabaseUser[site.cfg]])

\* Nothing is left to do: the worker is idle, its queue is empty, the informers
\* have delivered everything and the garbage collector has no work.
Settled ==
    /\ pc = "idle" /\ ~queue /\ siteLog = {} /\ secretLog = {}
    /\ ~Ownerless(secret) /\ \A k \in Kinds : ~Ownerless(workload[k])

\* The work queue never goes empty too early: every error path of Reconcile
\* keeps the key, so when nothing is left to do the site has what it asks for,
\* MySQL knows the password in its Secret, and a deleted site has left nothing.
SettledIsDone ==
    Settled =>
        /\ site.live =>
               /\ ~site.deleting
               /\ site.condGen = site.gen
               /\ workload = Desired(site)
               /\ IF site.suspend
                  THEN site.phase = "Suspended"
                  ELSE /\ site.phase = "Ready" /\ site.observed = site.gen
                       /\ secret.live /\ AccountReady(site, secret.pass)
        /\ ~site.live =>
               ~secret.live /\ \A k \in Kinds : ~workload[k].live

\* A password is never replaced by another one in place: a worker that finds a
\* blank one in its cache does not overwrite the one that has been written
\* since (ensureSecret).
PasswordKept ==
    [][ secret.pass # NoPassword => secret'.pass \in {secret.pass, NoPassword} ]_vars

\* A Deployment is written only when the ConfigMap it mounts is there with the
\* same php.ini, for every site that is still the live one (reconcileWorkload).
ConfigMapFirst ==
    [][ LET d == workload'["Deployment"]
            m == workload["ConfigMap"]
        IN  d.live /\ d # workload["Deployment"] /\ Untouched
              /\ site.live /\ d.owner = site.uid
                => m.live /\ m.owner = d.owner /\ m.cfg = d.cfg ]_vars

-----------------------------------------------------------------------------
(* Liveness                                                                 *)

\* The site has a name validateIdent refuses and a reconcile that needs MySQL.
Unprovisionable == /\ site.live /\ site.cfg \in Refused
                   /\ IF site.deleting THEN DropDataOnDelete ELSE ~site.suspend

\* The operator stops working once users and failures do: reconciling again
\* changes nothing, so its own writes do not keep waking it (apply, setPhase).
\* For a name that MySQL must not see it tries for ever and says so in the status.
EventuallySettled ==
    <>[] IF Unprovisionable
         THEN ~site.deleting => site.phase = "Provisioning" /\ site.condGen = site.gen
         ELSE Settled

\* A site that is being deleted goes away (reconcileDelete, retried forever),
\* as soon as its name is one that can be dropped.
DeletionCompletes == (site.live /\ site.deleting) ~> (~site.live \/ Unprovisionable)

-----------------------------------------------------------------------------
(* What the components of the operator add up to                            *)

Custody == CASE ~site.live                         -> "none"
             [] site.live /\ ~site.finalizer       -> "unclaimed"
             [] Held(site)                         -> "held"
             [] site.live /\ site.finalizer /\ site.deleting -> "doomed"

Promise == INSTANCE DataCustody WITH custody <- Custody,
                                     data    <- ~HoldsNothing(server)

\* The lifecycle keeps the promise of DataCustody, crashes, stale caches and
\* lost answers included.
KeepsCustody == Promise!Spec

\* The same lifecycle as one site among those of Tenancy.  A password is drawn
\* once for each site created and each time somebody removes or empties one.
Name == "site"

Tenant ==
    INSTANCE Tenancy WITH
        Site         <- {Name},
        DatabaseName <- [s \in {Name} |-> DatabaseName[CHOOSE c \in Config : TRUE]],
        DatabaseUser <- [s \in {Name} |-> DatabaseUser[CHOOSE c \in Config : TRUE]],
        MaxLives     <- MaxCreates,
        MaxPasswords <- MaxCreates + MaxTampers,
        custody      <- [s \in {Name} |-> Custody],
        lives        <- [s \in {Name} |-> site.uid],
        secret       <- [s \in {Name} |-> secret.pass],
        drawn        <- [s \in {Name} |-> 1..issued]

\* What Tenancy composes is what the operator does for each site (with one
\* schema and account per site).
IsTenant == Tenant!Spec

-----------------------------------------------------------------------------
(* What the repository says and the code does not do                        *)

\* "its password and salts are preserved so reconciliation is idempotent and
\* does not rotate live credentials on every loop": the Secret of a Ready site,
\* with the password its account has, is there until the site changes.
LiveCredentialKept ==
    [][ site.live /\ site.observed = site.gen /\ site.phase = "Ready" /\ Untouched
          /\ secret.live /\ secretCache = secret /\ AccountReady(site, secret.pass)
            => secret'.pass = secret.pass ]_vars
=============================================================================
