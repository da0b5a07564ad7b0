---------------------------- MODULE CustodyProofs ----------------------------
(***************************************************************************)
(* SiteLifecycle keeps its types, the promise of DataCustody, the password *)
(* in the Secret and the behaviour of a site of Tenancy: for any number of *)
(* sites created under the name, edits, failures, crashes and stale reads. *)
(***************************************************************************)
EXTENDS SiteLifecycle, TLAPS

-----------------------------------------------------------------------------
(* Types                                                                    *)

\* What the MySQL statements leave behind is a server again.
LEMMA ServerType ==
    ASSUME NEW srv \in Server, NEW db \in Database, NEW user \in User,
           NEW pass \in Nat, NEW n \in Nat
    PROVE  /\ EnsureDatabase(srv, db, user, pass, n) \in Server
           /\ DropDatabase(srv, db, user, n) \in Server
  BY DEF Server, EnsureDatabase, DropDatabase, NoPassword

\* A site that is written is a site, and so are its undelivered versions.
LEMMA StoreSiteType ==
    ASSUME TypeOK, NEW s \in Site, StoreSite(s)
    PROVE  /\ site' \in Site /\ siteLog' \subseteq Site
           /\ site'.rv \in {site.rv, site.rv + 1}
           /\ s.live = site'.live /\ s.cfg = site'.cfg
  BY DEF TypeOK, StoreSite, store, Site

LEMMA StoreSecretType ==
    ASSUME TypeOK, NEW live \in BOOLEAN, NEW owner \in Nat, NEW pass \in Nat,
           StoreSecret(live, owner, pass)
    PROVE  secret' \in Secret /\ secretLog' \subseteq Secret
  BY DEF TypeOK, StoreSecret, Secret

LEMMA SpendType ==
    ASSUME TypeOK, NEW what \in DOMAIN budget, Spend(what)
    PROVE  budget' \in Budget
  BY DEF TypeOK, Spend, Budget

LEMMA ChargeType ==
    ASSUME TypeOK, NEW out \in Outcome, Charge(out)
    PROVE  budget' \in Budget
  BY SpendType DEF TypeOK, Charge, Budget

LEMMA NoSiteType == NoSite \in Site /\ ~NoSite.live
  BY DEF NoSite, Site, Phases

LEMMA GoneType == ASSUME NEW s \in Site PROVE Gone(s) \in Site
  BY DEF Gone, Site, Phases

LEMMA NewSiteType ==
    ASSUME NEW uid \in Nat, NEW c \in Config
    PROVE  [NoSite EXCEPT !.live = TRUE, !.uid = uid, !.gen = 1, !.cfg = c] \in Site
  BY DEF NoSite, Site, Phases

LEMMA DoomedType ==
    ASSUME NEW s \in Site
    PROVE  [s EXCEPT !.deleting = TRUE, !.gen = @ + 1] \in Site
<1>1. s.gen \in Nat /\ s.gen + 1 \in Nat
  BY DEF Site
<1>2. [s EXCEPT !.deleting = TRUE] \in Site
  BY DEF Site
<1>3. \A t \in Site, n \in Nat : [t EXCEPT !.gen = n] \in Site
  BY DEF Site
<1> QED
  BY <1>1, <1>2, <1>3

LEMMA DesiredType ==
    ASSUME NEW s \in Site, NEW k \in Kinds
    PROVE  Desired(s)[k] \in Object
  BY DEF Desired, Kinds, Object, Site, DesiredPHPConfigMap, DesiredDeployment,
         DesiredService, DesiredIngress

LEMMA UpdateSiteType ==
    ASSUME TypeOK, NEW s \in Site, NEW out, UpdateSite(s, out)
    PROVE  site' \in Site /\ siteLog' \subseteq Site
  BY StoreSiteType DEF UpdateSite, TypeOK, store
LEMMA InitType == Init => TypeOK
<1> SUFFICES ASSUME Init PROVE TypeOK
  OBVIOUS
<1>1. EmptyServer \in Server
  BY DEF EmptyServer, Server, NoPassword
<1>2. NoSecret \in Secret /\ NoObject \in Object
  BY DEF NoSecret, NoObject, Secret, Object, NoPassword
<1>3. budget \in Budget
  BY BoundsAssumption DEF Init, Budget
<1> QED
  BY <1>1, <1>2, <1>3, NoSiteType DEF Init, TypeOK, Calls, NoPassword

\* What users and the cluster do keeps the types.
LEMMA ApiCallType == TypeOK /\ ApiCall => TypeOK'
<1> SUFFICES ASSUME TypeOK, ApiCall PROVE TypeOK'
  OBVIOUS
<1> USE DEF Budget
<1>1. ASSUME NEW c \in Config, createSite(c) PROVE TypeOK'
  <2>0. site.uid + 1 \in Nat
    BY DEF TypeOK, Site
  <2>1. [NoSite EXCEPT !.live = TRUE, !.uid = site.uid + 1, !.gen = 1, !.cfg = c] \in Site
    BY <2>0, NewSiteType
  <2>2. budget' \in Budget
    BY <1>1, SpendType DEF createSite, TypeOK
  <2>3. site' \in Site /\ siteLog' \subseteq Site
    BY <1>1, <2>1, StoreSiteType DEF createSite
  <2> QED
    BY <1>1, <2>2, <2>3 DEF createSite, TypeOK, secrets, worker
<1>2. ASSUME NEW s \in Site, Edit(s) PROVE TypeOK'
  <2>1. [s EXCEPT !.gen = @ + 1] \in Site
    BY DEF Site
  <2>2. budget' \in Budget
    BY <1>2, SpendType DEF Edit, TypeOK
  <2> QED
    BY <1>2, <2>1, <2>2, StoreSiteType DEF Edit, TypeOK, secrets, worker
<1>3. /\ \A c \in Config : [site EXCEPT !.cfg = c] \in Site
      /\ \A b \in BOOLEAN : [site EXCEPT !.suspend = b] \in Site
      /\ \A c \in Config, b \in BOOLEAN :
             [site EXCEPT !.cfg = c, !.suspend = b] \in Site
  BY DEF TypeOK, Site
<1>4. CASE deleteSite
  <2>1. [site EXCEPT !.deleting = TRUE, !.gen = @ + 1] \in Site
    BY DoomedType DEF TypeOK
  <2>2. Gone(site) \in Site
    BY GoneType DEF TypeOK
  <2>3. site' \in Site /\ siteLog' \subseteq Site
    BY <1>4, <2>1, <2>2, StoreSiteType DEF deleteSite
  <2> QED
    BY <1>4, <2>3 DEF deleteSite, TypeOK, secrets, worker
<1>5. ASSUME NEW c \in Config, updateSite(c) PROVE TypeOK'
  BY <1>2, <1>3, <1>5 DEF updateSite
<1>6. ASSUME NEW b \in BOOLEAN, setSuspend(b) PROVE TypeOK'
  BY <1>2, <1>3, <1>6 DEF setSuspend
<1>7. ASSUME NEW c \in Config, NEW b \in BOOLEAN, updateSiteYAML(c, b) PROVE TypeOK'
  BY <1>2, <1>3, <1>7 DEF updateSiteYAML
<1> QED
  BY <1>1, <1>4, <1>5, <1>6, <1>7 DEF ApiCall

LEMMA ClusterType == TypeOK /\ Cluster => TypeOK'
<1> SUFFICES ASSUME TypeOK, Cluster PROVE TypeOK'
  OBVIOUS
<1> USE DEF Budget
<1>1. CASE DeliverSite
  BY <1>1 DEF DeliverSite, TypeOK, secrets, worker
<1>2. CASE DeliverSecret
  BY <1>2 DEF DeliverSecret, TypeOK, store, worker
<1>3. CASE CollectSecret
  <2>1. secret' \in Secret /\ secretLog' \subseteq Secret
    BY <1>3, StoreSecretType DEF CollectSecret, NoPassword
  <2> QED
    BY <1>3, <2>1 DEF CollectSecret, TypeOK, store, worker
<1>4. ASSUME NEW k \in Kinds, CollectObject(k) PROVE TypeOK'
  BY <1>4 DEF CollectObject, TypeOK, store, secrets, worker, NoObject, Object
<1>5. CASE TamperSecret
  <2>1. secret.owner \in Nat
    BY DEF TypeOK, Secret
  <2>2. secret' \in Secret /\ secretLog' \subseteq Secret
    BY <1>5, <2>1, StoreSecretType DEF TamperSecret, NoPassword
  <2>3. budget' \in Budget
    BY <1>5, SpendType DEF TamperSecret, TypeOK
  <2> QED
    BY <1>5, <2>2, <2>3 DEF TamperSecret, TypeOK, store, worker
<1>6. ASSUME NEW k \in Kinds, TamperObject(k) PROVE TypeOK'
  <2>1. budget' \in Budget
    BY <1>6, SpendType DEF TamperObject, TypeOK
  <2> QED
    BY <1>6, <2>1 DEF TamperObject, TypeOK, store, secrets, worker, NoObject, Object
<1>7. CASE WakeUp
  <2>1. budget' \in Budget
    BY <1>7, SpendType DEF WakeUp, TypeOK
  <2> QED
    BY <1>7, <2>1 DEF WakeUp, TypeOK, store, secrets, worker
<1> QED
  BY <1>1, <1>2, <1>3, <1>4, <1>5, <1>6, <1>7 DEF Cluster

\* And so does every call of the worker.
LEMMA WorkerType == TypeOK /\ Worker => TypeOK'
<1> SUFFICES ASSUME TypeOK, Worker PROVE TypeOK'
  OBVIOUS
<1> USE DEF Calls, Provisioning, Applying, SettingPhase, Deleting
<1>a. Idle => pc' \in Calls /\ local' \in Site /\ cred' \in Nat /\ pc' = "idle"
  BY NoSiteType DEF Idle, NoPassword
<1>b. (Requeue => Idle /\ queue' \in BOOLEAN) /\ (Done => Idle /\ queue' \in BOOLEAN)
  BY Zenon DEF Requeue, Done, TypeOK
<1>0. /\ Idle => pc' \in Calls /\ local' \in Site /\ cred' \in Nat /\ pc' = "idle"
      /\ Requeue => Idle /\ queue' \in BOOLEAN
      /\ Done => Idle /\ queue' \in BOOLEAN
  BY <1>a, <1>b
<1>1. CASE Reconcile
  <2>1. cache.live => FirstCall(cache) \in Calls
    BY DEF FirstCall, AfterFinalizer, Kinds
  <2> QED
    BY <1>1, <2>1 DEF Reconcile, TypeOK, store, secrets, worker
<1>2. CASE addFinalizer
  <2>1. PICK out \in Outcome :
          /\ Charge(out)
          /\ UpdateSite([local EXCEPT !.finalizer = TRUE], out)
          /\ IF Accepted(out)
             THEN /\ local' = site' /\ pc' = AfterFinalizer(local)
                  /\ UNCHANGED <<cred, queue>>
             ELSE Requeue
    BY <1>2 DEF addFinalizer
  <2>2. [local EXCEPT !.finalizer = TRUE] \in Site /\ local.live
    BY <1>2 DEF addFinalizer, TypeOK, Site
  <2>3. site' \in Site /\ siteLog' \subseteq Site
    BY <2>1, <2>2, UpdateSiteType
  <2>4. Accepted(out) => site'.live
    BY <2>1, <2>2, StoreSiteType DEF Accepted, UpdateSite, TypeOK, Site
  <2>5. budget' \in Budget
    BY <2>1, ChargeType
  <2>6. pc' \in Calls /\ local' \in Site /\ cred' \in Nat /\ queue' \in BOOLEAN
        /\ (pc' # "idle" => local'.live)
    BY <1>0, <2>1, <2>3, <2>4 DEF AfterFinalizer, Kinds, TypeOK
  <2> QED
    BY <1>2, <2>3, <2>5, <2>6 DEF addFinalizer, TypeOK, secrets
<1>3. CASE ensureSecret
  <2>1. CASE KeepSecret
    BY <1>3, <2>1 DEF ensureSecret, KeepSecret, TypeOK, store, Secret
  <2>2. CASE WriteSecret
    <3>1. PICK out \in Outcome :
            /\ Charge(out)
            /\ IF out # "refused" /\ SecretCurrent
               THEN StoreSecret(TRUE, local.uid, issued + 1) /\ issued' = issued + 1
               ELSE UNCHANGED <<secret, secretLog, issued>>
            /\ IF out = "ok" /\ SecretCurrent
               THEN cred' = issued + 1 /\ pc' = "EnsureDatabase" /\ UNCHANGED local
               ELSE Goto("Error")
      BY <2>2 DEF WriteSecret
    <3>2. issued + 1 \in Nat /\ local.uid \in Nat
      BY DEF TypeOK, Site
    <3>3. secret' \in Secret /\ secretLog' \subseteq Secret /\ issued' \in Nat
      BY <3>1, <3>2, StoreSecretType DEF TypeOK
    <3>4. budget' \in Budget
      BY <3>1, ChargeType
    <3>5. pc' \in Calls /\ local' = local /\ cred' \in Nat
      BY <3>1, <3>2 DEF Goto, TypeOK
    <3>6. local.live
      BY <1>3 DEF ensureSecret, TypeOK
    <3> QED
      BY <1>3, <3>3, <3>4, <3>5, <3>6 DEF ensureSecret, TypeOK, store
  <2> QED
    BY <1>3, <2>1, <2>2 DEF ensureSecret
<1>4. CASE ProvisionDatabase
  <2>1. local.live /\ DatabaseName[local.cfg] \in Database /\ DatabaseUser[local.cfg] \in User
    BY <1>4, NamesAssumption DEF ProvisionDatabase, TypeOK, Site
  <2>2. server' \in Server /\ budget' \in Budget
    <3>1. CASE UNCHANGED <<server, budget>>
      BY <3>1 DEF TypeOK
    <3>2. CASE \E n \in 0..EnsureStatements :
                  /\ server' = EnsureDatabase(server, DatabaseName[local.cfg],
                                              DatabaseUser[local.cfg], cred, n)
                  /\ Spend("faults") \/ UNCHANGED budget
      <4>1. server' \in Server
        BY <2>1, <3>2, ServerType DEF TypeOK
      <4>2. budget' \in Budget
        BY <3>2, SpendType DEF TypeOK, Budget
      <4> QED
        BY <4>1, <4>2
    <3> QED
      BY <1>4, <3>1, <3>2 DEF ProvisionDatabase
  <2>3. pc' \in {"ConfigMap", "Provisioning"} /\ UNCHANGED <<local, cred>>
    BY <1>4 DEF ProvisionDatabase, Goto
  <2> QED
    BY <1>0, <1>4, <2>1, <2>2, <2>3 DEF ProvisionDatabase, TypeOK, store, secrets, Kinds
<1>5. ASSUME NEW k \in Kinds, apply(k) PROVE TypeOK'
  <2>1. PICK out \in Outcome :
          /\ Charge(out)
          /\ LET object == IF out = "refused" THEN workload[k] ELSE Desired(local)[k]
             IN  /\ workload' = [workload EXCEPT ![k] = object]
                 /\ IF out = "ok"
                    THEN Goto(NextCall(k)) /\ queue' = (queue \/ object # workload[k])
                    ELSE IF local.suspend
                    THEN Requeue
                    ELSE Goto("Error") /\ queue' = (queue \/ object # workload[k])
    BY <1>5 DEF apply
  <2>2. workload' \in [Kinds -> Object]
    BY <2>1, DesiredType DEF TypeOK
  <2>3. NextCall(k) \in Calls
    BY DEF NextCall, Kinds
  <2>4. local.live
    BY <1>5 DEF apply, TypeOK, Kinds
  <2>5. pc' \in Calls /\ local' \in Site /\ cred' \in Nat /\ queue' \in BOOLEAN
        /\ (pc' # "idle" => local'.live)
    BY <1>0, <2>1, <2>3, <2>4 DEF Goto, TypeOK
  <2>6. budget' \in Budget
    BY <2>1, ChargeType
  <2> QED
    BY <1>5, <2>2, <2>5, <2>6 DEF apply, TypeOK, store, secrets
<1>6. CASE setPhase
  <2> DEFINE s == [local EXCEPT !.phase = pc, !.condGen = local.gen,
                     !.observed = IF pc = "Ready" THEN local.gen ELSE @]
  <2>1. PICK out \in Outcome :
          /\ Charge(out)
          /\ UpdateSite(s, out)
          /\ IF pc \in {"Ready", "Suspended"} /\ Accepted(out) THEN Done ELSE Requeue
    BY <1>6 DEF setPhase
  <2>2. s \in Site
    BY <1>6 DEF setPhase, TypeOK, Site, Phases
  <2>3. site' \in Site /\ siteLog' \subseteq Site
    BY <2>1, <2>2, UpdateSiteType
  <2>4. budget' \in Budget
    BY <2>1, ChargeType
  <2> QED
    BY <1>0, <1>6, <2>1, <2>3, <2>4 DEF setPhase, TypeOK, secrets
<1>7. CASE DropData
  <2>1. local.live /\ DatabaseName[local.cfg] \in Database /\ DatabaseUser[local.cfg] \in User
    BY <1>7, NamesAssumption DEF DropData, TypeOK, Site
  <2>2. server' \in Server /\ budget' \in Budget
    <3>1. CASE UNCHANGED <<server, budget>>
      BY <3>1 DEF TypeOK
    <3>2. CASE \E n \in 0..DropStatements :
                  /\ server' = DropDatabase(server, DatabaseName[local.cfg],
                                            DatabaseUser[local.cfg], n)
                  /\ Spend("faults") \/ UNCHANGED budget
      <4>1. server' \in Server
        BY <2>1, <3>2, ServerType DEF TypeOK
      <4>2. budget' \in Budget
        BY <3>2, SpendType DEF TypeOK, Budget
      <4> QED
        BY <4>1, <4>2
    <3> QED
      BY <1>7, <3>1, <3>2 DEF DropData
  <2>3. Requeue \/ (Goto("removeFinalizer") /\ UNCHANGED queue)
    BY <1>7 DEF DropData
  <2>4. pc' \in Calls /\ local' \in Site /\ cred' \in Nat /\ queue' \in BOOLEAN
        /\ (pc' # "idle" => local'.live)
    BY <1>0, <2>1, <2>3 DEF Goto, TypeOK
  <2> QED
    BY <1>7, <2>2, <2>4 DEF DropData, TypeOK, store, secrets
<1>8. CASE removeFinalizer
  <2>1. PICK out \in Outcome :
          /\ Charge(out)
          /\ UpdateSite(Gone(local), out)
          /\ IF Accepted(out) THEN Done ELSE Requeue
    BY <1>8 DEF removeFinalizer
  <2>2. site' \in Site /\ siteLog' \subseteq Site
    BY <2>1, GoneType, UpdateSiteType DEF TypeOK
  <2>3. budget' \in Budget
    BY <2>1, ChargeType
  <2> QED
    BY <1>0, <1>8, <2>1, <2>2, <2>3 DEF removeFinalizer, TypeOK, secrets
<1> QED
  BY <1>1, <1>2, <1>3, <1>4, <1>5, <1>6, <1>7, <1>8 DEF Worker

LEMMA CrashType == TypeOK /\ Crash => TypeOK'
<1> SUFFICES ASSUME TypeOK, Crash PROVE TypeOK'
  OBVIOUS
<1>1. budget' \in Budget
  BY SpendType DEF Crash, TypeOK, Budget
<1> QED
  BY <1>1, NoSiteType DEF Crash, Idle, TypeOK, Calls, NoPassword

LEMMA TypeStep == TypeOK /\ [Next]_vars => TypeOK'
<1>1. TypeOK /\ UNCHANGED vars => TypeOK'
  BY DEF vars, secrets, worker, TypeOK
<1> QED
  BY <1>1, ApiCallType, ClusterType, WorkerType, CrashType DEF Next

\* Every variable of the lifecycle keeps its type, and Reconcile works on a
\* site that exists in the version it read.
THEOREM TypeCorrect == Spec => []TypeOK
<1> QED
  BY InitType, TypeStep, PTL DEF Spec

-----------------------------------------------------------------------------
(* Versions                                                                 *)

\* A write to the site keeps the versions in order when it does not lose the
\* finalizer of a site some version shows as held, nor revives one that some
\* version shows as deleted.
LEMMA WriteKeepsOrder ==
    ASSUME TypeOK, VersionsInOrder, NEW s \in Site, StoreSite(s),
           s.uid >= site.uid,
           cache' = cache, local' \in {local, NoSite, site'},
           \A v \in Versions : Held(v) => s.live /\ s.finalizer /\ s.uid = v.uid,
           \A v \in Versions : v.deleting /\ s.live /\ v.uid = s.uid => s.deleting
    PROVE  VersionsInOrder'
<1> USE DEF Versions
<1>1. /\ site' \in Site /\ siteLog' \subseteq siteLog \union {site'}
      /\ site'.uid = s.uid /\ site'.live = s.live
      /\ site'.finalizer = s.finalizer /\ site'.deleting = s.deleting
      /\ \/ site' = site /\ siteLog' = siteLog
         \/ site'.rv = site.rv + 1
  BY StoreSiteType DEF StoreSite, store, TypeOK, Site
<1>2. \A v \in Versions : v \in Site
  BY DEF TypeOK
<1>3. \A v \in Versions' : v \in Versions \/ v = site' \/ v = NoSite
  BY <1>1
<1>4. site \in Site
  BY DEF TypeOK
<1>5. NoSite.rv = 0 /\ NoSite.uid = 0 /\ ~NoSite.live /\ ~NoSite.deleting
  BY DEF NoSite
<1>6. NothingFromTheFuture'
  <2> SUFFICES ASSUME NEW v \in Versions'
               PROVE  /\ v.rv <= site'.rv /\ v.uid <= site'.uid
                      /\ v.live /\ v.rv = site'.rv => v = site'
    BY DEF NothingFromTheFuture
  <2>1. CASE v \in Versions
    <3>1. v.rv <= site.rv /\ v.uid <= site.uid /\ (v.live /\ v.rv = site.rv => v = site)
      BY <2>1 DEF VersionsInOrder, NothingFromTheFuture
    <3>2. v.rv \in Nat /\ v.uid \in Nat /\ site.rv \in Nat /\ site.uid \in Nat /\ s.uid \in Nat
      BY <1>2, <1>4, <2>1 DEF Site
    <3> QED
      BY <1>1, <3>1, <3>2
  <2>2. CASE v = site'
    BY <1>1, <2>2 DEF Site
  <2>3. CASE v = NoSite
    BY <1>1, <1>5, <2>3 DEF Site
  <2> QED
    BY <1>3, <2>1, <2>2, <2>3
<1>7. LogInOrder'
  <2>1. \A v \in siteLog : v.rv <= site.rv /\ v.uid <= site.uid
    BY DEF VersionsInOrder, NothingFromTheFuture
  <2>2. cache.rv <= site.rv /\ cache.uid <= site.uid
    BY DEF VersionsInOrder, NothingFromTheFuture
  <2>3. CASE siteLog' = siteLog
    BY <2>3 DEF VersionsInOrder, LogInOrder
  <2>4. CASE siteLog' # siteLog
    <3>1. site'.rv = site.rv + 1
      BY <1>1, <2>4
    <3>2. \A v \in siteLog : v.rv \in Nat /\ v.uid \in Nat
      BY DEF TypeOK, Site
    <3>3. /\ site.rv \in Nat /\ site.uid \in Nat /\ site'.uid \in Nat /\ site'.rv \in Nat
          /\ cache.rv \in Nat /\ cache.uid \in Nat /\ s.uid \in Nat
      BY <1>1 DEF TypeOK, Site
    <3>4. ASSUME NEW v \in siteLog' PROVE v.rv > cache.rv /\ v.uid >= cache.uid
      BY <1>1, <2>2, <3>1, <3>3 DEF VersionsInOrder, LogInOrder
    <3>5. ASSUME NEW v \in siteLog', NEW w \in siteLog', v.rv < w.rv
          PROVE  v.uid <= w.uid
      <4>1. CASE v \in siteLog /\ w \in siteLog
        BY <4>1, <3>5 DEF VersionsInOrder, LogInOrder
      <4>2. CASE v \in siteLog /\ w = site'
        BY <4>2, <1>1, <2>1, <3>2, <3>3
      <4>3. CASE v = site'
        BY <4>3, <1>1, <2>1, <3>1, <3>2, <3>3, <3>5
      <4> QED
        BY <1>1, <4>1, <4>2, <4>3
    <3> QED
      BY <3>4, <3>5 DEF LogInOrder
  <2> QED
    BY <2>3, <2>4
<1>8. HeldStaysHeld'
  BY <1>1, <1>3, <1>5 DEF HeldStaysHeld, Held
<1>9. DeletingIsFinal'
  BY <1>1, <1>3, <1>5 DEF DeletingIsFinal
<1> QED
  BY <1>6, <1>7, <1>8, <1>9 DEF VersionsInOrder

\* Versions that are only delivered, dropped or read stay in order.
LEMMA ReadKeepsOrder ==
    ASSUME TypeOK, VersionsInOrder, site' = site, cache' = cache,
           siteLog' = siteLog, local' \in {local, NoSite, cache}
    PROVE  VersionsInOrder'
<1>1. \A v \in Versions' : v \in Versions \/ v = NoSite
  BY DEF Versions
<1>2. NoSite.rv = 0 /\ NoSite.uid = 0 /\ ~NoSite.live /\ ~NoSite.deleting
  BY DEF NoSite
<1>3. site.rv >= 0 /\ site.uid >= 0
  BY DEF TypeOK, Site
<1> QED
  BY <1>1, <1>2, <1>3 DEF VersionsInOrder, NothingFromTheFuture, LogInOrder,
     HeldStaysHeld, DeletingIsFinal, Held

-----------------------------------------------------------------------------
(* The order of versions and the worker's guards are kept by every step     *)

Ordered == TypeOK /\ VersionsInOrder /\ WorkerOnTrack

LEMMA InitOrdered == Init => Ordered
<1> SUFFICES ASSUME Init PROVE Ordered
  OBVIOUS
<1>1. VersionsInOrder
  BY DEF Init, VersionsInOrder, NothingFromTheFuture, LogInOrder, HeldStaysHeld,
         DeletingIsFinal, Versions, Held, NoSite
<1>2. WorkerOnTrack
  BY DEF Init, WorkerOnTrack, NoSite, Provisioning, Applying, Kinds, SettingPhase, Deleting
<1> QED
  BY <1>1, <1>2, InitType DEF Ordered

LEMMA ApiCallOrdered == Ordered /\ ApiCall => VersionsInOrder' /\ WorkerOnTrack'
<1> SUFFICES ASSUME Ordered, ApiCall PROVE VersionsInOrder' /\ WorkerOnTrack'
  OBVIOUS
<1> USE DEF Ordered
<1>0. /\ cache' = cache /\ local' = local /\ pc' = pc
      /\ site \in Site /\ site.uid \in Nat
      /\ \A v \in Versions : v \in Site /\ v.uid <= site.uid
  BY DEF ApiCall, createSite, updateSite, setSuspend, updateSiteYAML, deleteSite, Edit,
         worker, TypeOK, Site, Versions, VersionsInOrder, NothingFromTheFuture
<1>1. ASSUME NEW s \in Site, StoreSite(s), s.uid = site.uid + 1, ~site.live,
             s.live, ~s.deleting
      PROVE  VersionsInOrder' /\ WorkerOnTrack'
  <2>1. \A v \in Versions : ~Held(v)
    BY <1>1 DEF VersionsInOrder, HeldStaysHeld
  <2>2. \A v \in Versions : v.uid # s.uid
    BY <1>0, <1>1 DEF Site
  <2>3. VersionsInOrder'
    BY <1>0, <1>1, <2>1, <2>2, WriteKeepsOrder
  <2>4. ~site'.deleting
    BY <1>1, StoreSiteType DEF StoreSite, store, Site
  <2> QED
    BY <1>0, <2>3, <2>4 DEF WorkerOnTrack
<1>2. ASSUME NEW s \in Site, StoreSite(s), s.uid = site.uid, s.live = site.live,
             s.finalizer = site.finalizer, s.deleting = site.deleting
      PROVE  VersionsInOrder' /\ WorkerOnTrack'
  <2>1. \A v \in Versions : Held(v) => s.live /\ s.finalizer /\ s.uid = v.uid
    BY <1>2 DEF VersionsInOrder, HeldStaysHeld
  <2>2. \A v \in Versions : v.deleting /\ s.live /\ v.uid = s.uid => s.deleting
    BY <1>2 DEF VersionsInOrder, DeletingIsFinal
  <2>3. VersionsInOrder'
    BY <1>0, <1>2, <2>1, <2>2, WriteKeepsOrder
  <2>4. site'.deleting = site.deleting /\ site'.live = site.live
        /\ site'.finalizer = site.finalizer
    BY <1>2 DEF StoreSite, store, Site
  <2> QED
    BY <1>0, <2>3, <2>4 DEF WorkerOnTrack
<1>3. ASSUME NEW c \in Config, createSite(c) PROVE VersionsInOrder' /\ WorkerOnTrack'
  <2> DEFINE s == [NoSite EXCEPT !.live = TRUE, !.uid = site.uid + 1, !.gen = 1, !.cfg = c]
  <2>0. site.uid + 1 \in Nat
    BY <1>0
  <2>1. s \in Site
    BY <2>0, NewSiteType
  <2>2. s.live /\ s.uid = site.uid + 1 /\ ~s.deleting
    BY DEF NoSite
  <2>3. StoreSite(s) /\ ~site.live
    BY <1>3 DEF createSite
  <2> HIDE DEF s
  <2> QED
    BY <1>1, <2>1, <2>2, <2>3
<1>4. ASSUME NEW s \in Site, Edit(s), s.uid = site.uid, s.live = site.live,
             s.finalizer = site.finalizer, s.deleting = site.deleting
      PROVE  VersionsInOrder' /\ WorkerOnTrack'
  <2> DEFINE t == [s EXCEPT !.gen = @ + 1]
  <2>1. t \in Site /\ t.uid = s.uid /\ t.live = s.live /\ t.finalizer = s.finalizer
        /\ t.deleting = s.deleting
    BY DEF Site
  <2>2. StoreSite(t)
    BY <1>4 DEF Edit
  <2> HIDE DEF t
  <2> QED
    BY <1>2, <1>4, <2>1, <2>2
<1>5. ASSUME NEW c \in Config, updateSite(c) PROVE VersionsInOrder' /\ WorkerOnTrack'
  BY <1>0, <1>4, <1>5 DEF updateSite, Site
<1>6. ASSUME NEW b \in BOOLEAN, setSuspend(b) PROVE VersionsInOrder' /\ WorkerOnTrack'
  BY <1>0, <1>4, <1>6 DEF setSuspend, Site
<1>7. ASSUME NEW c \in Config, NEW b \in BOOLEAN, updateSiteYAML(c, b)
      PROVE  VersionsInOrder' /\ WorkerOnTrack'
  BY <1>0, <1>4, <1>7 DEF updateSiteYAML, Site
<1>8. CASE deleteSite
  <2>1. CASE site.finalizer
    <3> DEFINE s == [site EXCEPT !.deleting = TRUE, !.gen = @ + 1]
    <3>1. s \in Site
      BY <1>0, DoomedType
    <3>2. s.uid = site.uid /\ s.live = site.live /\ s.finalizer = site.finalizer /\ s.deleting
      BY <1>0 DEF Site
    <3>3. StoreSite(s) /\ site.live
      BY <1>8, <2>1 DEF deleteSite
    <3> HIDE DEF s
    <3>a. \A v \in Versions : Held(v) => s.live /\ s.finalizer /\ s.uid = v.uid
      BY <3>2 DEF VersionsInOrder, HeldStaysHeld
    <3>b. \A v \in Versions : v.deleting /\ s.live /\ v.uid = s.uid => s.deleting
      BY <3>2
    <3>c. s.uid >= site.uid
      BY <1>0, <3>2
    <3>4. VersionsInOrder'
      BY <1>0, <3>1, <3>3, <3>a, <3>b, <3>c, WriteKeepsOrder
    <3>5. site'.live /\ site'.finalizer
      BY <2>1, <3>1, <3>2, <3>3 DEF StoreSite, store, Site
    <3> QED
      BY <1>0, <3>4, <3>5 DEF WorkerOnTrack
  <2>2. CASE ~site.finalizer
    <3> DEFINE s == Gone(site)
    <3>1. s \in Site /\ s.uid = site.uid /\ ~s.live /\ ~s.deleting
      BY <1>0, GoneType DEF Gone, Site
    <3>2. StoreSite(s)
      BY <1>8, <2>2 DEF deleteSite
    <3> HIDE DEF s
    <3>3. \A v \in Versions : ~Held(v)
      BY <2>2 DEF VersionsInOrder, HeldStaysHeld
    <3>4. VersionsInOrder'
      BY <1>0, <3>1, <3>2, <3>3, WriteKeepsOrder
    <3>5. ~site'.deleting
      BY <3>1, <3>2 DEF StoreSite, store, Site
    <3> QED
      BY <1>0, <3>4, <3>5 DEF WorkerOnTrack
  <2> QED
    BY <2>1, <2>2
<1> QED
  BY <1>3, <1>5, <1>6, <1>7, <1>8 DEF ApiCall

LEMMA ClusterOrdered == Ordered /\ Cluster => VersionsInOrder' /\ WorkerOnTrack'
<1> SUFFICES ASSUME Ordered, Cluster PROVE VersionsInOrder' /\ WorkerOnTrack'
  OBVIOUS
<1> USE DEF Ordered
<1>1. CASE DeliverSite
  <2>1. PICK v \in siteLog :
          /\ cache' = v
          /\ siteLog' = {w \in siteLog : w.rv > v.rv}
          /\ UNCHANGED <<site, worker>>
    BY <1>1 DEF DeliverSite
  <2>2. \A w \in Versions' : w \in Versions
    BY <2>1 DEF Versions, worker
  <2>3. NothingFromTheFuture' /\ HeldStaysHeld' /\ DeletingIsFinal'
    BY <2>1, <2>2 DEF VersionsInOrder, NothingFromTheFuture, HeldStaysHeld,
       DeletingIsFinal, Held
  <2>4. LogInOrder'
    <3>1. \A w \in siteLog : w.rv \in Nat /\ w.uid \in Nat
      BY DEF TypeOK, Site
    <3> QED
      BY <2>1, <3>1 DEF VersionsInOrder, LogInOrder
  <2>5. v.rv > cache.rv /\ v.uid >= cache.uid /\ v \in Site /\ cache \in Site /\ local \in Site
    BY DEF VersionsInOrder, LogInOrder, TypeOK
  <2>6. local.uid <= v.uid /\ (local.rv <= cache.rv => local.rv <= v.rv)
    BY <2>5 DEF WorkerOnTrack, Site
  <2> QED
    BY <2>1, <2>3, <2>4, <2>6 DEF VersionsInOrder, WorkerOnTrack, worker
<1>2. CASE UNCHANGED <<site, siteLog, cache, pc, local>>
  BY <1>2, ReadKeepsOrder DEF WorkerOnTrack
<1>3. Cluster => DeliverSite \/ UNCHANGED <<site, siteLog, cache, pc, local>>
  BY DEF Cluster, DeliverSecret, CollectSecret, CollectObject, TamperSecret, TamperObject,
         WakeUp, store, worker
<1> QED
  BY <1>1, <1>2, <1>3

LEMMA CrashOrdered == Ordered /\ Crash => VersionsInOrder' /\ WorkerOnTrack'
<1> SUFFICES ASSUME Ordered, Crash PROVE VersionsInOrder' /\ WorkerOnTrack'
  OBVIOUS
<1> USE DEF Ordered
<1>1. /\ site' = site /\ cache' = site /\ siteLog' = {} /\ local' = NoSite /\ pc' = "idle"
      /\ site \in Site
  BY DEF Crash, Idle, TypeOK
<1>2. NoSite.rv = 0 /\ NoSite.uid = 0 /\ ~NoSite.live /\ ~NoSite.deleting
  BY DEF NoSite
<1>3. VersionsInOrder'
  BY <1>1, <1>2 DEF VersionsInOrder, NothingFromTheFuture, LogInOrder, HeldStaysHeld,
     DeletingIsFinal, Versions, Held, Site
<1>4. site.deleting => site.live /\ site.finalizer
  BY DEF WorkerOnTrack
<1> QED
  BY <1>1, <1>2, <1>3, <1>4 DEF WorkerOnTrack, Provisioning, Applying, Kinds, SettingPhase,
     Deleting, Site

\* An Update of the worker's copy by a version of the same site.
LEMMA UpdateKeepsOrder ==
    ASSUME Ordered, local.live, NEW s \in Site, NEW out, UpdateSite(s, out),
           s.uid = local.uid, cache' = cache, local' \in {local, NoSite, site'},
           local.deleting => ~s.live,
           ~local.deleting => s.live /\ ~s.deleting /\ s.finalizer,
           ~s.live => ~s.deleting /\ local.rv <= cache.rv
    PROVE  /\ VersionsInOrder'
           /\ site'.deleting => site'.live /\ site'.finalizer
<1> USE DEF Ordered
<1>0. /\ \A v \in Versions : v \in Site
      /\ site \in Site /\ local \in Site /\ cache \in Site
  BY DEF TypeOK, Versions
<1>1. CASE out # "refused" /\ Current(local)
  <2>1. StoreSite(s)
    BY <1>1 DEF UpdateSite
  <2>2. local = site /\ site.live
    BY <1>0, <1>1 DEF Current, VersionsInOrder, NothingFromTheFuture, Versions, Site
  <2>3. s.uid >= site.uid
    BY <1>0, <2>2 DEF Site
  <2>4. CASE local.deleting
    <3>1. ~s.live /\ ~s.deleting /\ local.rv <= cache.rv
      BY <2>4
    <3>2. ASSUME NEW v \in Versions, Held(v) PROVE FALSE
      <4>1. v.rv <= site.rv /\ (v.rv = site.rv => v = site)
        BY <3>2 DEF VersionsInOrder, NothingFromTheFuture, Held
      <4>2. v # site
        BY <2>2, <2>4, <3>2 DEF Held
      <4>3. v # local
        BY <2>4, <3>2 DEF Held
      <4>4. CASE v \in siteLog
        <5>1. v.rv > cache.rv
          BY <4>4 DEF VersionsInOrder, LogInOrder
        <5> QED
          BY <1>0, <2>2, <3>1, <4>1, <4>2, <5>1 DEF Site
      <4>5. CASE v = cache
        BY <1>0, <2>2, <3>1, <4>1, <4>2, <4>5 DEF Site
      <4> QED
        BY <4>3, <4>4, <4>5 DEF Versions
    <3>3. VersionsInOrder'
      BY <2>1, <2>3, <3>1, <3>2, WriteKeepsOrder
    <3> QED
      BY <2>1, <3>1, <3>3 DEF StoreSite, store, Site
  <2>5. CASE ~local.deleting
    <3>1. s.live /\ ~s.deleting /\ s.finalizer
      BY <2>5
    <3>2. \A v \in Versions : Held(v) => s.live /\ s.finalizer /\ s.uid = v.uid
      BY <2>2, <3>1 DEF VersionsInOrder, HeldStaysHeld
    <3>3. \A v \in Versions : v.deleting /\ s.live /\ v.uid = s.uid => s.deleting
      BY <2>2, <2>5 DEF VersionsInOrder, DeletingIsFinal
    <3>4. VersionsInOrder'
      BY <2>1, <2>3, <3>2, <3>3, WriteKeepsOrder
    <3> QED
      BY <2>1, <3>1, <3>4 DEF StoreSite, store, Site
  <2> QED
    BY <2>4, <2>5
<1>2. CASE ~(out # "refused" /\ Current(local))
  <2>1. site' = site /\ siteLog' = siteLog
    BY <1>2 DEF UpdateSite, store
  <2>2. \A v \in Versions' : v \in Versions \/ v = NoSite \/ v = site
    BY <2>1 DEF Versions
  <2>3. NoSite.rv = 0 /\ NoSite.uid = 0 /\ ~NoSite.live /\ ~NoSite.deleting
    BY DEF NoSite
  <2>4. NothingFromTheFuture'
    BY <1>0, <2>1, <2>2, <2>3 DEF VersionsInOrder, NothingFromTheFuture, Site
  <2>5. LogInOrder'
    BY <2>1 DEF VersionsInOrder, LogInOrder
  <2>6. site.deleting => site.live /\ site.finalizer
    BY DEF WorkerOnTrack
  <2>7. HeldStaysHeld' /\ DeletingIsFinal'
    BY <2>1, <2>2, <2>3, <2>6 DEF VersionsInOrder, HeldStaysHeld, DeletingIsFinal, Held
  <2> QED
    BY <2>1, <2>4, <2>5, <2>6, <2>7 DEF VersionsInOrder
<1> QED
  BY <1>1, <1>2

\* The steps of the worker: those that write the site, and the others.
LEMMA WorkerOrdered == Ordered /\ Worker => VersionsInOrder' /\ WorkerOnTrack'
<1> SUFFICES ASSUME Ordered, Worker PROVE VersionsInOrder' /\ WorkerOnTrack'
  OBVIOUS
<1> USE DEF Ordered
<1> USE DEF Provisioning, Applying, Kinds, SettingPhase, Deleting
<1>0. /\ site \in Site /\ local \in Site /\ cache \in Site
      /\ NoSite.rv = 0 /\ NoSite.uid = 0
      /\ 0 <= cache.uid
  BY DEF TypeOK, NoSite, Site
<1>1. ASSUME site' = site, siteLog' = siteLog, cache' = cache, local' = local,
             \/ pc' \in Provisioning \union SettingPhase /\ pc \in Provisioning \union SettingPhase
             \/ pc' = "removeFinalizer" /\ pc = "DropDatabase"
      PROVE  VersionsInOrder' /\ WorkerOnTrack'
  BY <1>1, ReadKeepsOrder DEF WorkerOnTrack, Held
<1>2. ASSUME site' = site, siteLog' = siteLog, cache' = cache, Idle
      PROVE  VersionsInOrder' /\ WorkerOnTrack'
  BY <1>0, <1>2, ReadKeepsOrder DEF WorkerOnTrack, Idle
<1>3. CASE Reconcile
  <2>1. site' = site /\ siteLog' = siteLog /\ cache' = cache
    BY <1>3 DEF Reconcile, store
  <2>2. CASE cache.live /\ (cache.deleting => cache.finalizer)
    <3>1. local' = cache /\ pc' = FirstCall(cache)
      BY <1>3, <2>2 DEF Reconcile
    <3>2. VersionsInOrder'
      BY <2>1, <3>1, ReadKeepsOrder
    <3>3. /\ cache.deleting => pc' = (IF DropDataOnDelete THEN "DropDatabase"
                                                           ELSE "removeFinalizer")
          /\ ~cache.deleting /\ cache.finalizer => pc' \in {"ConfigMap", "ensureSecret"}
          /\ ~cache.deleting /\ ~cache.finalizer => pc' = "addFinalizer"
      BY <3>1 DEF FirstCall, AfterFinalizer
    <3>4. cache.uid <= cache.uid /\ cache.rv <= cache.rv
      BY <1>0 DEF Site
    <3> QED
      BY <2>1, <2>2, <3>1, <3>2, <3>3, <3>4 DEF WorkerOnTrack, Held
  <2>3. CASE ~(cache.live /\ (cache.deleting => cache.finalizer))
    BY <1>3, <2>1, <2>3, ReadKeepsOrder DEF Reconcile, worker, WorkerOnTrack
  <2> QED
    BY <2>2, <2>3
<1>4. CASE addFinalizer
  <2> DEFINE s == [local EXCEPT !.finalizer = TRUE]
  <2>1. PICK out \in Outcome :
          /\ UpdateSite(s, out)
          /\ IF Accepted(out) THEN local' = site' /\ pc' = AfterFinalizer(local) ELSE Requeue
    BY <1>4 DEF addFinalizer
  <2>2. /\ s \in Site /\ s.uid = local.uid /\ s.live /\ ~s.deleting /\ s.finalizer
        /\ ~local.deleting /\ local.live
    BY <1>0, <1>4 DEF addFinalizer, Site, TypeOK, WorkerOnTrack
  <2>3. cache' = cache /\ local' \in {local, NoSite, site'}
    BY <1>4, <2>1 DEF addFinalizer, Requeue, Idle
  <2>4. VersionsInOrder' /\ (site'.deleting => site'.live /\ site'.finalizer)
    BY <2>1, <2>2, <2>3, UpdateKeepsOrder
  <2>5. CASE Accepted(out)
    <3>1. /\ site'.live /\ site'.finalizer /\ ~site'.deleting /\ site'.uid = local.uid
      BY <2>1, <2>2, <2>5 DEF Accepted, UpdateSite, StoreSite, store, Site
    <3> QED
      BY <2>1, <2>3, <2>4, <2>5, <3>1 DEF WorkerOnTrack, Held, AfterFinalizer
  <2>6. CASE ~Accepted(out)
    BY <1>0, <2>1, <2>3, <2>4, <2>6 DEF WorkerOnTrack, Requeue, Idle
  <2> QED
    BY <2>5, <2>6
<1>5. CASE ensureSecret
  BY <1>1, <1>5 DEF ensureSecret, KeepSecret, WriteSecret, Goto, store
<1>6. CASE ProvisionDatabase
  BY <1>1, <1>6 DEF ProvisionDatabase, Goto, store
<1>7. ASSUME NEW k \in Kinds, apply(k) PROVE VersionsInOrder' /\ WorkerOnTrack'
  <2>1. site' = site /\ siteLog' = siteLog /\ cache' = cache /\ pc = k
    BY <1>7 DEF apply, store
  <2>2. \/ pc' \in Provisioning \union SettingPhase /\ local' = local
        \/ Idle
    BY <1>7 DEF apply, Goto, NextCall, Requeue
  <2> QED
    BY <1>1, <1>2, <2>1, <2>2
<1>8. CASE setPhase
  <2> DEFINE s == [local EXCEPT !.phase = pc, !.condGen = local.gen,
                     !.observed = IF pc = "Ready" THEN local.gen ELSE @]
  <2>1. PICK out \in Outcome : UpdateSite(s, out)
    BY <1>8 DEF setPhase
  <2>2. Idle /\ cache' = cache
    BY <1>8 DEF setPhase, Done, Requeue
  <2>3. /\ s \in Site /\ s.uid = local.uid /\ s.live /\ ~s.deleting /\ s.finalizer
        /\ ~local.deleting /\ local.live
    BY <1>0, <1>8 DEF setPhase, Site, Phases, WorkerOnTrack, Held
  <2> HIDE DEF s
  <2>4. VersionsInOrder' /\ (site'.deleting => site'.live /\ site'.finalizer)
    BY <2>1, <2>2, <2>3, UpdateKeepsOrder DEF Idle
  <2> QED
    BY <1>0, <2>2, <2>4 DEF WorkerOnTrack, Idle
<1>9. CASE DropData
  <2>1. site' = site /\ siteLog' = siteLog /\ cache' = cache /\ pc = "DropDatabase"
    BY <1>9 DEF DropData, store
  <2>2. \/ pc' = "removeFinalizer" /\ local' = local
        \/ Idle
    BY <1>9 DEF DropData, Goto, Requeue
  <2> QED
    BY <1>1, <1>2, <2>1, <2>2
<1>10. CASE removeFinalizer
  <2>1. PICK out \in Outcome : UpdateSite(Gone(local), out)
    BY <1>10 DEF removeFinalizer
  <2>2. Idle /\ cache' = cache
    BY <1>10 DEF removeFinalizer, Done, Requeue
  <2>3. /\ Gone(local) \in Site /\ Gone(local).uid = local.uid
        /\ ~Gone(local).live /\ ~Gone(local).deleting
    <3>1. Gone(local) \in Site
      BY <1>0, GoneType
    <3> QED
      BY ONLY <1>0, <3>1 DEF Gone, Site
  <2>4. local.live /\ local.deleting /\ local.rv <= cache.rv
    <3>1. pc = "removeFinalizer"
      BY <1>10 DEF removeFinalizer
    <3>2. pc \in Deleting /\ pc # "idle"
      BY ONLY <3>1 DEF Deleting
    <3> QED
      BY <3>2 DEF WorkerOnTrack, TypeOK
  <2>5. VersionsInOrder' /\ (site'.deleting => site'.live /\ site'.finalizer)
    BY <2>1, <2>2, <2>3, <2>4, UpdateKeepsOrder DEF Idle
  <2> QED
    BY <1>0, <2>2, <2>5 DEF WorkerOnTrack, Idle
<1> QED
  BY <1>3, <1>4, <1>5, <1>6, <1>7, <1>8, <1>9, <1>10 DEF Worker

LEMMA OrderedStep == Ordered /\ [Next]_vars => Ordered'
<1>1. Ordered /\ UNCHANGED vars => VersionsInOrder' /\ WorkerOnTrack'
  BY ReadKeepsOrder DEF Ordered, vars, worker, WorkerOnTrack
<1> QED
  BY <1>1, ApiCallOrdered, ClusterOrdered, WorkerOrdered, CrashOrdered, TypeStep
     DEF Next, Ordered

-----------------------------------------------------------------------------
(* The MySQL server                                                         *)

\* EnsureDatabase removes nothing, and leaves something once it has begun.
LEMMA EnsureKeeps ==
    ASSUME NEW srv \in Server, NEW db \in Database, NEW user \in User,
           NEW pass \in Nat, NEW n \in 0..EnsureStatements
    PROVE  LET new == EnsureDatabase(srv, db, user, pass, n)
           IN  /\ srv.databases \subseteq new.databases
               /\ pass # NoPassword =>
                      \A u \in User : new.accounts[u] = NoPassword
                                         => srv.accounts[u] = NoPassword
               /\ new.databases \subseteq srv.databases \union {db}
               /\ \A u \in User : u # user => new.accounts[u] = srv.accounts[u]
               /\ HoldsNothing(new) => HoldsNothing(srv)
  BY DEF EnsureDatabase, EnsureStatements, Server, HoldsNothing, NoPassword

\* DropDatabase adds nothing, and when it runs to its end it leaves nothing of
\* the schema and the account it was called for.
LEMMA DropRemoves ==
    ASSUME NEW srv \in Server, NEW db \in Database, NEW user \in User,
           NEW n \in 0..DropStatements
    PROVE  LET new == DropDatabase(srv, db, user, n)
           IN  /\ new.databases \subseteq srv.databases
               /\ \A u \in User : srv.accounts[u] = NoPassword
                                     => new.accounts[u] = NoPassword
               /\ n = DropStatements =>
                      /\ new.databases = srv.databases \ {db}
                      /\ new.accounts[user] = NoPassword
  BY DEF DropDatabase, DropStatements, Server, NoPassword

\* The server changes at two calls only.
LEMMA ServerChanges ==
    ASSUME [Next]_vars
    PROVE  ProvisionDatabase \/ DropData \/ UNCHANGED server
  BY DEF Next, ApiCall, createSite, updateSite, setSuspend, updateSiteYAML, Edit, deleteSite,
     Cluster, DeliverSite, DeliverSecret, CollectSecret, CollectObject, TamperSecret,
     TamperObject, WakeUp, Worker, Reconcile, addFinalizer, ensureSecret, apply, setPhase,
     removeFinalizer, Crash, vars

\* A call that is refused before its first statement changes nothing.
LEMMA EnsureNothing ==
    ASSUME NEW srv \in Server, NEW db, NEW user, NEW pass
    PROVE  EnsureDatabase(srv, db, user, pass, 0) = srv
  BY DEF EnsureDatabase, Server

LEMMA DropNothing ==
    ASSUME NEW srv \in Server, NEW db, NEW user
    PROVE  DropDatabase(srv, db, user, 0) = srv
<1>1. srv.databases \ {} = srv.databases /\ {g \in srv.grants : TRUE} = srv.grants
  BY DEF Server
<1> QED
  BY <1>1 DEF DropDatabase, Server

\* What the two calls do, with the names the worker's copy asks for.
LEMMA ProvisionEffect ==
    ASSUME TypeOK, ProvisionDatabase
    PROVE  \E n \in 0..EnsureStatements :
               /\ DatabaseName[local.cfg] \in Database /\ DatabaseUser[local.cfg] \in User
               /\ local.cfg \in Config
               /\ server' = EnsureDatabase(server, DatabaseName[local.cfg],
                                           DatabaseUser[local.cfg], cred, n)
               /\ pc = "EnsureDatabase" /\ pc' \in {"ConfigMap", "Provisioning"}
               /\ UNCHANGED <<site, cache, local>>
<1>1. /\ local.cfg \in Config /\ server \in Server
      /\ pc = "EnsureDatabase" /\ UNCHANGED <<site, cache>>
  BY DEF ProvisionDatabase, TypeOK, Site, store
<1>2. DatabaseName[local.cfg] \in Database /\ DatabaseUser[local.cfg] \in User
  BY <1>1, NamesAssumption
<1>3. CASE local.cfg \in Refused
  <2>1. server' = server /\ pc' = "Provisioning" /\ local' = local
    BY <1>3 DEF ProvisionDatabase, Goto
  <2>2. 0 \in 0..EnsureStatements
    BY DEF EnsureStatements
  <2> QED
    BY <1>1, <1>2, <2>1, <2>2, EnsureNothing
<1>4. CASE local.cfg \notin Refused
  BY <1>1, <1>2, <1>4 DEF ProvisionDatabase, Goto
<1> QED
  BY <1>3, <1>4

LEMMA DropEffect ==
    ASSUME TypeOK, DropData
    PROVE  \E n \in 0..DropStatements :
               /\ DatabaseName[local.cfg] \in Database /\ DatabaseUser[local.cfg] \in User
               /\ local.cfg \in Config
               /\ server' = DropDatabase(server, DatabaseName[local.cfg],
                                         DatabaseUser[local.cfg], n)
               /\ pc = "DropDatabase" /\ pc' \in {"removeFinalizer", "idle"}
               /\ pc' = "removeFinalizer" => n = DropStatements
               /\ UNCHANGED <<site, cache>>
<1>1. /\ local.cfg \in Config /\ server \in Server
      /\ pc = "DropDatabase" /\ UNCHANGED <<site, cache>>
  BY DEF DropData, TypeOK, Site, store
<1>2. DatabaseName[local.cfg] \in Database /\ DatabaseUser[local.cfg] \in User
  BY <1>1, NamesAssumption
<1>3. CASE local.cfg \in Refused
  <2>1. server' = server /\ pc' = "idle"
    BY <1>3 DEF DropData, Requeue, Idle
  <2>2. 0 \in 0..DropStatements
    BY DEF DropStatements
  <2> QED
    BY <1>1, <1>2, <2>1, <2>2, DropNothing
<1>4. CASE local.cfg \notin Refused
  BY <1>1, <1>2, <1>4 DEF DropData, Goto, Requeue, Idle
<1> QED
  BY <1>3, <1>4

LEMMA ServerStep == TypeOK /\ ServerInUse /\ [Next]_vars => ServerInUse'
<1> SUFFICES ASSUME TypeOK, ServerInUse, [Next]_vars PROVE ServerInUse'
  OBVIOUS
<1>1. /\ server'.databases \subseteq {DatabaseName[c] : c \in Config}
      /\ \A u \in User : server'.accounts[u] # NoPassword
                            => u \in {DatabaseUser[c] : c \in Config}
  <2>1. CASE ProvisionDatabase
    <3>1. server \in Server /\ cred \in Nat
      BY DEF TypeOK
    <3> QED
      BY <2>1, <3>1, ProvisionEffect, EnsureKeeps DEF ServerInUse
  <2>2. CASE DropData
    <3>1. server \in Server
      BY DEF TypeOK
    <3> QED
      BY <2>2, <3>1, DropEffect, DropRemoves DEF ServerInUse
  <2>3. CASE UNCHANGED server
    BY <2>3 DEF ServerInUse
  <2> QED
    BY <2>1, <2>2, <2>3, ServerChanges
<1>2. pc' = "EnsureDatabase" => cred' # NoPassword
  <2>1. CASE ensureSecret
    <3>1. CASE KeepSecret
      BY <3>1 DEF KeepSecret
    <3>2. CASE WriteSecret
      <4>1. issued \in Nat
        BY DEF TypeOK
      <4>2. pc' = "Error" \/ cred' = issued + 1
        BY <3>2 DEF WriteSecret, Goto
      <4> QED
        BY <4>1, <4>2 DEF NoPassword
    <3> QED
      BY <2>1, <3>1, <3>2 DEF ensureSecret
  <2>2. CASE UNCHANGED worker
    BY <2>2 DEF worker, ServerInUse
  <2>3. CASE pc' # "EnsureDatabase"
    BY <2>3
  <2>4. CASE ApiCall \/ Cluster \/ UNCHANGED vars
    <3>1. UNCHANGED worker
      BY <2>4 DEF ApiCall, createSite, updateSite, setSuspend, updateSiteYAML, Edit,
         deleteSite, Cluster, DeliverSite, DeliverSecret, CollectSecret, CollectObject,
         TamperSecret, TamperObject, WakeUp, vars
    <3> QED
      BY <2>2, <3>1
  <2>5. CASE Crash \/ setPhase \/ removeFinalizer \/ DropData \/ ProvisionDatabase
    <3>1. pc' # "EnsureDatabase"
      BY <2>5, ProvisionEffect, DropEffect DEF Crash, setPhase, removeFinalizer, Idle, Done,
         Requeue
    <3> QED
      BY <3>1
  <2>6. CASE Reconcile
    <3>1. \/ UNCHANGED worker
          \/ pc' = FirstCall(cache)
      BY <2>6 DEF Reconcile
    <3> QED
      BY <2>2, <2>3, <3>1 DEF FirstCall, AfterFinalizer
  <2>7. CASE addFinalizer
    <3>1. pc' \in {"idle", "ConfigMap", "ensureSecret"}
      BY <2>7 DEF addFinalizer, AfterFinalizer, Requeue, Idle
    <3> QED
      BY <3>1
  <2>8. ASSUME NEW k \in Kinds, apply(k) PROVE pc' # "EnsureDatabase"
    <3>1. NextCall(k) # "EnsureDatabase"
      BY DEF NextCall, Kinds
    <3>2. pc' \in {"idle", "Error", NextCall(k)}
      BY <2>8 DEF apply, Goto, Requeue, Idle
    <3> QED
      BY <3>1, <3>2
  <2> QED
    BY <2>1, <2>3, <2>4, <2>5, <2>6, <2>7, <2>8 DEF Next, Worker
<1> QED
  BY <1>1, <1>2 DEF ServerInUse

\* Data is there only while the site is held.
LEMMA DataStep ==
    Ordered /\ ServerInUse /\ DataIsHeld /\ [Next]_vars => DataIsHeld'
<1> SUFFICES ASSUME Ordered, ServerInUse, DataIsHeld, [Next]_vars,
                    DropDataOnDelete, OneDatabase, ~HoldsNothing(server')
             PROVE  /\ site'.live /\ site'.finalizer
                    /\ cache'.uid = site'.uid
                    /\ pc' # "removeFinalizer"
                    /\ pc' = "DropDatabase" => local'.uid = site'.uid
  BY DEF DataIsHeld, OneDatabase, HoldsNothing
<1> USE DEF Ordered
<1>1. CASE ProvisionDatabase
  <2>1. Held(local) /\ local.uid <= cache.uid
    BY <1>1, ProvisionEffect DEF WorkerOnTrack, Provisioning
  <2>2. site.live /\ site.finalizer /\ site.uid = local.uid
    BY <2>1 DEF VersionsInOrder, HeldStaysHeld, Versions
  <2>3. cache.uid <= site.uid /\ cache.uid \in Nat /\ site.uid \in Nat
    BY DEF VersionsInOrder, NothingFromTheFuture, Versions, TypeOK, Site
  <2> QED
    BY <1>1, <2>1, <2>2, <2>3, ProvisionEffect
<1>2. CASE DropData
  <2>1. PICK n \in 0..DropStatements :
          /\ DatabaseName[local.cfg] \in Database /\ DatabaseUser[local.cfg] \in User
          /\ local.cfg \in Config
          /\ server' = DropDatabase(server, DatabaseName[local.cfg],
                                    DatabaseUser[local.cfg], n)
          /\ pc' \in {"removeFinalizer", "idle"}
          /\ pc' = "removeFinalizer" => n = DropStatements
          /\ UNCHANGED <<site, cache>>
    BY <1>2, DropEffect
  <2>2. server \in Server
    BY DEF TypeOK
  <2>3. ~HoldsNothing(server)
    BY <2>1, <2>2, DropRemoves DEF HoldsNothing
  <2>4. n # DropStatements
    <3>1. server.databases \subseteq {DatabaseName[local.cfg]}
      BY <2>1 DEF ServerInUse, OneDatabase
    <3>2. \A u \in User : server.accounts[u] # NoPassword => u = DatabaseUser[local.cfg]
      BY <2>1 DEF ServerInUse, OneDatabase
    <3> QED
      BY <2>1, <2>2, <3>1, <3>2, DropRemoves DEF HoldsNothing
  <2> QED
    BY <2>1, <2>3, <2>4 DEF DataIsHeld
<1>3. CASE UNCHANGED server
  <2>1. /\ site.live /\ site.finalizer /\ cache.uid = site.uid
        /\ pc # "removeFinalizer"
        /\ pc = "DropDatabase" => local.uid = site.uid
    BY <1>3 DEF DataIsHeld
  <2>2. /\ site \in Site /\ cache \in Site /\ local \in Site
        /\ \A v \in siteLog : v.uid \in Nat /\ cache.uid <= v.uid /\ v.uid <= site.uid
    BY DEF TypeOK, Site, VersionsInOrder, LogInOrder, NothingFromTheFuture, Versions
  <2>3. CASE ApiCall
    <3>1. UNCHANGED <<cache, worker>> /\ ~(\E c \in Config : createSite(c))
      BY <2>1, <2>3 DEF ApiCall, createSite, updateSite, setSuspend, updateSiteYAML, Edit,
         deleteSite
    <3>2. ASSUME NEW s \in Site, s.live, s.finalizer, s.uid = site.uid, StoreSite(s)
          PROVE  site'.live /\ site'.finalizer /\ site'.uid = site.uid
      BY <2>1, <2>2, <3>2 DEF StoreSite, store, Site
    <3>3. ASSUME NEW s \in Site, s.live, s.finalizer, s.uid = site.uid, Edit(s)
          PROVE  site'.live /\ site'.finalizer /\ site'.uid = site.uid
      <4>1. StoreSite([s EXCEPT !.gen = @ + 1])
        BY <3>3 DEF Edit
      <4>2. [s EXCEPT !.gen = @ + 1] \in Site
        BY <3>3 DEF Site
      <4> QED
        BY ONLY <3>3, <4>1, <4>2, <2>1, <2>2 DEF StoreSite, store, Site
    <3>4. ASSUME NEW c \in Config, updateSite(c)
          PROVE  site'.live /\ site'.finalizer /\ site'.uid = site.uid
      <4>1. [site EXCEPT !.cfg = c] \in Site
        BY <2>2 DEF Site
      <4> QED
        BY <2>1, <2>2, <3>3, <3>4, <4>1 DEF updateSite, Site
    <3>5. ASSUME NEW b \in BOOLEAN, setSuspend(b)
          PROVE  site'.live /\ site'.finalizer /\ site'.uid = site.uid
      <4>1. [site EXCEPT !.suspend = b] \in Site
        BY <2>2 DEF Site
      <4> QED
        BY <2>1, <2>2, <3>3, <3>5, <4>1 DEF setSuspend, Site
    <3>6. ASSUME NEW c \in Config, NEW b \in BOOLEAN, updateSiteYAML(c, b)
          PROVE  site'.live /\ site'.finalizer /\ site'.uid = site.uid
      <4>1. [site EXCEPT !.cfg = c, !.suspend = b] \in Site
        BY <2>2 DEF Site
      <4> QED
        BY <2>1, <2>2, <3>3, <3>6, <4>1 DEF updateSiteYAML, Site
    <3>7. ASSUME deleteSite
          PROVE  site'.live /\ site'.finalizer /\ site'.uid = site.uid
      <4>1. StoreSite([site EXCEPT !.deleting = TRUE, !.gen = @ + 1])
        BY <2>1, <3>7 DEF deleteSite
      <4>2. [site EXCEPT !.deleting = TRUE, !.gen = @ + 1] \in Site
        BY ONLY <2>2, DoomedType
      <4> QED
        BY ONLY <2>1, <2>2, <4>1, <4>2 DEF StoreSite, store, Site
    <3>8. site'.live /\ site'.finalizer /\ site'.uid = site.uid
      BY <2>3, <3>1, <3>4, <3>5, <3>6, <3>7 DEF ApiCall
    <3> QED
      BY <2>1, <3>1, <3>8 DEF worker
  <2>4. CASE DeliverSite
    <3>1. UNCHANGED <<site, worker>> /\ cache' \in siteLog
      BY <2>4 DEF DeliverSite
    <3>2. cache'.uid = site.uid
      BY <2>1, <2>2, <3>1 DEF Site
    <3> QED
      BY <2>1, <3>1, <3>2 DEF worker
  <2>5. CASE Cluster /\ ~DeliverSite
    <3>1. UNCHANGED <<site, cache, worker>>
      BY <2>5 DEF Cluster, DeliverSecret, CollectSecret, CollectObject, TamperSecret,
         TamperObject, WakeUp, store
    <3> QED
      BY <2>1, <3>1 DEF worker
  <2>6. CASE UNCHANGED vars
    BY <2>1, <2>6 DEF vars, worker
  <2>7. CASE Crash
    BY <2>1, <2>7 DEF Crash, Idle
  <2>8. CASE Reconcile
    <3>1. UNCHANGED <<site, cache>>
      BY <2>8 DEF Reconcile, store
    <3>2. \/ UNCHANGED worker
          \/ local' = cache /\ pc' = FirstCall(cache)
      BY <2>8 DEF Reconcile
    <3> QED
      BY <2>1, <3>1, <3>2 DEF worker, FirstCall, AfterFinalizer
  <2>9. CASE addFinalizer \/ setPhase
    <3>1. PICK s \in Site, out \in Outcome : /\ UpdateSite(s, out) /\ cache' = cache
                                             /\ s.finalizer /\ s.live /\ s.uid = local.uid
                                             /\ pc' \in {"idle", "ConfigMap", "ensureSecret"}
      <4>1. CASE addFinalizer
        <5>1. [local EXCEPT !.finalizer = TRUE].finalizer
              /\ [local EXCEPT !.finalizer = TRUE].live
              /\ [local EXCEPT !.finalizer = TRUE].uid = local.uid
              /\ [local EXCEPT !.finalizer = TRUE] \in Site
          BY <2>2, <4>1 DEF addFinalizer, TypeOK, Site
        <5>2. /\ \E out \in Outcome : UpdateSite([local EXCEPT !.finalizer = TRUE], out)
              /\ cache' = cache
              /\ pc' \in {"idle", "ConfigMap", "ensureSecret"}
          BY <4>1 DEF addFinalizer, AfterFinalizer, Requeue, Idle
        <5> QED
          BY <5>1, <5>2
      <4>2. CASE setPhase
        <5> DEFINE s == [local EXCEPT !.phase = pc, !.condGen = local.gen,
                           !.observed = IF pc = "Ready" THEN local.gen ELSE @]
        <5>1. s \in Site /\ s.finalizer /\ s.live /\ s.uid = local.uid
          BY <2>2, <4>2 DEF setPhase, WorkerOnTrack, Held, Site, Phases, SettingPhase
        <5>2. /\ \E out \in Outcome : UpdateSite(s, out)
              /\ cache' = cache /\ pc' = "idle"
          BY <4>2 DEF setPhase, Done, Requeue, Idle
        <5> HIDE DEF s
        <5> QED
          BY <5>1, <5>2
      <4> QED
        BY <2>9, <4>1, <4>2
    <3>2. site'.live /\ site'.finalizer /\ site'.uid = site.uid
      <4>1. CASE UNCHANGED store
        BY <2>1, <4>1 DEF store
      <4>2. CASE Current(local) /\ StoreSite(s)
        BY <2>1, <3>1, <4>2 DEF Current, StoreSite, store, Site
      <4> QED
        BY <3>1, <4>1, <4>2 DEF UpdateSite
    <3> QED
      BY <2>1, <3>1, <3>2
  <2>10. CASE ensureSecret
    BY <2>1, <2>10 DEF ensureSecret, KeepSecret, WriteSecret, Goto, store
  <2>11. ASSUME NEW k \in Kinds, apply(k)
         PROVE  /\ UNCHANGED <<site, cache>>
                /\ pc' # "removeFinalizer" /\ pc' # "DropDatabase"
    <3>1. NextCall(k) # "removeFinalizer" /\ NextCall(k) # "DropDatabase"
      BY DEF NextCall, Kinds
    <3>2. pc' \in {"idle", "Error", NextCall(k)} /\ UNCHANGED <<site, cache>>
      BY <2>11 DEF apply, Goto, Requeue, Idle, store
    <3> QED
      BY <3>1, <3>2
  <2>12. CASE removeFinalizer
    BY <2>1, <2>12 DEF removeFinalizer
  <2> QED
    BY <1>1, <1>2, <2>1, <2>3, <2>4, <2>5, <2>6, <2>7, <2>8, <2>9, <2>10, <2>11, <2>12
       DEF Next, Worker
<1> QED
  BY <1>1, <1>2, <1>3, ServerChanges

-----------------------------------------------------------------------------
(* Theorems                                                                 *)

LEMMA InitServer == Init => ServerInUse /\ DataIsHeld
  BY DEF Init, ServerInUse, DataIsHeld, EmptyServer, HoldsNothing, NoPassword

\* The worker only acts on a stale version of the site where that does no harm:
\* the inductive invariant behind the finalizer (Reconcile, reconcileDelete).
THEOREM CustodyInvariant == Spec => [](TypeOK /\ CustodyInv)
<1>1. Init => TypeOK /\ CustodyInv
  BY InitOrdered, InitServer DEF Ordered, CustodyInv
<1>2. TypeOK /\ CustodyInv /\ [Next]_vars => (TypeOK /\ CustodyInv)'
  BY OrderedStep, ServerStep, DataStep DEF Ordered, CustodyInv
<1> QED
  BY <1>1, <1>2, PTL DEF Spec

\* No schema and no account of a site outlives the finalizer (reconcileDelete
\* with DropDataOnDelete), if no spec of the site ever asks for other names.
THEOREM NoOrphans == Spec => []NoOrphanData
<1>1. CustodyInv => NoOrphanData
  BY DEF CustodyInv, DataIsHeld, NoOrphanData, OneDatabase, HoldsNothing
<1> QED
  BY <1>1, CustodyInvariant, PTL

\* DropDatabase only ever takes the data of the site that is being deleted.
THEOREM OnlyDoomedDataDropped == Spec => DropsOnlyDoomedData
<1> DEFINE A == \/ server.databases \subseteq server'.databases
                   /\ \A u \in User : server'.accounts[u] = NoPassword
                                        => server.accounts[u] = NoPassword
                \/ ~OneDatabase
                \/ site.live /\ site.deleting /\ site.uid = local.uid
<1>1. TypeOK /\ CustodyInv /\ [Next]_vars => A
  <2> SUFFICES ASSUME TypeOK, CustodyInv, [Next]_vars, OneDatabase PROVE A
    BY DEF OneDatabase
  <2>0. server \in Server /\ cred \in Nat
    BY DEF TypeOK
  <2>1. CASE ProvisionDatabase
    <3>1. cred # NoPassword
      BY <2>1 DEF ProvisionDatabase, CustodyInv, ServerInUse
    <3> QED
      BY <2>0, <2>1, <3>1, ProvisionEffect, EnsureKeeps
  <2>2. CASE DropData
    <3>1. CASE HoldsNothing(server)
      BY <3>1 DEF HoldsNothing
    <3>2. CASE ~HoldsNothing(server)
      <4>1. DropDataOnDelete /\ local.deleting
        BY <2>2 DEF DropData, CustodyInv, WorkerOnTrack, Deleting
      <4>2. site.live /\ local.uid = site.uid
        BY <2>2, <3>2, <4>1 DEF DropData, CustodyInv, DataIsHeld
      <4>3. site.deleting
        BY <4>1, <4>2 DEF CustodyInv, VersionsInOrder, DeletingIsFinal, Versions
      <4> QED
        BY <4>2, <4>3
    <3> QED
      BY <3>1, <3>2
  <2>3. CASE UNCHANGED server
    BY <2>3
  <2> QED
    BY <2>1, <2>2, <2>3, ServerChanges
<1> QED
  BY <1>1, CustodyInvariant, PTL DEF Spec, DropsOnlyDoomedData

-----------------------------------------------------------------------------
(* The Secret                                                               *)

\* A version of the Secret with the current resourceVersion is the Secret.
SecretInOrder ==
    /\ \A v \in secretLog \union {secretCache} : /\ v.rv <= secret.rv
                                                 /\ v.rv = secret.rv => v = secret
    /\ ~secret.live => secret.pass = NoPassword

LEMMA SecretStored ==
    ASSUME TypeOK, SecretInOrder, NEW live \in BOOLEAN, NEW owner, NEW pass,
           StoreSecret(live, owner, pass), secretCache' = secretCache,
           ~live => pass = NoPassword
    PROVE  SecretInOrder'
<1>1. secret' = [live |-> live, rv |-> secret.rv + 1, owner |-> owner, pass |-> pass]
      /\ secretLog' = secretLog \union {secret'} /\ secret.rv \in Nat
  BY DEF StoreSecret, TypeOK, Secret
<1>2. \A v \in secretLog \union {secretCache} : v.rv \in Nat
  BY DEF TypeOK, Secret
<1> QED
  BY <1>1, <1>2 DEF SecretInOrder

LEMMA SecretStep == TypeOK /\ SecretInOrder /\ [Next]_vars => SecretInOrder'
<1> SUFFICES ASSUME TypeOK, SecretInOrder, [Next]_vars PROVE SecretInOrder'
  OBVIOUS
<1>1. CASE UNCHANGED secrets
  BY <1>1 DEF secrets, SecretInOrder
<1>2. CASE DeliverSecret
  BY <1>2 DEF DeliverSecret, SecretInOrder
<1>3. CASE CollectSecret \/ TamperSecret
  BY <1>3, SecretStored DEF CollectSecret, TamperSecret
<1>4. CASE ensureSecret
  BY <1>4, SecretStored DEF ensureSecret, KeepSecret, WriteSecret, SecretInOrder
<1>5. CASE Crash
  BY <1>5 DEF Crash, SecretInOrder, TypeOK, Secret
<1> QED
  BY <1>1, <1>2, <1>3, <1>4, <1>5 DEF Next, ApiCall, createSite, updateSite, setSuspend,
     updateSiteYAML, Edit, deleteSite, Cluster, DeliverSite, CollectObject, TamperObject, WakeUp,
     Worker, Reconcile, addFinalizer, ProvisionDatabase, apply, setPhase, DropData,
     removeFinalizer, vars

\* A password is blanked or kept, never replaced in place: a worker whose cache
\* has a blank one, or none, is refused when there is one by now (ensureSecret).
THEOREM PasswordStays == Spec => PasswordKept
<1> DEFINE A == secret.pass # NoPassword => secret'.pass \in {secret.pass, NoPassword}
<1>1. Init => SecretInOrder
  BY DEF Init, SecretInOrder, NoSecret
<1>2. ASSUME TypeOK, SecretInOrder, [Next]_vars PROVE [A]_vars
  <2>1. CASE secret' = secret
    BY <2>1
  <2>2. CASE CollectSecret \/ TamperSecret
    BY <2>2 DEF CollectSecret, TamperSecret, StoreSecret
  <2>3. CASE ensureSecret /\ secret' # secret
    <3>1. WriteSecret /\ SecretCurrent
      BY <2>3 DEF ensureSecret, KeepSecret, WriteSecret
    <3>2. CASE secret.live
      BY <1>2, <3>1, <3>2 DEF WriteSecret, SecretCurrent, SecretInOrder
    <3>3. CASE ~secret.live
      BY <1>2, <3>3 DEF SecretInOrder
    <3> QED
      BY <3>2, <3>3
  <2> QED
    BY <1>2, <2>1, <2>2, <2>3 DEF Next, ApiCall, createSite, updateSite, setSuspend,
       updateSiteYAML, Edit, deleteSite, Cluster, DeliverSite, DeliverSecret, CollectObject,
       TamperObject, WakeUp, Worker, Reconcile, addFinalizer, ProvisionDatabase, apply,
       setPhase, DropData, removeFinalizer, Crash, vars, secrets
<1> QED
  BY <1>1, <1>2, SecretStep, TypeCorrect, PTL DEF Spec, PasswordKept

-----------------------------------------------------------------------------
(* The lifecycle implements DataCustody                                     *)

LEMMA CustodyOf ==
    /\ ~site.live => Custody = "none"
    /\ site.live /\ ~site.finalizer => Custody = "unclaimed"
    /\ site.live /\ site.finalizer /\ ~site.deleting => Custody = "held"
    /\ site.live /\ site.finalizer /\ site.deleting => Custody = "doomed"
  BY DEF Custody, Held

\* What StoreSite leaves of a version that is stored.
LEMMA StoredFields ==
    ASSUME TypeOK, NEW s \in Site, StoreSite(s)
    PROVE  /\ site'.live = s.live /\ site'.finalizer = s.finalizer
           /\ site'.deleting = s.deleting
  BY DEF StoreSite, store, Site

\* A user's request registers, withdraws or dooms a site, or changes nothing
\* that matters here.
LEMMA ApiCallImplements ==
    ASSUME Ordered, CustodyInv, OneDatabase, ApiCall
    PROVE  [Promise!Next]_(Promise!vars)
<1> USE DEF Ordered
<1>a. site \in Site
  BY DEF TypeOK
<1>b. site.uid + 1 \in Nat
  BY <1>a DEF Site
<1>c. site.deleting => site.live /\ site.finalizer
  BY DEF WorkerOnTrack
<1>d. UNCHANGED server
  BY DEF ApiCall, createSite, updateSite, setSuspend, updateSiteYAML, Edit, deleteSite
<1>e. (~HoldsNothing(server))' = ~HoldsNothing(server)
  BY <1>d DEF HoldsNothing
<1>0. /\ site \in Site /\ site.uid + 1 \in Nat
      /\ site.deleting => site.live /\ site.finalizer
      /\ (~HoldsNothing(server))' = ~HoldsNothing(server)
  BY <1>a, <1>b, <1>c, <1>e
<1>1. ASSUME NEW c \in Config, createSite(c) PROVE Promise!Register
  <2> DEFINE s == [NoSite EXCEPT !.live = TRUE, !.uid = site.uid + 1, !.gen = 1, !.cfg = c]
  <2>1. s \in Site /\ s.live /\ ~s.finalizer
    BY <1>0, NewSiteType DEF NoSite
  <2>2. StoreSite(s) /\ ~site.live
    BY <1>1 DEF createSite
  <2> HIDE DEF s
  <2>3. site'.live /\ ~site'.finalizer
    BY <2>1, <2>2, StoredFields
  <2>4. Custody = "none" /\ Custody' = "unclaimed"
    BY <2>2, <2>3, CustodyOf DEF Custody, Held
  <2> QED
    BY <1>0, <2>4 DEF Promise!Register
<1>2. ASSUME NEW s \in Site, Edit(s), s.live = site.live, s.finalizer = site.finalizer,
             s.deleting = site.deleting
      PROVE  UNCHANGED Promise!vars
  <2> DEFINE t == [s EXCEPT !.gen = @ + 1]
  <2>1. t \in Site /\ t.live = s.live /\ t.finalizer = s.finalizer /\ t.deleting = s.deleting
    BY DEF Site
  <2>2. StoreSite(t)
    BY <1>2 DEF Edit
  <2> HIDE DEF t
  <2>3. Custody' = Custody
    BY <1>2, <2>1, <2>2, StoredFields DEF Custody, Held
  <2> QED
    BY <1>0, <2>3 DEF Promise!vars
<1>3. ASSUME NEW c \in Config, updateSite(c) PROVE UNCHANGED Promise!vars
  BY <1>0, <1>2, <1>3 DEF updateSite, Site
<1>4. ASSUME NEW b \in BOOLEAN, setSuspend(b) PROVE UNCHANGED Promise!vars
  BY <1>0, <1>2, <1>4 DEF setSuspend, Site
<1>5. ASSUME NEW c \in Config, NEW b \in BOOLEAN, updateSiteYAML(c, b)
      PROVE  UNCHANGED Promise!vars
  BY <1>0, <1>2, <1>5 DEF updateSiteYAML, Site
<1>6. CASE deleteSite /\ site.finalizer
  <2> DEFINE s == [site EXCEPT !.deleting = TRUE, !.gen = @ + 1]
  <2>1. s \in Site /\ s.live = site.live /\ s.finalizer = site.finalizer /\ s.deleting
    BY <1>0, DoomedType DEF Site
  <2>2. StoreSite(s) /\ site.live /\ ~site.deleting
    BY <1>6 DEF deleteSite
  <2> HIDE DEF s
  <2>3. site'.live /\ site'.finalizer /\ site'.deleting
    BY <1>6, <2>1, <2>2, StoredFields
  <2>4. Custody = "held" /\ Custody' = "doomed"
    BY <1>6, <2>2, <2>3, CustodyOf DEF Custody, Held
  <2> QED
    BY <1>0, <2>4 DEF Promise!Doom, Promise!Next
<1>7. CASE deleteSite /\ ~site.finalizer
  <2> DEFINE s == Gone(site)
  <2>1. s \in Site /\ ~s.live
    BY <1>0, GoneType DEF Gone, Site
  <2>2. StoreSite(s) /\ site.live
    BY <1>7 DEF deleteSite
  <2> HIDE DEF s
  <2>3. ~site'.live
    BY <2>1, <2>2, StoredFields
  <2>4. Custody = "unclaimed" /\ Custody' = "none"
    BY <1>7, <2>2, <2>3, CustodyOf DEF Custody, Held
  <2> QED
    BY <1>0, <2>4 DEF Promise!Withdraw, Promise!Next
<1> QED
  BY <1>1, <1>3, <1>4, <1>5, <1>6, <1>7 DEF ApiCall, Promise!Next

\* Writes of the worker: the finalizer put on claims the site, the finalizer
\* taken off releases it, a status changes nothing that matters here.
LEMMA UpdateImplements ==
    ASSUME Ordered, CustodyInv, OneDatabase, UNCHANGED server,
           addFinalizer \/ setPhase \/ removeFinalizer
    PROVE  [Promise!Next]_(Promise!vars)
<1> USE DEF Ordered
<1>0. /\ site \in Site /\ local \in Site /\ local.live
      /\ (~HoldsNothing(server))' = ~HoldsNothing(server)
      /\ Current(local) => local = site
  BY DEF TypeOK, HoldsNothing, addFinalizer, setPhase, removeFinalizer, SettingPhase,
     CustodyInv, VersionsInOrder, NothingFromTheFuture, Versions, Current
<1>1. CASE UNCHANGED site
  BY <1>0, <1>1 DEF Custody, Held, Promise!vars
<1>2. CASE addFinalizer /\ ~UNCHANGED site
  <2> DEFINE s == [local EXCEPT !.finalizer = TRUE]
  <2>1. /\ s \in Site /\ s.live /\ s.finalizer /\ s.deleting = local.deleting
        /\ ~local.deleting
    BY <1>0, <1>2 DEF addFinalizer, Site, WorkerOnTrack
  <2>2. StoreSite(s) /\ local = site /\ s # site
    BY <1>0, <1>2 DEF addFinalizer, UpdateSite, store, StoreSite
  <2>3. ~site.finalizer
    BY <1>0, <2>2 DEF Site
  <2> HIDE DEF s
  <2>4. site'.live /\ site'.finalizer /\ ~site'.deleting
    BY <2>1, <2>2, StoredFields
  <2>5. Custody = "unclaimed" /\ Custody' = "held"
    BY <1>0, <2>2, <2>3, <2>4, CustodyOf DEF Custody, Held
  <2> QED
    BY <1>0, <2>5 DEF Promise!Claim, Promise!Next
<1>3. CASE setPhase /\ ~UNCHANGED site
  <2> DEFINE s == [local EXCEPT !.phase = pc, !.condGen = local.gen,
                     !.observed = IF pc = "Ready" THEN local.gen ELSE @]
  <2>1. /\ s \in Site /\ s.live = local.live /\ s.finalizer = local.finalizer
        /\ s.deleting = local.deleting
    BY <1>0, <1>3 DEF setPhase, Site, Phases, SettingPhase
  <2>2. StoreSite(s) /\ local = site
    BY <1>0, <1>3 DEF setPhase, UpdateSite, store
  <2> HIDE DEF s
  <2>3. Custody' = Custody
    BY <2>1, <2>2, StoredFields DEF Custody, Held
  <2> QED
    BY <1>0, <2>3 DEF Promise!vars
<1>4. CASE removeFinalizer /\ ~UNCHANGED site
  <2>1. local.deleting /\ local.finalizer
    BY <1>4 DEF removeFinalizer, WorkerOnTrack, Deleting
  <2>2. StoreSite(Gone(local)) /\ local = site
    BY <1>0, <1>4 DEF removeFinalizer, UpdateSite, store
  <2>3. Gone(local) \in Site /\ ~Gone(local).live
    <3>1. Gone(local) \in Site /\ local \in Site
      BY <1>0, GoneType
    <3> QED
      BY ONLY <3>1 DEF Gone, Site
  <2>4. ~site'.live
    BY <2>2, <2>3, StoredFields
  <2>5. Custody = "doomed" /\ Custody' = "none"
    BY <1>0, <2>1, <2>2, <2>4, CustodyOf DEF Custody, Held
  <2>6. DropDataOnDelete => HoldsNothing(server)
    BY <1>4 DEF removeFinalizer, CustodyInv, DataIsHeld
  <2> QED
    BY <1>0, <2>5, <2>6 DEF Promise!Release, Promise!Next
<1> QED
  BY <1>1, <1>2, <1>3, <1>4

\* EnsureDatabase runs only for a held site, so data appears only under the
\* finalizer, and a statement of it never makes data disappear.
LEMMA ProvisionImplements ==
    ASSUME Ordered, CustodyInv, OneDatabase, ProvisionDatabase
    PROVE  [Promise!Next]_(Promise!vars)
<1> USE DEF Ordered
<1>1. UNCHANGED site /\ server \in Server /\ cred \in Nat /\ cred # NoPassword
  BY DEF ProvisionDatabase, store, TypeOK, CustodyInv, ServerInUse
<1>2. Held(local)
  BY DEF ProvisionDatabase, WorkerOnTrack, Provisioning
<1>3. site.live /\ site.finalizer
  BY <1>2 DEF CustodyInv, VersionsInOrder, HeldStaysHeld, Versions
<1>4. Custody \in {"held", "doomed"}
  BY <1>3, CustodyOf
<1>5. UNCHANGED Custody
  BY <1>1 DEF Custody, Held
<1>6. ~HoldsNothing(server) => ~HoldsNothing(server')
  BY <1>1, ProvisionEffect, EnsureKeeps DEF HoldsNothing
<1>7. (~HoldsNothing(server))' = ~HoldsNothing(server')
  BY DEF HoldsNothing
<1>8. CASE HoldsNothing(server')
  BY <1>5, <1>6, <1>7, <1>8 DEF Promise!vars
<1>9. CASE ~HoldsNothing(server')
  BY <1>4, <1>5, <1>7, <1>9 DEF Promise!Provision, Promise!Next
<1> QED
  BY <1>8, <1>9

\* DropDatabase makes data disappear, and only for a doomed site.
LEMMA DropImplements ==
    ASSUME Ordered, CustodyInv, OneDatabase, DropData
    PROVE  [Promise!Next]_(Promise!vars)
<1> USE DEF Ordered
<1>1. UNCHANGED site /\ server \in Server /\ pc = "DropDatabase"
  BY DEF DropData, store, TypeOK
<1>2. DropDataOnDelete /\ local.deleting
  BY <1>1 DEF WorkerOnTrack, Deleting
<1>3. UNCHANGED Custody
  BY <1>1 DEF Custody, Held
<1>4. (~HoldsNothing(server))' = ~HoldsNothing(server')
  BY DEF HoldsNothing
<1>5. HoldsNothing(server) => HoldsNothing(server')
  BY <1>1, DropEffect, DropRemoves DEF HoldsNothing
<1>6. CASE HoldsNothing(server') <=> HoldsNothing(server)
  BY <1>3, <1>4, <1>6 DEF Promise!vars
<1>7. CASE HoldsNothing(server') /\ ~HoldsNothing(server)
  <2>1. site.live /\ site.finalizer /\ local.uid = site.uid
    BY <1>1, <1>2, <1>7 DEF CustodyInv, DataIsHeld
  <2>2. site.deleting
    BY <1>2, <2>1 DEF CustodyInv, VersionsInOrder, DeletingIsFinal, Versions
  <2>3. Custody = "doomed"
    BY <2>1, <2>2, CustodyOf
  <2> QED
    BY <1>2, <1>3, <1>4, <1>7, <2>3 DEF Promise!Purge, Promise!Next
<1> QED
  BY <1>5, <1>6, <1>7

\* Every step of the lifecycle is one of DataCustody, or invisible to it.
LEMMA StepImplements ==
    ASSUME TypeOK, CustodyInv, OneDatabase, [Next]_vars
    PROVE  [Promise!Next]_(Promise!vars)
<1>0. Ordered
  BY DEF Ordered, CustodyInv
<1>1. CASE ApiCall
  BY <1>0, <1>1, ApiCallImplements
<1>2. CASE ProvisionDatabase
  BY <1>0, <1>2, ProvisionImplements
<1>3. CASE DropData
  BY <1>0, <1>3, DropImplements
<1>4. CASE addFinalizer \/ setPhase \/ removeFinalizer
  <2>1. UNCHANGED server
    BY <1>4 DEF addFinalizer, setPhase, removeFinalizer
  <2> QED
    BY <1>0, <1>4, <2>1, UpdateImplements
<1>5. CASE UNCHANGED <<site, server>>
  <2>1. UNCHANGED Custody
    BY <1>5 DEF Custody, Held
  <2>2. UNCHANGED ~HoldsNothing(server)
    BY <1>5 DEF HoldsNothing
  <2> QED
    BY <2>1, <2>2 DEF Promise!vars
<1>6. Cluster => UNCHANGED <<site, server>>
  BY DEF Cluster, DeliverSite, DeliverSecret, CollectSecret, CollectObject,
     TamperSecret, TamperObject, WakeUp, store
<1>7. Crash => UNCHANGED <<site, server>>
  BY DEF Crash
<1>8. Reconcile \/ ensureSecret \/ (\E k \in Kinds : apply(k)) => UNCHANGED <<site, server>>
  BY DEF Reconcile, ensureSecret, apply, store
<1>9. UNCHANGED vars => UNCHANGED <<site, server>>
  BY DEF vars
<1> QED
  BY <1>1, <1>2, <1>3, <1>4, <1>5, <1>6, <1>7, <1>8, <1>9 DEF Next, Worker

\* Reconcile and reconcileDelete, with stale caches, lost answers and crashes,
\* implement DataCustody, for sites that keep to one schema and account.
THEOREM CustodyKept == ASSUME OneDatabase PROVE Spec => KeepsCustody
<1>1. Init => Promise!Init
  <2> SUFFICES ASSUME Init PROVE Promise!Init
    OBVIOUS
  <2>1. ~site.live /\ HoldsNothing(server)
    BY InitServer DEF Init, NoSite, EmptyServer, HoldsNothing
  <2> QED
    BY <2>1, CustodyOf DEF Promise!Init
<1>2. TypeOK /\ CustodyInv /\ [Next]_vars => [Promise!Next]_(Promise!vars)
  BY StepImplements
<1> QED
  BY <1>1, <1>2, CustodyInvariant, PTL DEF Spec, KeepsCustody, Promise!Spec

-----------------------------------------------------------------------------
(* The lifecycle implements Tenancy                                         *)

\* Every password the operator knows of is one that was drawn.
PasswordsDrawn ==
    /\ \A v \in secretLog \union {secretCache, secret} : v.pass <= issued
    /\ cred <= issued

Blanked == MaxTampers - budget.tampers

\* A password is drawn once for each site and each time the one there was is
\* lost: while there is none, the next one is still due.
PasswordsDue ==
    /\ site.uid + budget.creates = MaxCreates /\ budget.tampers <= MaxTampers
    /\ secret.pass # NoPassword =>
           secret.owner <= site.uid /\ issued <= secret.owner + Blanked
    /\ secret.pass = NoPassword =>
           issued + (IF site.live THEN 1 ELSE 0) <= site.uid + Blanked

PasswordsInv == SecretInOrder /\ PasswordsDrawn /\ PasswordsDue

LEMMA SpentOn ==
    ASSUME TypeOK, NEW what \in DOMAIN budget, Spend(what)
    PROVE  /\ budget[what] > 0 /\ budget'[what] = budget[what] - 1
           /\ \A other \in DOMAIN budget : other # what => budget'[other] = budget[other]
  BY DEF Spend, TypeOK, Budget

LEMMA BudgetDomain ==
    ASSUME TypeOK
    PROVE  /\ DOMAIN budget = {"creates", "edits", "faults", "tampers", "crashes", "wakeups"}
           /\ budget.creates \in Nat /\ budget.tampers \in Nat
  BY DEF TypeOK, Budget

\* What a step may spend: creations on createSite, tampering on the two actions
\* that tamper.
Spares == budget'.creates = budget.creates /\ budget'.tampers = budget.tampers

LEMMA Sparing ==
    ASSUME TypeOK, NEW what \in {"edits", "faults", "crashes", "wakeups"}, Spend(what)
    PROVE  Spares
  BY SpentOn, BudgetDomain DEF Spares

LEMMA ChargeSpares == ASSUME TypeOK, NEW out, Charge(out) PROVE Spares
  BY Sparing DEF Charge, Spares

\* A site begins its life by createSite; every other step keeps the uid and
\* revives nothing.
Begins == /\ ~site.live /\ site'.live /\ site'.uid = site.uid + 1
          /\ budget.creates > 0 /\ budget'.creates = budget.creates - 1
          /\ budget'.tampers = budget.tampers

Continues == site'.uid = site.uid /\ (site'.live => site.live)

LEMMA CreateBegins ==
    ASSUME TypeOK, NEW c \in Config, createSite(c)
    PROVE  Begins /\ UNCHANGED <<secrets, server, worker>>
<1> DEFINE s == [NoSite EXCEPT !.live = TRUE, !.uid = site.uid + 1, !.gen = 1, !.cfg = c]
<1>0. site.uid + 1 \in Nat
  BY DEF TypeOK, Site
<1>1. s \in Site /\ s.live /\ s.uid = site.uid + 1
  BY <1>0, NewSiteType DEF NoSite
<1>2. StoreSite(s) /\ ~site.live /\ Spend("creates")
  BY DEF createSite
<1> HIDE DEF s
<1>3. site'.live /\ site'.uid = site.uid + 1
  BY <1>1, <1>2 DEF StoreSite, store, Site
<1>4. budget.creates > 0 /\ budget'.creates = budget.creates - 1
      /\ budget'.tampers = budget.tampers
  BY <1>2, SpentOn, BudgetDomain
<1> QED
  BY <1>2, <1>3, <1>4 DEF Begins, createSite

\* A version with the uid of the site is stored, or the site is let alone.
LEMMA StoreContinues ==
    ASSUME TypeOK, NEW s \in Site, StoreSite(s), s.uid = site.uid, s.live => site.live
    PROVE  Continues
  BY DEF Continues, StoreSite, store, Site

LEMMA EditContinues ==
    ASSUME TypeOK, NEW s \in Site, Edit(s), s.uid = site.uid
    PROVE  Continues /\ Spares /\ UNCHANGED <<secrets, server, worker>>
<1> DEFINE t == [s EXCEPT !.gen = @ + 1]
<1>1. t \in Site /\ t.uid = s.uid
  BY DEF Site
<1>2. StoreSite(t) /\ site.live /\ Spend("edits")
  BY DEF Edit
<1> HIDE DEF t
<1> QED
  BY <1>1, <1>2, StoreContinues, Sparing DEF Edit

LEMMA ApiCallLives ==
    ASSUME TypeOK, ApiCall
    PROVE  /\ Begins \/ (Continues /\ Spares)
           /\ UNCHANGED <<secrets, server, worker>>
<1>0. site \in Site
  BY DEF TypeOK
<1>1. ASSUME NEW c \in Config, NEW b \in BOOLEAN
      PROVE  /\ [site EXCEPT !.cfg = c] \in Site /\ [site EXCEPT !.cfg = c].uid = site.uid
             /\ [site EXCEPT !.suspend = b] \in Site
             /\ [site EXCEPT !.suspend = b].uid = site.uid
             /\ [site EXCEPT !.cfg = c, !.suspend = b] \in Site
             /\ [site EXCEPT !.cfg = c, !.suspend = b].uid = site.uid
  BY <1>0 DEF Site
<1>2. ASSUME NEW c \in Config, updateSite(c)
      PROVE  Continues /\ Spares /\ UNCHANGED <<secrets, server, worker>>
  BY <1>1, <1>2, EditContinues DEF updateSite
<1>3. ASSUME NEW b \in BOOLEAN, setSuspend(b)
      PROVE  Continues /\ Spares /\ UNCHANGED <<secrets, server, worker>>
  <2>1. [site EXCEPT !.suspend = b] \in Site /\ [site EXCEPT !.suspend = b].uid = site.uid
    BY <1>0 DEF Site
  <2> QED
    BY <1>3, <2>1, EditContinues DEF setSuspend
<1>4. ASSUME NEW c \in Config, NEW b \in BOOLEAN, updateSiteYAML(c, b)
      PROVE  Continues /\ Spares /\ UNCHANGED <<secrets, server, worker>>
  BY <1>1, <1>4, EditContinues DEF updateSiteYAML
<1>5. CASE deleteSite
  <2> DEFINE s == IF site.finalizer THEN [site EXCEPT !.deleting = TRUE, !.gen = @ + 1]
                                    ELSE Gone(site)
  <2>1. s \in Site /\ s.uid = site.uid
    <3>1. [site EXCEPT !.deleting = TRUE, !.gen = @ + 1] \in Site /\ Gone(site) \in Site
      BY <1>0, DoomedType, GoneType
    <3>2. [site EXCEPT !.deleting = TRUE, !.gen = @ + 1].uid = site.uid
          /\ Gone(site).uid = site.uid
      BY <1>0 DEF Gone, Site
    <3> QED
      BY <3>1, <3>2
  <2>2. StoreSite(s) /\ site.live
    BY <1>5 DEF deleteSite
  <2> HIDE DEF s
  <2> QED
    BY <1>5, <2>1, <2>2, StoreContinues DEF deleteSite, Spares
<1> QED
  BY <1>2, <1>3, <1>4, <1>5, CreateBegins DEF ApiCall

LEMMA UpdateContinues ==
    ASSUME TypeOK, CustodyInv, addFinalizer \/ setPhase \/ removeFinalizer
    PROVE  Continues /\ Spares /\ UNCHANGED <<secrets, server>>
<1>1. local \in Site /\ (Current(local) => local = site)
  BY DEF TypeOK, CustodyInv, VersionsInOrder, NothingFromTheFuture, Versions, Current,
     addFinalizer, setPhase, removeFinalizer, SettingPhase
<1>2. Spares /\ UNCHANGED <<secrets, server>>
  BY ChargeSpares DEF addFinalizer, setPhase, removeFinalizer
<1>3. ASSUME NEW s \in Site, NEW out, UpdateSite(s, out), s.uid = local.uid,
             s.live => local.live
      PROVE  Continues
  <2>1. CASE UNCHANGED site
    BY <2>1 DEF Continues
  <2>2. CASE StoreSite(s) /\ local = site
    BY <1>3, <2>2, StoreContinues
  <2> QED
    BY <1>1, <1>3, <2>1, <2>2 DEF UpdateSite, store
<1>4. CASE addFinalizer
  <2>1. /\ [local EXCEPT !.finalizer = TRUE] \in Site
        /\ [local EXCEPT !.finalizer = TRUE].uid = local.uid
        /\ [local EXCEPT !.finalizer = TRUE].live = local.live
    BY <1>1 DEF Site
  <2> QED
    BY <1>2, <1>3, <1>4, <2>1 DEF addFinalizer
<1>5. CASE setPhase
  <2> DEFINE s == [local EXCEPT !.phase = pc, !.condGen = local.gen,
                     !.observed = IF pc = "Ready" THEN local.gen ELSE @]
  <2>1. s \in Site /\ s.uid = local.uid /\ s.live = local.live
    BY <1>1, <1>5 DEF setPhase, Site, Phases, SettingPhase
  <2>2. \E out \in Outcome : UpdateSite(s, out)
    BY <1>5 DEF setPhase
  <2> HIDE DEF s
  <2> QED
    BY <1>2, <1>3, <2>1, <2>2
<1>6. CASE removeFinalizer
  <2>1. Gone(local) \in Site /\ Gone(local).uid = local.uid /\ ~Gone(local).live
    <3>1. Gone(local) \in Site
      BY <1>1, GoneType
    <3> QED
      BY ONLY <1>1, <3>1 DEF Gone, Site
  <2> QED
    BY <1>2, <1>3, <1>6, <2>1 DEF removeFinalizer
<1> QED
  BY <1>2, <1>4, <1>5, <1>6

\* The only steps that touch the Secret, its number or the budget for tampering.
SecretWriter == CollectSecret \/ TamperSecret \/ ensureSecret

LEMMA LifeStep ==
    ASSUME TypeOK, CustodyInv, [Next]_vars
    PROVE  /\ Begins \/ (Continues /\ budget'.creates = budget.creates
                                   /\ budget'.tampers \in {budget.tampers, budget.tampers - 1})
           /\ Begins => UNCHANGED <<secrets, server, worker>>
           /\ SecretWriter \/ UNCHANGED <<secret, issued>>
           /\ SecretWriter => UNCHANGED <<site, server>>
<1>1. CASE ApiCall
  <2>1. ~SecretWriter \/ UNCHANGED <<site, server>>
    BY DEF SecretWriter, CollectSecret, TamperSecret, ensureSecret, store
  <2> QED
    BY <1>1, <2>1, ApiCallLives, BudgetDomain DEF Begins, Continues, Spares, secrets
<1>2. CASE addFinalizer \/ setPhase \/ removeFinalizer
  <2>1. ~SecretWriter \/ UNCHANGED <<site, server>>
    BY DEF SecretWriter, CollectSecret, TamperSecret, ensureSecret, store
  <2> QED
    BY <1>2, <2>1, UpdateContinues DEF Begins, Continues, Spares, secrets
<1>3. CASE ~ApiCall /\ ~(addFinalizer \/ setPhase \/ removeFinalizer)
  <2>1. UNCHANGED site /\ (SecretWriter => UNCHANGED server)
        /\ (SecretWriter \/ UNCHANGED <<secret, issued>>)
    BY <1>3 DEF Next, Cluster, DeliverSite, DeliverSecret, CollectSecret, CollectObject,
       TamperSecret, TamperObject, WakeUp, Worker, Reconcile, ensureSecret, ProvisionDatabase,
       apply, DropData, Crash, SecretWriter, store, secrets, vars
  <2>2. Spares \/ (\E k \in Kinds : TamperObject(k)) \/ TamperSecret
    <3>1. CASE UNCHANGED budget
      BY <3>1 DEF Spares
    <3>2. CASE WakeUp \/ Crash
      BY <3>2, Sparing DEF WakeUp, Crash
    <3>3. CASE ensureSecret \/ \E k \in Kinds : apply(k)
      BY <3>1, <3>3, ChargeSpares DEF ensureSecret, KeepSecret, WriteSecret, apply
    <3>4. CASE ProvisionDatabase \/ DropData
      BY <3>1, <3>4, Sparing DEF ProvisionDatabase, DropData
    <3>5. CASE Reconcile \/ DeliverSite \/ DeliverSecret \/ CollectSecret
                 \/ \E k \in Kinds : CollectObject(k)
      BY <3>1, <3>5 DEF Reconcile, DeliverSite, DeliverSecret, CollectSecret, CollectObject
    <3> QED
      BY <1>3, <3>1, <3>2, <3>3, <3>4, <3>5 DEF Next, Cluster, Worker, vars
  <2>3. budget'.creates = budget.creates
        /\ budget'.tampers \in {budget.tampers, budget.tampers - 1}
    <3>1. CASE Spares
      BY <3>1 DEF Spares
    <3>2. CASE Spend("tampers")
      BY <3>2, SpentOn, BudgetDomain
    <3> QED
      BY <2>2, <3>1, <3>2 DEF TamperObject, TamperSecret
  <2> QED
    BY <2>1, <2>3 DEF Begins, Continues
<1> QED
  BY <1>1, <1>2, <1>3

LEMMA PasswordsInit == Init => PasswordsInv
<1> SUFFICES ASSUME Init PROVE PasswordsInv
  OBVIOUS
<1>1. SecretInOrder
  BY DEF Init, SecretInOrder, NoSecret
<1>2. PasswordsDrawn
  BY DEF Init, PasswordsDrawn, NoSecret, NoPassword
<1>3. /\ site.uid = 0 /\ ~site.live /\ secret.pass = NoPassword /\ issued = 0
      /\ budget.creates = MaxCreates /\ budget.tampers = MaxTampers
  BY DEF Init, NoSite, NoSecret
<1>4. PasswordsDue
  BY <1>3, BoundsAssumption DEF PasswordsDue, Blanked
<1> QED
  BY <1>1, <1>2, <1>4 DEF PasswordsInv

\* A password is written only where there is none, for the site there is.
LEMMA WritePassword ==
    ASSUME TypeOK, CustodyInv, SecretInOrder, ensureSecret,
           ~UNCHANGED <<secret, issued>>
    PROVE  /\ secret.pass = NoPassword /\ site.live /\ site.finalizer
           /\ issued' = issued + 1 /\ StoreSecret(TRUE, site.uid, issued + 1)
<1>1. WriteSecret /\ pc = "ensureSecret"
  BY DEF ensureSecret, KeepSecret
<1>2. SecretCurrent /\ StoreSecret(TRUE, local.uid, issued + 1) /\ issued' = issued + 1
  BY <1>1 DEF WriteSecret
<1>3. site.live /\ site.finalizer /\ local.uid = site.uid
  <2>1. Held(local)
    BY <1>1 DEF CustodyInv, WorkerOnTrack, Provisioning
  <2> QED
    BY <2>1 DEF CustodyInv, VersionsInOrder, HeldStaysHeld, Versions
<1>4. secret.pass = NoPassword
  <2>1. CASE secret.live
    BY <1>1, <1>2, <2>1 DEF WriteSecret, SecretCurrent, SecretInOrder
  <2>2. CASE ~secret.live
    BY <2>2 DEF SecretInOrder
  <2> QED
    BY <2>1, <2>2
<1> QED
  BY <1>2, <1>3, <1>4

LEMMA DrawnStep ==
    ASSUME TypeOK, CustodyInv, SecretInOrder, PasswordsDrawn, [Next]_vars
    PROVE  PasswordsDrawn'
<1>0. /\ issued \in Nat /\ NoPassword = 0
      /\ \A v \in secretLog \union {secretCache, secret} : v.pass \in Nat
  BY DEF TypeOK, Secret, NoPassword
<1>1. issued' \in Nat /\ issued <= issued'
  <2>1. issued' = issued \/ issued' = issued + 1
    <3>1. CASE ensureSecret /\ ~UNCHANGED <<secret, issued>>
      BY <3>1, WritePassword
    <3>2. CASE CollectSecret \/ TamperSecret \/ UNCHANGED <<secret, issued>>
      BY <3>2 DEF CollectSecret, TamperSecret
    <3> QED
      BY <3>1, <3>2, LifeStep DEF SecretWriter
  <2> QED
    BY <1>0, <2>1
<1>2. \A v \in (secretLog \union {secretCache, secret})' :
          \/ v \in secretLog \union {secretCache, secret}
          \/ v.pass \in {NoPassword, issued'}
  <2>1. CASE CollectSecret \/ TamperSecret
    BY <2>1 DEF CollectSecret, TamperSecret, StoreSecret
  <2>2. CASE ensureSecret
    <3>1. CASE UNCHANGED <<secret, issued>>
      BY <2>2, <3>1 DEF ensureSecret, KeepSecret, WriteSecret, StoreSecret
    <3>2. CASE ~UNCHANGED <<secret, issued>>
      BY <2>2, <3>2, WritePassword DEF ensureSecret, StoreSecret
    <3> QED
      BY <3>1, <3>2
  <2>3. CASE DeliverSecret \/ Crash
    BY <2>3 DEF DeliverSecret, Crash
  <2>4. CASE UNCHANGED secrets
    BY <2>4 DEF secrets
  <2> QED
    BY <2>1, <2>2, <2>3, <2>4, ApiCallLives, UpdateContinues DEF Next, Cluster, DeliverSite,
       CollectObject, TamperObject, WakeUp, Worker, Reconcile, ProvisionDatabase, apply,
       DropData, vars
<1>3. cred' <= issued'
  <2>1. CASE KeepSecret
    BY <1>0, <1>1, <2>1 DEF KeepSecret, PasswordsDrawn
  <2>2. CASE WriteSecret
    <3>1. cred' = issued' \/ cred' = cred
      BY <2>2 DEF WriteSecret, Goto
    <3> QED
      BY <1>0, <1>1, <3>1 DEF PasswordsDrawn, TypeOK
  <2>3. CASE cred' \in {cred, NoPassword}
    BY <1>0, <1>1, <2>3 DEF PasswordsDrawn, TypeOK
  <2> QED
    BY <2>1, <2>2, <2>3, ApiCallLives DEF ensureSecret, Next, Cluster, DeliverSite,
       DeliverSecret, CollectSecret, CollectObject, TamperSecret, TamperObject, WakeUp, Worker,
       Reconcile, addFinalizer, ProvisionDatabase, apply, setPhase, DropData, removeFinalizer,
       Crash, Idle, Requeue, Done, Goto, worker, vars
<1> QED
  BY <1>0, <1>1, <1>2, <1>3 DEF PasswordsDrawn

LEMMA DueStep ==
    ASSUME TypeOK, CustodyInv, SecretInOrder, PasswordsDue, [Next]_vars
    PROVE  PasswordsDue'
<1>0. /\ issued \in Nat /\ site.uid \in Nat /\ secret.owner \in Nat /\ NoPassword = 0
      /\ budget.creates \in Nat /\ budget.tampers \in Nat /\ MaxTampers \in Nat
      /\ MaxCreates \in Nat
  BY BudgetDomain, BoundsAssumption DEF TypeOK, Site, Secret, NoPassword
<1>1. CASE Begins
  <2>1. UNCHANGED <<secret, issued>>
    BY <1>1, LifeStep DEF secrets
  <2> QED
    BY <1>0, <1>1, <2>1 DEF Begins, PasswordsDue, Blanked
<1>2. CASE ~Begins
  <2>1. /\ Continues /\ budget'.creates = budget.creates
        /\ budget'.tampers \in {budget.tampers, budget.tampers - 1}
    BY <1>2, LifeStep
  <2>2. CASE UNCHANGED <<secret, issued>>
    BY <1>0, <2>1, <2>2 DEF Continues, PasswordsDue, Blanked
  <2>3. CASE CollectSecret
    <3>1. UNCHANGED <<site, issued, budget>> /\ secret'.pass = NoPassword
      BY <2>3 DEF CollectSecret, store, StoreSecret
    <3>2. ~site.live \/ secret.owner # site.uid
      BY <2>3 DEF CollectSecret, Ownerless
    <3> QED
      BY <1>0, <3>1, <3>2 DEF PasswordsDue, Blanked
  <2>4. CASE TamperSecret
    <3>1. UNCHANGED <<site, issued>> /\ secret'.pass = NoPassword
      BY <2>4 DEF TamperSecret, store, StoreSecret
    <3>2. budget'.tampers = budget.tampers - 1
      BY <2>4, SpentOn, BudgetDomain DEF TamperSecret
    <3> QED
      BY <1>0, <2>1, <3>1, <3>2 DEF PasswordsDue, Blanked
  <2>5. CASE ensureSecret /\ ~UNCHANGED <<secret, issued>>
    <3>1. /\ secret.pass = NoPassword /\ site.live /\ issued' = issued + 1
          /\ secret'.owner = site.uid /\ secret'.pass = issued + 1
      BY <2>5, WritePassword DEF StoreSecret
    <3>2. UNCHANGED site
      BY <2>5 DEF ensureSecret, store
    <3> QED
      BY <1>0, <2>1, <3>1, <3>2 DEF PasswordsDue, Blanked
  <2> QED
    BY <2>2, <2>3, <2>4, <2>5, LifeStep DEF SecretWriter
<1> QED
  BY <1>1, <1>2

\* What the passwords in the cluster say of those that were drawn.
LEMMA PasswordsInvariant == Spec => [](TypeOK /\ CustodyInv /\ PasswordsInv)
<1>1. TypeOK /\ CustodyInv /\ PasswordsInv /\ [Next]_vars => PasswordsInv'
  BY SecretStep, DrawnStep, DueStep DEF PasswordsInv
<1> QED
  BY <1>1, PasswordsInit, CustodyInvariant, PTL DEF Spec

\* A grant is there as long as its account is: DropDatabase of a site with
\* nothing on the server has nothing to do.
GrantsInUse == \A g \in server.grants : server.accounts[g[1]] # NoPassword

LEMMA GrantsStep == TypeOK /\ ServerInUse /\ GrantsInUse /\ [Next]_vars => GrantsInUse'
<1> SUFFICES ASSUME TypeOK, ServerInUse, GrantsInUse, [Next]_vars PROVE GrantsInUse'
  OBVIOUS
<1>0. server \in Server /\ cred \in Nat
  BY DEF TypeOK
<1>1. CASE ProvisionDatabase
  <2>1. cred # NoPassword
    BY <1>1 DEF ProvisionDatabase, ServerInUse
  <2> QED
    BY <1>0, <1>1, <2>1, ProvisionEffect DEF GrantsInUse, EnsureDatabase, EnsureStatements, Server
<1>2. CASE DropData
  BY <1>0, <1>2, DropEffect DEF GrantsInUse, DropDatabase, DropStatements, Server
<1> QED
  BY <1>1, <1>2, ServerChanges DEF GrantsInUse

\* What Tenancy sees of the lifecycle.
Seen == <<Custody, site.uid, secret.pass, issued, server>>

LEMMA Unseen == ASSUME UNCHANGED Seen PROVE UNCHANGED Tenant!vars
  BY DEF Seen, Tenant!vars

LEMMA TenantMoves ==
    ASSUME NEW from, NEW to, Custody = from, Custody' = to,
           UNCHANGED <<secret, issued, server>>
    PROVE  Tenant!Move(Name, from, to)
  BY DEF Tenant!Move

\* The moves a site makes in DataCustody while nothing on the server changes.
LEMMA Moves ==
    ASSUME [Promise!Next]_(Promise!vars), UNCHANGED server
    PROVE  \/ Custody = Custody'
           \/ Custody = "none" /\ Custody' = "unclaimed"
           \/ Custody = "unclaimed" /\ Custody' \in {"none", "held"}
           \/ Custody = "held" /\ Custody' = "doomed"
           \/ /\ Custody = "doomed" /\ Custody' = "none"
              /\ DropDataOnDelete => HoldsNothing(server)
  BY DEF Promise!Next, Promise!Register, Promise!Withdraw, Promise!Claim, Promise!Doom,
     Promise!Provision, Promise!Purge, Promise!Release, Promise!vars

\* The name of a site is taken exactly when a site begins its life.
LEMMA TakenAtBirth ==
    ASSUME Begins \/ Continues
    PROVE  /\ Begins => Custody = "none" /\ Custody' # "none"
           /\ Custody = "none" /\ Custody' # "none" => Begins
  BY DEF Begins, Continues, Custody, Held

\* The schema and the account the site has in Tenancy.
LEMMA NamesOfSite ==
    ASSUME OneDatabase, NEW c \in Config
    PROVE  /\ DatabaseName[CHOOSE d \in Config : TRUE] = DatabaseName[c]
           /\ DatabaseUser[CHOOSE d \in Config : TRUE] = DatabaseUser[c]
           /\ DatabaseName[c] \in Database /\ DatabaseUser[c] \in User
<1>1. (CHOOSE d \in Config : TRUE) \in Config
  OBVIOUS
<1> QED
  BY <1>1, NamesAssumption DEF OneDatabase

\* What the site and its finalizer go through.
LEMMA MoveImplements ==
    ASSUME TypeOK, PasswordsDue, OneDatabase, [Promise!Next]_(Promise!vars),
           UNCHANGED <<secret, issued, server>>, Begins \/ Continues
    PROVE  [Tenant!Next]_(Tenant!vars)
<1>1. CASE Begins
  <2>1. Custody = "none" /\ Custody' = "unclaimed"
    BY <1>1, Moves, TakenAtBirth
  <2>2. site.uid < MaxCreates /\ site'.uid = site.uid + 1
    BY <1>1, BudgetDomain, BoundsAssumption DEF Begins, PasswordsDue, TypeOK, Site
  <2>3. Tenant!Move(Name, "none", "unclaimed")
    BY <2>1, TenantMoves
  <2> QED
    BY <2>2, <2>3 DEF Tenant!Register, Tenant!Step, Tenant!Next
<1>2. CASE ~Begins /\ Custody # Custody'
  <2>0. site'.uid = site.uid
    BY <1>2 DEF Continues
  <2>1. PICK from, to \in {"none", "unclaimed", "held", "doomed"} :
          Custody = from /\ Custody' = to
    BY <1>2, Moves
  <2>2. Tenant!Move(Name, from, to)
    BY <2>1, TenantMoves
  <2>3. CASE from = "unclaimed"
    BY <1>2, <2>0, <2>1, <2>2, <2>3, Moves
       DEF Tenant!Withdraw, Tenant!Claim, Tenant!Step, Tenant!Next
  <2>4. CASE from = "held"
    BY <1>2, <2>0, <2>1, <2>2, <2>4, Moves DEF Tenant!Doom, Tenant!Step, Tenant!Next
  <2>5. CASE from = "doomed"
    <3>1. to = "none" /\ (DropDataOnDelete => HoldsNothing(server))
      BY <1>2, <2>1, <2>5, Moves
    <3>2. site.cfg \in Config
      BY <2>1, <2>5, CustodyOf DEF TypeOK, Site
    <3>3. DropDataOnDelete => ~Tenant!HasData(Name)
      BY <3>1, <3>2, NamesOfSite DEF HoldsNothing, Tenant!HasData, Tenant!NoPassword, NoPassword
    <3>4. Tenant!Release(Name)
      BY <2>0, <2>2, <2>5, <3>1, <3>3 DEF Tenant!Release
    <3> QED
      BY <3>4 DEF Tenant!Step, Tenant!Next
  <2>6. from # "none"
    BY <1>2, <2>1, TakenAtBirth
  <2> QED
    BY <2>1, <2>3, <2>4, <2>5, <2>6
<1>3. CASE ~Begins /\ Custody = Custody'
  <2>1. site'.uid = site.uid
    BY <1>3 DEF Continues
  <2> QED
    BY <1>3, <2>1, Unseen DEF Seen
<1> QED
  BY <1>1, <1>2, <1>3

LEMMA SecretImplements ==
    ASSUME TypeOK, CustodyInv, PasswordsInv, SecretWriter, UNCHANGED <<site, server>>
    PROVE  [Tenant!Next]_(Tenant!vars)
<1>0. UNCHANGED Custody
  BY DEF Custody, Held
<1>1. CASE UNCHANGED <<secret, issued>>
  BY <1>0, <1>1, Unseen DEF Seen
<1>2. CASE CollectSecret \/ TamperSecret
  <2>1. UNCHANGED issued /\ secret'.pass = NoPassword
    BY <1>2 DEF CollectSecret, TamperSecret, StoreSecret
  <2>2. CASE secret.pass = NoPassword
    BY <1>0, <2>1, <2>2, Unseen DEF Seen
  <2>3. CASE secret.pass # NoPassword
    BY <1>0, <2>1, <2>3 DEF Tenant!LoseSecret, Tenant!Step, Tenant!Next, NoPassword,
       Tenant!NoPassword
  <2> QED
    BY <2>2, <2>3
<1>3. CASE ensureSecret /\ ~UNCHANGED <<secret, issued>>
  <2>1. /\ secret.pass = NoPassword /\ site.live /\ site.finalizer
        /\ issued' = issued + 1 /\ secret'.pass = issued + 1
    BY <1>3, WritePassword DEF PasswordsInv, StoreSecret
  <2>2. Custody \in {"held", "doomed"}
    BY <2>1, CustodyOf
  <2>3. /\ issued \in Nat /\ MaxCreates \in Nat /\ MaxTampers \in Nat
        /\ site.uid \in Nat
    BY BoundsAssumption DEF TypeOK, Site
  <2>4. issued + 1 <= site.uid + Blanked
    BY <2>1, <2>3 DEF PasswordsInv, PasswordsDue
  <2>5. issued < MaxCreates + MaxTampers
    BY <2>3, <2>4, BudgetDomain DEF PasswordsInv, PasswordsDue, Blanked
  <2>6. 1..(issued + 1) = (1..issued) \union {issued + 1}
    BY <2>3
  <2> QED
    BY <1>0, <2>1, <2>2, <2>5, <2>6 DEF Tenant!DrawPassword, Tenant!Step, Tenant!Next,
       NoPassword, Tenant!NoPassword
<1> QED
  BY <1>1, <1>2, <1>3 DEF SecretWriter

\* A site is held or being deleted when the worker is at EnsureDatabase, and
\* the password it brings is one that was drawn.
LEMMA ProvisionTenant ==
    ASSUME TypeOK, CustodyInv, PasswordsDrawn, OneDatabase, ProvisionDatabase
    PROVE  [Tenant!Next]_(Tenant!vars)
<1>1. PICK n \in 0..EnsureStatements :
          /\ local.cfg \in Config
          /\ server' = EnsureDatabase(server, DatabaseName[local.cfg],
                                      DatabaseUser[local.cfg], cred, n)
  BY ProvisionEffect
<1>2. UNCHANGED <<site, secret, issued>> /\ pc = "EnsureDatabase"
  BY DEF ProvisionDatabase, store, secrets
<1>3. UNCHANGED Custody
  BY <1>2 DEF Custody, Held
<1>4. Held(local)
  BY <1>2 DEF CustodyInv, WorkerOnTrack, Provisioning
<1>5. site.live /\ site.finalizer
  BY <1>4 DEF CustodyInv, VersionsInOrder, HeldStaysHeld, Versions
<1>6. Custody \in {"held", "doomed"}
  BY <1>5, CustodyOf
<1>7. cred \in 1..issued
  BY <1>2 DEF TypeOK, CustodyInv, ServerInUse, PasswordsDrawn, NoPassword
<1>8. server' = EnsureDatabase(server, DatabaseName[CHOOSE c \in Config : TRUE],
                               DatabaseUser[CHOOSE c \in Config : TRUE], cred, n)
  BY <1>1, NamesOfSite
<1>9. server' = Tenant!EnsureDatabase(server, DatabaseName[CHOOSE c \in Config : TRUE],
                                      DatabaseUser[CHOOSE c \in Config : TRUE], cred, n)
  BY <1>8 DEF Tenant!EnsureDatabase, EnsureDatabase, Tenant!NoPassword, NoPassword
<1>10. n \in 0..Tenant!EnsureStatements
  BY DEF Tenant!EnsureStatements, EnsureStatements
<1>11. Tenant!Provision(Name)
  BY <1>2, <1>3, <1>6, <1>7, <1>9, <1>10 DEF Tenant!Provision
<1> QED
  BY <1>11 DEF Tenant!Step, Tenant!Next

\* DropDatabase finds the site doomed, or nothing of it on the server.
LEMMA DropTenant ==
    ASSUME TypeOK, CustodyInv, GrantsInUse, OneDatabase, DropData
    PROVE  [Tenant!Next]_(Tenant!vars)
<1>1. PICK n \in 0..DropStatements :
          /\ local.cfg \in Config
          /\ server' = DropDatabase(server, DatabaseName[local.cfg],
                                    DatabaseUser[local.cfg], n)
  BY DropEffect
<1>2. UNCHANGED <<site, secret, issued>> /\ pc = "DropDatabase" /\ server \in Server
  BY DEF DropData, store, secrets, TypeOK
<1>3. UNCHANGED Custody
  BY <1>2 DEF Custody, Held
<1>4. DropDataOnDelete /\ local.deleting
  BY <1>2 DEF CustodyInv, WorkerOnTrack, Deleting
<1>5. CASE HoldsNothing(server)
  <2>1. server.grants = {}
    BY <1>2, <1>5 DEF GrantsInUse, HoldsNothing, Server
  <2>2. server' = server
    BY <1>1, <1>2, <1>5, <2>1 DEF HoldsNothing, DropDatabase, Server
  <2> QED
    BY <1>2, <1>3, <2>2, Unseen DEF Seen
<1>6. CASE ~HoldsNothing(server)
  <2>1. site.live /\ site.finalizer /\ local.uid = site.uid
    BY <1>2, <1>4, <1>6 DEF CustodyInv, DataIsHeld
  <2>2. site.deleting
    BY <1>4, <2>1 DEF CustodyInv, VersionsInOrder, DeletingIsFinal, Versions
  <2>3. Custody = "doomed"
    BY <2>1, <2>2, CustodyOf
  <2>4. server' = DropDatabase(server, DatabaseName[CHOOSE c \in Config : TRUE],
                               DatabaseUser[CHOOSE c \in Config : TRUE], n)
    BY <1>1, NamesOfSite
  <2>5. Tenant!Purge(Name)
    BY <1>2, <1>3, <1>4, <2>3, <2>4
       DEF Tenant!Purge, Tenant!DropDatabase, Tenant!DropStatements, DropDatabase,
           DropStatements, NoPassword, Tenant!NoPassword
  <2> QED
    BY <2>5 DEF Tenant!Step, Tenant!Next
<1> QED
  BY <1>5, <1>6

LEMMA TenantStep ==
    ASSUME TypeOK, CustodyInv, PasswordsInv, GrantsInUse, OneDatabase, [Next]_vars
    PROVE  [Tenant!Next]_(Tenant!vars)
<1>1. CASE ProvisionDatabase
  BY <1>1, ProvisionTenant DEF PasswordsInv
<1>2. CASE DropData
  BY <1>2, DropTenant
<1>3. CASE SecretWriter
  BY <1>3, LifeStep, SecretImplements
<1>4. CASE UNCHANGED server /\ ~SecretWriter
  <2>1. UNCHANGED <<secret, issued>> /\ (Begins \/ Continues)
    BY <1>4, LifeStep
  <2>2. [Promise!Next]_(Promise!vars)
    BY StepImplements
  <2> QED
    BY <1>4, <2>1, <2>2, MoveImplements DEF PasswordsInv
<1> QED
  BY <1>1, <1>2, <1>3, <1>4, ServerChanges

\* Reconcile, reconcileDelete, ensureSecret and the provisioner do for one site
\* what Tenancy composes for many, for a site that keeps to one schema and
\* account: whatever the passwords, the finalizer and the server go through.
THEOREM TenantKept == ASSUME OneDatabase PROVE Spec => IsTenant
<1>1. Init => Tenant!Init /\ GrantsInUse
  <2> SUFFICES ASSUME Init PROVE Tenant!Init /\ GrantsInUse
    OBVIOUS
  <2>1. /\ Custody = "none" /\ site.uid = 0 /\ secret.pass = NoPassword /\ issued = 0
        /\ server = EmptyServer
    BY CustodyOf DEF Init, NoSite, NoSecret
  <2>2. 1..issued = {}
    BY <2>1
  <2> QED
    BY <2>1, <2>2 DEF Tenant!Init, Tenant!EmptyServer, EmptyServer, Tenant!NoPassword, NoPassword,
       GrantsInUse
<1>2. TypeOK /\ CustodyInv /\ GrantsInUse /\ [Next]_vars => GrantsInUse'
  BY GrantsStep DEF CustodyInv
<1>3. TypeOK /\ CustodyInv /\ PasswordsInv /\ GrantsInUse /\ [Next]_vars
        => [Tenant!Next]_(Tenant!vars)
  BY TenantStep
<1> QED
  BY <1>1, <1>2, <1>3, PasswordsInvariant, PTL DEF Spec, IsTenant, Tenant!Spec
=============================================================================
