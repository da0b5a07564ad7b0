----------------------------- MODULE StatusProofs -----------------------------
(***************************************************************************)
(* What the status of a site says is so, the ConfigMap comes before the    *)
(* Deployment and no work is forgotten: for any number of sites created    *)
(* under the name, edits, failures, crashes and stale reads.               *)
(***************************************************************************)
EXTENDS CustodyProofs

\* Among the versions of the site there is now, a later one has no lower
\* generation, and one with the current generation has the current spec.
VersionGens ==
    site.live =>
        /\ site.uid >= 1 /\ site.gen >= 1 /\ site.condGen <= site.gen
        /\ \A v \in Versions :
              v.uid = site.uid => /\ v.live /\ v.gen <= site.gen
                                  /\ v.gen = site.gen => /\ v.cfg = site.cfg
                                                         /\ v.suspend = site.suspend

LogGens ==
    site.live =>
        \A v \in siteLog :
            v.uid = site.uid =>
                /\ cache.uid = site.uid => cache.gen <= v.gen
                /\ \A w \in siteLog : w.uid = site.uid /\ v.rv < w.rv => v.gen <= w.gen

\* The worker is not ahead of its cache, and neither of them is behind the
\* generation the status speaks of.
WorkerGens ==
    site.live =>
        /\ pc # "idle" /\ local.uid = site.uid =>
              cache.uid = site.uid /\ local.gen <= cache.gen
        /\ site.condGen > 0 =>
              /\ cache.uid = site.uid /\ cache.gen >= site.condGen
              /\ pc # "idle" => local.uid = site.uid /\ local.gen >= site.condGen

GensInOrder == VersionGens /\ LogGens /\ WorkerGens

\* The objects reconcileWorkload has been through.
Applied(k) == \/ pc \in {"Ready", "Suspended"}
              \/ pc = "Ingress" /\ k # "Ingress"
              \/ pc = "Service" /\ k \in {"ConfigMap", "Deployment"}
              \/ pc = "Deployment" /\ k = "ConfigMap"

\* They stay as they are until the worker is through with the others.
WorkloadOnTrack ==
    /\ budget.tampers <= MaxTampers
    /\ Untouched /\ site.live /\ local.uid = site.uid =>
          \A k \in Kinds : Applied(k) => workload[k] = Desired(local)[k]

Account(s) == AccountReady(s, server.accounts[DatabaseUser[s.cfg]])

\* The workload of a site that is not suspended comes after its account.
ServerOnTrack ==
    /\ pc = "Ready" => ~local.suspend
    /\ pc \in Applying \union {"Ready"} /\ ~local.suspend => Account(local)

\* The status says what is so.
WorkloadAsReported ==
    Untouched /\ site.live /\ site.condGen = site.gen /\ site.phase \in {"Ready", "Suspended"}
        => workload = Desired(site)

ServerAsReported ==
    site.live /\ ~site.deleting /\ site.condGen = site.gen /\ site.phase = "Ready"
        => Account(site)

StatusInv == /\ GensInOrder /\ WorkloadOnTrack /\ ServerOnTrack
             /\ WorkloadAsReported /\ ServerAsReported

-----------------------------------------------------------------------------
(* Moves of the site and of the worker                                      *)

SpecUnchanged == /\ site.live /\ site'.live /\ site'.uid = site.uid /\ site'.gen = site.gen
                 /\ site'.cfg = site.cfg /\ site'.suspend = site.suspend
                 /\ site'.deleting = site.deleting

Created == /\ ~site.live /\ site'.uid = site.uid + 1
           /\ site'.gen = 1 /\ site'.condGen = 0

Respecified == /\ site.live /\ site'.uid = site.uid
               /\ site'.gen = site.gen + 1 /\ site'.condGen = site.condGen

Restated == SpecUnchanged /\ site'.condGen = site.condGen /\ site'.phase = site.phase

Reported == /\ SpecUnchanged /\ local = site /\ pc \in SettingPhase
            /\ site'.condGen = site.gen /\ site'.phase = pc

\* A step takes the resourceVersion on or leaves the site alone.
SiteMove ==
    /\ site' \in Site /\ siteLog' \subseteq siteLog \union {site'}
    /\ site' = site \/ site'.rv = site.rv + 1
    /\ site'.live => Created \/ Respecified \/ Restated \/ Reported

\* The worker goes on with its copy, rests, or goes on with what it has written.
WorkerMove ==
    \/ local' = local /\ (pc = "idle" => pc' = "idle")
    \/ local' = NoSite /\ pc' = "idle"
    \/ pc # "idle" /\ local = site /\ Restated /\ local' = site'

LEMMA Bounds ==
    ASSUME TypeOK
    PROVE  /\ site.rv \in Nat /\ site.uid \in Nat /\ site.gen \in Nat /\ site.condGen \in Nat
           /\ cache.rv \in Nat /\ cache.uid \in Nat /\ cache.gen \in Nat
           /\ local.uid \in Nat /\ local.gen \in Nat
           /\ \A v \in Versions : v \in Site /\ v.rv \in Nat /\ v.uid \in Nat /\ v.gen \in Nat
  BY DEF TypeOK, Versions, Site

LEMMA Stored ==
    ASSUME TypeOK, NEW s \in Site, StoreSite(s)
    PROVE  /\ site' \in Site /\ siteLog' \subseteq siteLog \union {site'}
           /\ site' = site \/ site'.rv = site.rv + 1
           /\ site'.live = s.live /\ site'.uid = s.uid /\ site'.gen = s.gen
           /\ site'.cfg = s.cfg /\ site'.suspend = s.suspend /\ site'.deleting = s.deleting
           /\ site'.condGen = s.condGen /\ site'.phase = s.phase
<1>1. site \in Site /\ site.rv + 1 \in Nat
  BY DEF TypeOK, Site
<1>2. CASE s = site
  BY <1>1, <1>2 DEF StoreSite, store
<1>3. CASE s # site
  <2>1. site' = [s EXCEPT !.rv = site.rv + 1] /\ siteLog' = siteLog \union {site'}
    BY <1>3 DEF StoreSite
  <2> QED
    BY <1>1, <2>1 DEF Site
<1> QED
  BY <1>2, <1>3

LEMMA Stays == ASSUME TypeOK, UNCHANGED <<site, siteLog>> PROVE SiteMove
  BY DEF TypeOK, SiteMove, SpecUnchanged, Restated

\* A version that has been in use for a while, or is new.
LEMMA NewVersions ==
    ASSUME SiteMove, cache' = cache, local' \in {local, NoSite, site'}
    PROVE  \A v \in Versions' : v \in Versions \/ v = site' \/ v = NoSite
  BY DEF SiteMove, Versions

LEMMA Nobody == NoSite.uid = 0 /\ NoSite.rv = 0 /\ ~NoSite.live
  BY DEF NoSite

-----------------------------------------------------------------------------
(* Generations                                                              *)

LEMMA GensMove ==
    ASSUME Ordered, GensInOrder, SiteMove, WorkerMove, cache' = cache
    PROVE  GensInOrder'
<1> SUFFICES ASSUME site'.live PROVE GensInOrder'
  BY DEF GensInOrder, VersionGens, LogGens, WorkerGens
<1> USE DEF Ordered
<1>1. \A v \in Versions : v.rv <= site.rv /\ v.uid <= site.uid
  BY DEF VersionsInOrder, NothingFromTheFuture
<1>2. /\ site'.rv \in Nat /\ site'.uid \in Nat /\ site'.gen \in Nat /\ site'.condGen \in Nat
      /\ siteLog' \subseteq siteLog \union {site'}
      /\ site'.rv = site.rv \/ site'.rv = site.rv + 1
  BY DEF SiteMove, Site
<1>3. \A v \in Versions' : v \in Versions \/ v = site' \/ v = NoSite
  BY NewVersions DEF WorkerMove
<1>4. siteLog \subseteq Versions /\ cache \in Versions /\ local \in Versions
  BY DEF Versions
<1>5. CASE Created
  <2>1. \A v \in Versions : v.uid < site'.uid
    BY <1>1, <1>5, Bounds DEF Created
  <2>2. VersionGens'
    BY <1>2, <1>3, <1>5, <2>1, Nobody, Bounds DEF VersionGens, Created
  <2>3. LogGens'
    BY <1>2, <1>4, <2>1 DEF LogGens
  <2>4. WorkerGens'
    <3>1. cache.uid # site'.uid /\ local'.uid # site'.uid
      BY <1>4, <1>5, <2>1, Nobody, Bounds DEF WorkerMove, Created, Restated, SpecUnchanged
    <3> QED
      BY <1>5, <3>1 DEF WorkerGens, Created
  <2> QED
    BY <2>2, <2>3, <2>4 DEF GensInOrder
<1>6. CASE Respecified \/ Restated \/ Reported
  <2>1. /\ site.live /\ site'.uid = site.uid
        /\ site'.gen = site.gen \/ site'.gen = site.gen + 1
        /\ site'.condGen = site.condGen \/ Reported
    BY <1>6 DEF Respecified, Restated, Reported, SpecUnchanged
  <2>2. /\ site.uid >= 1 /\ site.gen >= 1 /\ site.condGen <= site.gen
        /\ \A v \in Versions :
              v.uid = site.uid => /\ v.live /\ v.gen <= site.gen
                                  /\ v.gen = site.gen => /\ v.cfg = site.cfg
                                                         /\ v.suspend = site.suspend
    BY <2>1 DEF GensInOrder, VersionGens
  <2>3. /\ site'.condGen <= site'.gen
        /\ site'.gen = site.gen => site'.cfg = site.cfg /\ site'.suspend = site.suspend
    BY <1>6, <2>2, Bounds DEF Respecified, Restated, Reported, SpecUnchanged
  <2>4. VersionGens'
    BY <1>2, <1>3, <2>1, <2>2, <2>3, Nobody, Bounds DEF VersionGens
  <2>5. LogGens'
    <3>1. ASSUME NEW v \in siteLog', v.uid = site.uid, cache.uid = site.uid
          PROVE  cache.gen <= v.gen
      BY <1>2, <1>4, <2>1, <2>2, <3>1, Bounds DEF GensInOrder, LogGens
    <3>2. ASSUME NEW v \in siteLog', NEW w \in siteLog', v.uid = site.uid, w.uid = site.uid,
                 v.rv < w.rv
          PROVE  v.gen <= w.gen
      <4>1. CASE v \in siteLog /\ w \in siteLog
        BY <2>1, <3>2, <4>1 DEF GensInOrder, LogGens
      <4>2. CASE v \in siteLog /\ w = site'
        BY <1>2, <1>4, <2>1, <2>2, <3>2, <4>2, Bounds
      <4>3. CASE v = site'
        BY <1>1, <1>2, <1>4, <3>2, <4>3, Bounds
      <4> QED
        BY <1>2, <4>1, <4>2, <4>3
    <3> QED
      BY <2>1, <3>1, <3>2 DEF LogGens
  <2>6. WorkerGens'
    <3>1. ASSUME pc' # "idle", local'.uid = site'.uid
          PROVE  cache.uid = site.uid /\ local'.gen <= cache.gen
      BY <1>6, <2>1, <3>1, Bounds DEF GensInOrder, WorkerGens, WorkerMove, Respecified,
         Restated, Reported, SpecUnchanged
    <3>2. ASSUME site'.condGen > 0
          PROVE  /\ cache.uid = site.uid /\ cache.gen >= site'.condGen
                 /\ pc' # "idle" => local'.uid = site.uid /\ local'.gen >= site'.condGen
      <4>1. CASE site'.condGen = site.condGen
        BY <1>6, <2>1, <3>2, <4>1, Bounds DEF GensInOrder, WorkerGens, WorkerMove,
           Respecified, Restated, Reported, SpecUnchanged
      <4>2. CASE Reported
        <5>1. pc # "idle" /\ local = site /\ site'.condGen = site.gen
          BY <4>2 DEF Reported, SettingPhase
        <5>2. cache.uid = site.uid /\ site.gen <= cache.gen
          BY <2>1, <5>1 DEF GensInOrder, WorkerGens
        <5>3. site'.uid = site.uid /\ site'.gen = site.gen
          BY <4>2 DEF Reported, SpecUnchanged
        <5> QED
          BY <5>1, <5>2, <5>3, Bounds DEF WorkerMove
      <4> QED
        BY <2>1, <4>1, <4>2
    <3> QED
      BY <2>1, <3>1, <3>2 DEF WorkerGens
  <2> QED
    BY <2>4, <2>5, <2>6 DEF GensInOrder
<1> QED
  BY <1>5, <1>6 DEF SiteMove

\* The informer moves the cache on, a reconcile begins, the operator restarts.
LEMMA GensDelivered ==
    ASSUME Ordered, GensInOrder, DeliverSite
    PROVE  GensInOrder'
<1> USE DEF Ordered
<1>1. PICK v \in siteLog : /\ cache' = v /\ siteLog' = {w \in siteLog : w.rv > v.rv}
                           /\ UNCHANGED <<site, pc, local>>
  BY DEF DeliverSite, worker
<1>2. v.uid >= cache.uid /\ v.uid <= site.uid /\ v \in Versions /\ local \in Versions
  BY DEF VersionsInOrder, LogInOrder, NothingFromTheFuture, Versions
<1>3. VersionGens'
  BY <1>1 DEF GensInOrder, VersionGens, Versions
<1>4. LogGens'
  BY <1>1, <1>2 DEF GensInOrder, LogGens
<1>5. site.live /\ cache.uid = site.uid => v.uid = site.uid /\ cache.gen <= v.gen
  BY <1>2, Bounds DEF GensInOrder, LogGens
<1>6. WorkerGens'
  BY <1>1, <1>2, <1>5, Bounds DEF GensInOrder, WorkerGens
<1> QED
  BY <1>3, <1>4, <1>6 DEF GensInOrder

LEMMA GensStarted ==
    ASSUME Ordered, GensInOrder, Reconcile
    PROVE  GensInOrder'
<1> USE DEF Ordered
<1>1. /\ UNCHANGED <<site, siteLog, cache>> /\ pc = "idle"
      /\ local' = cache \/ (local' = local /\ pc' = pc)
  <2>1. UNCHANGED <<site, siteLog, cache>> /\ pc = "idle"
    BY DEF Reconcile, store
  <2>2. local' = cache \/ UNCHANGED worker
    BY DEF Reconcile
  <2> QED
    BY <2>1, <2>2 DEF worker
<1>2. VersionGens' /\ LogGens'
  BY <1>1 DEF GensInOrder, VersionGens, LogGens, Versions
<1>3. WorkerGens'
  BY <1>1, Bounds DEF GensInOrder, WorkerGens
<1> QED
  BY <1>2, <1>3 DEF GensInOrder

LEMMA GensRestarted ==
    ASSUME Ordered, GensInOrder, Crash
    PROVE  GensInOrder'
<1> USE DEF Ordered
<1>1. site' = site /\ siteLog' = {} /\ cache' = site /\ pc' = "idle" /\ local' = NoSite
  BY DEF Crash, Idle
<1>2. VersionGens'
  BY <1>1, Nobody, Bounds DEF GensInOrder, VersionGens, Versions
<1>3. LogGens' /\ WorkerGens'
  BY <1>1, Bounds DEF GensInOrder, VersionGens, LogGens, WorkerGens
<1> QED
  BY <1>2, <1>3 DEF GensInOrder

-----------------------------------------------------------------------------
(* Objects and the account, in steps that leave them alone                  *)

LEMMA DesiredAlike ==
    ASSUME NEW s, NEW t, s.uid = t.uid, s.cfg = t.cfg, s.suspend = t.suspend
    PROVE  Desired(s) = Desired(t)
  BY DEF Desired, DesiredPHPConfigMap, DesiredDeployment, DesiredService, DesiredIngress

\* A worker at one of these calls has applied nothing yet.
Unapplied == {"idle", "addFinalizer", "ensureSecret", "EnsureDatabase", "ConfigMap",
              "Error", "Provisioning", "DropDatabase", "removeFinalizer"}

LEMMA UnappliedFacts ==
    ASSUME NEW next \in Unapplied
    PROVE  next \notin {"Ready", "Suspended", "Ingress", "Service", "Deployment"}
  BY DEF Unapplied

LEMMA WorkloadMove ==
    ASSUME Ordered, StatusInv, SiteMove, workload' = workload,
           budget'.tampers = budget.tampers,
           (local' = local /\ pc' = pc) \/ pc' \in Unapplied
    PROVE  WorkloadOnTrack' /\ WorkloadAsReported'
<1> USE DEF Ordered
<1>1. Untouched' = Untouched
  BY DEF Untouched
<1>2. local.uid <= site.uid
  BY DEF VersionsInOrder, NothingFromTheFuture, Versions
<1>3. WorkloadOnTrack'
  <2>1. ASSUME Untouched', site'.live, local'.uid = site'.uid, NEW k \in Kinds, Applied(k)'
        PROVE  workload'[k] = Desired(local')[k]
    <3>1. local' = local /\ pc' = pc
      BY <2>1, UnappliedFacts DEF Applied
    <3>2. site.live /\ local.uid = site.uid
      BY <1>2, <2>1, <3>1, Bounds DEF SiteMove, Created, Respecified, Restated, Reported,
         SpecUnchanged
    <3>3. Applied(k)
      BY <2>1, <3>1 DEF Applied
    <3> QED
      BY <1>1, <2>1, <3>1, <3>2, <3>3 DEF StatusInv, WorkloadOnTrack
  <2>2. budget'.tampers <= MaxTampers
    BY DEF StatusInv, WorkloadOnTrack
  <2> QED
    BY <2>1, <2>2 DEF WorkloadOnTrack
<1>4. WorkloadAsReported'
  <2> SUFFICES ASSUME Untouched', site'.live, site'.condGen = site'.gen,
                      site'.phase \in {"Ready", "Suspended"}
               PROVE  workload' = Desired(site)'
    BY DEF WorkloadAsReported
  <2>1. CASE Created
    BY <2>1 DEF Created
  <2>2. CASE Respecified
    <3>1. site.condGen <= site.gen
      BY <2>2 DEF StatusInv, GensInOrder, VersionGens, Respecified
    <3> QED
      BY <2>2, <3>1, Bounds DEF Respecified
  <2>3. CASE Restated
    <3>1. workload = Desired(site)
      BY <1>1, <2>3 DEF Restated, SpecUnchanged, StatusInv, WorkloadAsReported
    <3> QED
      BY <2>3, <3>1, DesiredAlike DEF Restated, SpecUnchanged
  <2>4. CASE Reported
    <3>1. /\ site.live /\ local = site /\ pc \in {"Ready", "Suspended"}
          /\ site'.uid = site.uid /\ site'.cfg = site.cfg /\ site'.suspend = site.suspend
      BY <2>4 DEF Reported, SpecUnchanged
    <3>2. \A k \in Kinds : workload[k] = Desired(local)[k]
      BY <1>1, <3>1 DEF StatusInv, WorkloadOnTrack, Applied
    <3>3. workload = Desired(local)
      BY <3>2 DEF TypeOK, Desired
    <3> QED
      BY <3>1, <3>3, DesiredAlike
  <2> QED
    BY <2>1, <2>2, <2>3, <2>4 DEF SiteMove
<1> QED
  BY <1>3, <1>4

\* The account a site is promised is the account of its spec.
LEMMA ServerMove ==
    ASSUME Ordered, StatusInv, SiteMove, server' = server
    PROVE  ServerAsReported'
<1> USE DEF Ordered
<1> SUFFICES ASSUME site'.live, ~site'.deleting, site'.condGen = site'.gen,
                    site'.phase = "Ready"
             PROVE  Account(site)'
  BY DEF ServerAsReported
<1>1. CASE Created
  BY <1>1 DEF Created
<1>2. CASE Respecified
  <2>1. site.condGen <= site.gen
    BY <1>2 DEF StatusInv, GensInOrder, VersionGens, Respecified
  <2> QED
    BY <1>2, <2>1, Bounds DEF Respecified
<1>3. CASE Restated
  <2>1. Account(site) /\ site'.cfg = site.cfg
    BY <1>3 DEF Restated, SpecUnchanged, StatusInv, ServerAsReported
  <2> QED
    BY <2>1 DEF Account, AccountReady
<1>4. CASE Reported
  <2>1. local = site /\ pc = "Ready" /\ site'.cfg = site.cfg
    BY <1>4 DEF Reported, SpecUnchanged
  <2>2. Account(local)
    BY <2>1 DEF StatusInv, ServerOnTrack
  <2> QED
    BY <2>1, <2>2 DEF Account, AccountReady
<1> QED
  BY <1>1, <1>2, <1>3, <1>4 DEF SiteMove

\* The worker stays at its call, or goes to one that needs no account yet.
NothingDue == \/ local' = local /\ pc' = pc
              \/ pc' \in Unapplied /\ (pc' = "ConfigMap" => local'.suspend)

LEMMA TrackMove ==
    ASSUME ServerOnTrack, server' = server, NothingDue
    PROVE  ServerOnTrack'
  BY DEF ServerOnTrack, NothingDue, Account, AccountReady, Unapplied, Applying, Kinds

LEMMA PlainMove ==
    ASSUME Ordered, StatusInv, SiteMove, WorkerMove, NothingDue, cache' = cache,
           workload' = workload, server' = server, budget'.tampers = budget.tampers
    PROVE  StatusInv'
<1>1. GensInOrder'
  BY GensMove DEF StatusInv
<1>2. WorkloadOnTrack' /\ WorkloadAsReported'
  BY WorkloadMove DEF NothingDue
<1>3. ServerOnTrack' /\ ServerAsReported'
  BY ServerMove, TrackMove DEF StatusInv
<1> QED
  BY <1>1, <1>2, <1>3 DEF StatusInv

-----------------------------------------------------------------------------
(* The users                                                                *)

LEMMA Spent ==
    ASSUME TypeOK, NEW what \in {"creates", "edits", "faults", "crashes", "wakeups"},
           Spend(what)
    PROVE  budget'.tampers = budget.tampers
  BY DEF TypeOK, Budget, Spend

LEMMA Charged ==
    ASSUME TypeOK, NEW out, Charge(out)
    PROVE  budget'.tampers = budget.tampers
  BY Spent DEF Charge

LEMMA EditMoves ==
    ASSUME TypeOK, NEW s \in Site, s.live = site.live, s.uid = site.uid, s.gen = site.gen,
           s.condGen = site.condGen, Edit(s)
    PROVE  /\ SiteMove /\ UNCHANGED <<cache, workload, server, pc, local>>
           /\ budget'.tampers = budget.tampers
<1> DEFINE t == [s EXCEPT !.gen = @ + 1]
<1>1. /\ site.live /\ StoreSite(t) /\ Spend("edits")
      /\ UNCHANGED <<cache, workload, server, pc, local>>
  BY DEF Edit, worker
<1>2. /\ t \in Site /\ t.live = s.live /\ t.uid = s.uid /\ t.gen = s.gen + 1
      /\ t.condGen = s.condGen
  BY DEF Site
<1> HIDE DEF t
<1>3. SiteMove
  BY <1>1, <1>2, Stored DEF SiteMove, Respecified
<1> QED
  BY <1>1, <1>3, Spent

LEMMA ApiCallMoves ==
    ASSUME TypeOK, ApiCall
    PROVE  /\ SiteMove /\ UNCHANGED <<cache, workload, server, pc, local>>
           /\ budget'.tampers = budget.tampers
<1>0. site \in Site /\ site.uid + 1 \in Nat
  BY DEF TypeOK, Site
<1>1. ASSUME NEW c \in Config, createSite(c)
      PROVE  /\ SiteMove /\ UNCHANGED <<cache, workload, server, pc, local>>
             /\ budget'.tampers = budget.tampers
  <2> DEFINE t == [NoSite EXCEPT !.live = TRUE, !.uid = site.uid + 1, !.gen = 1, !.cfg = c]
  <2>1. t \in Site /\ t.uid = site.uid + 1 /\ t.gen = 1 /\ t.condGen = 0
    <3>1. t \in Site
      BY <1>0, NewSiteType
    <3> QED
      BY <3>1 DEF NoSite
  <2>2. /\ ~site.live /\ StoreSite(t) /\ Spend("creates")
        /\ UNCHANGED <<cache, workload, server, pc, local>>
    BY <1>1 DEF createSite, worker
  <2> HIDE DEF t
  <2>3. SiteMove
    BY <2>1, <2>2, Stored DEF SiteMove, Created
  <2> QED
    BY <2>2, <2>3, Spent
<1>2. ASSUME NEW c \in Config, NEW b \in BOOLEAN
      PROVE  LET s == [site EXCEPT !.cfg = c, !.suspend = b]
             IN  /\ s \in Site /\ s.live = site.live /\ s.uid = site.uid
                 /\ s.gen = site.gen /\ s.condGen = site.condGen
  BY <1>0 DEF Site
<1>3. ASSUME NEW c \in Config
      PROVE  LET s == [site EXCEPT !.cfg = c]
             IN  /\ s \in Site /\ s.live = site.live /\ s.uid = site.uid
                 /\ s.gen = site.gen /\ s.condGen = site.condGen
  BY <1>0 DEF Site
<1>4. ASSUME NEW b \in BOOLEAN
      PROVE  LET s == [site EXCEPT !.suspend = b]
             IN  /\ s \in Site /\ s.live = site.live /\ s.uid = site.uid
                 /\ s.gen = site.gen /\ s.condGen = site.condGen
  BY <1>0 DEF Site
<1>5. ASSUME deleteSite
      PROVE  /\ SiteMove /\ UNCHANGED <<cache, workload, server, pc, local>>
             /\ budget'.tampers = budget.tampers
  <2>1. /\ site.live /\ UNCHANGED <<cache, workload, server, pc, local, budget>>
        /\ StoreSite(IF site.finalizer
                     THEN [site EXCEPT !.deleting = TRUE, !.gen = @ + 1]
                     ELSE Gone(site))
    BY <1>5 DEF deleteSite, worker
  <2>2. CASE site.finalizer
    <3> DEFINE t == [site EXCEPT !.deleting = TRUE, !.gen = @ + 1]
    <3>1. t \in Site
      BY <1>0, DoomedType
    <3>2. t.uid = site.uid /\ t.gen = site.gen + 1 /\ t.condGen = site.condGen
      BY <1>0 DEF Site
    <3>3. StoreSite(t)
      BY <2>1, <2>2
    <3> HIDE DEF t
    <3> QED
      BY <2>1, <3>1, <3>2, <3>3, Stored DEF SiteMove, Respecified
  <2>3. CASE ~site.finalizer
    <3>1. Gone(site) \in Site /\ ~Gone(site).live
      <4>1. Gone(site) \in Site
        BY <1>0, GoneType
      <4> QED
        BY ONLY <1>0, <4>1 DEF Gone, Site
    <3>2. StoreSite(Gone(site))
      BY <2>1, <2>3
    <3> QED
      BY <2>1, <3>1, <3>2, Stored DEF SiteMove
  <2> QED
    BY <2>2, <2>3
<1>6. ASSUME NEW c \in Config, updateSite(c)
      PROVE  /\ SiteMove /\ UNCHANGED <<cache, workload, server, pc, local>>
             /\ budget'.tampers = budget.tampers
  BY <1>3, <1>6, EditMoves DEF updateSite
<1>7. ASSUME NEW b \in BOOLEAN, setSuspend(b)
      PROVE  /\ SiteMove /\ UNCHANGED <<cache, workload, server, pc, local>>
             /\ budget'.tampers = budget.tampers
  BY <1>4, <1>7, EditMoves DEF setSuspend
<1>8. ASSUME NEW c \in Config, NEW b \in BOOLEAN, updateSiteYAML(c, b)
      PROVE  /\ SiteMove /\ UNCHANGED <<cache, workload, server, pc, local>>
             /\ budget'.tampers = budget.tampers
  BY <1>2, <1>8, EditMoves DEF updateSiteYAML
<1> QED
  BY <1>1, <1>5, <1>6, <1>7, <1>8 DEF ApiCall

LEMMA ApiCallStatus == ASSUME Ordered, StatusInv, ApiCall PROVE StatusInv'
<1>1. /\ SiteMove /\ UNCHANGED <<cache, workload, server, pc, local>>
      /\ budget'.tampers = budget.tampers
  BY ApiCallMoves DEF Ordered
<1> QED
  BY <1>1, PlainMove DEF WorkerMove, NothingDue

-----------------------------------------------------------------------------
(* The cluster                                                              *)

\* What is desired belongs to the site.
LEMMA DesiredOwned ==
    ASSUME NEW s, NEW k \in Kinds
    PROVE  Desired(s)[k].live /\ Desired(s)[k].owner = s.uid
  BY DEF Desired, Kinds, DesiredPHPConfigMap, DesiredDeployment, DesiredService, DesiredIngress

LEMMA DeliverSiteStatus == ASSUME Ordered, StatusInv, DeliverSite PROVE StatusInv'
<1>1. GensInOrder'
  BY GensDelivered DEF StatusInv
<1>2. /\ UNCHANGED <<site, workload, server, pc, local, budget>> /\ siteLog' \subseteq siteLog
  BY DEF DeliverSite, worker
<1>3. SiteMove
  BY <1>2 DEF Ordered, TypeOK, SiteMove, SpecUnchanged, Restated
<1>4. WorkloadOnTrack' /\ WorkloadAsReported'
  BY <1>2, <1>3, WorkloadMove
<1>5. ServerOnTrack' /\ ServerAsReported'
  BY <1>2, <1>3, ServerMove, TrackMove DEF NothingDue, StatusInv
<1> QED
  BY <1>1, <1>4, <1>5 DEF StatusInv

LEMMA CollectStatus ==
    ASSUME Ordered, StatusInv, NEW k \in Kinds, CollectObject(k)
    PROVE  StatusInv'
<1>1. /\ Ownerless(workload[k]) /\ workload' = [workload EXCEPT ![k] = NoObject]
      /\ UNCHANGED <<site, siteLog, cache, server, pc, local, budget>>
  BY DEF CollectObject, store, worker
<1>2. \A j \in Kinds \ {k} : workload'[j] = workload[j]
  BY <1>1 DEF Ordered, TypeOK
<1>3. SiteMove
  BY <1>1, Stays DEF Ordered
<1>4. GensInOrder' /\ ServerOnTrack' /\ ServerAsReported'
  BY <1>1, <1>3, GensMove, ServerMove, TrackMove DEF StatusInv, WorkerMove, NothingDue
<1>5. Untouched' = Untouched /\ \A j \in Kinds : Applied(j)' = Applied(j)
  BY <1>1 DEF Untouched, Applied
<1>6. WorkloadOnTrack'
  <2>1. ASSUME Untouched, site.live, local.uid = site.uid, NEW j \in Kinds, Applied(j)
        PROVE  workload'[j] = Desired(local)[j]
    <3>1. workload[j] = Desired(local)[j]
      BY <2>1 DEF StatusInv, WorkloadOnTrack
    <3>2. j # k
      BY <1>1, <2>1, <3>1, DesiredOwned DEF Ownerless
    <3> QED
      BY <1>2, <3>1, <3>2
  <2> QED
    BY <1>1, <1>5, <2>1 DEF StatusInv, WorkloadOnTrack
<1>7. WorkloadAsReported'
  <2>1. ASSUME site.live PROVE workload # Desired(site)
    BY <1>1, <2>1, DesiredOwned DEF Ownerless
  <2> QED
    BY <1>1, <1>5, <2>1 DEF StatusInv, WorkloadAsReported
<1> QED
  BY <1>4, <1>6, <1>7 DEF StatusInv

LEMMA TamperStatus ==
    ASSUME Ordered, StatusInv, Spend("tampers"),
           UNCHANGED <<site, siteLog, cache, server, pc, local>>
    PROVE  StatusInv'
<1>1. budget.tampers \in Nat /\ budget'.tampers = budget.tampers - 1
  BY DEF Ordered, TypeOK, Budget, Spend
<1>2. budget.tampers <= MaxTampers
  BY DEF StatusInv, WorkloadOnTrack
<1>3. ~Untouched' /\ budget'.tampers <= MaxTampers
  BY <1>1, <1>2, BoundsAssumption DEF Untouched
<1>4. SiteMove
  BY Stays DEF Ordered
<1>5. GensInOrder' /\ ServerOnTrack' /\ ServerAsReported'
  BY <1>4, GensMove, ServerMove, TrackMove DEF StatusInv, WorkerMove, NothingDue
<1> QED
  BY <1>3, <1>5 DEF StatusInv, WorkloadOnTrack, WorkloadAsReported

LEMMA ClusterStatus == ASSUME Ordered, StatusInv, Cluster PROVE StatusInv'
<1>1. ASSUME UNCHANGED <<site, siteLog, cache, workload, server, pc, local>>,
             budget'.tampers = budget.tampers
      PROVE  StatusInv'
  BY <1>1, Stays, PlainMove DEF Ordered, WorkerMove, NothingDue
<1>2. CASE DeliverSecret \/ CollectSecret
  BY <1>1, <1>2 DEF DeliverSecret, CollectSecret, store, worker
<1>3. CASE WakeUp
  <2>1. budget'.tampers = budget.tampers
    BY <1>3, Spent DEF WakeUp, Ordered
  <2> QED
    BY <1>1, <1>3, <2>1 DEF WakeUp, store, worker
<1>4. CASE TamperSecret
  BY <1>4, TamperStatus DEF TamperSecret, store, worker
<1>5. ASSUME NEW k \in Kinds, TamperObject(k) PROVE StatusInv'
  BY <1>5, TamperStatus DEF TamperObject, store, worker
<1> QED
  BY <1>2, <1>3, <1>4, <1>5, DeliverSiteStatus, CollectStatus DEF Cluster

-----------------------------------------------------------------------------
(* The worker                                                               *)

LEMMA ReconcileStatus == ASSUME Ordered, StatusInv, Reconcile PROVE StatusInv'
<1>1. GensInOrder'
  BY GensStarted DEF StatusInv
<1>2. UNCHANGED <<site, siteLog, cache, workload, server, budget>>
  BY DEF Reconcile, store
<1>3. NothingDue
  <2>1. CASE local' = cache /\ pc' = FirstCall(cache)
    BY <2>1 DEF FirstCall, AfterFinalizer, NothingDue, Unapplied
  <2>2. CASE UNCHANGED worker
    BY <2>2 DEF worker, NothingDue
  <2> QED
    BY <2>1, <2>2 DEF Reconcile
<1>4. SiteMove
  BY <1>2, Stays DEF Ordered
<1>5. WorkloadOnTrack' /\ WorkloadAsReported'
  BY <1>2, <1>3, <1>4, WorkloadMove DEF NothingDue
<1>6. ServerOnTrack' /\ ServerAsReported'
  BY <1>2, <1>3, <1>4, ServerMove, TrackMove DEF StatusInv
<1> QED
  BY <1>1, <1>5, <1>6 DEF StatusInv

\* An Update by the worker of its copy: it changes the site only when the copy is
\* the site.
LEMMA UpdateMoves ==
    ASSUME Ordered, local.live, NEW s \in Site, NEW out, UpdateSite(s, out),
           s.live => /\ s.uid = local.uid /\ s.gen = local.gen /\ s.cfg = local.cfg
                     /\ s.suspend = local.suspend /\ s.deleting = local.deleting
                     /\ \/ s.condGen = local.condGen /\ s.phase = local.phase
                        \/ pc \in SettingPhase /\ s.condGen = local.gen /\ s.phase = pc
    PROVE  /\ SiteMove
           /\ out # "refused" /\ Current(local) => site = local /\ StoreSite(s)
<1>1. CASE out # "refused" /\ Current(local)
  <2>1. StoreSite(s)
    BY <1>1 DEF UpdateSite
  <2>2. local = site /\ site.live
    BY <1>1 DEF Ordered, Current, VersionsInOrder, NothingFromTheFuture, Versions
  <2>3. SiteMove
    BY <2>1, <2>2, Stored DEF Ordered, SiteMove, SpecUnchanged, Restated, Reported
  <2> QED
    BY <2>1, <2>2, <2>3
<1>2. CASE ~(out # "refused" /\ Current(local))
  BY <1>2, Stays DEF UpdateSite, store, Ordered
<1> QED
  BY <1>1, <1>2

LEMMA addFinalizerStatus == ASSUME Ordered, StatusInv, addFinalizer PROVE StatusInv'
<1> DEFINE s == [local EXCEPT !.finalizer = TRUE]
<1>1. PICK out \in Outcome :
        /\ Charge(out) /\ UpdateSite(s, out)
        /\ IF Accepted(out) THEN local' = site' /\ pc' = AfterFinalizer(local) ELSE Requeue
  BY DEF addFinalizer
<1>2. /\ pc = "addFinalizer" /\ pc # "idle" /\ local.live /\ local \in Site
      /\ UNCHANGED <<cache, workload, server>>
  BY DEF addFinalizer, Ordered, TypeOK
<1>3. /\ s \in Site /\ s.uid = local.uid /\ s.gen = local.gen /\ s.cfg = local.cfg
      /\ s.suspend = local.suspend /\ s.deleting = local.deleting /\ s.live = local.live
      /\ s.condGen = local.condGen /\ s.phase = local.phase
  BY <1>2 DEF Site
<1> HIDE DEF s
<1>4. SiteMove /\ (out # "refused" /\ Current(local) => site = local /\ StoreSite(s))
  BY <1>1, <1>2, <1>3, UpdateMoves
<1>5. budget'.tampers = budget.tampers
  BY <1>1, Charged DEF Ordered
<1>6. WorkerMove /\ NothingDue
  <2>1. CASE Accepted(out)
    <3>1. site = local /\ StoreSite(s)
      BY <1>4, <2>1 DEF Accepted
    <3>2. Restated /\ site'.suspend = local.suspend
      BY <1>2, <1>3, <3>1, Stored DEF Ordered, Restated, SpecUnchanged
    <3>3. local' = site' /\ pc' = AfterFinalizer(local)
      BY <1>1, <2>1
    <3> QED
      BY <1>2, <3>1, <3>2, <3>3 DEF WorkerMove, NothingDue, AfterFinalizer, Unapplied
  <2>2. CASE ~Accepted(out)
    BY <1>1, <2>2 DEF Requeue, Idle, WorkerMove, NothingDue, Unapplied
  <2> QED
    BY <2>1, <2>2
<1> QED
  BY <1>2, <1>4, <1>5, <1>6, PlainMove

LEMMA setPhaseStatus == ASSUME Ordered, StatusInv, setPhase PROVE StatusInv'
<1> DEFINE s == [local EXCEPT !.phase = pc, !.condGen = local.gen,
                   !.observed = IF pc = "Ready" THEN local.gen ELSE @]
<1>1. PICK out \in Outcome : Charge(out) /\ UpdateSite(s, out)
  BY DEF setPhase
<1>2. /\ pc \in SettingPhase /\ local.live /\ local \in Site
      /\ Idle /\ UNCHANGED <<cache, workload, server>>
  BY DEF setPhase, Done, Requeue, Ordered, TypeOK, SettingPhase
<1>3. /\ s \in Site /\ s.uid = local.uid /\ s.gen = local.gen /\ s.cfg = local.cfg
      /\ s.suspend = local.suspend /\ s.deleting = local.deleting /\ s.live = local.live
      /\ s.condGen = local.gen /\ s.phase = pc
  BY <1>2 DEF Site, SettingPhase, Phases
<1> HIDE DEF s
<1>4. SiteMove
  BY <1>1, <1>2, <1>3, UpdateMoves
<1>5. budget'.tampers = budget.tampers
  BY <1>1, Charged DEF Ordered
<1> QED
  BY <1>2, <1>4, <1>5, PlainMove DEF Idle, WorkerMove, NothingDue, Unapplied

LEMMA removeFinalizerStatus == ASSUME Ordered, StatusInv, removeFinalizer PROVE StatusInv'
<1>1. PICK out \in Outcome : Charge(out) /\ UpdateSite(Gone(local), out)
  BY DEF removeFinalizer
<1>2. /\ pc = "removeFinalizer" /\ local.live /\ local \in Site
      /\ Idle /\ UNCHANGED <<cache, workload, server>>
  BY DEF removeFinalizer, Done, Requeue, Ordered, TypeOK
<1>3. Gone(local) \in Site /\ ~Gone(local).live
  <2>1. Gone(local) \in Site
    BY <1>2, GoneType
  <2> QED
    BY ONLY <1>2, <2>1 DEF Gone, Site
<1>4. SiteMove
  BY <1>1, <1>2, <1>3, UpdateMoves
<1>5. budget'.tampers = budget.tampers
  BY <1>1, Charged DEF Ordered
<1> QED
  BY <1>2, <1>4, <1>5, PlainMove DEF Idle, WorkerMove, NothingDue, Unapplied

LEMMA ensureSecretStatus == ASSUME Ordered, StatusInv, ensureSecret PROVE StatusInv'
<1>1. /\ pc = "ensureSecret" /\ UNCHANGED <<site, siteLog, cache, workload, server>>
  BY DEF ensureSecret, store
<1>2. local' = local /\ pc' \in {"EnsureDatabase", "Error"}
  BY DEF ensureSecret, KeepSecret, WriteSecret, Goto
<1>3. budget'.tampers = budget.tampers
  BY Charged DEF ensureSecret, KeepSecret, WriteSecret, Ordered
<1> QED
  BY <1>1, <1>2, <1>3, Stays, PlainMove DEF Ordered, WorkerMove, NothingDue, Unapplied

\* EnsureDatabase takes nothing away, and at its end the account is there.
LEMMA EnsureGives ==
    ASSUME NEW srv \in Server, NEW db \in Database, NEW user \in User,
           NEW pass \in Nat, pass # NoPassword, NEW n \in 0..EnsureStatements
    PROVE  LET new == EnsureDatabase(srv, db, user, pass, n)
           IN  /\ srv.databases \subseteq new.databases /\ srv.grants \subseteq new.grants
               /\ \A u \in User : srv.accounts[u] # NoPassword => new.accounts[u] # NoPassword
               /\ n = EnsureStatements =>
                      /\ db \in new.databases /\ <<user, db>> \in new.grants
                      /\ new.accounts[user] = pass
  BY DEF EnsureDatabase, EnsureStatements, Server, NoPassword

LEMMA ProvisionStatus ==
    ASSUME Ordered, ServerInUse, StatusInv, ProvisionDatabase
    PROVE  StatusInv'
<1>1. /\ pc = "EnsureDatabase" /\ UNCHANGED <<site, siteLog, cache, workload>>
      /\ local' = local /\ pc' \in {"ConfigMap", "Provisioning"}
  BY DEF ProvisionDatabase, store, Goto
<1>2. budget'.tampers = budget.tampers
  BY Spent DEF ProvisionDatabase, Ordered
<1>3. SiteMove
  BY <1>1, Stays DEF Ordered
<1>4. GensInOrder' /\ WorkloadOnTrack' /\ WorkloadAsReported'
  BY <1>1, <1>2, <1>3, GensMove, WorkloadMove DEF StatusInv, WorkerMove, Unapplied
<1>5. PICK n \in 0..EnsureStatements :
        /\ DatabaseName[local.cfg] \in Database /\ DatabaseUser[local.cfg] \in User
        /\ server' = EnsureDatabase(server, DatabaseName[local.cfg],
                                    DatabaseUser[local.cfg], cred, n)
        /\ pc' = "ConfigMap" => n = EnsureStatements
  <2>1. local.cfg \in Config /\ server \in Server
    BY <1>1 DEF Ordered, TypeOK, Site
  <2>2. DatabaseName[local.cfg] \in Database /\ DatabaseUser[local.cfg] \in User
    BY <2>1, NamesAssumption
  <2>3. CASE local.cfg \in Refused
    <3>1. server' = server /\ pc' = "Provisioning" /\ 0 \in 0..EnsureStatements
      BY <2>3 DEF ProvisionDatabase, Goto, EnsureStatements
    <3> QED
      BY <2>1, <2>2, <3>1, EnsureNothing
  <2>4. CASE local.cfg \notin Refused
    BY <2>2, <2>4 DEF ProvisionDatabase, Goto
  <2> QED
    BY <2>3, <2>4
<1>6. server \in Server /\ cred \in Nat /\ cred # NoPassword
  BY <1>1 DEF Ordered, TypeOK, ServerInUse
<1>7. /\ server.databases \subseteq server'.databases /\ server.grants \subseteq server'.grants
      /\ \A u \in User : server.accounts[u] # NoPassword => server'.accounts[u] # NoPassword
      /\ n = EnsureStatements => Account(local)'
  BY <1>1, <1>5, <1>6, EnsureGives DEF Account, AccountReady
<1>8. ServerOnTrack'
  <2>1. pc' \in Applying \union {"Ready"} => Account(local)' /\ pc' # "Ready"
    BY <1>1, <1>5, <1>7 DEF Applying, Kinds
  <2> QED
    BY <2>1 DEF ServerOnTrack
<1>9. ServerAsReported'
  <2>1. ASSUME site.live, Account(site) PROVE Account(site)'
    <3>1. DatabaseUser[site.cfg] \in User
      BY <2>1, NamesAssumption DEF Ordered, TypeOK, Site
    <3> QED
      BY <1>1, <1>7, <2>1, <3>1 DEF Account, AccountReady
  <2> QED
    BY <1>1, <2>1 DEF StatusInv, ServerAsReported
<1> QED
  BY <1>4, <1>8, <1>9 DEF StatusInv

\* The deletion in progress is that of the site the status speaks of.
LEMMA DropDataStatus == ASSUME Ordered, StatusInv, DropData PROVE StatusInv'
<1>1. /\ pc = "DropDatabase" /\ UNCHANGED <<site, siteLog, cache, workload>>
      /\ \/ local' = local /\ pc' = "removeFinalizer"
         \/ local' = NoSite /\ pc' = "idle"
  BY DEF DropData, store, Goto, Requeue, Idle
<1>2. budget'.tampers = budget.tampers
  BY Spent DEF DropData, Ordered
<1>3. SiteMove
  BY <1>1, Stays DEF Ordered
<1>4. GensInOrder' /\ WorkloadOnTrack' /\ WorkloadAsReported'
  BY <1>1, <1>2, <1>3, GensMove, WorkloadMove DEF StatusInv, WorkerMove, Unapplied
<1>5. ServerOnTrack'
  BY <1>1 DEF ServerOnTrack, Applying, Kinds
<1>6. ASSUME site.live, site.condGen = site.gen PROVE site.deleting
  <2>1. site.condGen > 0
    BY <1>6, Bounds DEF Ordered, StatusInv, GensInOrder, VersionGens
  <2>2. local.uid = site.uid
    BY <1>1, <1>6, <2>1 DEF StatusInv, GensInOrder, WorkerGens
  <2>3. local.deleting
    BY <1>1 DEF Ordered, WorkerOnTrack, Deleting
  <2> QED
    BY <1>6, <2>2, <2>3 DEF Ordered, VersionsInOrder, DeletingIsFinal, Versions
<1>7. ServerAsReported'
  BY <1>1, <1>6 DEF ServerAsReported
<1> QED
  BY <1>4, <1>5, <1>7 DEF StatusInv

LEMMA applyStatus ==
    ASSUME Ordered, StatusInv, NEW k \in Kinds, apply(k)
    PROVE  StatusInv'
<1>1. PICK out \in Outcome :
        /\ Charge(out)
        /\ LET object == IF out = "refused" THEN workload[k] ELSE Desired(local)[k]
           IN  /\ workload' = [workload EXCEPT ![k] = object]
               /\ IF out = "ok" THEN Goto(NextCall(k))
                  ELSE IF local.suspend THEN Requeue ELSE Goto("Error")
  BY DEF apply
<1>2. /\ pc = k /\ pc # "idle" /\ UNCHANGED <<site, siteLog, cache, server>>
  BY DEF apply, store, Kinds
<1>3. budget'.tampers = budget.tampers
  BY <1>1, Charged DEF Ordered
<1>4. \/ /\ local' = local /\ pc' = NextCall(k) /\ workload'[k] = Desired(local)[k]
      \/ local' = local /\ pc' = "Error"
      \/ local' = NoSite /\ pc' = "idle"
  BY <1>1 DEF Goto, Requeue, Idle, Ordered, TypeOK
<1>5. /\ workload' \in [Kinds -> Object] /\ workload'[k] \in {workload[k], Desired(local)[k]}
      /\ \A j \in Kinds \ {k} : workload'[j] = workload[j]
  <2>1. workload \in [Kinds -> Object] /\ Desired(local)[k] \in Object
    BY DesiredType DEF Ordered, TypeOK
  <2> QED
    BY <1>1, <2>1
<1>6. /\ k = "ConfigMap" => NextCall(k) = "Deployment"
      /\ k = "Deployment" => NextCall(k) = "Service"
      /\ k = "Service" => NextCall(k) = "Ingress"
      /\ k = "Ingress" => NextCall(k) = IF local.suspend THEN "Suspended" ELSE "Ready"
      /\ k \in {"ConfigMap", "Deployment", "Service", "Ingress"}
  BY DEF NextCall, Kinds
<1>7. SiteMove
  BY <1>2, Stays DEF Ordered
<1>8. GensInOrder' /\ ServerAsReported'
  BY <1>2, <1>4, <1>7, GensMove, ServerMove DEF StatusInv, WorkerMove
<1>9. ServerOnTrack'
  <2>1. pc' \in Applying \union {"Ready"} => /\ local' = local /\ k \in Applying
                                             /\ pc' = "Ready" => ~local.suspend
    BY <1>4, <1>6 DEF Applying, Kinds
  <2> QED
    BY <1>2, <2>1 DEF StatusInv, ServerOnTrack, Account, AccountReady
<1>10. Untouched' = Untouched
  BY <1>3 DEF Untouched
<1>11. WorkloadOnTrack'
  <2>1. ASSUME Untouched, site.live, local'.uid = site.uid, NEW j \in Kinds, Applied(j)'
        PROVE  workload'[j] = Desired(local')[j]
    <3>1. local' = local /\ pc' = NextCall(k) /\ workload'[k] = Desired(local)[k]
      BY <1>4, <2>1 DEF Applied
    <3>2. j = k \/ (Applied(j) /\ j # k)
      BY <1>2, <1>6, <2>1, <3>1 DEF Applied, Kinds
    <3>3. Applied(j) => workload[j] = Desired(local)[j]
      BY <2>1, <3>1 DEF StatusInv, WorkloadOnTrack
    <3> QED
      BY <1>5, <3>1, <3>2, <3>3
  <2> QED
    BY <1>2, <1>3, <1>10, <2>1 DEF StatusInv, WorkloadOnTrack
<1>12. WorkloadAsReported'
  <2>1. ASSUME site.live, site.condGen = site.gen, workload = Desired(site)
        PROVE  workload' = workload
    <3>1. site.condGen > 0
      BY <2>1, Bounds DEF Ordered, StatusInv, GensInOrder, VersionGens
    <3>2. local.uid = site.uid /\ local.gen >= site.gen
      BY <1>2, <2>1, <3>1 DEF StatusInv, GensInOrder, WorkerGens
    <3>3. local.cfg = site.cfg /\ local.suspend = site.suspend
      BY <2>1, <3>2, Bounds DEF Ordered, StatusInv, GensInOrder, VersionGens, Versions
    <3>4. Desired(local) = Desired(site)
      BY <3>2, <3>3, DesiredAlike
    <3>5. \A j \in Kinds : workload'[j] = workload[j]
      BY <1>5, <2>1, <3>4
    <3> QED
      BY <1>5, <3>5 DEF Ordered, TypeOK
  <2> QED
    BY <1>2, <1>10, <2>1 DEF StatusInv, WorkloadAsReported
<1> QED
  BY <1>8, <1>9, <1>11, <1>12 DEF StatusInv

LEMMA CrashStatus == ASSUME Ordered, StatusInv, Crash PROVE StatusInv'
<1>1. /\ UNCHANGED <<site, workload, server>> /\ siteLog' = {} /\ pc' = "idle"
  BY DEF Crash, Idle
<1>2. budget'.tampers = budget.tampers
  BY Spent DEF Crash, Ordered
<1>3. SiteMove
  BY <1>1 DEF Ordered, TypeOK, SiteMove, SpecUnchanged, Restated
<1>4. GensInOrder'
  BY GensRestarted DEF StatusInv
<1>5. NothingDue
  BY <1>1 DEF NothingDue, Unapplied
<1> QED
  BY <1>1, <1>2, <1>3, <1>4, <1>5, WorkloadMove, ServerMove, TrackMove
     DEF StatusInv, NothingDue

LEMMA InitStatus == Init => StatusInv
<1> SUFFICES ASSUME Init PROVE StatusInv
  OBVIOUS
<1>1. GensInOrder
  BY Nobody DEF Init, GensInOrder, VersionGens, LogGens, WorkerGens
<1>2. WorkloadOnTrack /\ WorkloadAsReported
  BY Nobody, BoundsAssumption DEF Init, WorkloadOnTrack, WorkloadAsReported
<1>3. ServerOnTrack /\ ServerAsReported
  BY Nobody DEF Init, ServerOnTrack, ServerAsReported, Applying, Kinds
<1> QED
  BY <1>1, <1>2, <1>3 DEF StatusInv

LEMMA StatusStep == TypeOK /\ CustodyInv /\ StatusInv /\ [Next]_vars => StatusInv'
<1> SUFFICES ASSUME TypeOK, CustodyInv, StatusInv, [Next]_vars PROVE StatusInv'
  OBVIOUS
<1>1. Ordered /\ ServerInUse
  BY DEF Ordered, CustodyInv
<1>2. CASE Worker
  BY <1>1, <1>2, ReconcileStatus, addFinalizerStatus, ensureSecretStatus, ProvisionStatus,
     applyStatus, setPhaseStatus, DropDataStatus, removeFinalizerStatus DEF Worker
<1>3. CASE UNCHANGED vars
  BY <1>1, <1>3, Stays, PlainMove DEF vars, worker, WorkerMove, NothingDue
<1> QED
  BY <1>1, <1>2, <1>3, ApiCallStatus, ClusterStatus, CrashStatus DEF Next

-----------------------------------------------------------------------------
(* Theorems                                                                 *)

\* The inductive invariant: no version of the site or of its status is ahead of
\* what has been applied for its generation (Reconcile, apply, setPhase).
THEOREM StatusInvariant == Spec => [](TypeOK /\ CustodyInv /\ StatusInv)
<1>1. Init => TypeOK /\ CustodyInv /\ StatusInv
  BY InitStatus, InitOrdered, InitServer DEF Ordered, CustodyInv
<1>2. /\ TypeOK /\ CustodyInv /\ StatusInv /\ [Next]_vars
      => (TypeOK /\ CustodyInv /\ StatusInv)'
  BY OrderedStep, ServerStep, DataStep, StatusStep DEF Ordered, CustodyInv
<1> QED
  BY <1>1, <1>2, PTL DEF Spec

\* A Ready or Suspended status for the current generation is true: the objects are
\* those the spec asks for, and behind Ready there is a schema with its account
\* (setPhase, as long as nobody deletes the objects by hand).
THEOREM StatusIsTrue == Spec => []ReadyAccurate
<1>1. StatusInv => ReadyAccurate
  BY DEF StatusInv, WorkloadAsReported, ServerAsReported, Account, ReadyAccurate
<1> QED
  BY <1>1, StatusInvariant, PTL

\* The Deployment is written only where the ConfigMap it mounts is there with the
\* same php.ini (reconcileWorkload).
THEOREM MapsBeforePods == Spec => ConfigMapFirst
<1> DEFINE A == LET d == workload'["Deployment"]
                    m == workload["ConfigMap"]
                IN  d.live /\ d # workload["Deployment"] /\ Untouched
                      /\ site.live /\ d.owner = site.uid
                        => m.live /\ m.owner = d.owner /\ m.cfg = d.cfg
<1>1. ASSUME TypeOK, CustodyInv, StatusInv, [Next]_vars PROVE [A]_vars
  <2> DEFINE d == workload'["Deployment"]
  <2> SUFFICES ASSUME d.live, d # workload["Deployment"], Untouched, site.live,
                      d.owner = site.uid
               PROVE  A
    OBVIOUS
  <2>1. (\E k \in Kinds : CollectObject(k) \/ TamperObject(k) \/ apply(k))
           \/ workload' = workload
    BY <1>1 DEF Next, ApiCall, createSite, updateSite, setSuspend, updateSiteYAML, Edit,
       deleteSite, Cluster, DeliverSite, DeliverSecret, CollectSecret, TamperSecret, WakeUp,
       Worker, Reconcile, addFinalizer, ensureSecret, ProvisionDatabase, setPhase, DropData,
       removeFinalizer, Crash, vars
  <2>2. PICK k \in Kinds : CollectObject(k) \/ TamperObject(k) \/ apply(k)
    BY <2>1
  <2>3. k = "Deployment" /\ d # NoObject
    <3>1. "Deployment" \in Kinds /\ ~NoObject.live
      BY DEF Kinds, NoObject
    <3> QED
      BY <1>1, <2>2, <3>1 DEF CollectObject, TamperObject, apply, TypeOK
  <2>4. pc = "Deployment" /\ d = Desired(local)["Deployment"]
    <3>1. "Deployment" \in Kinds
      BY DEF Kinds
    <3> QED
      BY <1>1, <2>2, <2>3, <3>1 DEF CollectObject, TamperObject, apply, TypeOK
  <2>5. d.owner = local.uid /\ d.cfg = local.cfg
    BY <2>4 DEF Desired, Kinds, DesiredDeployment
  <2>6. workload["ConfigMap"] = Desired(local)["ConfigMap"]
    BY <1>1, <2>4, <2>5 DEF StatusInv, WorkloadOnTrack, Applied, Kinds
  <2> QED
    BY <2>5, <2>6 DEF Desired, Kinds, DesiredPHPConfigMap
<1> QED
  BY <1>1, StatusInvariant, PTL DEF Spec, ConfigMapFirst

-----------------------------------------------------------------------------
(* The work queue                                                           *)

\* What the informers have not delivered ends with what there is.
LatestKnown ==
    /\ site \in siteLog \/ (siteLog = {} /\ cache = site)
    /\ \A v \in siteLog : v.rv = site.rv => v = site
    /\ secret \in secretLog \/ (secretLog = {} /\ secretCache = secret)

\* What the worker has done is as it was done, or the key is in the queue again.
ObjectsDone == \A k \in Kinds : Applied(k) => queue \/ workload[k] = Desired(local)[k]

PasswordDone ==
    /\ pc = "Suspended" => local.suspend
    /\ pc \in Applying \union {"EnsureDatabase", "Ready"} /\ ~local.suspend =>
          queue \/ secretLog # {} \/ (secret.live /\ secret.pass = cred)
    /\ pc \in Applying \union {"Ready"} /\ ~local.suspend =>
          server.accounts[DatabaseUser[local.cfg]] = cred

Quiet == pc = "idle" /\ ~queue /\ siteLog = {} /\ secretLog = {}

AsAsked ==
    /\ ~site.deleting /\ site.condGen = site.gen /\ workload = Desired(site)
    /\ site.suspend => site.phase = "Suspended"
    /\ ~site.suspend => /\ site.phase = "Ready" /\ site.observed = site.gen
                        /\ secret.live /\ AccountReady(site, secret.pass)

QueueInv == /\ LatestKnown /\ ObjectsDone /\ PasswordDone
            /\ Quiet /\ site.live => AsAsked

\* A version that is stored is the last one of the log.
LEMMA Logged ==
    ASSUME TypeOK, VersionsInOrder, LatestKnown, NEW s \in Site, StoreSite(s),
           cache' = cache, UNCHANGED <<secret, secretLog, secretCache>>
    PROVE  /\ LatestKnown'
           /\ site' \in siteLog' \/ (s = site /\ site' = site /\ siteLog' = siteLog)
<1>1. CASE s = site
  BY <1>1 DEF StoreSite, store, LatestKnown
<1>2. CASE s # site
  <2>1. site' = [s EXCEPT !.rv = site.rv + 1] /\ siteLog' = siteLog \union {site'}
    BY <1>2 DEF StoreSite
  <2>2. site.rv \in Nat /\ site'.rv = site.rv + 1
    BY <2>1 DEF TypeOK, Site
  <2>3. \A v \in siteLog : v.rv \in Nat /\ v.rv <= site.rv
    BY DEF TypeOK, Site, VersionsInOrder, NothingFromTheFuture, Versions
  <2> QED
    BY <2>1, <2>2, <2>3 DEF LatestKnown
<1> QED
  BY <1>1, <1>2

LEMMA LoggedByUpdate ==
    ASSUME TypeOK, VersionsInOrder, LatestKnown, NEW s \in Site, NEW out, UpdateSite(s, out),
           cache' = cache, UNCHANGED <<secret, secretLog, secretCache>>
    PROVE  LatestKnown'
<1>1. CASE StoreSite(s)
  BY <1>1, Logged
<1>2. CASE UNCHANGED store
  BY <1>2 DEF store, LatestKnown
<1> QED
  BY <1>1, <1>2 DEF UpdateSite

LEMMA SecretLogged ==
    ASSUME LatestKnown, NEW live, NEW owner, NEW pass, StoreSecret(live, owner, pass),
           UNCHANGED <<site, siteLog, cache>>
    PROVE  LatestKnown' /\ secretLog' # {}
  BY DEF LatestKnown, StoreSecret

\* A step that touches nothing but the site, or after which nothing is applied.
LEMMA HarmlessKeeps ==
    ASSUME ObjectsDone, PasswordDone,
           UNCHANGED <<workload, server, secret, secretLog>>,
           \/ local' = local /\ pc' = pc /\ cred' = cred /\ (queue => queue')
           \/ pc' \in Unapplied \ {"EnsureDatabase"} /\ (pc' = "ConfigMap" => local'.suspend)
    PROVE  ObjectsDone' /\ PasswordDone'
<1>1. CASE local' = local /\ pc' = pc /\ cred' = cred /\ (queue => queue')
  BY <1>1 DEF ObjectsDone, PasswordDone, Applied
<1>2. CASE pc' \in Unapplied \ {"EnsureDatabase"} /\ (pc' = "ConfigMap" => local'.suspend)
  <2>1. pc' \notin {"Ready", "Suspended", "Ingress", "Service", "Deployment", "EnsureDatabase"}
    BY <1>2 DEF Unapplied
  <2> QED
    BY <1>2, <2>1 DEF ObjectsDone, PasswordDone, Applied, Applying, Kinds
<1> QED
  BY <1>1, <1>2

\* With the key in the queue nothing else is due.
LEMMA Queued ==
    ASSUME PasswordDone, LatestKnown', queue', UNCHANGED <<pc, local, cred, server>>
    PROVE  QueueInv'
  BY DEF QueueInv, ObjectsDone, PasswordDone, Quiet

LEMMA Requeued == ASSUME LatestKnown', Requeue PROVE QueueInv'
  BY DEF Requeue, Idle, QueueInv, ObjectsDone, PasswordDone, Applied, Applying, Kinds, Quiet

\* A write to the site that changes it raises an event.
LEMMA SiteWritten ==
    ASSUME Ordered, QueueInv, NEW s \in Site, StoreSite(s),
           UNCHANGED <<cache, secret, secretLog, secretCache, workload, server, queue,
                       pc, local, cred>>
    PROVE  QueueInv'
<1>1. LatestKnown' /\ (site' \in siteLog' \/ (site' = site /\ siteLog' = siteLog))
  BY Logged DEF Ordered, QueueInv
<1>2. ObjectsDone' /\ PasswordDone'
  BY HarmlessKeeps DEF QueueInv
<1>3. CASE site' \in siteLog'
  BY <1>1, <1>2, <1>3 DEF QueueInv, Quiet
<1>4. CASE site' = site /\ siteLog' = siteLog
  BY <1>1, <1>2, <1>4 DEF QueueInv, Quiet, AsAsked, AccountReady
<1> QED
  BY <1>1, <1>3, <1>4

LEMMA ApiCallStores ==
    ASSUME TypeOK, ApiCall
    PROVE  /\ \E s \in Site : StoreSite(s)
           /\ UNCHANGED <<cache, secret, secretLog, secretCache, workload, server, queue,
                          pc, local, cred>>
<1>0. site \in Site /\ site.uid + 1 \in Nat /\ site.gen + 1 \in Nat
  BY DEF TypeOK, Site
<1>1. UNCHANGED <<cache, secret, secretLog, secretCache, workload, server, queue,
                  pc, local, cred>>
  BY DEF ApiCall, createSite, updateSite, setSuspend, updateSiteYAML, deleteSite, Edit,
         secrets, worker
<1>2. ASSUME NEW c \in Config, createSite(c) PROVE \E s \in Site : StoreSite(s)
  BY <1>0, <1>2, NewSiteType DEF createSite
<1>3. ASSUME NEW s \in Site, Edit(s) PROVE \E t \in Site : StoreSite(t)
  <2>1. [s EXCEPT !.gen = @ + 1] \in Site
    BY DEF Site
  <2> QED
    BY <1>3, <2>1 DEF Edit
<1>4. ASSUME NEW c \in Config, NEW b \in BOOLEAN
      PROVE  /\ [site EXCEPT !.cfg = c] \in Site /\ [site EXCEPT !.suspend = b] \in Site
             /\ [site EXCEPT !.cfg = c, !.suspend = b] \in Site
  BY <1>0 DEF Site
<1>5. ASSUME deleteSite PROVE \E s \in Site : StoreSite(s)
  BY <1>0, <1>5, DoomedType, GoneType DEF deleteSite
<1>6. ASSUME NEW c \in Config, updateSite(c) PROVE \E s \in Site : StoreSite(s)
  BY <1>3, <1>4, <1>6 DEF updateSite
<1>7. ASSUME NEW b \in BOOLEAN, setSuspend(b) PROVE \E s \in Site : StoreSite(s)
  <2>1. [site EXCEPT !.suspend = b] \in Site
    BY <1>0 DEF Site
  <2> QED
    BY <1>3, <1>7, <2>1 DEF setSuspend
<1>8. ASSUME NEW c \in Config, NEW b \in BOOLEAN, updateSiteYAML(c, b)
      PROVE  \E s \in Site : StoreSite(s)
  BY <1>3, <1>4, <1>8 DEF updateSiteYAML
<1> QED
  BY <1>1, <1>2, <1>5, <1>6, <1>7, <1>8 DEF ApiCall

LEMMA ApiCallQueue == ASSUME Ordered, QueueInv, ApiCall PROVE QueueInv'
  BY ApiCallStores, SiteWritten DEF Ordered

LEMMA ClusterQueue == ASSUME Ordered, SecretInOrder, QueueInv, Cluster PROVE QueueInv'
<1> USE DEF QueueInv
<1>1. CASE DeliverSite
  <2>1. PICK v \in siteLog : /\ cache' = v /\ siteLog' = {w \in siteLog : w.rv > v.rv}
                             /\ queue' /\ UNCHANGED <<site, secret, secretLog, secretCache,
                                                      pc, local, cred, server>>
    BY <1>1 DEF DeliverSite, secrets, worker
  <2>2. /\ site \in siteLog /\ site.rv \in Nat
        /\ \A w \in siteLog : w.rv \in Nat /\ w.rv <= site.rv
    BY DEF Ordered, TypeOK, Site, LatestKnown, VersionsInOrder, NothingFromTheFuture, Versions
  <2>3. CASE v.rv = site.rv
    <3>1. v = site /\ siteLog' = {}
      BY <2>1, <2>2, <2>3 DEF LatestKnown
    <3>2. LatestKnown'
      BY <2>1, <3>1 DEF LatestKnown
    <3> QED
      BY <2>1, <3>2, Queued
  <2>4. CASE v.rv # site.rv
    <3>1. site \in siteLog'
      BY <2>1, <2>2, <2>4
    <3>2. LatestKnown'
      BY <2>1, <3>1 DEF LatestKnown
    <3> QED
      BY <2>1, <3>2, Queued
  <2> QED
    BY <2>3, <2>4
<1>2. CASE DeliverSecret
  <2>1. PICK v \in secretLog : /\ secretCache' = v
                               /\ secretLog' = {w \in secretLog : w.rv > v.rv}
                               /\ queue' /\ UNCHANGED <<site, siteLog, cache, secret,
                                                        pc, local, cred, server>>
    BY <1>2 DEF DeliverSecret, store, worker
  <2>2. /\ secret \in secretLog /\ secret.rv \in Nat
        /\ \A w \in secretLog : w.rv \in Nat /\ w.rv <= secret.rv
    BY DEF Ordered, TypeOK, Secret, LatestKnown, SecretInOrder
  <2>3. v.rv = secret.rv => v = secret /\ secretLog' = {}
    BY <2>1, <2>2 DEF SecretInOrder
  <2>4. v.rv # secret.rv => secret \in secretLog'
    BY <2>1, <2>2
  <2>5. LatestKnown'
    BY <2>1, <2>3, <2>4 DEF LatestKnown
  <2> QED
    BY <2>1, <2>5, Queued
<1>3. CASE CollectSecret \/ TamperSecret
  <2>1. UNCHANGED <<site, siteLog, cache, workload, server, pc, local, cred, queue>>
    BY <1>3 DEF CollectSecret, TamperSecret, store, worker
  <2>2. LatestKnown' /\ secretLog' # {}
    BY <1>3, <2>1, SecretLogged DEF CollectSecret, TamperSecret
  <2>3. ObjectsDone' /\ PasswordDone'
    BY <2>1, <2>2 DEF ObjectsDone, PasswordDone, Applied
  <2> QED
    BY <2>2, <2>3 DEF Quiet
<1>4. ASSUME queue', UNCHANGED <<store, cache, secrets, server, worker>>
      PROVE  QueueInv'
  BY <1>4, Queued DEF store, secrets, worker, LatestKnown
<1>5. ASSUME NEW k \in Kinds, CollectObject(k) \/ TamperObject(k) PROVE QueueInv'
  BY <1>4, <1>5 DEF CollectObject, TamperObject
<1>6. CASE WakeUp
  BY <1>4, <1>6 DEF WakeUp
<1> QED
  BY <1>1, <1>2, <1>3, <1>5, <1>6 DEF Cluster

LEMMA CrashQueue == ASSUME QueueInv, Crash PROVE QueueInv'
<1>1. Requeue /\ LatestKnown'
  BY DEF Crash, Requeue, LatestKnown
<1> QED
  BY <1>1, Requeued

LEMMA ReconcileQueue == ASSUME Ordered, QueueInv, Reconcile PROVE QueueInv'
<1> USE DEF QueueInv
<1>1. UNCHANGED <<site, siteLog, cache, secret, secretLog, secretCache, workload, server>>
  BY DEF Reconcile, store, secrets
<1>2. LatestKnown'
  BY <1>1 DEF LatestKnown
<1>3. CASE cache.live /\ (cache.deleting => cache.finalizer)
  <2>1. local' = cache /\ pc' = FirstCall(cache)
    BY <1>3 DEF Reconcile
  <2>2. /\ pc' \in Unapplied \ {"EnsureDatabase", "idle"}
        /\ pc' = "ConfigMap" => local'.suspend
    BY <2>1 DEF FirstCall, AfterFinalizer, Unapplied
  <2> QED
    BY <1>1, <1>2, <2>2, HarmlessKeeps DEF Quiet
<1>4. CASE ~(cache.live /\ (cache.deleting => cache.finalizer))
  <2>1. pc' = "idle"
    BY <1>4 DEF Reconcile, worker
  <2>2. ObjectsDone' /\ PasswordDone'
    BY <1>1, <2>1, HarmlessKeeps DEF Unapplied
  <2>3. ~(siteLog = {} /\ site.live)
    BY <1>4 DEF LatestKnown, Ordered, WorkerOnTrack
  <2> QED
    BY <1>1, <1>2, <2>2, <2>3 DEF Quiet
<1> QED
  BY <1>3, <1>4

LEMMA addFinalizerQueue == ASSUME Ordered, QueueInv, addFinalizer PROVE QueueInv'
<1> USE DEF QueueInv
<1> DEFINE s == [local EXCEPT !.finalizer = TRUE]
<1>1. PICK out \in Outcome :
        /\ UpdateSite(s, out)
        /\ IF Accepted(out) THEN local' = site' /\ pc' = AfterFinalizer(local)
                            ELSE Requeue
  BY DEF addFinalizer
<1>2. /\ pc = "addFinalizer" /\ local \in Site
      /\ UNCHANGED <<cache, secret, secretLog, secretCache, workload, server>>
  BY DEF addFinalizer, secrets, Ordered, TypeOK
<1>3. s \in Site /\ s.suspend = local.suspend
  BY <1>2 DEF Site
<1> HIDE DEF s
<1>4. LatestKnown'
  BY <1>1, <1>2, <1>3, LoggedByUpdate DEF Ordered
<1>5. CASE Accepted(out)
  <2>1. local'.suspend = local.suspend
    BY <1>1, <1>3, <1>5, Stored DEF Accepted, UpdateSite, Ordered
  <2>2. pc' \in Unapplied \ {"EnsureDatabase", "idle"} /\ (pc' = "ConfigMap" => local'.suspend)
    BY <1>1, <1>5, <2>1 DEF AfterFinalizer, Unapplied
  <2> QED
    BY <1>2, <1>4, <2>2, HarmlessKeeps DEF Quiet
<1>6. CASE ~Accepted(out)
  BY <1>1, <1>4, <1>6, Requeued
<1> QED
  BY <1>5, <1>6

LEMMA ensureSecretQueue == ASSUME QueueInv, ensureSecret PROVE QueueInv'
<1> USE DEF QueueInv
<1>1. /\ UNCHANGED <<site, siteLog, cache, secretCache, workload, server, queue, local>>
      /\ pc = "ensureSecret"
  BY DEF ensureSecret, KeepSecret, WriteSecret, Goto, store
<1>2. pc' \in {"EnsureDatabase", "Error"}
  BY DEF ensureSecret, KeepSecret, WriteSecret, Goto
<1>3. ObjectsDone'
  BY <1>2 DEF ObjectsDone, Applied
<1>4. LatestKnown'
  <2>1. CASE UNCHANGED <<secret, secretLog>>
    BY <1>1, <2>1 DEF LatestKnown
  <2>2. CASE StoreSecret(TRUE, local.uid, issued + 1)
    BY <1>1, <2>2, SecretLogged
  <2> QED
    BY <2>1, <2>2 DEF ensureSecret, KeepSecret, WriteSecret
<1>5. PasswordDone'
  <2>1. ASSUME pc' = "EnsureDatabase"
        PROVE  secretLog' # {} \/ (secret'.live /\ secret'.pass = cred')
    <3>1. CASE KeepSecret
      BY <3>1 DEF KeepSecret, LatestKnown
    <3>2. CASE WriteSecret
      BY <1>1, <2>1, <3>2, SecretLogged DEF WriteSecret, Goto
    <3> QED
      BY <3>1, <3>2 DEF ensureSecret
  <2> QED
    BY <1>2, <2>1 DEF PasswordDone, Applying, Kinds
<1> QED
  BY <1>2, <1>3, <1>4, <1>5 DEF Quiet

LEMMA ProvisionQueue == ASSUME Ordered, QueueInv, ProvisionDatabase PROVE QueueInv'
<1> USE DEF QueueInv
<1>1. /\ UNCHANGED <<site, siteLog, cache, secret, secretLog, secretCache, workload, queue,
                     local, cred>>
      /\ pc = "EnsureDatabase" /\ pc' \in {"ConfigMap", "Provisioning"}
  BY DEF ProvisionDatabase, Goto, store, secrets
<1>2. LatestKnown' /\ ObjectsDone' /\ ~Quiet'
  BY <1>1 DEF LatestKnown, ObjectsDone, Applied, Quiet
<1>3. PasswordDone'
  <2>1. ASSUME pc' = "ConfigMap"
        PROVE  server'.accounts[DatabaseUser[local.cfg]] = cred
    <3>1. local.cfg \in Config /\ server \in Server /\ EnsureStatements = 5
      BY <1>1 DEF Ordered, TypeOK, Site, EnsureStatements
    <3>2. DatabaseUser[local.cfg] \in User
      BY <3>1, NamesAssumption
    <3>3. server' = EnsureDatabase(server, DatabaseName[local.cfg],
                                   DatabaseUser[local.cfg], cred, EnsureStatements)
      BY <2>1 DEF ProvisionDatabase, Goto
    <3>4. /\ server.accounts \in [User -> Nat]
          /\ server'.accounts = [server.accounts EXCEPT ![DatabaseUser[local.cfg]] = cred]
      BY <3>1, <3>3 DEF EnsureDatabase, Server
    <3> QED
      BY <3>2, <3>4
  <2> QED
    BY <1>1, <2>1 DEF PasswordDone, Applying, Kinds
<1> QED
  BY <1>2, <1>3

LEMMA applyQueue == ASSUME Ordered, QueueInv, NEW k \in Kinds, apply(k) PROVE QueueInv'
<1> USE DEF QueueInv
<1>1. PICK out \in Outcome :
        LET object == IF out = "refused" THEN workload[k] ELSE Desired(local)[k]
        IN  /\ workload' = [workload EXCEPT ![k] = object]
            /\ IF out = "ok"
               THEN Goto(NextCall(k)) /\ queue' = (queue \/ object # workload[k])
               ELSE IF local.suspend
               THEN Requeue
               ELSE Goto("Error") /\ queue' = (queue \/ object # workload[k])
  BY DEF apply
<1>2. /\ UNCHANGED <<site, siteLog, cache, secret, secretLog, secretCache, server>> /\ pc = k
  BY DEF apply, store, secrets
<1>3. LatestKnown'
  BY <1>2 DEF LatestKnown
<1>4. CASE Requeue
  BY <1>3, <1>4, Requeued
<1>5. CASE pc' = "Error"
  <2>1. ObjectsDone' /\ PasswordDone' /\ ~Quiet'
    BY <1>5 DEF ObjectsDone, PasswordDone, Applied, Applying, Kinds, Quiet
  <2> QED
    BY <1>3, <2>1
<1>6. CASE out = "ok"
  <2>1. /\ pc' = NextCall(k) /\ UNCHANGED <<local, cred>> /\ (queue => queue')
        /\ workload'[k] = Desired(local)[k] /\ \A j \in Kinds \ {k} : workload'[j] = workload[j]
    BY <1>1, <1>6 DEF Goto, Ordered, TypeOK
  <2>2. /\ k = "ConfigMap" => NextCall(k) = "Deployment"
        /\ k = "Deployment" => NextCall(k) = "Service"
        /\ k = "Service" => NextCall(k) = "Ingress"
        /\ k = "Ingress" => NextCall(k) = IF local.suspend THEN "Suspended" ELSE "Ready"
        /\ k \in {"ConfigMap", "Deployment", "Service", "Ingress"}
    BY DEF NextCall, Kinds
  <2>3. ASSUME NEW j \in Kinds, Applied(j)'
        PROVE  queue' \/ workload'[j] = Desired(local)[j]
    <3>1. j = k \/ (Applied(j) /\ j # k)
      BY <1>2, <2>1, <2>2, <2>3 DEF Applied, Kinds
    <3> QED
      BY <2>1, <3>1 DEF ObjectsDone
  <2>4. ObjectsDone'
    BY <2>1, <2>3 DEF ObjectsDone
  <2>5. PasswordDone' /\ ~Quiet'
    BY <1>2, <2>1, <2>2 DEF PasswordDone, Applying, Kinds, Quiet
  <2> QED
    BY <1>3, <2>4, <2>5
<1> QED
  BY <1>1, <1>4, <1>5, <1>6 DEF Goto

\* The status update that ends a reconcile: the key is done only when the update
\* changed nothing, that is, when the status was there already.
LEMMA setPhaseQueue ==
    ASSUME Ordered, StatusInv, QueueInv, setPhase
    PROVE  QueueInv'
<1> USE DEF QueueInv
<1> DEFINE s == [local EXCEPT !.phase = pc, !.condGen = local.gen,
                   !.observed = IF pc = "Ready" THEN local.gen ELSE @]
<1>1. PICK out \in Outcome :
        /\ UpdateSite(s, out)
        /\ IF pc \in {"Ready", "Suspended"} /\ Accepted(out) THEN Done ELSE Requeue
  BY DEF setPhase
<1>2. /\ pc \in SettingPhase /\ local \in Site /\ local.live /\ pc' = "idle"
      /\ UNCHANGED <<cache, secret, secretLog, secretCache, workload, server>>
  BY DEF setPhase, Done, Requeue, Idle, secrets, Ordered, TypeOK, SettingPhase
<1>3. /\ s \in Site /\ s.phase = pc /\ s.condGen = local.gen /\ s.gen = local.gen
      /\ pc = "Ready" => s.observed = local.gen
  BY <1>2 DEF Site, SettingPhase, Phases
<1> HIDE DEF s
<1>4. LatestKnown'
  BY <1>1, <1>2, <1>3, LoggedByUpdate DEF Ordered
<1>5. CASE Requeue
  BY <1>4, <1>5, Requeued
<1>6. CASE pc \in {"Ready", "Suspended"} /\ Accepted(out) /\ Done
  <2>1. ObjectsDone' /\ PasswordDone'
    BY <1>2, HarmlessKeeps DEF Unapplied
  <2>2. StoreSite(s) /\ local = site
    BY <1>1, <1>2, <1>6 DEF Accepted, UpdateSite, Ordered, Current, VersionsInOrder,
       NothingFromTheFuture, Versions
  <2>3. ASSUME Quiet' PROVE AsAsked'
    <3>1. ~queue /\ secretLog = {}
      BY <1>2, <1>6, <2>3 DEF Quiet, Done
    <3>2. s = site /\ site' = site
      BY <1>2, <1>3, <2>2, <2>3, Logged DEF Quiet, Ordered
    <3>3. site.phase = pc /\ site.condGen = site.gen /\ (pc = "Ready" => site.observed = site.gen)
      BY <1>3, <2>2, <3>2
    <3>4. ~site.deleting
      BY <1>2, <2>2 DEF Ordered, WorkerOnTrack, Held
    <3>5. workload = Desired(site)
      <4>1. \A k \in Kinds : workload[k] = Desired(local)[k]
        BY <1>6, <3>1 DEF ObjectsDone, Applied
      <4> QED
        BY <2>2, <4>1 DEF Ordered, TypeOK, Desired
    <3>6. ASSUME ~site.suspend
          PROVE  pc = "Ready" /\ secret.live /\ AccountReady(site, secret.pass)
      <4>1. pc = "Ready"
        BY <1>6, <2>2, <3>6 DEF PasswordDone
      <4>2. secret.live /\ secret.pass = cred /\ server.accounts[DatabaseUser[local.cfg]] = cred
        BY <2>2, <3>1, <3>6, <4>1 DEF PasswordDone
      <4>3. Account(site)
        BY <2>2, <3>6, <4>1 DEF StatusInv, ServerOnTrack
      <4> QED
        BY <2>2, <4>1, <4>2, <4>3 DEF Account, AccountReady
    <3>7. site.suspend => pc = "Suspended"
      BY <1>6, <2>2 DEF StatusInv, ServerOnTrack
    <3> QED
      BY <1>2, <3>2, <3>3, <3>4, <3>5, <3>6, <3>7 DEF AsAsked, AccountReady
  <2> QED
    BY <1>4, <2>1, <2>3
<1> QED
  BY <1>1, <1>5, <1>6

LEMMA DropDataQueue == ASSUME QueueInv, DropData PROVE QueueInv'
<1> USE DEF QueueInv
<1>1. UNCHANGED <<site, siteLog, cache, secret, secretLog, secretCache, workload>>
  BY DEF DropData, store, secrets
<1>2. LatestKnown'
  BY <1>1 DEF LatestKnown
<1>3. CASE pc' = "removeFinalizer"
  <2>1. ObjectsDone' /\ PasswordDone' /\ ~Quiet'
    BY <1>3 DEF ObjectsDone, PasswordDone, Applied, Applying, Kinds, Quiet
  <2> QED
    BY <1>2, <2>1
<1>4. CASE Requeue
  BY <1>2, <1>4, Requeued
<1> QED
  BY <1>3, <1>4 DEF DropData, Goto

LEMMA removeFinalizerQueue == ASSUME Ordered, QueueInv, removeFinalizer PROVE QueueInv'
<1> USE DEF QueueInv
<1>1. PICK out \in Outcome : /\ UpdateSite(Gone(local), out)
                             /\ IF Accepted(out) THEN Done ELSE Requeue
  BY DEF removeFinalizer
<1>2. /\ local \in Site
      /\ UNCHANGED <<cache, secret, secretLog, secretCache, workload, server>>
  BY DEF removeFinalizer, secrets, Ordered, TypeOK
<1>3. Gone(local) \in Site /\ ~Gone(local).live
  <2>1. Gone(local) \in Site
    BY <1>2, GoneType
  <2> QED
    BY ONLY <1>2, <2>1 DEF Gone, Site
<1>4. LatestKnown'
  BY <1>1, <1>2, <1>3, LoggedByUpdate DEF Ordered
<1>5. CASE Accepted(out)
  <2>1. StoreSite(Gone(local)) /\ Done
    BY <1>1, <1>5 DEF Accepted, UpdateSite
  <2>2. ~site'.live
    BY <1>3, <2>1, Stored DEF Ordered
  <2>3. ObjectsDone' /\ PasswordDone'
    BY <1>2, <2>1, HarmlessKeeps DEF Done, Idle, Unapplied
  <2> QED
    BY <1>4, <2>2, <2>3
<1>6. CASE ~Accepted(out)
  BY <1>1, <1>4, <1>6, Requeued
<1> QED
  BY <1>5, <1>6

LEMMA InitQueue == Init => QueueInv
  BY Nobody DEF Init, QueueInv, LatestKnown, ObjectsDone, PasswordDone, Applied, Applying, Kinds

LEMMA QueueStep ==
    /\ TypeOK /\ CustodyInv /\ StatusInv /\ SecretInOrder /\ QueueInv /\ [Next]_vars
    => QueueInv'
<1> SUFFICES ASSUME TypeOK, CustodyInv, StatusInv, SecretInOrder, QueueInv, [Next]_vars
             PROVE  QueueInv'
  OBVIOUS
<1>1. Ordered /\ ServerInUse
  BY DEF Ordered, CustodyInv
<1>2. CASE Worker
  BY <1>1, <1>2, ReconcileQueue, addFinalizerQueue, ensureSecretQueue, ProvisionQueue,
     applyQueue, setPhaseQueue, DropDataQueue, removeFinalizerQueue DEF Worker
<1>3. CASE UNCHANGED vars
  BY <1>3 DEF vars, secrets, worker, QueueInv, LatestKnown, ObjectsDone, PasswordDone,
     Applied, Quiet, AsAsked, AccountReady
<1> QED
  BY <1>1, <1>2, <1>3, ApiCallQueue, ClusterQueue, CrashQueue DEF Next

\* The work queue never goes empty too early: when nothing is left to do the site
\* has what it asks for, MySQL knows the password in its Secret, and a deleted
\* site has left nothing (every error path of Reconcile keeps the key).
THEOREM NothingForgotten == Spec => []SettledIsDone
<1>1. Init => SecretInOrder
  BY DEF Init, SecretInOrder, NoSecret
<1>2. QueueInv => SettledIsDone
  <2> SUFFICES ASSUME QueueInv, Settled
               PROVE  /\ site.live => AsAsked
                      /\ ~site.live => ~secret.live /\ \A k \in Kinds : ~workload[k].live
    BY DEF SettledIsDone, AsAsked
  <2> QED
    BY DEF QueueInv, Settled, Quiet, Ownerless
<1> QED
  BY <1>1, <1>2, InitQueue, SecretStep, QueueStep, StatusInvariant, PTL DEF Spec
=============================================================================
