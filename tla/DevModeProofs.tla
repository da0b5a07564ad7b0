---------------------------- MODULE DevModeProofs ----------------------------
(***************************************************************************)
(* A request of DevMode that runs by itself leaves the mock cluster as the *)
(* spec wants it and says so, for any number of requests before it, of     *)
(* requests beside each other, failures and restarts.                      *)
(***************************************************************************)
EXTENDS DevMode, TLAPS

-----------------------------------------------------------------------------
(* Types                                                                    *)

LEMMA OpType ==
    ASSUME NEW op \in Op \union {NoOp}
    PROVE  /\ op.cfg \in Config \union {NoConfig} /\ op.suspend \in BOOLEAN
           /\ op.handler \in {"createSite", "updateSite", "updateSiteYAML"} => op.cfg \in Config
           /\ op.handler # "none" => op \in Op
<1>1. CASE op = NoOp
  BY <1>1 DEF NoOp
<1>2. CASE op \in [handler : {"createSite", "updateSite"}, cfg : Config, suspend : {FALSE}]
  BY <1>2 DEF Op
<1>3. CASE op \in [handler : {"updateSiteYAML"}, cfg : Config, suspend : BOOLEAN]
  BY <1>3 DEF Op
<1>4. CASE op \in [handler : {"setSuspend"}, cfg : {NoConfig}, suspend : BOOLEAN]
  BY <1>4 DEF Op
<1>5. CASE op \in [handler : {"deleteSite"}, cfg : {NoConfig}, suspend : {FALSE}]
  BY <1>5 DEF Op
<1> QED
  BY <1>1, <1>2, <1>3, <1>4, <1>5 DEF Op

LEMMA NoSiteType == NoSite \in Site /\ ~NoSite.live /\ ~NoSite.deleting
  BY DEF NoSite, Site, Phases

LEMMA IdleType == IdleRequest \in RequestRecord
  BY NoSiteType DEF IdleRequest, RequestRecord, Calls

\* What the fake client stores is a site.
LEMMA UpdatedType ==
    ASSUME NEW s \in Site, site \in Site
    PROVE  /\ Updated(s) \in Site
           /\ ~s.deleting => ~Updated(s).deleting
<1>1. site.rv + 1 \in Nat /\ site.phase \in Phases
  BY DEF Site
<1>2. [s EXCEPT !.rv = site.rv + 1, !.phase = site.phase] \in Site
  BY <1>1 DEF Site
<1>3. [s EXCEPT !.rv = site.rv + 1, !.phase = site.phase].deleting = s.deleting
  BY DEF Site
<1> QED
  BY <1>2, <1>3, NoSiteType DEF Updated

LEMMA EditedType ==
    ASSUME NEW s \in Site, NEW op \in Op,
           op.handler \in {"updateSite", "updateSiteYAML", "setSuspend"}
    PROVE  Edited(op, s) \in Site
<1>1. /\ op.suspend \in BOOLEAN
      /\ op.handler \in {"createSite", "updateSite", "updateSiteYAML"} => op.cfg \in Config
  BY OpType
<1>2. \A b \in BOOLEAN : [s EXCEPT !.suspend = b] \in Site
  BY DEF Site
<1>3. \A c \in Config : [s EXCEPT !.cfg = c] \in Site
  BY DEF Site
<1>4. \A c \in Config, b \in BOOLEAN : [s EXCEPT !.cfg = c, !.suspend = b] \in Site
  BY DEF Site
<1> QED
  BY <1>1, <1>2, <1>3, <1>4 DEF Edited

LEMMA DeletedType == ASSUME site \in Site PROVE Deleted \in Site
<1>1. site.rv + 1 \in Nat
  BY DEF Site
<1> QED
  BY <1>1, NoSiteType DEF Deleted, Site

LEMMA DesiredType ==
    ASSUME NEW s \in Site, NEW k \in Kinds
    PROVE  Desired(s)[k] \in Object
  BY DEF Desired, Kinds, Object, Site, DesiredPHPConfigMap, DesiredDeployment,
         DesiredService, DesiredIngress

\* A reconcile of a site that is being deleted brings nothing up.
NotDoomed(x) == x.pc \in Provisioning => ~x.local.deleting

Requests == /\ req \in [Request -> RequestRecord]
            /\ \A r \in Request : NotDoomed(req[r])

\* The request r goes on as x.
LEMMA GoesOn ==
    ASSUME Requests, NEW r \in Request, NEW x \in RequestRecord, NotDoomed(x),
           req' = [req EXCEPT ![r] = x]
    PROVE  Requests'
  BY DEF Requests, NotDoomed

LEMMA Going ==
    ASSUME Requests, NEW r \in Request, NEW next \in Calls, Goto(r, next),
           next \in Provisioning => req[r].pc \in Provisioning
    PROVE  Requests'
<1> DEFINE x == [req[r] EXCEPT !.pc = next]
<1>1. x \in RequestRecord /\ req' = [req EXCEPT ![r] = x]
  BY DEF Requests, RequestRecord, Goto
<1>2. x.pc = next /\ x.local = req[r].local
  BY DEF Requests, RequestRecord
<1>3. NotDoomed(x)
  BY <1>2 DEF Requests, NotDoomed
<1> HIDE DEF x
<1> QED
  BY <1>1, <1>3, GoesOn

LEMMA Finished ==
    ASSUME Requests, NEW r \in Request, Finish(r)
    PROVE  Requests'
<1>1. NotDoomed(IdleRequest)
  BY DEF NotDoomed, IdleRequest, Provisioning, Kinds
<1> QED
  BY <1>1, IdleType, GoesOn DEF Finish

LEMMA SpendType ==
    ASSUME TypeOK, NEW what \in {"requests", "faults", "restarts"}, Spend(what)
    PROVE  budget' \in [{"requests", "faults", "restarts"} -> Nat]
  BY DEF TypeOK, Spend

LEMMA InitType == Init => TypeOK
<1> SUFFICES ASSUME Init PROVE TypeOK
  OBVIOUS
<1>1. workload \in [Kinds -> [rv : Nat, object : Object]]
  BY DEF Init, NoObject, Object
<1>2. req \in [Request -> RequestRecord]
  BY IdleType DEF Init
<1>3. \A r \in Request : req[r].pc = "idle"
  BY DEF Init, IdleRequest
<1>4. budget \in [{"requests", "faults", "restarts"} -> Nat]
  BY DevBoundsAssumption DEF Init
<1> QED
  BY <1>1, <1>2, <1>3, <1>4, NoSiteType DEF Init, TypeOK, Provisioning, Kinds

LEMMA HandlerType ==
    ASSUME TypeOK, NEW r \in Request, Handlers(r)
    PROVE  TypeOK'
<1>0. /\ Requests /\ site \in Site /\ req[r] \in RequestRecord
      /\ req[r].op \in Op \union {NoOp} /\ req[r].copy \in Site
  BY DEF Requests, TypeOK, NotDoomed, RequestRecord
<1>a. (Requests /\ site \in Site)' /\ UNCHANGED <<secret, workload, file>>
      /\ budget' \in [{"requests", "faults", "restarts"} -> Nat] => TypeOK'
  BY DEF TypeOK, Requests, NotDoomed
<1>b. UNCHANGED budget => budget' \in [{"requests", "faults", "restarts"} -> Nat]
  BY DEF TypeOK
<1>1. ASSUME NEW op \in Op, Begin(r, op) PROVE TypeOK'
  <2> DEFINE others == {q \in Request : q # r /\ req[q].pc # "idle"}
             x == [IdleRequest EXCEPT !.op = op, !.alone = others = {},
                        !.pc = IF op.handler = "createSite" THEN "write" ELSE "fetch"]
  <2>1. x \in RequestRecord /\ x.pc \notin Provisioning
    <3>1. (others = {}) \in BOOLEAN
      OBVIOUS
    <3> HIDE DEF others
    <3> QED
      BY <3>1, IdleType DEF RequestRecord, Calls, Provisioning, Kinds
  <2>2. \A q \in Request : /\ [req[q] EXCEPT !.alone = FALSE] \in RequestRecord
                           /\ [req[q] EXCEPT !.alone = FALSE].pc = req[q].pc
                           /\ [req[q] EXCEPT !.alone = FALSE].local = req[q].local
    BY <1>0 DEF Requests, RequestRecord
  <2>3. req' = [q \in Request |->
              IF q = r THEN x
              ELSE IF q \in others THEN [req[q] EXCEPT !.alone = FALSE] ELSE req[q]]
    BY <1>1 DEF Begin
  <2>4. Requests'
    <3> HIDE DEF x, others
    <3>1. \A q \in Request : req'[q] \in RequestRecord /\ NotDoomed(req'[q])
      BY <1>0, <2>1, <2>2, <2>3 DEF Requests, NotDoomed
    <3>2. req' \in [Request -> RequestRecord]
      BY <2>3, <3>1
    <3> QED
      BY <3>1, <3>2 DEF Requests
  <2> QED
    BY <1>0, <1>1, <1>a, <2>4, SpendType DEF Begin, cluster
<1>2. CASE fetch(r)
  <2> DEFINE x == [req[r] EXCEPT !.copy = site, !.pc = "write"]
  <2>1. x \in RequestRecord /\ NotDoomed(x)
    BY <1>0 DEF RequestRecord, Calls, NotDoomed, Provisioning, Kinds
  <2>2. req' = [req EXCEPT ![r] = x] \/ Finish(r)
    BY <1>0, <1>2 DEF fetch, Requests
  <2> QED
    BY <1>0, <1>2, <1>a, <1>b, <2>1, <2>2, GoesOn, Finished DEF fetch, cluster
<1>3. CASE createSite(r)
  <2> DEFINE s == [NoSite EXCEPT !.live = TRUE, !.rv = 1, !.cfg = req[r].op.cfg]
             x == [req[r] EXCEPT !.copy = s, !.pc = "Reconcile"]
  <2>1. req[r].op.cfg \in Config
    BY <1>0, <1>3, OpType DEF createSite
  <2>2. s \in Site
    BY <2>1 DEF NoSite, Site, Phases
  <2> HIDE DEF s
  <2>3. x \in RequestRecord /\ NotDoomed(x)
    BY <1>0, <2>2 DEF RequestRecord, Calls, NotDoomed, Provisioning, Kinds
  <2>4. \/ Finish(r) /\ UNCHANGED site
        \/ site' = s /\ req' = [req EXCEPT ![r] = x]
    <3>1. CASE site.live
      BY <1>3, <3>1 DEF createSite
    <3>2. CASE ~site.live
      <4>1. site' = s
        BY <1>3, <3>2 DEF createSite, s
      <4>2. req' = [req EXCEPT ![r].copy = site', ![r].pc = "Reconcile"]
        BY <1>3, <3>2 DEF createSite
      <4> QED
        BY <1>0, <4>1, <4>2 DEF Requests
    <3> QED
      BY <3>1, <3>2
  <2> QED
    BY <1>0, <1>3, <1>a, <1>b, <2>2, <2>3, <2>4, GoesOn, Finished DEF createSite
<1>4. CASE updateSite(r)
  <2> DEFINE s == Updated(Edited(req[r].op, req[r].copy))
             x == [req[r] EXCEPT !.copy = s, !.pc = "Reconcile"]
  <2>1. CASE ~Updatable(req[r].copy)
    BY <1>0, <1>4, <1>a, <1>b, <2>1, Finished DEF updateSite
  <2>2. CASE Updatable(req[r].copy)
    <3>1. req[r].op \in Op /\ req[r].op.handler \in {"updateSite", "updateSiteYAML", "setSuspend"}
      BY <1>0, <1>4, OpType DEF updateSite
    <3>2. Edited(req[r].op, req[r].copy) \in Site
      BY <1>0, <3>1, EditedType
    <3>3. s \in Site
      BY <1>0, <3>2, UpdatedType
    <3>4. site' = s /\ req' = [req EXCEPT ![r] = x]
      BY <1>0, <1>4, <2>2 DEF updateSite, Requests
    <3> HIDE DEF s
    <3>5. x \in RequestRecord /\ NotDoomed(x)
      BY <1>0, <3>3 DEF RequestRecord, Calls, NotDoomed, Provisioning, Kinds
    <3> QED
      BY <1>0, <1>4, <1>a, <1>b, <3>3, <3>4, <3>5, GoesOn DEF updateSite
  <2> QED
    BY <2>1, <2>2
<1>5. CASE deleteSite(r)
  <2>1. "Reconcile" \in Calls /\ "Reconcile" \notin Provisioning
    BY DEF Calls, Provisioning, Kinds
  <2>2. Requests' /\ site' \in Site
    BY <1>0, <1>5, <2>1, Going, Finished, DeletedType DEF deleteSite
  <2> QED
    BY <1>5, <1>a, <1>b, <2>2 DEF deleteSite
<1>6. CASE refresh(r)
  <2> DEFINE s == IF site.live /\ req[r].op.handler # "deleteSite" THEN site ELSE req[r].copy
             x == [req[r] EXCEPT !.pc = "answer", !.copy = s]
  <2>1. x \in RequestRecord /\ NotDoomed(x)
    BY <1>0 DEF RequestRecord, Calls, NotDoomed, Provisioning, Kinds
  <2>2. req' = [req EXCEPT ![r] = x]
    BY <1>0, <1>6 DEF refresh, Requests
  <2> QED
    BY <1>0, <1>6, <1>a, <1>b, <2>1, <2>2, GoesOn DEF refresh, cluster
<1>7. CASE answer(r)
  BY <1>0, <1>7, <1>a, <1>b, Finished DEF answer, cluster
<1> QED
  BY <1>1, <1>2, <1>3, <1>4, <1>5, <1>6, <1>7 DEF Handlers

LEMMA ReconcilerType ==
    ASSUME TypeOK, NEW r \in Request, Reconciler(r)
    PROVE  TypeOK'
<1>0. /\ Requests /\ site \in Site /\ req[r] \in RequestRecord /\ req[r].local \in Site
      /\ NotDoomed(req[r])
  BY DEF Requests, TypeOK, NotDoomed, RequestRecord
<1>a. (Requests /\ site \in Site)' /\ UNCHANGED <<secret, workload, file, budget>> => TypeOK'
  BY DEF TypeOK, Requests, NotDoomed
<1>1. CASE Reconcile(r)
  <2> DEFINE x == [req[r] EXCEPT !.local = site, !.pc = FirstCall(site)]
  <2>1. FirstCall(site) \in Calls
    BY DEF FirstCall, AfterFinalizer, Calls, Provisioning, Kinds
  <2>2. FirstCall(site) \in Provisioning => ~site.deleting
    BY DEF FirstCall, Provisioning, Kinds
  <2>3. x \in RequestRecord /\ x.pc = FirstCall(site) /\ x.local = site
    BY <1>0, <2>1 DEF RequestRecord
  <2>4. NotDoomed(x)
    BY <2>2, <2>3 DEF NotDoomed
  <2>5. CASE site.live
    <3>1. req' = [req EXCEPT ![r] = x]
      BY <1>0, <1>1, <2>5 DEF Reconcile, Requests
    <3> HIDE DEF x
    <3> QED
      BY <1>0, <1>1, <1>a, <2>3, <2>4, <3>1, GoesOn DEF Reconcile, cluster
  <2>6. CASE ~site.live
    <3>1. "refresh" \in Calls /\ "refresh" \notin Provisioning
      BY DEF Calls, Provisioning, Kinds
    <3> QED
      BY <1>0, <1>1, <1>a, <2>6, <3>1, Going DEF Reconcile, cluster
  <2> QED
    BY <2>5, <2>6
<1>2. CASE addFinalizer(r)
  <2> DEFINE s == [req[r].local EXCEPT !.finalizer = TRUE]
             x == [req[r] EXCEPT !.local = site', !.pc = AfterFinalizer(site')]
  <2>1. ~req[r].local.deleting
    BY <1>0, <1>2 DEF addFinalizer, NotDoomed, Provisioning
  <2>2. s \in Site /\ ~s.deleting
    BY <1>0, <2>1 DEF Site
  <2>3. Updated(s) \in Site /\ ~Updated(s).deleting
    BY <1>0, <2>2, UpdatedType
  <2> HIDE DEF s
  <2>4. CASE Updatable(req[r].local)
    <3>1. site' = Updated(s) /\ req' = [req EXCEPT ![r] = x]
      BY <1>0, <1>2, <2>4 DEF addFinalizer, Requests, s
    <3>2. x \in RequestRecord /\ x.local = site'
      BY <1>0, <2>3, <3>1
         DEF RequestRecord, AfterFinalizer, Calls, Provisioning, Kinds
    <3>3. NotDoomed(x)
      BY <2>3, <3>1, <3>2 DEF NotDoomed
    <3> HIDE DEF x
    <3> QED
      BY <1>0, <1>2, <1>a, <2>3, <3>1, <3>2, <3>3, GoesOn DEF addFinalizer
  <2>5. CASE ~Updatable(req[r].local)
    <3>1. "refresh" \in Calls /\ "refresh" \notin Provisioning
      BY DEF Calls, Provisioning, Kinds
    <3> QED
      BY <1>0, <1>2, <1>a, <2>5, <3>1, Going DEF addFinalizer
  <2> QED
    BY <2>4, <2>5
<1>3. CASE ensureSecret(r)
  <2> DEFINE next == IF secret THEN "EnsureDatabase" ELSE "createSecret"
  <2>1. next \in Calls /\ req[r].pc \in Provisioning
    BY <1>3 DEF ensureSecret, Calls, Provisioning
  <2>2. Goto(r, next)
    BY <1>3 DEF ensureSecret
  <2>3. Requests'
    BY <1>0, <2>1, <2>2, Going
  <2> QED
    BY <1>0, <1>3, <1>a, <2>3 DEF ensureSecret, cluster
<1>4. CASE createSecret(r)
  <2> DEFINE next == IF secret THEN "Error" ELSE "EnsureDatabase"
  <2>1. next \in Calls /\ req[r].pc \in Provisioning
    BY <1>4 DEF createSecret, Calls, Provisioning, SettingPhase, Phases
  <2>2. Goto(r, next) /\ secret' = TRUE
    BY <1>4 DEF createSecret
  <2>3. Requests'
    BY <1>0, <2>1, <2>2, Going
  <2> QED
    BY <1>4, <2>2, <2>3 DEF createSecret, TypeOK, Requests, NotDoomed
<1>5. CASE ProvisionDatabase(r)
  <2>1. req[r].pc = "EnsureDatabase" /\ UNCHANGED cluster
    BY <1>5 DEF ProvisionDatabase
  <2>2. CASE /\ file' = TRUE /\ Goto(r, "ConfigMap") /\ UNCHANGED budget
    <3>1. Requests'
      <4>1. "ConfigMap" \in Calls /\ req[r].pc \in Provisioning
        BY <2>1 DEF Calls, Provisioning, Kinds
      <4> QED
        BY <1>0, <2>2, <4>1, Going
    <3> QED
      BY <2>1, <2>2, <3>1 DEF cluster, TypeOK, Requests, NotDoomed
  <2>3. CASE /\ file' \in {file, TRUE}
             /\ Spend("faults")
             /\ req' = [req EXCEPT ![r].pc = "Provisioning", ![r].alone = FALSE]
    <3> DEFINE x == [req[r] EXCEPT !.pc = "Provisioning", !.alone = FALSE]
    <3>1. x \in RequestRecord /\ NotDoomed(x)
      BY <1>0 DEF RequestRecord, Calls, SettingPhase, Phases, NotDoomed, Provisioning, Kinds
    <3>2. req' = [req EXCEPT ![r] = x]
      BY <1>0, <2>3 DEF Requests
    <3>3. Requests'
      BY <1>0, <3>1, <3>2, GoesOn
    <3>4. budget' \in [{"requests", "faults", "restarts"} -> Nat]
      BY <2>3, SpendType
    <3> HIDE DEF x
    <3> QED
      BY <2>1, <2>3, <3>3, <3>4 DEF cluster, TypeOK, Requests, NotDoomed
  <2> QED
    BY <1>5, <2>2, <2>3 DEF ProvisionDatabase
<1>6. ASSUME NEW k \in Kinds, ReadObject(r, k) PROVE TypeOK'
  <2> DEFINE x == [req[r] EXCEPT !.found = workload[k].rv]
  <2>1. workload[k].rv \in Nat
    BY DEF TypeOK
  <2>2. x \in RequestRecord /\ x.pc = req[r].pc /\ x.local = req[r].local
    BY <1>0, <2>1 DEF RequestRecord
  <2>3. NotDoomed(x) /\ req' = [req EXCEPT ![r] = x]
    BY <1>0, <1>6, <2>2 DEF NotDoomed, ReadObject, Requests
  <2> HIDE DEF x
  <2> QED
    BY <1>0, <1>6, <1>a, <2>2, <2>3, GoesOn DEF ReadObject, cluster
<1>7. ASSUME NEW k \in Kinds, WriteObject(r, k) PROVE TypeOK'
  <2>0. /\ req[r].pc \in Provisioning /\ workload[k].rv + 1 \in Nat
        /\ Desired(req[r].local)[k] \in Object
        /\ UNCHANGED <<site, secret, file, budget>>
    BY <1>0, <1>7, DesiredType DEF WriteObject, Provisioning, TypeOK
  <2>1. ASSUME NEW next \in Calls, req' = [req EXCEPT ![r].found = Unread, ![r].pc = next]
        PROVE  Requests'
    <3> DEFINE x == [req[r] EXCEPT !.found = Unread, !.pc = next]
    <3>1. x \in RequestRecord /\ x.local = req[r].local
      BY <1>0 DEF RequestRecord, Unread
    <3>2. NotDoomed(x) /\ req' = [req EXCEPT ![r] = x]
      BY <1>0, <2>0, <2>1, <3>1 DEF NotDoomed, Requests
    <3> HIDE DEF x
    <3> QED
      BY <1>0, <3>1, <3>2, GoesOn
  <2>2. CASE req[r].found = workload[k].rv
    <3>1. NextCall(req[r].local, k) \in Calls
      BY DEF NextCall, Kinds, Calls, Provisioning, SettingPhase, Phases
    <3>2. Requests'
      BY <1>7, <2>1, <2>2, <3>1 DEF WriteObject
    <3>3. workload' \in [Kinds -> [rv : Nat, object : Object]]
      BY <1>7, <2>0, <2>2 DEF WriteObject, TypeOK
    <3> QED
      BY <2>0, <3>2, <3>3 DEF TypeOK, Requests, NotDoomed
  <2>3. CASE req[r].found # workload[k].rv
    <3>1. (IF req[r].local.suspend THEN "refresh" ELSE "Error") \in Calls
      BY DEF Calls, SettingPhase, Phases
    <3>2. Requests' /\ UNCHANGED workload
      BY <1>7, <2>1, <2>3, <3>1 DEF WriteObject
    <3> QED
      BY <1>0, <1>a, <2>0, <3>2
  <2> QED
    BY <2>2, <2>3
<1>8. CASE setPhase(r)
  <2>1. "refresh" \in Calls /\ "refresh" \notin Provisioning
    BY DEF Calls, Provisioning, Kinds
  <2>2. req[r].pc \in Phases /\ site.rv + 1 \in Nat
    BY <1>0, <1>8 DEF setPhase, SettingPhase, Site
  <2>3. [site EXCEPT !.phase = req[r].pc, !.rv = @ + 1] \in Site
    BY <1>0, <2>2 DEF Site
  <2>4. site' \in Site
    BY <1>0, <1>8, <2>3 DEF setPhase
  <2> QED
    BY <1>0, <1>8, <1>a, <2>1, <2>4, Going DEF setPhase
<1>9. CASE removeFinalizer(r)
  <2>1. "refresh" \in Calls /\ "refresh" \notin Provisioning
    BY DEF Calls, Provisioning, Kinds
  <2> DEFINE s == [req[r].local EXCEPT !.finalizer = FALSE]
  <2>2. /\ s.deleting = req[r].local.deleting /\ ~s.finalizer
        /\ ~req[r].local.deleting => s \in Site
    BY <1>0 DEF Site
  <2>3. Updated(s) \in Site
    <3> HIDE DEF s
    <3>1. CASE s.deleting
      BY <2>2, <3>1, NoSiteType DEF Updated
    <3>2. CASE ~s.deleting
      BY <1>0, <2>2, <3>2, UpdatedType
    <3> QED
      BY <3>1, <3>2
  <2>4. site' = (IF Updatable(req[r].local) THEN Updated(s) ELSE site)
        /\ Goto(r, "refresh") /\ UNCHANGED <<secret, workload, file, budget>>
    BY <1>9 DEF removeFinalizer
  <2> HIDE DEF s
  <2> QED
    BY <1>0, <1>a, <2>1, <2>3, <2>4, Going
<1> QED
  BY <1>1, <1>2, <1>3, <1>4, <1>5, <1>6, <1>7, <1>8, <1>9 DEF Reconciler

LEMMA RestartType == TypeOK /\ Restart => TypeOK'
<1> SUFFICES ASSUME TypeOK, Restart PROVE TypeOK'
  OBVIOUS
<1>1. workload' \in [Kinds -> [rv : Nat, object : Object]]
  BY DEF Restart, NoObject, Object
<1>2. req' \in [Request -> RequestRecord]
  BY IdleType DEF Restart
<1>3. \A r \in Request : req'[r].pc = "idle"
  BY DEF Restart, IdleRequest
<1>4. budget' \in [{"requests", "faults", "restarts"} -> Nat]
  BY SpendType DEF Restart
<1> QED
  BY <1>1, <1>2, <1>3, <1>4, NoSiteType DEF Restart, TypeOK, Provisioning, Kinds

LEMMA TypeStep == TypeOK /\ [Next]_vars => TypeOK'
<1>1. TypeOK /\ UNCHANGED vars => TypeOK'
  BY DEF TypeOK, vars, cluster
<1> QED
  BY <1>1, HandlerType, ReconcilerType, RestartType DEF Next

\* Every variable of the mock cluster and of the requests keeps its type, and a
\* reconcile brings up only a site it has not seen being deleted.
THEOREM TypeCorrect == Spec => []TypeOK
<1> QED
  BY InitType, TypeStep, PTL DEF Spec

-----------------------------------------------------------------------------
(* A request by itself                                                     *)

\* Nothing but the request runs while it is alone.
ByItself(r) ==
    /\ req[r].pc # "idle" /\ req[r].op \in Op
    /\ \A q \in Request \ {r} : req[q].pc = "idle"

\* The spec that was sent has been saved, or the deletion.
Asked(op) ==
    IF op.handler = "deleteSite" THEN site.deleting
    ELSE /\ op.cfg # NoConfig => site.cfg = op.cfg
         /\ op.handler \in {"updateSiteYAML", "setSuspend"} => site.suspend = op.suspend

\* The objects apply is done with when the worker is at call c.
AppliedBefore(c) == CASE c = "ConfigMap"  -> {}
                      [] c = "Deployment" -> {"ConfigMap"}
                      [] c = "Service"    -> {"ConfigMap", "Deployment"}
                      [] c = "Ingress"    -> {"ConfigMap", "Deployment", "Service"}
                      [] OTHER            -> Kinds

\* The calls of a reconcile that brings a site up: what comes before the
\* objects, and what is there from the first object on.
GroundFor(c) ==
    /\ c \in {"ensureSecret", "createSecret", "EnsureDatabase"} => ~site.suspend
    /\ c = "createSecret" => ~secret
    /\ c = "EnsureDatabase" => secret
    /\ c \in Kinds \union SettingPhase =>
           /\ ~site.suspend => secret /\ file
           /\ \A k \in AppliedBefore(c) : workload[k].object = Desired(site)[k]
    /\ c \in SettingPhase => c = IF site.suspend THEN "Suspended" ELSE "Ready"

Closing == {"refresh", "answer"}

\* What is so when a request that is alone makes a call.
OnTrack(x) ==
    /\ x.found # Unread => x.pc \in Kinds /\ x.found = workload[x.pc].rv
    /\ x.pc = "write" /\ x.op.handler # "createSite" => site.live /\ x.copy = site
    /\ x.pc \notin {"fetch", "write"} /\ site.live => Asked(x.op)
    /\ x.pc \in {"removeFinalizer"} \union Provisioning \union SettingPhase =>
           site.live /\ x.local = site /\ (site.deleting <=> x.pc = "removeFinalizer")
    /\ x.pc \in Provisioning \union SettingPhase => GroundFor(x.pc)
    /\ x.pc \in Closing /\ site.live => Converged
    /\ x.pc = "answer" /\ site.live => x.copy = site

AloneInv == \A r \in Request : req[r].alone => ByItself(r) /\ OnTrack(req[r])

LEMMA Sets ==
    /\ SettingPhase = {"Provisioning", "Ready", "Suspended", "Error"}
    /\ Provisioning = {"addFinalizer", "ensureSecret", "createSecret", "EnsureDatabase",
                       "ConfigMap", "Deployment", "Service", "Ingress"}
    /\ Kinds = {"ConfigMap", "Deployment", "Service", "Ingress"}
  BY DEF SettingPhase, Phases, Provisioning, Kinds

\* A request that is not idle keeps all others from being alone.
LEMMA AloneMoves ==
    ASSUME AloneInv, NEW r \in Request, req[r].pc # "idle",
           \A q \in Request \ {r} : req'[q] = req[q],
           req'[r].alone => /\ req[r].alone /\ req'[r].op = req[r].op
                            /\ req'[r].pc # "idle" /\ OnTrack(req[r])'
    PROVE  AloneInv'
<1> SUFFICES ASSUME NEW q \in Request, req'[q].alone
             PROVE  (ByItself(q) /\ OnTrack(req[q]))'
  BY DEF AloneInv
<1>1. q = r
  BY DEF AloneInv, ByItself
<1> QED
  BY <1>1 DEF AloneInv, ByItself

\* What a request that is alone finds.
LEMMA Fields ==
    ASSUME TypeOK, NEW r \in Request
    PROVE  /\ req[r] \in RequestRecord /\ req[r].copy \in Site /\ req[r].local \in Site
           /\ req \in [Request -> RequestRecord]
           /\ site \in Site
  BY DEF TypeOK, RequestRecord

LEMMA Jumps ==
    ASSUME TypeOK, NEW r \in Request, NEW next, Goto(r, next)
    PROVE  /\ \A q \in Request \ {r} : req'[q] = req[q]
           /\ req'[r].pc = next /\ req'[r].op = req[r].op /\ req'[r].alone = req[r].alone
           /\ req'[r].copy = req[r].copy /\ req'[r].local = req[r].local
           /\ req'[r].found = req[r].found
  BY Fields DEF Goto, RequestRecord

LEMMA Finishes ==
    ASSUME TypeOK, AloneInv, NEW r \in Request, req[r].pc # "idle", Finish(r)
    PROVE  AloneInv'
<1>1. /\ \A q \in Request \ {r} : req'[q] = req[q]
      /\ ~req'[r].alone
  BY Fields DEF Finish, IdleRequest
<1> QED
  BY <1>1, AloneMoves

LEMMA BeginAlone ==
    ASSUME TypeOK, AloneInv, NEW r \in Request, NEW op \in Op, Begin(r, op)
    PROVE  AloneInv'
<1> DEFINE others == {q \in Request : q # r /\ req[q].pc # "idle"}
<1>1. req' = [q \in Request |->
              IF q = r
              THEN [IdleRequest EXCEPT !.op = op, !.alone = others = {},
                        !.pc = IF op.handler = "createSite" THEN "write" ELSE "fetch"]
              ELSE IF q \in others THEN [req[q] EXCEPT !.alone = FALSE] ELSE req[q]]
  BY DEF Begin
<1>2. ASSUME NEW q \in Request, q # r PROVE ~req'[q].alone
  <2>1. CASE req[q].pc # "idle"
    <3>1. req'[q] = [req[q] EXCEPT !.alone = FALSE]
      BY <1>1, <1>2, <2>1
    <3> QED
      BY <3>1, Fields DEF RequestRecord
  <2>2. CASE req[q].pc = "idle"
    <3>1. req'[q] = req[q]
      BY <1>1, <1>2, <2>2
    <3> QED
      BY <2>2, <3>1 DEF AloneInv, ByItself
  <2> QED
    BY <2>1, <2>2
<1>3. /\ req'[r].op = op /\ req'[r].alone = (others = {}) /\ req'[r].found = Unread
      /\ req'[r].pc = IF op.handler = "createSite" THEN "write" ELSE "fetch"
  BY <1>1 DEF IdleRequest
<1>4. ASSUME others = {}, NEW q \in Request \ {r} PROVE req'[q].pc = "idle"
  BY <1>1, <1>4
<1>5. req'[r].alone => ByItself(r)' /\ OnTrack(req[r])'
  <2> SUFFICES ASSUME req'[r].alone PROVE ByItself(r)' /\ OnTrack(req[r])'
    OBVIOUS
  <2>1. ByItself(r)'
    BY <1>3, <1>4 DEF ByItself
  <2>2. OnTrack(req[r])'
    <3> HIDE DEF others
    <3> QED
      BY <1>3, Sets DEF OnTrack, Closing
  <2> QED
    BY <2>1, <2>2
<1> QED
  BY <1>2, <1>5 DEF AloneInv

LEMMA HandlerAlone ==
    ASSUME TypeOK, AloneInv, NEW r \in Request,
           fetch(r) \/ createSite(r) \/ updateSite(r) \/ deleteSite(r) \/ refresh(r) \/ answer(r)
    PROVE  AloneInv'
<1>0. req[r].pc # "idle"
  BY DEF fetch, createSite, updateSite, deleteSite, refresh, answer
<1>1. req[r].alone => OnTrack(req[r])
  BY DEF AloneInv
<1>2. CASE fetch(r) /\ ~Finish(r)
  <2>1. /\ \A q \in Request \ {r} : req'[q] = req[q]
        /\ req'[r].pc = "write" /\ req'[r].copy = site /\ req'[r].op = req[r].op
        /\ req'[r].alone = req[r].alone /\ req'[r].found = req[r].found
        /\ site.live /\ UNCHANGED <<cluster, file>> /\ req[r].pc = "fetch"
    BY <1>2, Fields DEF fetch, RequestRecord
  <2>2. req[r].alone => OnTrack(req[r])'
    BY <1>1, <2>1, Sets DEF OnTrack, Closing, cluster
  <2> QED
    BY <1>0, <2>1, <2>2, AloneMoves
<1>3. CASE createSite(r) /\ ~Finish(r)
  <2> DEFINE s == [NoSite EXCEPT !.live = TRUE, !.rv = 1, !.cfg = req[r].op.cfg]
  <2>0. ~site.live /\ site' = s /\ req[r].pc = "write" /\ req[r].op.handler = "createSite"
        /\ req' = [req EXCEPT ![r].copy = site', ![r].pc = "Reconcile"]
    BY <1>3 DEF createSite
  <2>1. /\ \A q \in Request \ {r} : req'[q] = req[q]
        /\ req'[r].pc = "Reconcile" /\ req'[r].op = req[r].op
        /\ req'[r].alone = req[r].alone /\ req'[r].found = req[r].found
    BY <2>0, Fields DEF RequestRecord
  <2>2. site'.cfg = req[r].op.cfg
    BY <2>0 DEF NoSite
  <2>3. req[r].alone => OnTrack(req[r])'
    BY <1>1, <2>0, <2>1, <2>2, Sets DEF OnTrack, Closing, Asked
  <2> QED
    BY <1>0, <2>1, <2>3, AloneMoves
<1>4. CASE updateSite(r) /\ ~Finish(r)
  <2> DEFINE s == Edited(req[r].op, req[r].copy)
  <2>0. /\ Updatable(req[r].copy) /\ site' = Updated(s) /\ req[r].pc = "write"
        /\ req[r].op.handler \in {"updateSite", "updateSiteYAML", "setSuspend"}
        /\ req' = [req EXCEPT ![r].copy = site', ![r].pc = "Reconcile"]
    BY <1>4 DEF updateSite
  <2>1. /\ \A q \in Request \ {r} : req'[q] = req[q]
        /\ req'[r].pc = "Reconcile" /\ req'[r].op = req[r].op
        /\ req'[r].alone = req[r].alone /\ req'[r].found = req[r].found
    BY <2>0, Fields DEF RequestRecord
  <2>2. req[r].op \in Op
    BY <2>0, Fields, OpType DEF RequestRecord
  <2>3. s \in Site
    BY <2>0, <2>2, Fields, EditedType
  <2>4. /\ req[r].op.handler = "updateSite" => s.cfg = req[r].op.cfg
        /\ req[r].op.handler = "updateSiteYAML" =>
               s.cfg = req[r].op.cfg /\ s.suspend = req[r].op.suspend
        /\ req[r].op.handler = "setSuspend" => s.suspend = req[r].op.suspend
    BY Fields DEF Edited, Site
  <2>5. req[r].op.handler = "setSuspend" => req[r].op.cfg = NoConfig
    BY <2>2 DEF Op
  <2> HIDE DEF s
  <2>6. site'.live => site'.cfg = s.cfg /\ site'.suspend = s.suspend
    BY <2>0, <2>3, NoSiteType DEF Updated, Site
  <2>7. site'.live => Asked(req[r].op)'
    BY <2>0, <2>1, <2>4, <2>5, <2>6 DEF Asked
  <2>8. req[r].alone => OnTrack(req[r])'
    BY <1>1, <2>0, <2>1, <2>7, Sets DEF OnTrack, Closing
  <2> QED
    BY <1>0, <2>1, <2>8, AloneMoves
<1>5. CASE deleteSite(r) /\ ~Finish(r)
  <2>0. /\ site' = Deleted /\ Goto(r, "Reconcile") /\ req[r].pc = "write"
        /\ req[r].op.handler = "deleteSite"
    BY <1>5 DEF deleteSite
  <2>1. site'.live => site'.deleting
    BY <2>0, Fields, NoSiteType DEF Deleted, Site
  <2>2. req[r].alone => OnTrack(req[r])'
    BY <1>1, <2>0, <2>1, Jumps, Sets DEF OnTrack, Closing, Asked
  <2> QED
    BY <1>0, <2>0, <2>2, Jumps, AloneMoves
<1>6. CASE refresh(r)
  <2>1. /\ \A q \in Request \ {r} : req'[q] = req[q]
        /\ req'[r].pc = "answer" /\ req'[r].op = req[r].op
        /\ req'[r].copy = (IF site.live /\ req[r].op.handler # "deleteSite"
                           THEN site ELSE req[r].copy)
        /\ req'[r].alone = req[r].alone /\ req'[r].found = req[r].found
        /\ UNCHANGED <<cluster, file>> /\ req[r].pc = "refresh"
    BY <1>6, Fields DEF refresh, RequestRecord
  <2>2. ASSUME req[r].alone PROVE OnTrack(req[r])'
    <3>1. /\ site.live => Asked(req[r].op) /\ Converged
          /\ req[r].found = Unread
      BY <1>1, <2>1, <2>2, Sets DEF OnTrack, Closing
    <3>2. site.live => req[r].op.handler # "deleteSite"
      BY <3>1 DEF Asked, Converged
    <3>3. (site.live => Asked(req[r].op) /\ Converged)'
      BY <2>1, <3>1 DEF cluster, Asked, Converged
    <3> QED
      BY <2>1, <3>1, <3>2, <3>3, Sets DEF OnTrack, Closing, cluster
  <2> QED
    BY <1>0, <2>1, <2>2, AloneMoves
<1>7. CASE Finish(r)
  BY <1>0, <1>7, Finishes
<1> QED
  BY <1>2, <1>3, <1>4, <1>5, <1>6, <1>7 DEF answer

\* Bringing a site up depends on its spec, and not on its status.
LEMMA SameObjects ==
    ASSUME NEW s \in Site, NEW t \in Site, s.cfg = t.cfg, s.suspend = t.suspend
    PROVE  Desired(s) = Desired(t)
<1>1. s.uid = t.uid
  BY DEF Site
<1> QED
  BY <1>1 DEF Desired, DesiredPHPConfigMap, DesiredDeployment, DesiredService, DesiredIngress

\* A site that is being brought up is the one the request asked for.
LEMMA GoesUp ==
    ASSUME NEW r \in Request, req'[r].pc \in Provisioning \union SettingPhase,
           site'.live, ~site'.deleting, req'[r].local = site',
           Asked(req[r].op)', GroundFor(req[r].pc)',
           req'[r].found # Unread => /\ req'[r].pc \in Kinds
                                     /\ req'[r].found = workload'[req'[r].pc].rv
    PROVE  OnTrack(req[r])'
  BY Sets DEF OnTrack, Closing

LEMMA ReconcilerAlone ==
    ASSUME TypeOK, AloneInv, NEW r \in Request, Reconciler(r)
    PROVE  AloneInv'
<1>0. req[r].pc # "idle"
  BY Sets DEF Reconciler, Reconcile, addFinalizer, ensureSecret, createSecret,
     ProvisionDatabase, ReadObject, WriteObject, setPhase, removeFinalizer
<1>1. req[r].alone => OnTrack(req[r])
  BY DEF AloneInv
<1>2. CASE Reconcile(r)
  <2>1. CASE site.live
    <3>1. /\ \A q \in Request \ {r} : req'[q] = req[q]
          /\ req'[r].pc = FirstCall(site) /\ req'[r].op = req[r].op
          /\ req'[r].alone = req[r].alone /\ req'[r].found = req[r].found
          /\ req'[r].local = site /\ UNCHANGED <<cluster, file>> /\ req[r].pc = "Reconcile"
      BY <1>2, <2>1, Fields DEF Reconcile, RequestRecord
    <3>2. ASSUME req[r].alone PROVE OnTrack(req[r])'
      <4>1. Asked(req[r].op) /\ req[r].found = Unread
        BY <1>1, <2>1, <3>1, <3>2, Sets DEF OnTrack
      <4>2. Asked(req[r].op)'
        BY <3>1, <4>1 DEF Asked, cluster
      <4>3. \/ req'[r].pc = "removeFinalizer" /\ site.deleting
            \/ req'[r].pc = "addFinalizer" /\ ~site.deleting
            \/ req'[r].pc = "ensureSecret" /\ ~site.deleting /\ ~site.suspend
            \/ req'[r].pc = "ConfigMap" /\ ~site.deleting /\ site.suspend
        BY <3>1 DEF FirstCall, AfterFinalizer
      <4>4. GroundFor(req[r].pc)'
        BY <3>1, <4>3, Sets DEF GroundFor, AppliedBefore, cluster
      <4>5. CASE site.deleting
        <5>1. req'[r].pc = "removeFinalizer"
          BY <4>3, <4>5
        <5> QED
          BY <2>1, <3>1, <4>1, <4>2, <4>5, <5>1, Sets DEF OnTrack, Closing, cluster
      <4>6. CASE ~site.deleting
        <5>1. req'[r].pc \in Provisioning
          BY <4>3, <4>6, Sets
        <5>2. site' = site /\ req'[r].local = site' /\ req'[r].found = Unread
          BY <3>1, <4>1 DEF cluster
        <5> QED
          BY <2>1, <4>2, <4>4, <4>6, <5>1, <5>2, GoesUp
      <4> QED
        BY <4>5, <4>6
    <3>3. req'[r].pc # "idle"
      BY <3>1 DEF FirstCall, AfterFinalizer
    <3> QED
      BY <1>0, <3>1, <3>2, <3>3, AloneMoves
  <2>2. CASE ~site.live
    <3>1. Goto(r, "refresh") /\ UNCHANGED <<cluster, file>> /\ req[r].pc = "Reconcile"
      BY <1>2, <2>2 DEF Reconcile
    <3>2. req[r].alone => OnTrack(req[r])'
      BY <1>1, <2>2, <3>1, Jumps, Sets DEF OnTrack, Closing, cluster
    <3> QED
      BY <1>0, <3>1, <3>2, Jumps, AloneMoves
  <2> QED
    BY <2>1, <2>2
<1>3. CASE addFinalizer(r)
  <2>1. CASE Updatable(req[r].local)
    <3> DEFINE s == [req[r].local EXCEPT !.finalizer = TRUE]
    <3>1. /\ site' = Updated(s) /\ req[r].pc = "addFinalizer"
          /\ req' = [req EXCEPT ![r].local = site', ![r].pc = AfterFinalizer(site')]
          /\ UNCHANGED <<secret, workload, file>>
      BY <1>3, <2>1 DEF addFinalizer
    <3>2. /\ \A q \in Request \ {r} : req'[q] = req[q]
          /\ req'[r].pc = AfterFinalizer(site') /\ req'[r].op = req[r].op
          /\ req'[r].alone = req[r].alone /\ req'[r].found = req[r].found
          /\ req'[r].local = site'
      BY <3>1, Fields DEF RequestRecord
    <3>3. ASSUME req[r].alone PROVE OnTrack(req[r])'
      <4>1. /\ site.live /\ req[r].local = site /\ ~site.deleting
            /\ Asked(req[r].op) /\ req[r].found = Unread
        BY <1>1, <3>1, <3>3, Sets DEF OnTrack
      <4>2. /\ site'.live /\ ~site'.deleting /\ site'.cfg = site.cfg
            /\ site'.suspend = site.suspend
        BY <3>1, <4>1, Fields DEF Updated, Site
      <4>3. Asked(req[r].op)'
        BY <3>2, <4>1, <4>2 DEF Asked
      <4>4. \/ req'[r].pc = "ensureSecret" /\ ~site'.suspend
            \/ req'[r].pc = "ConfigMap" /\ site'.suspend
        BY <3>2 DEF AfterFinalizer
      <4>5. GroundFor(req[r].pc)'
        BY <4>4, Sets DEF GroundFor, AppliedBefore
      <4>6. req'[r].pc \in Provisioning
        BY <4>4, Sets
      <4> QED
        BY <3>2, <4>1, <4>2, <4>3, <4>5, <4>6, GoesUp
    <3>4. req'[r].pc # "idle"
      BY <3>2 DEF AfterFinalizer
    <3> QED
      BY <1>0, <3>2, <3>3, <3>4, AloneMoves
  <2>2. CASE ~Updatable(req[r].local)
    <3>1. Goto(r, "refresh") /\ req[r].pc = "addFinalizer"
      BY <1>3, <2>2 DEF addFinalizer
    <3>2. ~req[r].alone
      BY <1>1, <2>2, <3>1, Sets DEF OnTrack, Updatable
    <3> QED
      BY <1>0, <3>1, <3>2, Jumps, AloneMoves
  <2> QED
    BY <2>1, <2>2
<1>4. CASE ensureSecret(r) \/ createSecret(r)
  <2>1. /\ Goto(r, IF req[r].pc = "ensureSecret" /\ ~secret THEN "createSecret"
                   ELSE IF req[r].pc = "createSecret" /\ secret THEN "Error"
                   ELSE "EnsureDatabase")
        /\ req[r].pc \in {"ensureSecret", "createSecret"}
        /\ secret' = (secret \/ req[r].pc = "createSecret")
        /\ UNCHANGED <<site, workload, file>>
    BY <1>4, Fields DEF ensureSecret, createSecret, cluster, TypeOK
  <2>2. ASSUME req[r].alone PROVE OnTrack(req[r])'
    <3>1. /\ site.live /\ req[r].local = site /\ ~site.deleting /\ ~site.suspend
          /\ Asked(req[r].op) /\ req[r].found = Unread
          /\ req[r].pc = "createSecret" => ~secret
      BY <1>1, <2>1, <2>2, Sets DEF OnTrack, GroundFor
    <3>2. Asked(req[r].op)'
      BY <2>1, <3>1, Jumps DEF Asked
    <3>3. \/ req'[r].pc = "createSecret" /\ ~secret'
          \/ req'[r].pc = "EnsureDatabase" /\ secret'
      BY <2>1, <3>1, Jumps
    <3>4. GroundFor(req[r].pc)'
      BY <2>1, <3>1, <3>3, Sets DEF GroundFor
    <3>5. req'[r].pc \in Provisioning /\ req'[r].local = site' /\ req'[r].found = Unread
      BY <2>1, <3>1, <3>3, Jumps, Sets
    <3> QED
      BY <2>1, <3>1, <3>2, <3>4, <3>5, GoesUp
  <2> QED
    BY <1>0, <2>1, <2>2, Jumps, AloneMoves
<1>5. CASE ProvisionDatabase(r)
  <2>1. CASE file' = TRUE /\ Goto(r, "ConfigMap")
    <3>0. UNCHANGED cluster /\ req[r].pc = "EnsureDatabase"
      BY <1>5 DEF ProvisionDatabase
    <3>1. ASSUME req[r].alone PROVE OnTrack(req[r])'
      <4>1. /\ site.live /\ req[r].local = site /\ ~site.deleting /\ secret
            /\ Asked(req[r].op) /\ req[r].found = Unread
        BY <1>1, <3>0, <3>1, Sets DEF OnTrack, GroundFor
      <4>2. Asked(req[r].op)'
        BY <2>1, <3>0, <4>1, Jumps DEF Asked, cluster
      <4>3. GroundFor(req[r].pc)'
        BY <2>1, <3>0, <4>1, Jumps, Sets DEF GroundFor, AppliedBefore, cluster
      <4>4. req'[r].pc \in Provisioning /\ req'[r].local = site' /\ req'[r].found = Unread
        BY <2>1, <3>0, <4>1, Jumps, Sets DEF cluster
      <4> QED
        BY <3>0, <4>1, <4>2, <4>3, <4>4, GoesUp DEF cluster
    <3> QED
      BY <1>0, <2>1, <3>1, Jumps, AloneMoves
  <2>2. CASE req' = [req EXCEPT ![r].pc = "Provisioning", ![r].alone = FALSE]
    <3>1. (\A q \in Request \ {r} : req'[q] = req[q]) /\ ~req'[r].alone
      BY <2>2, Fields DEF RequestRecord
    <3> QED
      BY <1>0, <3>1, AloneMoves
  <2> QED
    BY <1>5, <2>1, <2>2 DEF ProvisionDatabase
<1>6. ASSUME NEW k \in Kinds, ReadObject(r, k) PROVE AloneInv'
  <2>1. /\ \A q \in Request \ {r} : req'[q] = req[q]
        /\ req'[r].pc = k /\ req'[r].op = req[r].op /\ req'[r].alone = req[r].alone
        /\ req'[r].local = req[r].local /\ req'[r].found = workload[k].rv
        /\ UNCHANGED <<cluster, file>> /\ req[r].pc = k
    BY <1>6, Fields DEF ReadObject, RequestRecord
  <2>2. ASSUME req[r].alone PROVE OnTrack(req[r])'
    <3>1. /\ site.live /\ req[r].local = site /\ ~site.deleting
          /\ Asked(req[r].op) /\ GroundFor(k)
      BY <1>1, <2>1, <2>2, Sets DEF OnTrack
    <3>2. Asked(req[r].op)' /\ GroundFor(req[r].pc)'
      BY <2>1, <3>1 DEF Asked, GroundFor, cluster
    <3>3. req'[r].pc \in Provisioning
      BY <2>1, Sets
    <3> QED
      BY <2>1, <3>1, <3>2, <3>3, GoesUp DEF cluster
  <2> QED
    BY <1>0, <2>1, <2>2, AloneMoves, Sets
<1>7. ASSUME NEW k \in Kinds, WriteObject(r, k) PROVE AloneInv'
  <2>0. /\ req[r].pc = k /\ req[r].found # Unread /\ UNCHANGED <<site, secret, file>>
    BY <1>7 DEF WriteObject
  <2>1. CASE req[r].found = workload[k].rv
    <3>1. /\ workload' = [workload EXCEPT ![k] = [rv     |-> @.rv + 1,
                                                 object |-> Desired(req[r].local)[k]]]
          /\ req' = [req EXCEPT ![r].found = Unread, ![r].pc = NextCall(req[r].local, k)]
      BY <1>7, <2>1 DEF WriteObject
    <3>2. /\ \A q \in Request \ {r} : req'[q] = req[q]
          /\ req'[r].pc = NextCall(req[r].local, k) /\ req'[r].op = req[r].op
          /\ req'[r].alone = req[r].alone /\ req'[r].found = Unread
          /\ req'[r].local = req[r].local
      BY <3>1, Fields DEF RequestRecord
    <3>3. /\ workload'[k].object = Desired(req[r].local)[k]
          /\ \A j \in Kinds \ {k} : workload'[j] = workload[j]
      BY <3>1 DEF TypeOK
    <3>4. ASSUME req[r].alone PROVE OnTrack(req[r])'
      <4>1. /\ site.live /\ req[r].local = site /\ ~site.deleting
            /\ Asked(req[r].op) /\ GroundFor(k)
        BY <1>1, <2>0, <3>4, Sets DEF OnTrack
      <4>2. Asked(req[r].op)'
        BY <2>0, <3>2, <4>1 DEF Asked
      <4>3. /\ ~site.suspend => secret /\ file
            /\ \A j \in AppliedBefore(k) \union {k} : workload'[j].object = Desired(site)[j]
        BY <3>3, <4>1, Sets DEF GroundFor, AppliedBefore
      <4>4. /\ req'[r].pc \in (Kinds \union SettingPhase)
            /\ AppliedBefore(req'[r].pc) = AppliedBefore(k) \union {k}
            /\ req'[r].pc \in SettingPhase =>
                   req'[r].pc = IF site.suspend THEN "Suspended" ELSE "Ready"
        BY <3>2, <4>1, Sets DEF NextCall, AppliedBefore
      <4>5. GroundFor(req[r].pc)'
        BY <2>0, <4>3, <4>4, Sets DEF GroundFor
      <4>6. req'[r].pc \in Provisioning \union SettingPhase
        BY <4>4, Sets
      <4> QED
        BY <2>0, <3>2, <4>1, <4>2, <4>5, <4>6, GoesUp
    <3>5. req'[r].pc # "idle"
      BY <3>2, Sets DEF NextCall
    <3> QED
      BY <1>0, <3>2, <3>4, <3>5, AloneMoves
  <2>2. CASE req[r].found # workload[k].rv
    <3>1. ~req[r].alone
      BY <1>1, <2>0, <2>2 DEF OnTrack
    <3>2. (\A q \in Request \ {r} : req'[q] = req[q]) /\ ~req'[r].alone
      BY <1>7, <2>2, <3>1, Fields DEF WriteObject, RequestRecord
    <3> QED
      BY <1>0, <3>2, AloneMoves
  <2> QED
    BY <2>1, <2>2
<1>8. CASE setPhase(r)
  <2>1. /\ Goto(r, "refresh") /\ req[r].pc \in SettingPhase
        /\ site' = (IF site.live /\ req[r].local.rv = site.rv
                    THEN [site EXCEPT !.phase = req[r].pc, !.rv = @ + 1] ELSE site)
        /\ UNCHANGED <<secret, workload, file>>
    BY <1>8 DEF setPhase
  <2>2. ASSUME req[r].alone PROVE OnTrack(req[r])'
    <3>1. /\ site.live /\ req[r].local = site /\ ~site.deleting
          /\ Asked(req[r].op) /\ GroundFor(req[r].pc) /\ req[r].found = Unread
      BY <1>1, <2>1, <2>2, Sets DEF OnTrack
    <3>2. /\ site'.cfg = site.cfg /\ site'.suspend = site.suspend /\ ~site'.deleting
          /\ site'.phase = req[r].pc /\ site' \in Site
      <4>1. site.rv + 1 \in Nat /\ req[r].pc \in Phases
        BY <2>1, Fields DEF Site, SettingPhase
      <4> QED
        BY <2>1, <3>1, <4>1, Fields DEF Site
    <3>3. Asked(req[r].op)'
      BY <3>1, <3>2, <2>1, Jumps DEF Asked
    <3>4. \A k \in Kinds : workload[k].object = Desired(site)[k]
      BY <2>1, <3>1, Sets DEF GroundFor, AppliedBefore
    <3>5. Converged'
      <4>1. Desired(site') = Desired(site)
        BY <3>2, Fields, SameObjects
      <4>2. /\ \A k \in Kinds : workload'[k].object = Desired(site')[k]
        BY <2>1, <3>4, <4>1
      <4> QED
        BY <2>1, <3>1, <3>2, <4>2 DEF Converged, GroundFor
    <3> QED
      BY <2>1, <3>1, <3>3, <3>5, Jumps, Sets DEF OnTrack, Closing
  <2> QED
    BY <1>0, <2>1, <2>2, Jumps, AloneMoves
<1>9. CASE removeFinalizer(r)
  <2>1. /\ Goto(r, "refresh") /\ req[r].pc = "removeFinalizer"
        /\ site' = (IF Updatable(req[r].local)
                    THEN Updated([req[r].local EXCEPT !.finalizer = FALSE]) ELSE site)
    BY <1>9 DEF removeFinalizer
  <2>2. ASSUME req[r].alone PROVE OnTrack(req[r])'
    <3>1. site.live /\ req[r].local = site /\ site.deleting /\ req[r].found = Unread
      BY <1>1, <2>1, <2>2, Sets DEF OnTrack
    <3>2. ~site'.live
      BY <2>1, <3>1, Fields, NoSiteType DEF Updatable, Updated, Site
    <3> QED
      BY <2>1, <3>1, <3>2, Jumps, Sets DEF OnTrack, Closing
  <2> QED
    BY <1>0, <2>1, <2>2, Jumps, AloneMoves
<1> QED
  BY <1>2, <1>3, <1>4, <1>5, <1>6, <1>7, <1>8, <1>9 DEF Reconciler

\* What a request that runs by itself finds and leaves, at every call.
LEMMA AloneInvariant == Spec => [](TypeOK /\ AloneInv)
<1>1. Init => AloneInv
  BY DEF Init, AloneInv, IdleRequest
<1>2. TypeOK /\ AloneInv /\ [Next]_vars => AloneInv'
  <2> SUFFICES ASSUME TypeOK, AloneInv, [Next]_vars PROVE AloneInv'
    OBVIOUS
  <2>1. ASSUME NEW r \in Request, Handlers(r) PROVE AloneInv'
    BY <2>1, BeginAlone, HandlerAlone DEF Handlers
  <2>2. ASSUME NEW r \in Request, Reconciler(r) PROVE AloneInv'
    BY <2>2, ReconcilerAlone
  <2>3. CASE Restart
    BY <2>3 DEF Restart, AloneInv, IdleRequest
  <2>4. CASE UNCHANGED vars
    BY <2>4 DEF vars, cluster, AloneInv, ByItself, OnTrack, Asked, GroundFor, Converged
  <2> QED
    BY <2>1, <2>2, <2>3, <2>4 DEF Next
<1> QED
  BY <1>1, <1>2, TypeCorrect, PTL DEF Spec

\* A request that changes a site and runs by itself, with no call failing,
\* leaves the mock cluster as the spec wants it, or the site gone: whatever the
\* requests before it, and those that ran beside them, have left behind
\* (maybeReconcile).
THEOREM AloneIsEnough == Spec => []AloneConverges
<1>1. AloneInv => AloneConverges
  <2> SUFFICES ASSUME AloneInv, NEW r \in Request, req[r].pc = "answer", req[r].alone
               PROVE  IF req[r].op.handler = "deleteSite" THEN ~site.live
                                                          ELSE site.live => Converged
    BY DEF AloneConverges
  <2>1. site.live => Asked(req[r].op) /\ Converged
    BY DEF AloneInv, OnTrack, Closing
  <2> QED
    BY <2>1 DEF Asked, Converged
<1> QED
  BY <1>1, AloneInvariant, PTL

\* And its answer shows the spec it was sent and the phase that came of it.
THEOREM AnswersAreTrue == Spec => []AnswerShowsResult
<1>1. AloneInv => AnswerShowsResult
  <2> SUFFICES ASSUME AloneInv, NEW r \in Request,
                      req[r].pc = "answer", req[r].alone, site.live
               PROVE  /\ req[r].op.cfg # NoConfig => req[r].copy.cfg = req[r].op.cfg
                      /\ req[r].op.handler \in {"updateSiteYAML", "setSuspend"} =>
                             req[r].copy.suspend = req[r].op.suspend
                      /\ req[r].copy.phase = IF req[r].copy.suspend THEN "Suspended"
                                                                   ELSE "Ready"
    BY DEF AnswerShowsResult
  <2>1. Asked(req[r].op) /\ Converged /\ req[r].copy = site
    BY DEF AloneInv, OnTrack, Closing
  <2> QED
    BY <2>1 DEF Asked, Converged
<1> QED
  BY <1>1, AloneInvariant, PTL
=============================================================================
