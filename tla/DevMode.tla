------------------------------- MODULE DevMode -------------------------------
(***************************************************************************)
(* The development mode of the apiserver: DEV_MODE=true.  There is no      *)
(* operator process and no cluster.  Objects are kept in memory by         *)
(* controller-runtime's fake client, and every handler that changes a site *)
(* runs Reconcile itself before it answers, dropping whatever it returns:  *)
(* no cache, no watch, no retry, no garbage collector, and nothing that    *)
(* keeps two requests for one site apart.                                  *)
(*                                                                         *)
(* The fake client checks resourceVersions as the API server does, but     *)
(* starts them again at 1 with every Create, counts a write that changes   *)
(* nothing, and gives objects no uid.                                      *)
(***************************************************************************)
EXTENDS Integers, Resources

CONSTANTS
    Request,       \* requests that may be in progress at one time
    MaxRequests,   \* requests in one behaviour
    MaxFaults,     \* EnsureDatabase calls that fail
    MaxRestarts    \* restarts of the process

ASSUME DevBoundsAssumption ==
    MaxRequests \in Nat /\ MaxFaults \in Nat /\ MaxRestarts \in Nat

VARIABLES
    site,       \* the WordPressSite in the fake client
    secret,     \* is its Secret there?
    workload,   \* the other objects, each with its resourceVersion
    file,       \* is the SQLite file of the site on disk?
    req,        \* the requests in progress
    budget      \* what may still happen

cluster == <<site, secret, workload>>
vars == <<cluster, file, req, budget>>

-----------------------------------------------------------------------------
(* Objects and requests                                                     *)

Phases == {"None", "Provisioning", "Ready", "Suspended", "Error"}

\* uid is always empty: it is there for the objects Resources builds.
Site == {s \in [live : BOOLEAN, rv : Nat, uid : {0}, cfg : Config \union {NoConfig},
                suspend : BOOLEAN, deleting : BOOLEAN, finalizer : BOOLEAN,
                phase : Phases] :
            /\ s.live => s.cfg \in Config
            /\ s.deleting => s.finalizer}

NoSite == [live |-> FALSE, rv |-> 0, uid |-> 0, cfg |-> NoConfig, suspend |-> FALSE,
           deleting |-> FALSE, finalizer |-> FALSE, phase |-> "None"]

\* A request: the handler, and the spec it is sent.
Op == [handler : {"createSite", "updateSite"}, cfg : Config, suspend : {FALSE}]
      \union [handler : {"updateSiteYAML"}, cfg : Config, suspend : BOOLEAN]
      \union [handler : {"setSuspend"}, cfg : {NoConfig}, suspend : BOOLEAN]
      \union [handler : {"deleteSite"}, cfg : {NoConfig}, suspend : {FALSE}]

NoOp == [handler |-> "none", cfg |-> NoConfig, suspend |-> FALSE]

SettingPhase == Phases \ {"None"}
Provisioning == {"addFinalizer", "ensureSecret", "createSecret", "EnsureDatabase"}
                \union Kinds
Calls == {"idle", "fetch", "write", "Reconcile", "removeFinalizer", "refresh", "answer"}
         \union Provisioning \union SettingPhase

\* What apply has read: nothing yet, NotFound, or a resourceVersion.
Unread == -1
NotFound == 0

\* copy is the handler's site, local the one Reconcile works on.  alone is a
\* history variable: nothing else ran while this request did, and no call failed.
IdleRequest == [op |-> NoOp, pc |-> "idle", copy |-> NoSite, local |-> NoSite,
                found |-> Unread, alone |-> FALSE]

Goto(r, next) == req' = [req EXCEPT ![r].pc = next]

Finish(r) == req' = [req EXCEPT ![r] = IdleRequest]

Spend(what) == budget[what] > 0 /\ budget' = [budget EXCEPT ![what] = @ - 1]

-----------------------------------------------------------------------------
(* The fake client                                                          *)

\* An Update of the site with copy s, read at an earlier resourceVersion: it
\* keeps the status, cannot change the deletionTimestamp, and removes a site
\* that is being deleted with its last finalizer.
Updatable(s) == site.live /\ s.rv = site.rv /\ s.deleting = site.deleting

Updated(s) == IF s.deleting /\ ~s.finalizer
              THEN NoSite
              ELSE [s EXCEPT !.rv = site.rv + 1, !.phase = site.phase]

Deleted == IF site.finalizer
           THEN [site EXCEPT !.deleting = TRUE, !.rv = @ + 1]
           ELSE NoSite

-----------------------------------------------------------------------------
Init ==
    /\ site = NoSite /\ secret = FALSE /\ file = FALSE
    /\ workload = [k \in Kinds |-> [rv |-> 0, object |-> NoObject]]
    /\ req = [r \in Request |-> IdleRequest]
    /\ budget = [requests |-> MaxRequests, faults |-> MaxFaults,
                 restarts |-> MaxRestarts]

-----------------------------------------------------------------------------
(* The handlers                                                             *)

\* A request arrives.
Begin(r, op) ==
    /\ req[r].pc = "idle"
    /\ Spend("requests")
    /\ LET others == {q \in Request : q # r /\ req[q].pc # "idle"}
       IN  req' = [q \in Request |->
              IF q = r
              THEN [IdleRequest EXCEPT !.op = op, !.alone = others = {},
                        !.pc = IF op.handler = "createSite" THEN "write" ELSE "fetch"]
              ELSE IF q \in others THEN [req[q] EXCEPT !.alone = FALSE] ELSE req[q]]
    /\ UNCHANGED <<cluster, file>>

\* Every handler but createSite reads the site first, and answers 404 without it.
fetch(r) ==
    /\ req[r].pc = "fetch"
    /\ IF site.live
       THEN req' = [req EXCEPT ![r].copy = site, ![r].pc = "write"]
       ELSE Finish(r)
    /\ UNCHANGED <<cluster, file, budget>>

createSite(r) ==
    /\ req[r].pc = "write" /\ req[r].op.handler = "createSite"
    /\ IF site.live
       THEN Finish(r) /\ UNCHANGED site
       ELSE /\ site' = [NoSite EXCEPT !.live = TRUE, !.rv = 1, !.cfg = req[r].op.cfg]
            /\ req' = [req EXCEPT ![r].copy = site', ![r].pc = "Reconcile"]
    /\ UNCHANGED <<secret, workload, file, budget>>

\* The spec that updateSite, updateSiteYAML and setSuspend save.
Edited(op, s) ==
    CASE op.handler = "updateSite"     -> [s EXCEPT !.cfg = op.cfg]
      [] op.handler = "updateSiteYAML" -> [s EXCEPT !.cfg = op.cfg, !.suspend = op.suspend]
      [] op.handler = "setSuspend"     -> [s EXCEPT !.suspend = op.suspend]

updateSite(r) ==
    /\ req[r].pc = "write"
    /\ req[r].op.handler \in {"updateSite", "updateSiteYAML", "setSuspend"}
    /\ IF Updatable(req[r].copy)
       THEN /\ site' = Updated(Edited(req[r].op, req[r].copy))
            /\ req' = [req EXCEPT ![r].copy = site', ![r].pc = "Reconcile"]
       ELSE Finish(r) /\ UNCHANGED site
    /\ UNCHANGED <<secret, workload, file, budget>>

\* By name: whatever has it now.
deleteSite(r) ==
    /\ req[r].pc = "write" /\ req[r].op.handler = "deleteSite"
    /\ IF site.live
       THEN site' = Deleted /\ Goto(r, "Reconcile")
       ELSE Finish(r) /\ UNCHANGED site
    /\ UNCHANGED <<secret, workload, file, budget>>

\* Broken: the handler answers with the site it saved.
refresh_NoGet(r) ==
    /\ req[r].pc = "refresh"
    /\ Goto(r, "answer")
    /\ UNCHANGED <<cluster, file, budget>>

\* After the reconcile the handler reads the site again; a failure leaves it
\* with the copy it saved.  deleteSite has nothing to show.
refresh(r) ==
    /\ req[r].pc = "refresh"
    /\ req' = [req EXCEPT ![r].pc = "answer",
                          ![r].copy = IF site.live /\ req[r].op.handler # "deleteSite"
                                      THEN site ELSE @]
    /\ UNCHANGED <<cluster, file, budget>>

answer(r) ==
    /\ req[r].pc = "answer"
    /\ Finish(r)
    /\ UNCHANGED <<cluster, file, budget>>

Handlers(r) == \/ \E op \in Op : Begin(r, op)
               \/ fetch(r) \/ createSite(r) \/ updateSite(r) \/ deleteSite(r)
               \/ refresh(r) \/ answer(r)

-----------------------------------------------------------------------------
(* Reconcile, inside the request.  Its errors and RequeueAfter go nowhere.  *)

\* The first call once the finalizer is known to be there.
AfterFinalizer(s) == IF s.suspend THEN "ConfigMap" ELSE "ensureSecret"

\* Broken: a site that is being deleted is brought up like any other.
FirstCall_NoDeletion(s) == IF s.finalizer THEN AfterFinalizer(s) ELSE "addFinalizer"

FirstCall(s) ==
    IF s.deleting THEN "removeFinalizer"
    ELSE IF s.finalizer THEN AfterFinalizer(s) ELSE "addFinalizer"

Reconcile(r) ==
    /\ req[r].pc = "Reconcile"
    /\ IF site.live
       THEN req' = [req EXCEPT ![r].local = site, ![r].pc = FirstCall(site)]
       ELSE Goto(r, "refresh")
    /\ UNCHANGED <<cluster, file, budget>>

addFinalizer(r) ==
    /\ req[r].pc = "addFinalizer"
    /\ IF Updatable(req[r].local)
       THEN /\ site' = Updated([req[r].local EXCEPT !.finalizer = TRUE])
            /\ req' = [req EXCEPT ![r].local = site', ![r].pc = AfterFinalizer(site')]
       ELSE Goto(r, "refresh") /\ UNCHANGED site
    /\ UNCHANGED <<secret, workload, file, budget>>

\* ensureSecret: a Get, and a Create when there is none.  What is there is kept.
ensureSecret(r) ==
    /\ req[r].pc = "ensureSecret"
    /\ Goto(r, IF secret THEN "EnsureDatabase" ELSE "createSecret")
    /\ UNCHANGED <<cluster, file, budget>>

createSecret(r) ==
    /\ req[r].pc = "createSecret"
    /\ Goto(r, IF secret THEN "Error" ELSE "EnsureDatabase")
    /\ secret' = TRUE
    /\ UNCHANGED <<site, workload, file, budget>>

\* The SQLite provisioner fails when the request is cancelled, the other request
\* holds the file's lock, or the name is no file name; the file may be there.
ProvisionDatabase(r) ==
    /\ req[r].pc = "EnsureDatabase"
    /\ \/ file' = TRUE /\ Goto(r, "ConfigMap") /\ UNCHANGED budget
       \/ /\ file' \in {file, TRUE}
          /\ Spend("faults")
          /\ req' = [req EXCEPT ![r].pc = "Provisioning", ![r].alone = FALSE]
    /\ UNCHANGED cluster

\* The Get of apply, without Server-Side Apply.
ReadObject(r, k) ==
    /\ req[r].pc = k /\ req[r].found = Unread
    /\ req' = [req EXCEPT ![r].found = workload[k].rv]
    /\ UNCHANGED <<cluster, file, budget>>

NextCall(s, k) == CASE k = "ConfigMap"  -> "Deployment"
                    [] k = "Deployment" -> "Service"
                    [] k = "Service"    -> "Ingress"
                    [] k = "Ingress"    -> IF s.suspend THEN "Suspended" ELSE "Ready"

\* Broken: what is there is left as it is.
WriteObject_CreateOnly(r, k) ==
    /\ req[r].pc = k /\ req[r].found # Unread
    /\ req' = [req EXCEPT ![r].found = Unread, ![r].pc = NextCall(req[r].local, k)]
    /\ workload' = IF workload[k].rv # NotFound THEN workload
                   ELSE [workload EXCEPT ![k] = [rv |-> 1, object |-> Desired(req[r].local)[k]]]
    /\ UNCHANGED <<site, secret, file, budget>>

\* Its Create, or its Update at the resourceVersion read: both are refused when
\* the other request has written the object in between.
WriteObject(r, k) ==
    /\ req[r].pc = k /\ req[r].found # Unread
    /\ IF req[r].found = workload[k].rv
       THEN /\ workload' = [workload EXCEPT ![k] = [rv     |-> @.rv + 1,
                                                   object |-> Desired(req[r].local)[k]]]
            /\ req' = [req EXCEPT ![r].found = Unread, ![r].pc = NextCall(req[r].local, k)]
       ELSE /\ UNCHANGED workload
            /\ req' = [req EXCEPT ![r].found = Unread,
                                  ![r].pc = IF req[r].local.suspend THEN "refresh"
                                                                    ELSE "Error"]
    /\ UNCHANGED <<site, secret, file, budget>>

\* A status update: it carries a resourceVersion too, and touches nothing else.
setPhase(r) ==
    /\ req[r].pc \in SettingPhase
    /\ site' = IF site.live /\ req[r].local.rv = site.rv
               THEN [site EXCEPT !.phase = req[r].pc, !.rv = @ + 1]
               ELSE site
    /\ Goto(r, "refresh")
    /\ UNCHANGED <<secret, workload, file, budget>>

\* reconcileDelete: this mode never drops data.
removeFinalizer(r) ==
    /\ req[r].pc = "removeFinalizer"
    /\ site' = IF Updatable(req[r].local)
               THEN Updated([req[r].local EXCEPT !.finalizer = FALSE])
               ELSE site
    /\ Goto(r, "refresh")
    /\ UNCHANGED <<secret, workload, file, budget>>

Reconciler(r) == \/ Reconcile(r) \/ addFinalizer(r) \/ ensureSecret(r) \/ createSecret(r)
                 \/ ProvisionDatabase(r)
                 \/ \E k \in Kinds : ReadObject(r, k) \/ WriteObject(r, k)
                 \/ setPhase(r) \/ removeFinalizer(r)

\* The cluster lives in the process, the SQLite files do not.
Restart ==
    /\ Spend("restarts")
    /\ site' = NoSite /\ secret' = FALSE
    /\ workload' = [k \in Kinds |-> [rv |-> 0, object |-> NoObject]]
    /\ req' = [r \in Request |-> IdleRequest]
    /\ UNCHANGED file

Next == (\E r \in Request : Handlers(r) \/ Reconciler(r)) \/ Restart

Spec == Init /\ [][Next]_vars

-----------------------------------------------------------------------------
(* Properties                                                               *)

RequestRecord == [op : Op \union {NoOp}, pc : Calls, copy : Site, local : Site,
                  found : Nat \union {Unread}, alone : BOOLEAN]

\* Every variable has its type, and only a site that is not being deleted is
\* brought up (the order of Reconcile).
TypeOK ==
    /\ site \in Site /\ secret \in BOOLEAN /\ file \in BOOLEAN
    /\ workload \in [Kinds -> [rv : Nat, object : Object]]
    /\ req \in [Request -> RequestRecord]
    /\ budget \in [{"requests", "faults", "restarts"} -> Nat]
    /\ \A r \in Request : req[r].pc \in Provisioning => ~req[r].local.deleting

\* The site is what its spec asks for, and so are its objects.
Converged ==
    /\ ~site.deleting
    /\ site.phase = IF site.suspend THEN "Suspended" ELSE "Ready"
    /\ \A k \in Kinds : workload[k].object = Desired(site)[k]
    /\ ~site.suspend => secret /\ file

\* One request that changes a site and runs by itself leaves the mock cluster
\* converged, whatever the requests before it have left behind: a half-applied
\* workload, a deletion not carried through, a site no reconcile got to
\* (maybeReconcile).
AloneConverges ==
    \A r \in Request :
        req[r].pc = "answer" /\ req[r].alone =>
            IF req[r].op.handler = "deleteSite" THEN ~site.live ELSE site.live => Converged

\* Such a request answers with what it has achieved: the spec it was sent, and
\* the phase the reconcile has come to (the Get after maybeReconcile).
AnswerShowsResult ==
    \A r \in Request :
        LET shown == req[r].copy
            op    == req[r].op
        IN  req[r].pc = "answer" /\ req[r].alone /\ site.live =>
                /\ op.cfg # NoConfig => shown.cfg = op.cfg
                /\ op.handler \in {"updateSiteYAML", "setSuspend"} => shown.suspend = op.suspend
                /\ shown.phase = IF shown.suspend THEN "Suspended" ELSE "Ready"
=============================================================================
