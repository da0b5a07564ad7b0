------------------------------- MODULE Console -------------------------------
(***************************************************************************)
(* The pages of the console and the apiserver handlers behind them, for    *)
(* one site.  A page shows a copy of the site that it read earlier; a      *)
(* handler reads the site again, changes the copy it got and sends the     *)
(* whole object back.  Several pages are open at a time, each with several *)
(* calls out, whose answers come in any order, and the operator writes to  *)
(* the same object: its finalizer and its status.                          *)
(*                                                                         *)
(* SiteLifecycle takes every edit for one step at the Update of its        *)
(* handler.  That this is sound is checked here.                           *)
(***************************************************************************)
EXTENDS Naturals

CONSTANTS
    Page,          \* browser windows
    Form,          \* what the fields of the form hold, replicas apart
    MaxReplicas,   \* the largest number the form takes
    Cert, NoCert,  \* spec.tls.secretName, and "" there
    Extra, NoExtra,  \* what only the YAML shows (env, resources, ...), and none
    NoSpec,        \* no YAML document
    \* Bounds on one behaviour:
    Reloads,       \* the loads that the reload buttons of a page have out at a time
    MaxCreates, MaxEdits, MaxStatus, MaxFaults

ASSUME ConsoleAssumption ==
    /\ MaxReplicas \in Nat \ {0}
    /\ NoCert \notin Cert /\ NoExtra \notin Extra
    /\ Reloads \intersect {"shown", "lost"} = {}
    /\ MaxCreates \in Nat /\ MaxEdits \in Nat /\ MaxStatus \in Nat /\ MaxFaults \in Nat

VARIABLES
    site,      \* the WordPressSite in the API server
    page,      \* page[p]: what page p shows
    loads,     \* loads[p][b]: the load that button b of page p has out, or NoLoad
    request,   \* request[p][b]: its request in a handler, or NoRequest
    budget     \* what may still happen

vars == <<site, page, loads, request, budget>>

-----------------------------------------------------------------------------
(* The site                                                                 *)

SiteSpec == [form : Form, replicas : 0..MaxReplicas, cert : Cert \union {NoCert},
             extra : Extra \union {NoExtra}, suspend : BOOLEAN]

ASSUME NoSpecAssumption == NoSpec \notin SiteSpec

Site == [live : BOOLEAN, uid : Nat, rv : Nat, spec : SiteSpec \union {NoSpec},
         finalizer : BOOLEAN, deleting : BOOLEAN]

Gone(s) == [s EXCEPT !.live = FALSE, !.spec = NoSpec,
                     !.finalizer = FALSE, !.deleting = FALSE]

NoSite == [live |-> FALSE, uid |-> 0, rv |-> 0, spec |-> NoSpec,
           finalizer |-> FALSE, deleting |-> FALSE]

\* What the answers of the apiserver say of a site: neither its certificate nor
\* what only the YAML has.  uid and rv are there for the properties.
toDTO(s) == [uid |-> s.uid, rv |-> s.rv, form |-> s.spec.form,
             replicas |-> s.spec.replicas, suspend |-> s.spec.suspend]

SiteDTO == [uid : Nat, rv : Nat, form : Form, replicas : 0..MaxReplicas,
            suspend : BOOLEAN]

NoDTO == [uid |-> 0]

\* A write that changes nothing is no write.
Store(s) == site' = IF s = site THEN site ELSE [s EXCEPT !.rv = site.rv + 1]

\* Broken: the object is sent without a resourceVersion.
Current_NoVersion(s) == site.live /\ s.uid = site.uid

Current(s) == site.live /\ s.uid = site.uid /\ s.rv = site.rv

Spend(what) == budget[what] > 0 /\ budget' = [budget EXCEPT ![what] = @ - 1]

\* toSite: a new site has neither a certificate nor anything of the YAML.
NewSite(form, replicas) ==
    [live |-> TRUE, uid |-> site.uid + 1, rv |-> site.rv, finalizer |-> FALSE,
     deleting |-> FALSE,
     spec |-> [form |-> form, replicas |-> IF replicas = 0 THEN 1 ELSE replicas,
               cert |-> NoCert, extra |-> NoExtra, suspend |-> FALSE]]

-----------------------------------------------------------------------------
(* Requests: what a handler does to the spec it has read                    *)

FormEdit == [op : {"updateSite"}, form : Form, replicas : 0..MaxReplicas]
YamlEdit == [op : {"updateSiteYAML"}, spec : SiteSpec]
SuspendEdit == [op : {"setSuspend"}, suspend : BOOLEAN]
Deletion == [op : {"deleteSite"}]
Creation == [op : {"createSite"}, form : Form, replicas : 0..MaxReplicas]
Edit == Creation \union FormEdit \union YamlEdit \union SuspendEdit \union Deletion

NoRequest == [edit |-> [op |-> "none"], base |-> NoSite]

Request == [edit : Edit, base : Site]

Edited(edit, spec) ==
    CASE edit.op = "updateSite" ->
             [spec EXCEPT !.form = edit.form,
                          !.replicas = IF edit.replicas > 0 THEN edit.replicas ELSE @,
                          !.cert = NoCert]
      [] edit.op = "updateSiteYAML" -> edit.spec
      [] edit.op = "setSuspend" -> [spec EXCEPT !.suspend = edit.suspend]

-----------------------------------------------------------------------------
(* Pages                                                                    *)

\* What a page can have out, one at a time each: the deletion, the creation or
\* the opening of a site from the list, and what the buttons of SiteDetail start.
Button == {"list", "saveForm", "save", "toggleSuspend"} \union Reloads

\* A load waits for the site, has its answer (NoDTO: an error), or waits for the
\* YAML.
Load == [step : {"none", "getSite", "gotSite", "getSiteYAML"},
         got : SiteDTO \union {NoDTO}]

NoLoad == [step |-> "none", got |-> NoDTO]

\* loading: SiteDetail shows nothing but a spinner.
\* For the properties: saved is the version the page was told it has saved, and
\* last is the load it began last, "shown" once it shows the answer of that one,
\* "lost" once that one failed or the answer of another took its place.
NewPage == [at |-> "list", shown |-> NoDTO, yaml |-> NoSpec, loading |-> FALSE,
            saved |-> 0, last |-> "lost"]

Init ==
    /\ site = NoSite
    /\ page = [p \in Page |-> NewPage]
    /\ loads = [p \in Page |-> [b \in Button |-> NoLoad]]
    /\ request = [p \in Page |-> [b \in Button |-> NoRequest]]
    /\ budget = [creates |-> MaxCreates, edits |-> MaxEdits,
                 status |-> MaxStatus, faults |-> MaxFaults]

Out(p, b) == request[p][b] # NoRequest \/ loads[p][b] # NoLoad

\* load begins, after a save that the page was told of or without one.
load(p, b, saved) ==
    /\ loads' = [loads EXCEPT ![p][b] = [NoLoad EXCEPT !.step = "getSite"]]
    /\ page' = [page EXCEPT ![p].at = "detail", ![p].loading = TRUE,
                            ![p].saved = saved, ![p].last = b]

\* The buttons of a page that shows a site.
Ready(p, b) == /\ page[p].at = "detail" /\ ~page[p].loading /\ page[p].shown # NoDTO
               /\ ~Out(p, b)

Open(p) ==
    /\ page[p].at = "list" /\ ~Out(p, "list")
    /\ load(p, "list", 0)
    /\ UNCHANGED <<site, request, budget>>

\* A click that is counted with the edits.
Reload(p, b) ==
    /\ Ready(p, b)
    /\ Spend("edits")
    /\ load(p, b, page[p].saved)
    /\ UNCHANGED <<site, request>>

\* The handler answers, or fails although there is a site.
getSite(p, b) ==
    /\ loads[p][b].step = "getSite"
    /\ \/ /\ loads' = [loads EXCEPT ![p][b] = [step |-> "gotSite",
                                    got |-> IF site.live THEN toDTO(site) ELSE NoDTO]]
          /\ UNCHANGED budget
       \/ /\ site.live /\ Spend("faults")
          /\ loads' = [loads EXCEPT ![p][b] = [NoLoad EXCEPT !.step = "gotSite"]]
    /\ UNCHANGED <<site, page, request>>

\* Whatever answer comes last is shown.
setSite(p, b) ==
    /\ loads[p][b].step = "gotSite" /\ loads[p][b].got # NoDTO
    /\ loads' = [loads EXCEPT ![p][b] = [NoLoad EXCEPT !.step = "getSiteYAML"]]
    /\ page' = [page EXCEPT ![p].shown = loads[p][b].got,
                            ![p].last = IF @ = b THEN "shown"
                                        ELSE IF @ = "shown" THEN "lost" ELSE @]
    /\ UNCHANGED <<site, request, budget>>

\* Broken: the spinner stays after an error.
catch_NoFinally(p, b) ==
    /\ loads[p][b].step = "gotSite" /\ loads[p][b].got = NoDTO
    /\ loads' = [loads EXCEPT ![p][b] = NoLoad]
    /\ page' = [page EXCEPT ![p].last = IF @ = b THEN "lost" ELSE @]
    /\ UNCHANGED <<site, request, budget>>

\* After an error the page shows what it has, if it has a site.
catch(p, b) ==
    /\ loads[p][b].step = "gotSite" /\ loads[p][b].got = NoDTO
    /\ loads' = [loads EXCEPT ![p][b] = NoLoad]
    /\ page' = [page EXCEPT ![p].loading = FALSE,
                            ![p].last = IF @ = b THEN "lost" ELSE @]
    /\ UNCHANGED <<site, request, budget>>

\* The YAML comes from a later read than the site; without it only the form is
\* of use.  The spinner ends with the first load that does.
getSiteYAML(p, b) ==
    /\ loads[p][b].step = "getSiteYAML"
    /\ loads' = [loads EXCEPT ![p][b] = NoLoad]
    /\ \/ /\ page' = [page EXCEPT ![p].loading = FALSE, ![p].yaml = site.spec]
          /\ UNCHANGED budget
       \/ /\ site.live /\ Spend("faults")
          /\ page' = [page EXCEPT ![p].loading = FALSE, ![p].yaml = NoSpec]
    /\ UNCHANGED <<site, request>>

\* A page that is left drops its loads.
Leave(p) ==
    /\ page[p].at = "detail" /\ \A b \in Button : request[p][b] = NoRequest
    /\ page' = [page EXCEPT ![p] = NewPage]
    /\ loads' = [loads EXCEPT ![p] = [b \in Button |-> NoLoad]]
    /\ UNCHANGED <<site, request, budget>>

Send(p, b, edit) ==
    /\ request' = [request EXCEPT ![p][b] = [edit |-> edit, base |-> NoSite]]
    /\ UNCHANGED <<site, page, loads>>

saveForm(p) ==
    /\ Ready(p, "saveForm")
    /\ Spend("edits")
    /\ \E edit \in FormEdit : Send(p, "saveForm", edit)

\* The draft has changed from the document the page was given.
save(p) ==
    /\ Ready(p, "save") /\ page[p].yaml # NoSpec
    /\ Spend("edits")
    /\ \E c \in Cert \union {NoCert}, e \in Extra \union {NoExtra} :
          LET draft == [page[p].yaml EXCEPT !.cert = c, !.extra = e]
          IN  /\ draft # page[p].yaml
              /\ Send(p, "save", [op |-> "updateSiteYAML", spec |-> draft])

\* The page offers the one that its copy of the site is not.
toggleSuspend(p) ==
    /\ Ready(p, "toggleSuspend")
    /\ Spend("edits")
    /\ Send(p, "toggleSuspend", [op |-> "setSuspend", suspend |-> ~page[p].shown.suspend])

onDelete(p) ==
    /\ page[p].at = "list" /\ ~Out(p, "list")
    /\ Spend("edits")
    /\ Send(p, "list", [op |-> "deleteSite"])

\* The page CreateSite, which has no copy of a site either.
onSave(p) ==
    /\ page[p].at = "list" /\ ~Out(p, "list")
    /\ Spend("creates")
    /\ \E edit \in Creation : Send(p, "list", edit)

-----------------------------------------------------------------------------
(* Handlers                                                                 *)

\* Broken: the page keeps what it shows.
Answer_NoReload(p, b, ok, saved) ==
    /\ request' = [request EXCEPT ![p][b] = NoRequest]
    /\ page' = IF ok /\ b # "list" THEN [page EXCEPT ![p].saved = saved] ELSE page
    /\ UNCHANGED loads

\* A page that gets an error shows it and stays; a detail page that gets its
\* answer loads the site again.  saved is the version the answer speaks of.
Answer(p, b, ok, saved) ==
    /\ request' = [request EXCEPT ![p][b] = NoRequest]
    /\ IF ok /\ b # "list" THEN load(p, b, saved) ELSE UNCHANGED <<page, loads>>

\* Create is refused when there is a site of the name.  Whether its answer is
\* lost makes no difference to a page that shows no site.
createSite(p, b) ==
    /\ request[p][b].edit.op = "createSite"
    /\ IF site.live THEN UNCHANGED site
       ELSE Store(NewSite(request[p][b].edit.form, request[p][b].edit.replicas))
    /\ Answer(p, b, ~site.live, 0)
    /\ UNCHANGED budget

\* What the other handlers that change a site begin with.
fetch(p, b) ==
    /\ request[p][b] # NoRequest /\ request[p][b].edit.op # "createSite"
    /\ ~request[p][b].base.live
    /\ IF site.live
       THEN request' = [request EXCEPT ![p][b].base = site] /\ UNCHANGED <<page, loads>>
       ELSE Answer(p, b, FALSE, 0)
    /\ UNCHANGED <<site, budget>>

Fetched(p, b) == request[p][b] # NoRequest /\ request[p][b].base.live

\* The Update is refused when the site has changed, and its answer may be lost
\* (the handler runs into the timeout of the router).
Update(p, b) ==
    /\ Fetched(p, b) /\ request[p][b].edit.op # "deleteSite"
    /\ LET base == request[p][b].base
       IN  /\ IF Current(base)
              THEN Store([base EXCEPT !.spec = Edited(request[p][b].edit, @)])
              ELSE UNCHANGED site
           /\ \/ Answer(p, b, Current(base), site'.rv) /\ UNCHANGED budget
              \/ Answer(p, b, FALSE, 0) /\ Spend("faults")

\* Delete goes by the name: the site need not be the one that was fetched.
Delete(p, b) ==
    /\ Fetched(p, b) /\ request[p][b].edit.op = "deleteSite"
    /\ IF site.live
       THEN Store(IF site.finalizer THEN [site EXCEPT !.deleting = TRUE] ELSE Gone(site))
       ELSE UNCHANGED site
    /\ Answer(p, b, site.live, 0)
    /\ UNCHANGED budget

-----------------------------------------------------------------------------
(* The operator, in SiteLifecycle                                           *)

Claim ==
    /\ site.live /\ ~site.finalizer /\ ~site.deleting
    /\ Store([site EXCEPT !.finalizer = TRUE])
    /\ UNCHANGED <<page, loads, request, budget>>

\* From a copy that has the finalizer.
WriteStatus ==
    /\ site.live /\ site.finalizer
    /\ Spend("status")
    /\ site' = [site EXCEPT !.rv = @ + 1]
    /\ UNCHANGED <<page, loads, request>>

Release ==
    /\ site.live /\ site.deleting
    /\ Store(Gone(site))
    /\ UNCHANGED <<page, loads, request, budget>>

-----------------------------------------------------------------------------
Browse(p) == \/ Open(p) \/ Leave(p) \/ \E b \in Reloads : Reload(p, b)
             \/ \E b \in Button : getSite(p, b) \/ setSite(p, b) \/ catch(p, b)
                                    \/ getSiteYAML(p, b)

Ask(p) == saveForm(p) \/ save(p) \/ toggleSuspend(p) \/ onDelete(p) \/ onSave(p)

Handle(p, b) == createSite(p, b) \/ fetch(p, b) \/ Update(p, b) \/ Delete(p, b)

Next == \/ \E p \in Page : Browse(p) \/ Ask(p) \/ \E b \in Button : Handle(p, b)
        \/ Claim \/ WriteStatus \/ Release

Spec == Init /\ [][Next]_vars

-----------------------------------------------------------------------------
(* Safety                                                                   *)

\* Every variable has its type, a page hides behind its spinner only while a
\* load is out that will end it, a page has one thing out for a button, and a
\* site is there exactly while it has a spec.
TypeOK ==
    /\ site \in Site
    /\ site.live <=> site.spec # NoSpec
    /\ page \in [Page -> [at : {"list", "detail"}, shown : SiteDTO \union {NoDTO},
                          yaml : SiteSpec \union {NoSpec}, loading : BOOLEAN,
                          saved : Nat, last : Button \union {"shown", "lost"}]]
    /\ loads \in [Page -> [Button -> Load]]
    /\ request \in [Page -> [Button -> Request \union {NoRequest}]]
    /\ \A p \in Page :
          /\ page[p].loading => \E b \in Button : loads[p][b] # NoLoad
          /\ \A b \in Button : loads[p][b] = NoLoad \/ request[p][b] = NoRequest
    /\ budget \in [{"creates", "edits", "status", "faults"} -> Nat]

\* The handler that button b of page p called ends in this step.
Answered(p, b) == request[p][b] # NoRequest /\ request'[p][b] = NoRequest

\* An edit is applied to the site as it is, not as it was when the handler read
\* it: whatever other users and the operator did in between, a save changes what
\* it says and nothing else, or it changes nothing, and none of two users who
\* create the site at once replaces that of the other (createSite, updateSite,
\* updateSiteYAML, setSuspend).
EditsAreAtomic ==
    [][ \A p \in Page : \A b \in Button :
            LET edit == request[p][b].edit
            IN  Answered(p, b) /\ edit.op # "deleteSite" =>
                  \/ site' = site
                  \/ edit.op = "createSite" /\ ~site.live
                  \/ /\ site.live /\ edit.op # "createSite"
                     /\ site' = [site EXCEPT !.rv = @ + 1,
                                             !.spec = Edited(edit, @)] ]_vars

\* A page that shows the answer of the load it began last shows every version it
\* was told it has saved, by any of its buttons, or a later one, unless that site
\* is gone: what hides a save is only a load that failed, or one begun before
\* whose answer came after (saveForm, save, toggleSuspend and the reload buttons,
\* which all call load).
SavedIsShown ==
    \A p \in Page :
        page[p].last = "shown" /\ page[p].saved > 0
            => page[p].shown.rv >= page[p].saved \/ site.uid # page[p].shown.uid
                 \/ ~site.live
=============================================================================
