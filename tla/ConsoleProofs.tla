---------------------------- MODULE ConsoleProofs ----------------------------
(***************************************************************************)
(* Theorems about Console, for any number of windows, overlapping loads,   *)
(* edits, operator writes and lost answers.                                *)
(***************************************************************************)
EXTENDS Console, TLAPS

\* The copy a handler has fetched is no later than the site, and one that has
\* the resourceVersion of the site is the site.
CopiesInOrder ==
    \A p \in Page : \A b \in Button :
        LET base == request[p][b].base
        IN  base.live => /\ request[p][b].edit.op # "createSite"
                         /\ base.rv <= site.rv
                         /\ base.rv = site.rv => base = site

\* A copy that is as late as a version that was saved, while its site is there.
Recent(dto, saved) == saved > 0 => dto.rv >= saved \/ site.uid # dto.uid \/ ~site.live

\* The answer to the load that page p began last, once button b has it.
Got(p, b) == page[p].last = b /\ loads[p][b].got # NoDTO

ShownInOrder ==
    \A p \in Page :
        /\ page[p].saved <= site.rv
        /\ page[p].shown.uid <= site.uid
        /\ page[p].last = "shown" => Recent(page[p].shown, page[p].saved)
        /\ \A b \in Button :
              /\ loads[p][b].got.uid <= site.uid
              /\ Got(p, b) => Recent(loads[p][b].got, page[p].saved)

ConsoleInv == CopiesInOrder /\ ShownInOrder

-----------------------------------------------------------------------------
(* Requests and what they are made of                                       *)

LEMMA Idle == NoRequest.edit.op = "none" /\ NoRequest.base = NoSite /\ ~NoSite.live
  BY DEF NoRequest, NoSite

LEMMA NoSiteType == NoSite \in Site
  BY DEF NoSite, Site

\* A request in a handler is a request, with a copy that may or may not be there.
LEMMA Requested ==
    ASSUME TypeOK, NEW p \in Page, NEW b \in Button, request[p][b] # NoRequest
    PROVE  /\ request[p][b] \in Request /\ request[p][b].edit \in Edit
           /\ request[p][b].base \in Site
  BY DEF TypeOK, Request

LEMMA EditKinds ==
    ASSUME NEW edit \in Edit
    PROVE  /\ edit.op \in {"createSite", "updateSite", "updateSiteYAML", "setSuspend",
                           "deleteSite"}
           /\ edit.op \in {"createSite", "updateSite"} =>
                edit.form \in Form /\ edit.replicas \in 0..MaxReplicas
           /\ edit.op = "updateSiteYAML" => edit.spec \in SiteSpec
           /\ edit.op = "setSuspend" => edit.suspend \in BOOLEAN
  BY DEF Edit, Creation, FormEdit, YamlEdit, SuspendEdit, Deletion

\* updateSite, updateSiteYAML and setSuspend make a spec of a spec.
LEMMA EditedType ==
    ASSUME NEW edit \in Edit, NEW spec \in SiteSpec,
           edit.op \notin {"createSite", "deleteSite"}
    PROVE  Edited(edit, spec) \in SiteSpec
<1>1. CASE edit.op = "updateSite"
  BY <1>1, EditKinds DEF Edited, SiteSpec
<1>2. CASE edit.op = "updateSiteYAML"
  BY <1>2, EditKinds DEF Edited
<1>3. CASE edit.op = "setSuspend"
  BY <1>3, EditKinds DEF Edited, SiteSpec
<1> QED
  BY <1>1, <1>2, <1>3, EditKinds

-----------------------------------------------------------------------------
(* The site                                                                 *)

\* What any step may do to the site: a change takes its resourceVersion on, and
\* only a creation its uid.
SiteMoves ==
    /\ site' \in Site
    /\ site'.live <=> site'.spec # NoSpec
    /\ site' = site \/ site'.rv = site.rv + 1
    /\ site'.uid = IF ~site.live /\ site'.live THEN site.uid + 1 ELSE site.uid

LEMMA SiteFacts ==
    ASSUME TypeOK
    PROVE  /\ site.rv \in Nat /\ site.uid \in Nat /\ site.live \in BOOLEAN
           /\ site.live => site.spec \in SiteSpec
  BY DEF TypeOK, Site

LEMMA GoneFacts ==
    ASSUME NEW s \in Site
    PROVE  Gone(s) \in Site /\ ~Gone(s).live /\ Gone(s).spec = NoSpec /\ Gone(s).uid = s.uid
  BY DEF Gone, Site

LEMMA StoreMoves ==
    ASSUME TypeOK, NEW s \in Site, Store(s), s.live <=> s.spec # NoSpec,
           s.uid = IF ~site.live /\ s.live THEN site.uid + 1 ELSE site.uid
    PROVE  SiteMoves
<1>1. CASE s = site
  BY <1>1 DEF Store, SiteMoves, TypeOK, Site
<1>2. CASE s # site
  <2>1. site' = [s EXCEPT !.rv = site.rv + 1] /\ site.rv + 1 \in Nat
    BY <1>2, SiteFacts DEF Store
  <2>2. /\ site' \in Site /\ site'.rv = site.rv + 1 /\ site'.uid = s.uid
        /\ site'.live = s.live /\ site'.spec = s.spec
    BY <2>1 DEF Site
  <2> QED
    BY <2>2 DEF SiteMoves
<1> QED
  BY <1>1, <1>2

LEMMA StillMoves == ASSUME TypeOK, UNCHANGED site PROVE SiteMoves
  BY DEF TypeOK, Site, SiteMoves

LEMMA createSiteMoves ==
    ASSUME TypeOK, NEW p \in Page, NEW b \in Button, createSite(p, b)
    PROVE  SiteMoves
<1>1. CASE site.live
  BY <1>1, StillMoves DEF createSite
<1>2. CASE ~site.live
  <2> DEFINE edit == request[p][b].edit
             s    == NewSite(edit.form, edit.replicas)
  <2>1. edit.op = "createSite" /\ Store(s)
    BY <1>2 DEF createSite
  <2>2. edit.form \in Form /\ edit.replicas \in 0..MaxReplicas
    BY <2>1, Idle, Requested, EditKinds
  <2>3. /\ s \in Site /\ s.live /\ s.spec \in SiteSpec /\ s.uid = site.uid + 1
    BY <2>2, SiteFacts, ConsoleAssumption DEF NewSite, Site, SiteSpec
  <2>4. s.spec # NoSpec
    BY <2>3, NoSpecAssumption
  <2> QED
    BY <1>2, <2>1, <2>3, <2>4, StoreMoves
<1> QED
  BY <1>1, <1>2

\* A copy that is current is the site: what is stored is an edit of the site.
LEMMA CurrentCopy ==
    ASSUME CopiesInOrder, NEW p \in Page, NEW b \in Button, Current(request[p][b].base)
    PROVE  request[p][b].base.live => request[p][b].base = site
  BY DEF CopiesInOrder, Current

LEMMA UpdateEffect ==
    ASSUME TypeOK, CopiesInOrder, NEW p \in Page, NEW b \in Button, Update(p, b)
    PROVE  LET edit == request[p][b].edit
           IN  /\ edit \in Edit /\ edit.op \notin {"createSite", "deleteSite"}
               /\ \/ site' = site
                  \/ /\ site.live
                     /\ Edited(edit, site.spec) \in SiteSpec
                     /\ Store([site EXCEPT !.spec = Edited(edit, @)])
<1> DEFINE edit == request[p][b].edit
           base == request[p][b].base
<1>1. /\ request[p][b] # NoRequest /\ base.live /\ edit.op # "deleteSite"
      /\ IF Current(base)
         THEN Store([base EXCEPT !.spec = Edited(edit, @)])
         ELSE UNCHANGED site
  BY DEF Update, Fetched
<1>2. edit \in Edit /\ edit.op # "createSite"
  BY <1>1, Requested DEF CopiesInOrder
<1>3. CASE Current(base)
  <2>1. base = site
    BY <1>1, <1>3, CurrentCopy
  <2>2. site.live /\ site.spec \in SiteSpec
    BY <1>1, <2>1, SiteFacts
  <2>3. Edited(edit, site.spec) \in SiteSpec
    BY <1>1, <1>2, <2>2, EditedType
  <2> QED
    BY <1>1, <1>2, <1>3, <2>1, <2>2, <2>3
<1>4. CASE ~Current(base)
  BY <1>1, <1>2, <1>4
<1> QED
  BY <1>3, <1>4

LEMMA UpdateMoves ==
    ASSUME TypeOK, CopiesInOrder, NEW p \in Page, NEW b \in Button, Update(p, b)
    PROVE  SiteMoves
<1> DEFINE spec == Edited(request[p][b].edit, site.spec)
           s    == [site EXCEPT !.spec = spec]
<1>1. CASE site' = site
  BY <1>1, StillMoves
<1>2. CASE site.live /\ spec \in SiteSpec /\ Store(s)
  <2>1. s \in Site /\ s.live /\ s.spec = spec /\ s.uid = site.uid
    BY <1>2 DEF TypeOK, Site
  <2> QED
    BY <1>2, <2>1, NoSpecAssumption, StoreMoves
<1> QED
  BY <1>1, <1>2, UpdateEffect

LEMMA GoneMoves ==
    ASSUME TypeOK, site.live, Store(Gone(site))
    PROVE  SiteMoves
  BY GoneFacts, StoreMoves DEF TypeOK

LEMMA DeleteMoves ==
    ASSUME TypeOK, NEW p \in Page, NEW b \in Button, Delete(p, b)
    PROVE  SiteMoves
<1> DEFINE s == [site EXCEPT !.deleting = TRUE]
<1>1. CASE ~site.live
  BY <1>1, StillMoves DEF Delete
<1>2. CASE site.live /\ ~site.finalizer
  BY <1>2, GoneMoves DEF Delete
<1>3. CASE site.live /\ site.finalizer
  <2>1. Store(s)
    BY <1>3 DEF Delete
  <2>2. s \in Site /\ s.live = site.live /\ s.spec = site.spec /\ s.uid = site.uid
    BY DEF TypeOK, Site
  <2>3. s.live <=> s.spec # NoSpec
    BY <2>2 DEF TypeOK
  <2> QED
    BY <1>3, <2>1, <2>2, <2>3, StoreMoves
<1> QED
  BY <1>1, <1>2, <1>3

LEMMA OperatorMoves ==
    ASSUME TypeOK, Claim \/ WriteStatus \/ Release
    PROVE  SiteMoves
<1>1. CASE Claim
  <2> DEFINE s == [site EXCEPT !.finalizer = TRUE]
  <2>1. site.live /\ Store(s)
    BY <1>1 DEF Claim
  <2>2. s \in Site /\ s.live = site.live /\ s.spec = site.spec /\ s.uid = site.uid
    BY DEF TypeOK, Site
  <2>3. s.live <=> s.spec # NoSpec
    BY <2>2 DEF TypeOK
  <2> QED
    BY <2>1, <2>2, <2>3, StoreMoves
<1>2. CASE WriteStatus
  <2>1. site.live /\ site' = [site EXCEPT !.rv = site.rv + 1] /\ site.rv + 1 \in Nat
    BY <1>2, SiteFacts DEF WriteStatus
  <2>2. /\ site' \in Site /\ site'.rv = site.rv + 1 /\ site'.uid = site.uid
        /\ site'.live = site.live /\ site'.spec = site.spec
    BY <2>1 DEF TypeOK, Site
  <2> QED
    BY <2>1, <2>2 DEF SiteMoves, TypeOK
<1>3. CASE Release
  BY <1>3, GoneMoves DEF Release
<1> QED
  BY <1>1, <1>2, <1>3

-----------------------------------------------------------------------------
(* Pages, loads and requests                                                *)

PageRecord == [at : {"list", "detail"}, shown : SiteDTO \union {NoDTO},
               yaml : SiteSpec \union {NoSpec}, loading : BOOLEAN,
               saved : Nat, last : Button \union {"shown", "lost"}]

\* What any step may do to page p and to what it has out: they keep their types.
PageTyped(p) ==
    /\ page' = [page EXCEPT ![p] = page'[p]] /\ page'[p] \in PageRecord
    /\ loads' = [loads EXCEPT ![p] = loads'[p]] /\ loads'[p] \in [Button -> Load]
    /\ request' = [request EXCEPT ![p] = request'[p]]
    /\ request'[p] \in [Button -> Request \union {NoRequest}]
    /\ page'[p].loading => \E b \in Button : loads'[p][b] # NoLoad
    /\ \A b \in Button : loads'[p][b] = NoLoad \/ request'[p][b] = NoRequest

LEMMA PageFacts ==
    ASSUME TypeOK, NEW p \in Page
    PROVE  /\ page \in [Page -> PageRecord] /\ page[p] \in PageRecord
           /\ loads \in [Page -> [Button -> Load]] /\ loads[p] \in [Button -> Load]
           /\ request \in [Page -> [Button -> Request \union {NoRequest}]]
           /\ request[p] \in [Button -> Request \union {NoRequest}]
           /\ page[p].loading => \E b \in Button : loads[p][b] # NoLoad
           /\ \A b \in Button : loads[p][b] = NoLoad \/ request[p][b] = NoRequest
  BY DEF TypeOK, PageRecord

\* A step of button b of page p: n, l and r are the page, the load and the request
\* after it.
ButtonStep(p, b, n, l, r) ==
    /\ n \in PageRecord /\ l \in Load /\ r \in Request \union {NoRequest}
    /\ page' = [page EXCEPT ![p] = n]
    /\ loads' = [loads EXCEPT ![p][b] = l]
    /\ request' = [request EXCEPT ![p][b] = r]
    /\ l = NoLoad \/ r = NoRequest
    /\ n.loading => l # NoLoad \/ (page[p].loading /\ loads[p][b] = NoLoad)

ButtonDone(p, b, n, l, r) ==
    /\ page'[p] = n /\ loads'[p][b] = l /\ request'[p][b] = r
    /\ \A c \in Button \ {b} : /\ loads'[p][c] = loads[p][c]
                               /\ request'[p][c] = request[p][c]

LEMMA ButtonTyped ==
    ASSUME TypeOK, NEW p \in Page, NEW b \in Button, NEW n, NEW l, NEW r,
           ButtonStep(p, b, n, l, r)
    PROVE  PageTyped(p) /\ ButtonDone(p, b, n, l, r)
<1> USE DEF ButtonStep
<1>1. page'[p] = n /\ page' = [page EXCEPT ![p] = page'[p]]
  BY PageFacts
<1>2. /\ loads'[p] = [loads[p] EXCEPT ![b] = l] /\ loads'[p] \in [Button -> Load]
      /\ loads' = [loads EXCEPT ![p] = loads'[p]]
  BY PageFacts
<1>3. /\ request'[p] = [request[p] EXCEPT ![b] = r]
      /\ request'[p] \in [Button -> Request \union {NoRequest}]
      /\ request' = [request EXCEPT ![p] = request'[p]]
  BY PageFacts
<1>4. /\ loads'[p][b] = l /\ request'[p][b] = r
      /\ \A c \in Button \ {b} : loads'[p][c] = loads[p][c] /\ request'[p][c] = request[p][c]
  BY <1>2, <1>3, PageFacts
<1>5. n.loading => \E c \in Button : loads'[p][c] # NoLoad
  BY <1>4, PageFacts
<1>6. \A c \in Button : loads'[p][c] = NoLoad \/ request'[p][c] = NoRequest
  BY <1>4, PageFacts
<1> QED
  BY <1>1, <1>2, <1>3, <1>4, <1>5, <1>6 DEF PageTyped, ButtonDone

LEMMA LoadTypes ==
    /\ NoLoad \in Load /\ NoLoad.got = NoDTO
    /\ \A step \in {"getSite", "gotSite", "getSiteYAML"} :
          LET l == [NoLoad EXCEPT !.step = step]
          IN  l \in Load /\ l # NoLoad /\ l.got = NoDTO
    /\ \A got \in SiteDTO \union {NoDTO} :
          LET l == [step |-> "gotSite", got |-> got]
          IN  l \in Load /\ l # NoLoad /\ l.got = got
  BY DEF Load, NoLoad

LEMMA toDTOType ==
    ASSUME TypeOK, site.live
    PROVE  toDTO(site) \in SiteDTO /\ toDTO(site).uid = site.uid /\ toDTO(site).rv = site.rv
<1>1. site.spec \in SiteSpec /\ site.uid \in Nat /\ site.rv \in Nat
  BY SiteFacts
<1> QED
  BY <1>1 DEF toDTO, SiteDTO, SiteSpec

\* The answers a page has: as they were, none, or the site as it is.
AnswersMove(p) ==
    \A b \in Button :
        \/ loads'[p][b].got = loads[p][b].got
        \/ loads'[p][b].got = NoDTO
        \/ loads'[p][b].got = toDTO(site) /\ site' = site /\ site.live

\* What a step may do to what page p shows and waits for.
Stays(p) == /\ page'[p].shown = page[p].shown /\ page'[p].saved = page[p].saved
            /\ page'[p].last \in {page[p].last, "lost"} /\ AnswersMove(p)
Loads(p) == /\ page'[p].shown = page[p].shown /\ page'[p].saved <= site'.rv
            /\ page'[p].last \in Button /\ loads'[p][page'[p].last].got = NoDTO
            /\ AnswersMove(p)
Shows(p, b) == /\ page'[p].shown = loads[p][b].got /\ page'[p].saved = page[p].saved
               /\ page'[p].last = IF page[p].last = b THEN "shown"
                                  ELSE IF page[p].last = "shown" THEN "lost" ELSE page[p].last
               /\ loads[p][b].got # NoDTO /\ AnswersMove(p) /\ site' = site
Leaves(p) == /\ page'[p].shown = NoDTO /\ page'[p].saved = 0 /\ page'[p].last = "lost"
             /\ AnswersMove(p)

ShownMoves(p) == Stays(p) \/ Loads(p) \/ Leaves(p) \/ \E b \in Button : Shows(p, b)

CopyMoves(p) ==
    \A b \in Button :
        LET r == request'[p][b]
        IN  \/ r = request[p][b]
            \/ ~r.base.live
            \/ r.base = site /\ site' = site /\ r.edit.op # "createSite"

PageMoves(p) == PageTyped(p) /\ ShownMoves(p) /\ CopyMoves(p)

LEMMA SameRequests ==
    ASSUME TypeOK, UNCHANGED request, NEW p \in Page
    PROVE  CopyMoves(p) /\ \A b \in Button : request' = [request EXCEPT ![p][b] = request[p][b]]
  BY PageFacts DEF CopyMoves

\* A load begins where nothing else is out.
LEMMA LoadMoves ==
    ASSUME TypeOK, NEW p \in Page, NEW b \in Button, NEW saved \in Nat, saved <= site'.rv,
           load(p, b, saved), NEW r \in {NoRequest},
           request' = [request EXCEPT ![p][b] = r]
    PROVE  PageMoves(p)
<1> DEFINE n == [page[p] EXCEPT !.at = "detail", !.loading = TRUE, !.saved = saved,
                                !.last = b]
           l == [NoLoad EXCEPT !.step = "getSite"]
<1>1. /\ n \in PageRecord /\ n.shown = page[p].shown /\ n.saved = saved /\ n.last = b
  BY PageFacts DEF PageRecord
<1>2. l \in Load /\ l # NoLoad /\ l.got = NoDTO
  BY LoadTypes
<1>3. page' = [page EXCEPT ![p] = n] /\ loads' = [loads EXCEPT ![p][b] = l]
  BY PageFacts DEF load
<1>4. r \in Request \union {NoRequest} /\ ~r.base.live
  BY Idle
<1> HIDE DEF n, l
<1>5. ButtonStep(p, b, n, l, r)
  BY <1>1, <1>2, <1>3, <1>4 DEF ButtonStep
<1>6. PageTyped(p) /\ ButtonDone(p, b, n, l, r)
  BY <1>5, ButtonTyped
<1>7. AnswersMove(p) /\ CopyMoves(p)
  BY <1>2, <1>4, <1>6 DEF AnswersMove, CopyMoves, ButtonDone
<1> QED
  BY <1>1, <1>2, <1>6, <1>7 DEF PageMoves, ShownMoves, Loads, ButtonDone

\* A step of a load: its answers move, and no request does.
LEMMA LoadStep ==
    ASSUME TypeOK, NEW p \in Page, NEW b \in Button, loads[p][b] # NoLoad,
           UNCHANGED <<site, request>>, NEW n \in PageRecord, NEW l \in Load,
           page' = [page EXCEPT ![p] = n], loads' = [loads EXCEPT ![p][b] = l],
           n.loading => l # NoLoad,
           l.got = NoDTO \/ (l.got = toDTO(site) /\ site.live)
    PROVE  SiteMoves /\ PageTyped(p) /\ CopyMoves(p) /\ page'[p] = n /\ AnswersMove(p)
<1>1. SiteMoves /\ CopyMoves(p) /\ request' = [request EXCEPT ![p][b] = request[p][b]]
  BY StillMoves, SameRequests
<1>2. request[p][b] = NoRequest /\ request[p][b] \in Request \union {NoRequest}
  BY PageFacts
<1>3. ButtonStep(p, b, n, l, request[p][b])
  BY <1>1, <1>2 DEF ButtonStep
<1>4. PageTyped(p) /\ ButtonDone(p, b, n, l, request[p][b])
  BY <1>3, ButtonTyped
<1> QED
  BY <1>1, <1>4 DEF AnswersMove, ButtonDone

LEMMA BrowseMoves ==
    ASSUME TypeOK, ConsoleInv, NEW p \in Page, Browse(p)
    PROVE  SiteMoves /\ PageMoves(p)
<1>1. CASE Open(p)
  <2>1. SiteMoves /\ "list" \in Button /\ request[p]["list"] = NoRequest
        /\ load(p, "list", 0) /\ UNCHANGED request
    BY <1>1, StillMoves DEF Open, Out, Button
  <2>2. request' = [request EXCEPT ![p]["list"] = NoRequest] /\ 0 <= site'.rv /\ 0 \in Nat
    BY <2>1, SameRequests DEF SiteMoves, Site
  <2> QED
    BY <2>1, <2>2, LoadMoves
<1>2. CASE \E b \in Reloads : Reload(p, b)
  <2>1. PICK b \in Reloads : Reload(p, b)
    BY <1>2
  <2>2. /\ SiteMoves /\ b \in Button /\ request[p][b] = NoRequest
        /\ load(p, b, page[p].saved) /\ UNCHANGED <<site, request>>
    BY <2>1, StillMoves DEF Reload, Ready, Out, Button
  <2>3. /\ request' = [request EXCEPT ![p][b] = NoRequest]
        /\ page[p].saved <= site'.rv /\ page[p].saved \in Nat
    BY <2>2, SameRequests, PageFacts DEF ConsoleInv, ShownInOrder, PageRecord
  <2> QED
    BY <2>2, <2>3, LoadMoves
<1>3. CASE Leave(p)
  <2>1. /\ SiteMoves /\ UNCHANGED request /\ page' = [page EXCEPT ![p] = NewPage]
        /\ loads' = [loads EXCEPT ![p] = [b \in Button |-> NoLoad]]
    BY <1>3, StillMoves DEF Leave
  <2>2. /\ NewPage \in PageRecord /\ NewPage.shown = NoDTO /\ NewPage.saved = 0
        /\ NewPage.last = "lost" /\ NewPage.loading = FALSE
    BY DEF NewPage, PageRecord
  <2>3. /\ page'[p] = NewPage /\ page' = [page EXCEPT ![p] = page'[p]]
        /\ loads'[p] = [b \in Button |-> NoLoad] /\ loads'[p] \in [Button -> Load]
        /\ loads' = [loads EXCEPT ![p] = loads'[p]]
    BY <2>1, PageFacts, LoadTypes
  <2>4. /\ request' = [request EXCEPT ![p] = request'[p]]
        /\ request'[p] \in [Button -> Request \union {NoRequest}]
    BY <2>1, PageFacts
  <2>5. PageTyped(p)
    BY <2>2, <2>3, <2>4 DEF PageTyped
  <2>6. AnswersMove(p) /\ CopyMoves(p)
    BY <2>1, <2>3, LoadTypes, SameRequests DEF AnswersMove
  <2> QED
    BY <2>1, <2>2, <2>3, <2>5, <2>6 DEF PageMoves, ShownMoves, Leaves
<1>4. ASSUME NEW b \in Button, getSite(p, b) PROVE SiteMoves /\ PageMoves(p)
  <2>1. /\ loads[p][b].step = "getSite" /\ loads[p][b] # NoLoad
        /\ UNCHANGED <<site, page, request>>
        /\ page' = [page EXCEPT ![p] = page[p]] /\ page[p] \in PageRecord
    BY <1>4, PageFacts DEF getSite, NoLoad
  <2>2. PICK got \in {NoDTO, toDTO(site)} :
            /\ got # NoDTO => site.live
            /\ loads' = [loads EXCEPT ![p][b] = [step |-> "gotSite", got |-> got]]
    <3>1. [NoLoad EXCEPT !.step = "gotSite"] = [step |-> "gotSite", got |-> NoDTO]
      BY DEF NoLoad
    <3> QED
      BY <1>4, <3>1 DEF getSite
  <2>3. got \in SiteDTO \union {NoDTO} /\ (got = NoDTO \/ (got = toDTO(site) /\ site.live))
    BY <2>2, toDTOType
  <2> DEFINE l == [step |-> "gotSite", got |-> got]
  <2>4. l \in Load /\ l # NoLoad /\ l.got = got
    BY <2>3, LoadTypes
  <2> HIDE DEF l
  <2>5. SiteMoves /\ PageTyped(p) /\ CopyMoves(p) /\ page'[p] = page[p] /\ AnswersMove(p)
    BY <2>1, <2>2, <2>3, <2>4, LoadStep DEF l
  <2> QED
    BY <2>5 DEF PageMoves, ShownMoves, Stays
<1>5. ASSUME NEW b \in Button, setSite(p, b) PROVE SiteMoves /\ PageMoves(p)
  <2> DEFINE last == IF page[p].last = b THEN "shown"
                     ELSE IF page[p].last = "shown" THEN "lost" ELSE page[p].last
             n == [page[p] EXCEPT !.shown = loads[p][b].got, !.last = last]
             l == [NoLoad EXCEPT !.step = "getSiteYAML"]
  <2>1. /\ loads[p][b] # NoLoad /\ loads[p][b].got # NoDTO /\ UNCHANGED <<site, request>>
        /\ loads' = [loads EXCEPT ![p][b] = l]
    BY <1>5 DEF setSite, NoLoad
  <2>2. page' = [page EXCEPT ![p] = n]
    BY <1>5, PageFacts DEF setSite
  <2>3. page[p].last \in Button \union {"shown", "lost"}
        /\ loads[p][b].got \in SiteDTO \union {NoDTO}
    BY PageFacts DEF PageRecord, Load
  <2>4. last \in Button \union {"shown", "lost"}
    BY <2>3
  <2> HIDE DEF last
  <2>5. n \in PageRecord /\ n.shown = loads[p][b].got /\ n.saved = page[p].saved /\ n.last = last
    BY <2>3, <2>4, PageFacts DEF PageRecord
  <2>6. l \in Load /\ l # NoLoad /\ l.got = NoDTO
    BY LoadTypes
  <2> HIDE DEF n, l
  <2>7. SiteMoves /\ PageTyped(p) /\ CopyMoves(p) /\ page'[p] = n /\ AnswersMove(p)
    BY <2>1, <2>2, <2>5, <2>6, LoadStep
  <2> QED
    BY <2>1, <2>5, <2>7 DEF PageMoves, ShownMoves, Shows, last
<1>6. ASSUME NEW b \in Button, catch(p, b) PROVE SiteMoves /\ PageMoves(p)
  <2> DEFINE last == IF page[p].last = b THEN "lost" ELSE page[p].last
             n == [page[p] EXCEPT !.loading = FALSE, !.last = last]
  <2>1. /\ loads[p][b] # NoLoad /\ UNCHANGED <<site, request>>
        /\ loads' = [loads EXCEPT ![p][b] = NoLoad]
    BY <1>6 DEF catch, NoLoad
  <2>2. page' = [page EXCEPT ![p] = n]
    BY <1>6, PageFacts DEF catch
  <2>3. last \in Button \union {"shown", "lost"} /\ last \in {page[p].last, "lost"}
    BY PageFacts DEF PageRecord
  <2> HIDE DEF last
  <2>4. /\ n \in PageRecord /\ n.shown = page[p].shown /\ n.saved = page[p].saved
        /\ n.last = last /\ ~n.loading
    BY <2>3, PageFacts DEF PageRecord
  <2> HIDE DEF n
  <2>5. SiteMoves /\ PageTyped(p) /\ CopyMoves(p) /\ page'[p] = n /\ AnswersMove(p)
    BY <2>1, <2>2, <2>4, LoadTypes, LoadStep
  <2> QED
    BY <2>3, <2>4, <2>5 DEF PageMoves, ShownMoves, Stays
<1>7. ASSUME NEW b \in Button, getSiteYAML(p, b) PROVE SiteMoves /\ PageMoves(p)
  <2>1. /\ loads[p][b] # NoLoad /\ UNCHANGED <<site, request>>
        /\ loads' = [loads EXCEPT ![p][b] = NoLoad]
    BY <1>7 DEF getSiteYAML, NoLoad
  <2>2. PICK yaml \in {site.spec, NoSpec} :
            page' = [page EXCEPT ![p] = [page[p] EXCEPT !.loading = FALSE, !.yaml = yaml]]
    BY <1>7, PageFacts DEF getSiteYAML
  <2>3. yaml \in SiteSpec \union {NoSpec}
    BY <2>2 DEF TypeOK, Site
  <2> DEFINE n == [page[p] EXCEPT !.loading = FALSE, !.yaml = yaml]
  <2>4. /\ n \in PageRecord /\ n.shown = page[p].shown /\ n.saved = page[p].saved
        /\ n.last = page[p].last /\ ~n.loading
    BY <2>3, PageFacts DEF PageRecord
  <2>5. page' = [page EXCEPT ![p] = n]
    BY <2>2
  <2> HIDE DEF n
  <2>6. SiteMoves /\ PageTyped(p) /\ CopyMoves(p) /\ page'[p] = n /\ AnswersMove(p)
    BY <2>1, <2>4, <2>5, LoadTypes, LoadStep
  <2> QED
    BY <2>4, <2>6 DEF PageMoves, ShownMoves, Stays
<1> QED
  BY <1>1, <1>2, <1>3, <1>4, <1>5, <1>6, <1>7 DEF Browse

LEMMA SendMoves ==
    ASSUME TypeOK, NEW p \in Page, NEW b \in Button, NEW edit \in Edit, Send(p, b, edit),
           ~Out(p, b)
    PROVE  SiteMoves /\ PageMoves(p)
<1> DEFINE r == [edit |-> edit, base |-> NoSite]
<1>1. SiteMoves /\ UNCHANGED <<page, loads>> /\ request' = [request EXCEPT ![p][b] = r]
  BY StillMoves DEF Send
<1>2. r \in Request \union {NoRequest} /\ ~r.base.live
  BY NoSiteType, Idle DEF Request
<1>3. /\ loads[p][b] = NoLoad /\ page[p] \in PageRecord /\ loads[p][b] \in Load
      /\ page' = [page EXCEPT ![p] = page[p]]
      /\ loads' = [loads EXCEPT ![p][b] = loads[p][b]]
  BY <1>1, PageFacts DEF Out
<1> HIDE DEF r
<1>4. ButtonStep(p, b, page[p], loads[p][b], r)
  BY <1>1, <1>2, <1>3 DEF ButtonStep
<1>5. PageTyped(p) /\ ButtonDone(p, b, page[p], loads[p][b], r)
  BY <1>4, ButtonTyped
<1>6. AnswersMove(p) /\ CopyMoves(p)
  BY <1>2, <1>5 DEF AnswersMove, CopyMoves, ButtonDone
<1> QED
  BY <1>1, <1>5, <1>6 DEF PageMoves, ShownMoves, Stays, ButtonDone

LEMMA AskMoves ==
    ASSUME TypeOK, NEW p \in Page, Ask(p)
    PROVE  SiteMoves /\ PageMoves(p)
<1> USE DEF Button, Ready
<1>1. CASE saveForm(p)
  <2>1. FormEdit \subseteq Edit
    BY DEF Edit
  <2> QED
    BY <1>1, <2>1, SendMoves DEF saveForm
<1>2. CASE save(p)
  <2>1. PICK c \in Cert \union {NoCert}, e \in Extra \union {NoExtra} :
           Send(p, "save", [op   |-> "updateSiteYAML",
                            spec |-> [page[p].yaml EXCEPT !.cert = c, !.extra = e]])
    BY <1>2 DEF save
  <2>2. page[p].yaml \in SiteSpec
    BY <1>2, PageFacts DEF save, PageRecord
  <2>3. [page[p].yaml EXCEPT !.cert = c, !.extra = e] \in SiteSpec
    BY <2>2 DEF SiteSpec
  <2>4. [op |-> "updateSiteYAML", spec |-> [page[p].yaml EXCEPT !.cert = c, !.extra = e]] \in Edit
    BY <2>3 DEF Edit, YamlEdit
  <2> QED
    BY <1>2, <2>1, <2>4, SendMoves DEF save
<1>3. CASE toggleSuspend(p)
  <2>1. page[p].shown \in SiteDTO
    BY <1>3, PageFacts DEF toggleSuspend, PageRecord
  <2>2. [op |-> "setSuspend", suspend |-> ~page[p].shown.suspend] \in Edit
    BY <2>1 DEF SiteDTO, Edit, SuspendEdit
  <2> QED
    BY <1>3, <2>2, SendMoves DEF toggleSuspend
<1>4. CASE onDelete(p)
  <2>1. [op |-> "deleteSite"] \in Edit
    BY DEF Edit, Deletion
  <2> QED
    BY <1>4, <2>1, SendMoves DEF onDelete
<1>5. CASE onSave(p)
  <2>1. Creation \subseteq Edit
    BY DEF Edit
  <2> QED
    BY <1>5, <2>1, SendMoves DEF onSave
<1> QED
  BY <1>1, <1>2, <1>3, <1>4, <1>5 DEF Ask

\* A page is answered while it waits; the version it is told of is there.
LEMMA AnswerMoves ==
    ASSUME TypeOK, NEW p \in Page, NEW b \in Button, request[p][b] # NoRequest, NEW ok,
           NEW saved \in Nat, Answer(p, b, ok, saved), saved <= site'.rv
    PROVE  PageMoves(p)
<1>1. request' = [request EXCEPT ![p][b] = NoRequest]
  BY DEF Answer
<1>2. CASE load(p, b, saved)
  BY <1>1, <1>2, LoadMoves
<1>3. CASE UNCHANGED <<page, loads>>
  <2>1. /\ loads[p][b] = NoLoad /\ page[p] \in PageRecord /\ loads[p][b] \in Load
        /\ page' = [page EXCEPT ![p] = page[p]]
        /\ loads' = [loads EXCEPT ![p][b] = loads[p][b]]
    BY <1>3, PageFacts
  <2>2. ButtonStep(p, b, page[p], loads[p][b], NoRequest)
    BY <1>1, <2>1 DEF ButtonStep
  <2>3. PageTyped(p) /\ ButtonDone(p, b, page[p], loads[p][b], NoRequest)
    BY <2>2, ButtonTyped
  <2>4. AnswersMove(p) /\ CopyMoves(p)
    BY <2>3, Idle DEF AnswersMove, CopyMoves, ButtonDone
  <2> QED
    BY <2>3, <2>4 DEF PageMoves, ShownMoves, Stays, ButtonDone
<1> QED
  BY <1>2, <1>3 DEF Answer

LEMMA HandleMoves ==
    ASSUME TypeOK, CopiesInOrder, NEW p \in Page, NEW b \in Button, Handle(p, b)
    PROVE  SiteMoves /\ PageMoves(p)
<1>1. CASE createSite(p, b)
  <2>1. SiteMoves /\ request[p][b] # NoRequest /\ 0 <= site'.rv
    BY <1>1, createSiteMoves, Idle DEF createSite, SiteMoves, Site
  <2> QED
    BY <1>1, <2>1, AnswerMoves DEF createSite
<1>2. CASE fetch(p, b) /\ ~site.live
  <2>1. SiteMoves /\ request[p][b] # NoRequest /\ 0 <= site'.rv
    BY <1>2, StillMoves DEF fetch, SiteMoves, Site
  <2> QED
    BY <1>2, <2>1, AnswerMoves DEF fetch
<1>3. CASE fetch(p, b) /\ site.live
  <2>1. SiteMoves /\ UNCHANGED <<site, page, loads>>
    BY <1>3, StillMoves DEF fetch
  <2>2. /\ request[p][b] \in Request /\ request[p][b] # NoRequest
        /\ request[p][b].edit.op # "createSite" /\ request[p][b].edit \in Edit
    BY <1>3, Requested DEF fetch
  <2> DEFINE r == [request[p][b] EXCEPT !.base = site]
  <2>3. request' = [request EXCEPT ![p][b] = r]
    BY <1>3, PageFacts DEF fetch
  <2>4. r \in Request /\ r.base = site /\ r.edit = request[p][b].edit
    BY <2>2 DEF Request, TypeOK
  <2>5. /\ loads[p][b] = NoLoad /\ page[p] \in PageRecord /\ loads[p][b] \in Load
        /\ page' = [page EXCEPT ![p] = page[p]]
        /\ loads' = [loads EXCEPT ![p][b] = loads[p][b]]
    BY <2>1, <2>2, PageFacts
  <2> HIDE DEF r
  <2>6. ButtonStep(p, b, page[p], loads[p][b], r)
    BY <2>3, <2>4, <2>5 DEF ButtonStep
  <2>7. PageTyped(p) /\ ButtonDone(p, b, page[p], loads[p][b], r)
    BY <2>6, ButtonTyped
  <2>8. AnswersMove(p) /\ CopyMoves(p)
    BY <2>1, <2>2, <2>4, <2>7 DEF AnswersMove, CopyMoves, ButtonDone
  <2> QED
    BY <2>1, <2>7, <2>8 DEF PageMoves, ShownMoves, Stays, ButtonDone
<1>4. CASE Update(p, b)
  <2>1. SiteMoves /\ request[p][b] # NoRequest /\ site'.rv \in Nat
    BY <1>4, UpdateMoves DEF Update, Fetched, SiteMoves, Site
  <2>2. site'.rv <= site'.rv /\ 0 <= site'.rv
    BY <2>1
  <2> DEFINE ok == Current(request[p][b].base)
  <2> HIDE DEF ok
  <2>3. CASE Answer(p, b, ok, site'.rv)
    BY <2>1, <2>2, <2>3, AnswerMoves
  <2>4. CASE Answer(p, b, FALSE, 0)
    BY <2>1, <2>2, <2>4, AnswerMoves
  <2> QED
    BY <1>4, <2>3, <2>4 DEF Update, ok
<1>5. CASE Delete(p, b)
  <2>1. request[p][b] # NoRequest /\ Answer(p, b, site.live, 0)
    BY <1>5 DEF Delete, Fetched
  <2>2. SiteMoves
    BY <1>5, DeleteMoves
  <2>3. 0 <= site'.rv
    BY <2>2 DEF SiteMoves, Site
  <2> QED
    BY <2>1, <2>2, <2>3, AnswerMoves
<1> QED
  BY <1>1, <1>2, <1>3, <1>4, <1>5 DEF Handle

-----------------------------------------------------------------------------
(* The invariants                                                           *)

LEMMA InitHolds == Init => TypeOK /\ ConsoleInv
<1> SUFFICES ASSUME Init PROVE TypeOK /\ ConsoleInv
  OBVIOUS
<1>1. /\ site = NoSite /\ site.rv = 0 /\ site.uid = 0 /\ ~site.live /\ site.spec = NoSpec
      /\ site \in Site
  BY NoSiteType DEF Init, NoSite
<1>2. /\ NewPage \in PageRecord /\ NewPage.shown = NoDTO /\ NewPage.saved = 0
      /\ NewPage.last = "lost" /\ NewPage.loading = FALSE
  BY DEF NewPage, PageRecord
<1>3. /\ page \in [Page -> PageRecord] /\ \A p \in Page : page[p] = NewPage
      /\ request \in [Page -> [Button -> Request \union {NoRequest}]]
      /\ loads \in [Page -> [Button -> Load]]
      /\ \A p \in Page : \A b \in Button : request[p][b] = NoRequest /\ loads[p][b] = NoLoad
  BY <1>2, LoadTypes DEF Init
<1>4. budget \in [{"creates", "edits", "status", "faults"} -> Nat]
  BY ConsoleAssumption DEF Init
<1>5. TypeOK
  BY <1>1, <1>2, <1>3, <1>4 DEF TypeOK, PageRecord
<1>6. CopiesInOrder
  BY <1>3, Idle DEF CopiesInOrder
<1>7. ShownInOrder
  <2>1. NoDTO.uid = 0 /\ 0 <= site.rv /\ 0 <= site.uid
    BY <1>1 DEF NoDTO
  <2>2. "lost" \notin Button
    BY ConsoleAssumption DEF Button
  <2>3. ASSUME NEW p \in Page
        PROVE  /\ page[p].saved = 0 /\ page[p].shown.uid = 0 /\ page[p].last = "lost"
               /\ \A b \in Button : loads[p][b].got.uid = 0
    BY <1>2, <1>3, <2>1, LoadTypes
  <2>4. ASSUME NEW p \in Page, NEW b \in Button PROVE ~Got(p, b)
    BY <2>2, <2>3 DEF Got
  <2> QED
    BY <2>1, <2>3, <2>4 DEF ShownInOrder
<1> QED
  BY <1>5, <1>6, <1>7 DEF ConsoleInv

LEMMA BudgetTyped ==
    ASSUME TypeOK, [Next]_vars
    PROVE  budget' \in [{"creates", "edits", "status", "faults"} -> Nat]
<1> DEFINE What == {"creates", "edits", "status", "faults"}
<1>1. budget \in [What -> Nat]
  BY DEF TypeOK
<1>2. ASSUME NEW what \in What, Spend(what) PROVE budget' \in [What -> Nat]
  BY <1>1, <1>2 DEF Spend
<1>3. budget' = budget \/ \E what \in What : Spend(what)
  <2>1. CASE UNCHANGED vars
    BY <2>1 DEF vars
  <2>2. CASE Claim \/ WriteStatus \/ Release
    BY <2>2 DEF Claim, WriteStatus, Release
  <2>3. ASSUME NEW p \in Page, Browse(p) PROVE budget' = budget \/ Spend("faults") \/ Spend("edits")
    BY <2>3 DEF Browse, Open, Reload, Leave, getSite, setSite, catch, getSiteYAML
  <2>4. ASSUME NEW p \in Page, Ask(p) PROVE Spend("edits") \/ Spend("creates")
    BY <2>4 DEF Ask, saveForm, save, toggleSuspend, onDelete, onSave
  <2>5. ASSUME NEW p \in Page, NEW b \in Button, Handle(p, b)
        PROVE  budget' = budget \/ Spend("faults")
    BY <2>5 DEF Handle, createSite, fetch, Update, Delete
  <2> QED
    BY <2>1, <2>2, <2>3, <2>4, <2>5 DEF Next
<1> QED
  BY <1>1, <1>2, <1>3

\* Every step moves the site as SiteMoves says, and at most one page.
LEMMA StepMoves ==
    ASSUME TypeOK, ConsoleInv, [Next]_vars
    PROVE  /\ SiteMoves
           /\ UNCHANGED <<page, loads, request>> \/ \E p \in Page : PageMoves(p)
<1>1. CASE UNCHANGED vars
  BY <1>1, StillMoves DEF vars
<1>2. CASE Claim \/ WriteStatus \/ Release
  BY <1>2, OperatorMoves DEF Claim, WriteStatus, Release
<1>3. CASE \E p \in Page : Browse(p) \/ Ask(p) \/ \E b \in Button : Handle(p, b)
  BY <1>3, BrowseMoves, AskMoves, HandleMoves DEF ConsoleInv
<1> QED
  BY <1>1, <1>2, <1>3 DEF Next

\* What the step leaves alone of the other pages.
LEMMA OtherPages ==
    ASSUME TypeOK, NEW p \in Page, PageTyped(p), NEW q \in Page, q # p
    PROVE  page'[q] = page[q] /\ loads'[q] = loads[q] /\ request'[q] = request[q]
  BY PageFacts DEF PageTyped

LEMMA TypeStep ==
    ASSUME TypeOK, ConsoleInv, [Next]_vars
    PROVE  TypeOK'
<1>1. SiteMoves /\ budget' \in [{"creates", "edits", "status", "faults"} -> Nat]
  BY StepMoves, BudgetTyped
<1>2. CASE UNCHANGED <<page, loads, request>>
  BY <1>1, <1>2 DEF TypeOK, SiteMoves
<1>3. ASSUME NEW p \in Page, PageTyped(p)
      PROVE  TypeOK'
  <2>1. /\ page' \in [Page -> PageRecord] /\ loads' \in [Page -> [Button -> Load]]
        /\ request' \in [Page -> [Button -> Request \union {NoRequest}]]
    BY <1>3, PageFacts DEF PageTyped
  <2>2. ASSUME NEW q \in Page
        PROVE  /\ page'[q].loading => \E b \in Button : loads'[q][b] # NoLoad
               /\ \A b \in Button : loads'[q][b] = NoLoad \/ request'[q][b] = NoRequest
    <3>1. CASE q = p
      BY <1>3, <3>1 DEF PageTyped
    <3>2. CASE q # p
      BY <1>3, <3>2, OtherPages, PageFacts
    <3> QED
      BY <3>1, <3>2
  <2> QED
    BY <1>1, <2>1, <2>2 DEF TypeOK, SiteMoves, PageRecord
<1> QED
  BY <1>2, <1>3, StepMoves DEF PageMoves

\* A copy that the step leaves alone stays in order, because a site that changes
\* takes a new resourceVersion.
LEMMA CopyStep ==
    ASSUME TypeOK, ConsoleInv, [Next]_vars
    PROVE  CopiesInOrder'
<1> SUFFICES ASSUME NEW q \in Page, NEW b \in Button, request'[q][b].base.live
             PROVE  /\ request'[q][b].edit.op # "createSite"
                    /\ request'[q][b].base.rv <= site'.rv
                    /\ request'[q][b].base.rv = site'.rv => request'[q][b].base = site'
  BY DEF CopiesInOrder
<1> DEFINE r == request[q][b]
<1>1. SiteMoves /\ CopiesInOrder
  BY StepMoves DEF ConsoleInv
<1>2. site.rv \in Nat /\ site'.rv \in Nat
  BY <1>1 DEF SiteMoves, Site, TypeOK
<1>3. CASE request'[q][b] = r
  <2>1. r.base.rv \in Nat
    BY Idle, <1>3, Requested DEF Site
  <2>2. /\ r.edit.op # "createSite" /\ r.base.rv <= site.rv
        /\ r.base.rv = site.rv => r.base = site
    BY <1>1, <1>3 DEF CopiesInOrder
  <2>3. CASE site' = site
    BY <1>3, <2>2, <2>3
  <2>4. CASE site'.rv = site.rv + 1
    BY <1>2, <1>3, <2>1, <2>2, <2>4
  <2> QED
    BY <1>1, <2>3, <2>4 DEF SiteMoves
<1>4. CASE request'[q][b].base = site /\ site' = site /\ request'[q][b].edit.op # "createSite"
  BY <1>2, <1>4
<1>5. \/ request'[q][b] = r
      \/ request'[q][b].base = site /\ site' = site /\ request'[q][b].edit.op # "createSite"
  <2>1. CASE UNCHANGED <<page, loads, request>>
    BY <2>1
  <2>2. ASSUME NEW p \in Page, PageMoves(p), p # q PROVE request'[q] = request[q]
    BY <2>2, OtherPages DEF PageMoves
  <2> QED
    BY <2>1, <2>2, StepMoves DEF PageMoves, CopyMoves
<1> QED
  BY <1>3, <1>4, <1>5

\* A recent copy stays recent, whatever happens to the site.
LEMMA RecentStays ==
    ASSUME TypeOK, SiteMoves, NEW dto \in SiteDTO \union {NoDTO}, dto.uid <= site.uid,
           NEW saved \in Nat, Recent(dto, saved)
    PROVE  Recent(dto, saved)'
<1>1. site.uid \in Nat /\ site'.uid \in Nat /\ dto.uid \in Nat
  BY DEF TypeOK, SiteMoves, Site, SiteDTO, NoDTO
<1>2. CASE site.uid # dto.uid \/ ~site.live
  <2>1. site'.uid # dto.uid \/ ~site'.live
    BY <1>1, <1>2 DEF SiteMoves
  <2> QED
    BY <2>1 DEF Recent
<1> QED
  BY <1>2 DEF Recent

\* Recent, of the site that the step leaves.
StillRecent(dto, saved) ==
    saved > 0 => dto.rv >= saved \/ site'.uid # dto.uid \/ ~site'.live

\* What ShownInOrder says of one page.
InOrder(q) ==
    /\ page[q].saved <= site.rv
    /\ page[q].shown.uid <= site.uid
    /\ page[q].last = "shown" => Recent(page[q].shown, page[q].saved)
    /\ \A b \in Button : /\ loads[q][b].got.uid <= site.uid
                         /\ Got(q, b) => Recent(loads[q][b].got, page[q].saved)

LEMMA ShownStep ==
    ASSUME TypeOK, ConsoleInv, [Next]_vars
    PROVE  ShownInOrder'
<1> SUFFICES ASSUME NEW q \in Page
             PROVE  InOrder(q)'
  BY DEF ShownInOrder, InOrder
<1>1. SiteMoves /\ TypeOK' /\ InOrder(q)
  BY StepMoves, TypeStep DEF ConsoleInv, ShownInOrder, InOrder
<1>2. /\ site.rv \in Nat /\ site'.rv \in Nat /\ site.uid \in Nat /\ site'.uid \in Nat
      /\ page[q].saved \in Nat /\ page'[q].saved \in Nat
      /\ site.rv <= site'.rv /\ site.uid <= site'.uid
  <2>1. /\ site.rv \in Nat /\ site'.rv \in Nat /\ site.uid \in Nat /\ site'.uid \in Nat
        /\ page[q].saved \in Nat /\ page'[q].saved \in Nat
    BY <1>1 DEF TypeOK, Site
  <2> QED
    BY <1>1, <2>1 DEF SiteMoves
<1>3. /\ page[q].shown \in SiteDTO \union {NoDTO}
      /\ \A b \in Button : loads[q][b].got \in SiteDTO \union {NoDTO}
  BY PageFacts DEF PageRecord, Load
<1>4. \A dto \in SiteDTO \union {NoDTO} : dto.uid \in Nat
  BY DEF SiteDTO, NoDTO
<1>5. /\ page[q].shown.uid \in Nat /\ \A b \in Button : loads[q][b].got.uid \in Nat
  BY <1>3, <1>4
<1>6. NoDTO.uid = 0 /\ "shown" \notin Button /\ "lost" \notin Button
  BY ConsoleAssumption DEF NoDTO, Button
<1>7. ASSUME AnswersMove(q)
      PROVE  \A b \in Button : loads'[q][b].got.uid <= site'.uid
  <2> TAKE b \in Button
  <2>1. CASE loads'[q][b].got = loads[q][b].got
    BY <1>1, <1>2, <1>5, <2>1 DEF InOrder
  <2>2. CASE loads'[q][b].got = NoDTO
    BY <1>2, <1>6, <2>2
  <2>3. CASE loads'[q][b].got = toDTO(site) /\ site' = site /\ site.live
    BY <1>2, <2>3, toDTOType
  <2> QED
    BY <1>7, <2>1, <2>2, <2>3 DEF AnswersMove
<1>8. ASSUME NEW dto \in SiteDTO \union {NoDTO}, dto.uid <= site.uid, NEW saved \in Nat,
             Recent(dto, saved)
      PROVE  StillRecent(dto, saved)
  BY <1>1, <1>8, RecentStays DEF Recent, StillRecent
<1>9. ASSUME AnswersMove(q), page'[q].saved = page[q].saved, NEW b \in Button,
             page[q].last = b, loads'[q][b].got # NoDTO
      PROVE  StillRecent(loads'[q][b].got, page'[q].saved)
  <2>1. CASE loads'[q][b].got = loads[q][b].got
    <3>1. Recent(loads[q][b].got, page[q].saved) /\ loads[q][b].got.uid <= site.uid
      BY <1>1, <1>9, <2>1 DEF InOrder, Got
    <3> QED
      BY <1>2, <1>3, <1>8, <1>9, <2>1, <3>1
  <2>2. CASE loads'[q][b].got = toDTO(site) /\ site.live
    <3>1. loads'[q][b].got.rv = site.rv /\ page'[q].saved <= site.rv
      BY <1>1, <1>9, <2>2, toDTOType DEF InOrder
    <3> QED
      BY <1>2, <3>1 DEF StillRecent
  <2> QED
    BY <1>9, <2>1, <2>2 DEF AnswersMove
\* The conjuncts of InOrder(q)', but for what <1>7 gives.
<1> DEFINE Saved == page'[q].saved <= site'.rv /\ page'[q].shown.uid <= site'.uid
           Last  == page'[q].last = "shown" => StillRecent(page'[q].shown, page'[q].saved)
           Waited == \A b \in Button :
                         page'[q].last = b /\ loads'[q][b].got # NoDTO
                             => StillRecent(loads'[q][b].got, page'[q].saved)
<1>10. ASSUME Saved, Last, Waited, AnswersMove(q) PROVE InOrder(q)'
  <2>1. page'[q].last = "shown" => Recent(page[q].shown, page[q].saved)'
    BY <1>10 DEF Recent, StillRecent
  <2>2. \A b \in Button : Got(q, b)' => Recent(loads[q][b].got, page[q].saved)'
    BY <1>10 DEF Got, Recent, StillRecent
  <2> QED
    BY <1>7, <1>10, <2>1, <2>2 DEF InOrder
<1>11. CASE Stays(q)
  <2>1. /\ page'[q].shown = page[q].shown /\ page'[q].saved = page[q].saved
        /\ page'[q].last \in {page[q].last, "lost"} /\ AnswersMove(q)
    BY <1>11 DEF Stays
  <2>2. Saved
    BY <1>1, <1>2, <1>5, <2>1 DEF InOrder
  <2>3. Last
    BY <1>1, <1>2, <1>3, <1>6, <1>8, <2>1 DEF InOrder
  <2>4. Waited
    BY <1>6, <1>9, <2>1
  <2> QED
    BY <1>10, <2>1, <2>2, <2>3, <2>4
<1>12. CASE Loads(q)
  <2>1. Saved /\ AnswersMove(q)
    BY <1>1, <1>2, <1>5, <1>12 DEF InOrder, Loads
  <2>2. Last /\ Waited
    BY <1>6, <1>12 DEF Loads
  <2> QED
    BY <1>10, <2>1, <2>2
<1>13. CASE Leaves(q)
  <2>1. Saved /\ AnswersMove(q)
    BY <1>2, <1>6, <1>13 DEF Leaves
  <2>2. Last /\ Waited
    BY <1>6, <1>13 DEF Leaves
  <2> QED
    BY <1>10, <2>1, <2>2
<1>14. ASSUME NEW b \in Button, Shows(q, b) PROVE InOrder(q)'
  <2>1. /\ page'[q].shown = loads[q][b].got /\ page'[q].saved = page[q].saved
        /\ loads[q][b].got # NoDTO /\ AnswersMove(q) /\ site' = site
    BY <1>14 DEF Shows
  <2>2. Saved
    BY <1>1, <1>2, <2>1 DEF InOrder
  <2>3. page'[q].last = "shown" => page[q].last = b
    BY <1>14 DEF Shows
  <2>4. page[q].last = b => Recent(loads[q][b].got, page[q].saved)
    BY <1>1, <2>1 DEF InOrder, Got
  <2>5. Last
    BY <1>1, <1>2, <1>3, <1>8, <2>1, <2>3, <2>4 DEF InOrder
  <2>6. \A c \in Button : page'[q].last = c => page[q].last = c
    BY <1>6, <1>14 DEF Shows
  <2>7. Waited
    BY <1>9, <2>1, <2>6
  <2> QED
    BY <1>10, <2>1, <2>2, <2>5, <2>7
<1>15. CASE page'[q] = page[q] /\ loads'[q] = loads[q]
  BY <1>11, <1>15 DEF Stays, AnswersMove
<1>16. CASE ShownMoves(q)
  BY <1>11, <1>12, <1>13, <1>14, <1>16 DEF ShownMoves
<1>17. ASSUME NEW p \in Page, PageMoves(p), p # q PROVE page'[q] = page[q] /\ loads'[q] = loads[q]
  BY <1>17, OtherPages DEF PageMoves
<1> QED
  BY <1>15, <1>16, <1>17, StepMoves DEF PageMoves

LEMMA Inductive == Spec => [](TypeOK /\ ConsoleInv)
<1>1. TypeOK /\ ConsoleInv /\ [Next]_vars => (TypeOK /\ ConsoleInv)'
  BY TypeStep, CopyStep, ShownStep DEF ConsoleInv
<1> QED
  BY <1>1, InitHolds, PTL DEF Spec

-----------------------------------------------------------------------------
(* Theorems                                                                 *)

\* Every variable keeps its type; a page hides behind its spinner only while a
\* load is out that will end it, whatever loads overlap and fail (SiteDetail.load
\* and its finally), and a site has a spec exactly while it is there.
THEOREM TypeCorrect == Spec => []TypeOK
  BY Inductive, PTL

\* A page that shows the answer of the load it began last shows every version it
\* was told it has saved, or a later one, however many loads of its buttons were
\* out and in whatever order they were answered (SiteDetail.load, which saveForm,
\* save, toggleSuspend and the reload buttons call).
THEOREM SavedShown == Spec => []SavedIsShown
<1>1. TypeOK /\ ConsoleInv => SavedIsShown
  BY DEF ConsoleInv, ShownInOrder, Recent, SavedIsShown
<1> QED
  BY <1>1, Inductive, PTL

\* A handler touches the request of its button and no other.
LEMMA HandlesOne ==
    ASSUME NEW q \in Page, NEW c \in Button, Handle(q, c)
    PROVE  \E r : request' = [request EXCEPT ![q][c] = r]
<1>1. CASE createSite(q, c)
  BY <1>1 DEF createSite, Answer
<1>2. CASE fetch(q, c)
  BY <1>2 DEF fetch, Answer
<1>3. CASE Update(q, c)
  BY <1>3 DEF Update, Answer
<1>4. CASE Delete(q, c)
  BY <1>4 DEF Delete, Answer
<1> QED
  BY <1>1, <1>2, <1>3, <1>4 DEF Handle

\* The step of EditsAreAtomic: the handler that ends is the one that moved.
LEMMA AtomicStep ==
    ASSUME TypeOK, ConsoleInv, [Next]_vars, NEW p \in Page, NEW b \in Button,
           Answered(p, b), request[p][b].edit.op # "deleteSite"
    PROVE  LET edit == request[p][b].edit
           IN  \/ site' = site
               \/ edit.op = "createSite" /\ ~site.live
               \/ /\ site.live /\ edit.op # "createSite"
                  /\ site' = [site EXCEPT !.rv = @ + 1, !.spec = Edited(edit, @)]
<1> DEFINE edit == request[p][b].edit
<1>1. CopiesInOrder /\ request[p][b] # NoRequest /\ request'[p][b] # request[p][b]
  BY DEF ConsoleInv, Answered
<1>2. CASE createSite(p, b)
  BY <1>2 DEF createSite
<1>3. CASE fetch(p, b)
  BY <1>3 DEF fetch
<1>4. CASE Update(p, b)
  <2>1. CASE site' = site
    BY <2>1
  <2>2. CASE site.live /\ Store([site EXCEPT !.spec = Edited(edit, @)]) /\ site' # site
    <3>1. site' = [[site EXCEPT !.spec = Edited(edit, @)] EXCEPT !.rv = site.rv + 1]
      BY <2>2 DEF Store
    <3>2. site' = [site EXCEPT !.rv = @ + 1, !.spec = Edited(edit, @)]
      BY <3>1 DEF TypeOK, Site
    <3> QED
      BY <1>1, <1>4, <2>2, <3>2, UpdateEffect
  <2> QED
    BY <1>1, <1>4, <2>1, <2>2, UpdateEffect
<1>5. ~Delete(p, b)
  BY DEF Delete
<1>6. UNCHANGED site \/ Handle(p, b)
  <2>1. CASE UNCHANGED vars \/ Claim \/ WriteStatus \/ Release
    BY <1>1, <2>1 DEF vars, Claim, WriteStatus, Release
  <2>2. ASSUME NEW q \in Page, Browse(q) \/ Ask(q) PROVE UNCHANGED site
    BY <2>2 DEF Browse, Open, Reload, getSite, setSite, catch, getSiteYAML, Leave,
                Ask, saveForm, save, toggleSuspend, onDelete, onSave, Send
  <2>3. ASSUME NEW q \in Page, NEW c \in Button, Handle(q, c) PROVE q = p /\ c = b
    <3>1. PICK r : request' = [request EXCEPT ![q][c] = r]
      BY <2>3, HandlesOne
    <3> QED
      BY <1>1, <3>1, PageFacts
  <2> QED
    BY <2>1, <2>2, <2>3 DEF Next
<1> QED
  BY <1>2, <1>3, <1>4, <1>5, <1>6 DEF Handle

\* createSite, updateSite, updateSiteYAML and setSuspend apply an edit to the site
\* as it is when they write, or not at all, whatever else is out.
THEOREM EditsAtomic == Spec => EditsAreAtomic
<1>1. TypeOK /\ ConsoleInv /\ [Next]_vars =>
        [ \A p \in Page : \A b \in Button :
            LET edit == request[p][b].edit
            IN  Answered(p, b) /\ edit.op # "deleteSite" =>
                  \/ site' = site
                  \/ edit.op = "createSite" /\ ~site.live
                  \/ /\ site.live /\ edit.op # "createSite"
                     /\ site' = [site EXCEPT !.rv = @ + 1,
                                             !.spec = Edited(edit, @)] ]_vars
  BY AtomicStep
<1> QED
  BY <1>1, Inductive, PTL DEF Spec, EditsAreAtomic
=============================================================================
