------------------------------- MODULE Sessions -------------------------------
(***************************************************************************)
(* The web console in the tabs of one browser: logging in, the token they  *)
(* share through localStorage, the list page that asks for the sites every *)
(* eight seconds, and what a 401 does (ui/src/api/client.ts, App.tsx,      *)
(* pages/Login.tsx, pages/SitesList.tsx; internal/apiserver/auth.go and    *)
(* login of server.go behind them).                                        *)
(*                                                                         *)
(* Calls overlap and their answers arrive in any order.  An answer runs    *)
(* the interceptor of client.ts in whatever page the tab has come to; only *)
(* loading a page anew drops the calls the old one has sent.               *)
(***************************************************************************)
EXTENDS Naturals, SequencesExt

CONSTANTS
    Tab,          \* the tabs
    \* Bounds on what one behaviour holds:
    MaxCalls,     \* calls a tab has in progress at one time
    MaxLogins,    \* tokens issued
    MaxChanges,   \* changes of the sites
    MaxMoves      \* logouts, links followed, pages opened, and calls that fail

ASSUME SessionBoundsAssumption ==
    /\ MaxLogins \in Nat /\ MaxChanges \in Nat /\ MaxMoves \in Nat
    /\ MaxCalls \in Nat \ {0}

VARIABLES
    stored,    \* the token in localStorage
    holder,    \* history: the tab that stored it
    issued,    \* tokens issued so far
    dead,      \* the tokens 1..dead have expired, or their JWT_SECRET is gone
    sites,     \* the sites of the cluster: how often they have changed
    tab,       \* the tabs
    calls,     \* their calls in progress, in the order sent
    moves      \* moves that are left

vars == <<stored, holder, issued, dead, sites, tab, calls, moves>>

-----------------------------------------------------------------------------
NoToken == 0
Token == 1..MaxLogins

\* What the middleware lets pass.
Valid(token) == token > dead

\* What a list page shows: the sites as of some change, or nothing yet.
Nothing == MaxChanges + 1
Listed == 0..MaxChanges

\* "other" is any page with a login but the list: the form, a site, the second
\* factor.  "leaving" is a page that has set window.location and still runs.
Pages == {"login", "sites", "other", "leaving"}

\* A call: the token it carries, whether the page that sent it has been left
\* since, and its answer (the sites, for want of another) once it is given.
Waiting == Nothing + 1
Unauthorized == Nothing + 2

Tabs == [page : Pages, shown : Listed \union {Nothing}]
Call == [token : Token \union {NoToken}, left : BOOLEAN,
         answer : Listed \union {Waiting, Unauthorized}]

Init ==
    /\ stored = NoToken /\ holder \in Tab /\ issued = 0 /\ dead = 0
    /\ sites = 0
    /\ moves = MaxMoves
    /\ tab = [t \in Tab |-> [page |-> "login", shown |-> Nothing]]
    /\ calls = [t \in Tab |-> <<>>]

Move == moves > 0 /\ moves' = moves - 1

Show(t, page) == tab' = [tab EXCEPT ![t] = [page |-> page, shown |-> Nothing]]

\* The router shows another page: the calls of the old one go on.
LeaveCalls(t) ==
    calls' = [calls EXCEPT ![t] = [i \in DOMAIN @ |-> [@[i] EXCEPT !.left = TRUE]]]

DropCalls(t) == calls' = [calls EXCEPT ![t] = <<>>]

Received(t, i) == calls' = [calls EXCEPT ![t] = RemoveAt(@, i)]

-----------------------------------------------------------------------------
(* The user                                                                 *)

\* The right password, and the code if one is asked for.
Login(t) ==
    /\ tab[t].page = "login" /\ issued < MaxLogins
    /\ issued' = issued + 1
    /\ stored' = issued + 1 /\ holder' = t
    /\ Show(t, "sites")
    /\ UNCHANGED <<dead, sites, calls, moves>>

Logout(t) ==
    /\ tab[t].page \in {"sites", "other"}
    /\ Move
    /\ stored' = NoToken
    /\ Show(t, "login") /\ LeaveCalls(t)
    /\ UNCHANGED <<holder, issued, dead, sites>>

\* RequireAuth: every page but the login needs some token, valid or not.
Page(page) == IF stored = NoToken THEN "login" ELSE page

\* A link of the menu.
Navigate(t) ==
    /\ Move
    /\ \/ tab[t].page = "sites" /\ Show(t, Page("other"))
       \/ tab[t].page = "other" /\ Show(t, Page("sites"))
    /\ LeaveCalls(t)
    /\ UNCHANGED <<stored, holder, issued, dead, sites>>

\* The user reloads the tab, or enters the console's address.
Open(t) ==
    /\ tab[t].page # "leaving"
    /\ Move
    /\ Show(t, Page("sites")) /\ DropCalls(t)
    /\ UNCHANGED <<stored, holder, issued, dead, sites>>

User(t) == Login(t) \/ Logout(t) \/ Navigate(t) \/ Open(t)

-----------------------------------------------------------------------------
(* The pages                                                                *)

\* A call leaves, with the token that is stored.
Send(t) ==
    /\ Len(calls[t]) < MaxCalls
    /\ calls' = [calls EXCEPT ![t] = Append(@, [token |-> stored, left |-> FALSE,
                                               answer |-> Waiting])]
    /\ UNCHANGED <<stored, holder, issued, dead, sites, tab, moves>>

\* Broken: the list is read when the page is shown, and never again.
refresh_Once(t) == tab[t].page = "sites" /\ tab[t].shown = Nothing /\ Send(t)

\* When the page is shown, every eight seconds, by the button and after a
\* deletion.  getMetrics goes with it and fails in silence: it is not told apart.
refresh(t) == tab[t].page = "sites" /\ Send(t)

\* The other pages load what they show, and save.
Ask(t) == tab[t].page = "other" /\ Send(t)

\* The middleware, and listSites behind it.
Serve(t, i) ==
    /\ i \in DOMAIN calls[t]
    /\ calls[t][i].answer = Waiting
    /\ calls' = [calls EXCEPT ![t][i].answer = IF Valid(calls[t][i].token) THEN sites
                                                                          ELSE Unauthorized]
    /\ UNCHANGED <<stored, holder, issued, dead, sites, tab, moves>>

\* Broken: an answer is kept for the page that comes next.
ReceiveList_AnyPage(t, i) ==
    /\ i \in DOMAIN calls[t]
    /\ calls[t][i].answer \in Listed
    /\ tab' = [tab EXCEPT ![t].shown = calls[t][i].answer]
    /\ Received(t, i)
    /\ UNCHANGED <<stored, holder, issued, dead, sites, moves>>

\* setSites, unless another page sent the call or the list has been left.
ReceiveList(t, i) ==
    /\ i \in DOMAIN calls[t]
    /\ calls[t][i].answer \in Listed
    /\ tab' = IF tab[t].page = "sites" /\ ~calls[t][i].left
              THEN [tab EXCEPT ![t].shown = calls[t][i].answer]
              ELSE tab
    /\ Received(t, i)
    /\ UNCHANGED <<stored, holder, issued, dead, sites, moves>>

\* Broken: the token is cleared and the page stays.
ReceiveUnauthorized_Stay(t, i) ==
    /\ i \in DOMAIN calls[t]
    /\ calls[t][i].answer = Unauthorized
    /\ stored' = NoToken
    /\ Received(t, i)
    /\ UNCHANGED <<holder, issued, dead, sites, tab, moves>>

\* The interceptor: whatever token the call carried, the stored one is cleared,
\* and the tab goes to the login page unless it is there.
ReceiveUnauthorized(t, i) ==
    /\ i \in DOMAIN calls[t]
    /\ calls[t][i].answer = Unauthorized
    /\ stored' = NoToken
    /\ IF tab[t].page = "login" THEN UNCHANGED tab ELSE Show(t, "leaving")
    /\ Received(t, i)
    /\ UNCHANGED <<holder, issued, dead, sites, moves>>

\* Another error, or none: the list stays as it is.
ReceiveError(t, i) ==
    /\ i \in DOMAIN calls[t]
    /\ calls[t][i].answer # Unauthorized
    /\ Move
    /\ Received(t, i)
    /\ UNCHANGED <<stored, holder, issued, dead, sites, tab>>

\* Broken: the router shows the login page, and the calls go on.
Load_Router(t) ==
    /\ tab[t].page = "leaving"
    /\ Show(t, "login")
    /\ UNCHANGED <<stored, holder, issued, dead, sites, calls, moves>>

\* The browser loads the login page.
Load(t) ==
    /\ tab[t].page = "leaving"
    /\ Show(t, "login") /\ DropCalls(t)
    /\ UNCHANGED <<stored, holder, issued, dead, sites, moves>>

Receive(t, i) == ReceiveList(t, i) \/ ReceiveUnauthorized(t, i)

Calling(t) == \/ refresh(t) \/ Ask(t) \/ Load(t)
              \/ \E i \in DOMAIN calls[t] : Serve(t, i) \/ Receive(t, i) \/ ReceiveError(t, i)

-----------------------------------------------------------------------------
(* Everything else                                                          *)

\* 24 hours have passed, or the apiserver has a new JWT_SECRET: the oldest go
\* first.
Expire ==
    /\ dead < issued /\ dead' = dead + 1
    /\ UNCHANGED <<stored, holder, issued, sites, tab, calls, moves>>

Change ==
    /\ sites < MaxChanges
    /\ sites' = sites + 1
    /\ UNCHANGED <<stored, holder, issued, dead, tab, calls, moves>>

Next == (\E t \in Tab : User(t) \/ Calling(t)) \/ Expire \/ Change

Spec == Init /\ [][Next]_vars

\* The interval timer fires, the apiserver answers, answers arrive, and the
\* browser loads the page it is sent to.
Fairness ==
    \A t \in Tab : /\ WF_vars(refresh(t)) /\ WF_vars(Load(t))
                  /\ WF_vars(\E i \in 1..MaxCalls : Serve(t, i))
                  /\ WF_vars(\E i \in 1..MaxCalls : Receive(t, i))

FairSpec == Spec /\ Fairness

-----------------------------------------------------------------------------
(* Properties                                                               *)

\* Every variable has its type, and only the list page has a list: the answer to a
\* page that was left is not kept for the next.
TypeOK ==
    /\ stored \in Token \union {NoToken} /\ holder \in Tab
    /\ issued \in 0..MaxLogins /\ dead \in 0..issued
    /\ sites \in Listed /\ moves \in 0..MaxMoves
    /\ tab \in [Tab -> Tabs]
    /\ calls \in [Tab -> Seq(Call)]
    /\ \A t \in Tab : Len(calls[t]) <= MaxCalls
    /\ stored <= issued
    /\ \A t \in Tab : tab[t].page # "sites" => tab[t].shown = Nothing

\* A valid login is taken away without a logout only by a 401 that came late: to
\* a call with another token, of another tab or of a page the user had left
\* through the router.  The calls of a page that was sent to the login itself
\* never come back at the login that follows (window.location.href).
OnlyLateAnswersLogOut ==
    [][ Valid(stored) /\ stored' = NoToken =>
          \/ \E t \in Tab : tab[t].page \in {"sites", "other"} /\ tab'[t].page = "login"
          \/ \E t \in Tab : \E i \in DOMAIN calls[t] :
                 /\ calls[t][i].answer = Unauthorized /\ Len(calls'[t]) < Len(calls[t])
                 /\ calls[t][i].token # stored
                 /\ t # holder \/ calls[t][i].left ]_vars

\* A list page whose token is gone or dead does not stay: the next answer sends
\* the user to the login, unless somebody has logged in meanwhile.  (Reloading it
\* for ever drops every answer: the user's moves are bounded.)
BouncedToLogin ==
    \A t \in Tab : tab[t].page = "sites" /\ ~Valid(stored)
                       ~> (tab[t].page # "sites" \/ Valid(stored))

\* A list page that stays shows the sites as they are once they stop changing,
\* whatever order the answers come in and whichever fail (refresh).
ListCatchesUp ==
    \A t \in Tab : <>[](tab[t].page = "sites") => <>[](tab[t].shown = sites)
=============================================================================
