------------------------------- MODULE Tenancy -------------------------------
(***************************************************************************)
(* Many sites on one MySQL server.  One worker reconciles them in turn, so *)
(* they meet only in what they leave on the server.  A site is seen here   *)
(* at the level of DataCustody: which of its reconciles runs, from which   *)
(* version, and how often it is retried is in SiteLifecycle, which         *)
(* implements this module for a single site.                               *)
(***************************************************************************)
EXTENDS Naturals, MySQLProvisioner

CONSTANTS
    Site,              \* the names of sites
    DatabaseName,      \* DatabaseName[s]: the schema of site s
    DatabaseUser,      \* DatabaseUser[s]: its account
    DropDataOnDelete,  \* the operator's DROP_DATA_ON_DELETE
    \* Bounds on one behaviour:
    MaxLives,          \* how often each name is taken
    MaxPasswords       \* passwords drawn

ASSUME TenancyAssumption ==
    /\ DatabaseName \in [Site -> Database] /\ DatabaseUser \in [Site -> User]
    /\ DropDataOnDelete \in BOOLEAN
    /\ MaxLives \in Nat /\ MaxPasswords \in Nat

VARIABLES
    custody,   \* custody[s]: "none", "unclaimed", "held" or "doomed"
    lives,     \* lives[s]: how often the name was taken
    secret,    \* secret[s]: the password in its Secret, or NoPassword
    drawn,     \* drawn[s]: the passwords that were drawn for it
    issued,    \* passwords drawn in all
    server     \* the MySQL server

vars == <<custody, lives, secret, drawn, issued, server>>

Init == /\ custody = [s \in Site |-> "none"]
        /\ lives = [s \in Site |-> 0]
        /\ secret = [s \in Site |-> NoPassword]
        /\ drawn = [s \in Site |-> {}]
        /\ issued = 0
        /\ server = EmptyServer

-----------------------------------------------------------------------------
(* The life of a site                                                       *)

Move(s, from, to) == /\ custody[s] = from
                     /\ custody' = [custody EXCEPT ![s] = to]
                     /\ UNCHANGED <<secret, drawn, issued, server>>

Register(s) == /\ lives[s] < MaxLives
               /\ lives' = [lives EXCEPT ![s] = @ + 1]
               /\ Move(s, "none", "unclaimed")

Withdraw(s) == Move(s, "unclaimed", "none") /\ UNCHANGED lives

Claim(s) == Move(s, "unclaimed", "held") /\ UNCHANGED lives

Doom(s) == Move(s, "held", "doomed") /\ UNCHANGED lives

HasData(s) == \/ DatabaseName[s] \in server.databases
              \/ server.accounts[DatabaseUser[s]] # NoPassword

\* Broken: the finalizer comes off whether DropDatabase succeeded or not.
Release_Early(s) == Move(s, "doomed", "none") /\ UNCHANGED lives

\* The finalizer comes off after DropDatabase has succeeded.  That the controller
\* has only that success to go by, from a copy that may be stale, and nothing is
\* there all the same, is SiteLifecycle!IsTenant.
Release(s) == /\ DropDataOnDelete => ~HasData(s)
              /\ Move(s, "doomed", "none") /\ UNCHANGED lives

-----------------------------------------------------------------------------
(* Its Secret and what it has on the server                                 *)

\* Broken: the generator starts from the same seed for every site.
DrawPassword_SameSeed(s) ==
    /\ custody[s] \in {"held", "doomed"}
    /\ secret[s] = NoPassword
    /\ issued < MaxPasswords
    /\ issued' = issued + 1
    /\ drawn' = [drawn EXCEPT ![s] = @ \union {lives[s]}]
    /\ secret' = [secret EXCEPT ![s] = lives[s]]
    /\ UNCHANGED <<custody, lives, server>>

DrawPassword(s) ==
    /\ custody[s] \in {"held", "doomed"}
    /\ secret[s] = NoPassword
    /\ issued < MaxPasswords
    /\ issued' = issued + 1
    /\ drawn' = [drawn EXCEPT ![s] = @ \union {issued + 1}]
    /\ secret' = [secret EXCEPT ![s] = issued + 1]
    /\ UNCHANGED <<custody, lives, server>>

\* The Secret is collected, deleted or blanked.
LoseSecret(s) ==
    /\ secret[s] # NoPassword
    /\ secret' = [secret EXCEPT ![s] = NoPassword]
    /\ UNCHANGED <<custody, lives, drawn, issued, server>>

\* Broken: all sites share one account.
Provision_SharedUser(s) ==
    /\ custody[s] \in {"held", "doomed"}
    /\ \E n \in 0..EnsureStatements, p \in drawn[s] :
          server' = EnsureDatabase(server, DatabaseName[s],
                                   DatabaseUser[CHOOSE t \in Site : TRUE], p, n)
    /\ UNCHANGED <<custody, lives, secret, drawn, issued>>

\* EnsureDatabase with the password the worker has read, whole or in part.
Provision(s) ==
    /\ custody[s] \in {"held", "doomed"}
    /\ \E n \in 0..EnsureStatements, p \in drawn[s] :
          server' = EnsureDatabase(server, DatabaseName[s], DatabaseUser[s], p, n)
    /\ UNCHANGED <<custody, lives, secret, drawn, issued>>

\* Broken: DropDatabase is reached without a look at the deletionTimestamp.
Purge_NotDoomed(s) ==
    /\ DropDataOnDelete /\ custody[s] \in {"held", "doomed"}
    /\ \E n \in 0..DropStatements :
          server' = DropDatabase(server, DatabaseName[s], DatabaseUser[s], n)
    /\ UNCHANGED <<custody, lives, secret, drawn, issued>>

Purge(s) ==
    /\ DropDataOnDelete /\ custody[s] = "doomed"
    /\ \E n \in 0..DropStatements :
          server' = DropDatabase(server, DatabaseName[s], DatabaseUser[s], n)
    /\ UNCHANGED <<custody, lives, secret, drawn, issued>>

-----------------------------------------------------------------------------
Step(s) == \/ Register(s) \/ Withdraw(s) \/ Claim(s) \/ Doom(s) \/ Release(s)
           \/ DrawPassword(s) \/ LoseSecret(s) \/ Provision(s) \/ Purge(s)

Next == \E s \in Site : Step(s)

Spec == Init /\ [][Next]_vars

-----------------------------------------------------------------------------
(* Safety                                                                   *)

Custody == {"none", "unclaimed", "held", "doomed"}

\* Every variable has its type, and a password is drawn for one site only.
TypeOK ==
    /\ custody \in [Site -> Custody]
    /\ lives \in [Site -> Nat]
    /\ secret \in [Site -> Nat]
    /\ issued \in Nat
    /\ drawn \in [Site -> SUBSET (1..issued)]
    /\ \A s \in Site : secret[s] \in drawn[s] \union {NoPassword}
    /\ \A s, t \in Site : s # t => drawn[s] \intersect drawn[t] = {}
    /\ server \in Server

\* No two sites share a schema or an account.
NamesDistinct == \A s, t \in Site : s # t => /\ DatabaseName[s] # DatabaseName[t]
                                             /\ DatabaseUser[s] # DatabaseUser[t]

\* No GRANT for one site covers the schema of another.
NamesApart == \A s, t \in Site : s # t => DatabaseName[t] \notin Covers[DatabaseName[s]]

\* "grants it privileges scoped to ONLY that database": the account of a site
\* opens no schema but its own (EnsureDatabase).
ScopedToOne == \A s \in Site : Opens(server, DatabaseUser[s]) \subseteq {DatabaseName[s]}

\* A site's account opens with a password of that site only, and it opens the
\* schema of that site only (EnsureDatabase).
Isolated ==
    /\ \A s \in Site : server.accounts[DatabaseUser[s]] \in drawn[s] \union {NoPassword}
    /\ ScopedToOne

\* With DropDataOnDelete what is on the server belongs to sites that are held
\* or being deleted (reconcileDelete).
NoOrphans ==
    DropDataOnDelete =>
        \A s \in Site : HasData(s) => custody[s] \in {"held", "doomed"}

Holdings(s) == <<DatabaseName[s] \in server.databases,
                 server.accounts[DatabaseUser[s]],
                 {g \in server.grants : g[1] = DatabaseUser[s] \/ g[2] = DatabaseName[s]}>>

\* Whatever the operator does for one site, a half-done EnsureDatabase or
\* DropDatabase included, leaves what the others have on the server as it is:
\* schema, account and the rows of the grant table (what those open is Isolated).
OthersUntouched ==
    [][ \E s \in Site : \A t \in Site \ {s} :
            Holdings(t)' = Holdings(t) /\ custody'[t] = custody[t] ]_vars

\* Each site by itself, as DataCustody sees it.
Promise(s) == INSTANCE DataCustody WITH custody <- custody[s], data <- HasData(s)

\* DataCustody is kept for every site, whatever the operator does for the
\* others: what a site has on the server comes after its finalizer, goes only
\* with the site's own deletion and is gone when the finalizer comes off.
SitesKeepCustody == /\ \A s \in Site : Promise(s)!Init
                    /\ [][\A s \in Site : [Promise(s)!Next]_(Promise(s)!vars)]_vars

\* "A dedicated database and a dedicated, least-privilege user are created for
\* every site": no two sites the operator serves share a schema or an account.
Serves(s) == custody[s] = "held" /\ DatabaseName[s] \in server.databases

Dedicated ==
    \A s, t \in Site :
        s # t /\ Serves(s) /\ Serves(t) =>
            DatabaseName[s] # DatabaseName[t] /\ DatabaseUser[s] # DatabaseUser[t]
=============================================================================
