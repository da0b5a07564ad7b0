--------------------------- MODULE MySQLProvisioner ---------------------------
(***************************************************************************)
(* The shared MySQL server and what internal/mysql/provisioner.go does to  *)
(* it.  A server is a value, not a variable: a module that talks to MySQL  *)
(* keeps one in its own state and computes the next one with               *)
(* EnsureDatabase and DropDatabase below.                                  *)
(*                                                                         *)
(* Both functions of the code run a list of statements over one            *)
(* connection and return at the first that fails.  Nothing is rolled back  *)
(* (MySQL commits DDL and account statements implicitly), so a call is     *)
(* described by the number n of its statements the server has executed.    *)
(***************************************************************************)
EXTENDS Naturals

CONSTANTS
    Database,   \* schema names
    User,       \* account names (the host part is fixed per site)
    Covers      \* Covers[d]: the schemas MySQL opens under a GRANT on `d`

\* EnsureDatabase sends the name of the schema as it is, and GRANT reads "_" in
\* it as any character: a GRANT on d covers d, and others whose names match.
ASSUME CoversAssumption == /\ Covers \in [Database -> SUBSET Database]
                           /\ \A d \in Database : d \in Covers[d]

\* "No such account" among passwords, and a blank password field of a Secret.
NoPassword == 0

\* Passwords are numbered in the order RandomPassword draws them.
Password == Nat \ {NoPassword}

\* A grant is an account and the name, read as a pattern, it was granted on.
Server == [databases : SUBSET Database,
           accounts  : [User -> Nat],
           grants    : SUBSET (User \X Database)]

EmptyServer == [databases |-> {},
                accounts  |-> [u \in User |-> NoPassword],
                grants    |-> {}]

-----------------------------------------------------------------------------
\* CREATE DATABASE IF NOT EXISTS; CREATE USER IF NOT EXISTS; ALTER USER;
\* GRANT ALL ON db.*; FLUSH PRIVILEGES.
EnsureStatements == 5

\* Broken: without ALTER USER an existing account keeps its old password.
EnsureDatabase_NoAlter(server, db, user, password, n) ==
    [databases |-> server.databases \union (IF n >= 1 THEN {db} ELSE {}),
     accounts  |-> IF n >= 2 /\ server.accounts[user] = NoPassword
                   THEN [server.accounts EXCEPT ![user] = password]
                   ELSE server.accounts,
     grants    |-> server.grants \union (IF n >= 4 THEN {<<user, db>>} ELSE {})]

\* Broken: the privileges are granted on every schema there is.
EnsureDatabase_GrantAll(server, db, user, password, n) ==
    [databases |-> server.databases \union (IF n >= 1 THEN {db} ELSE {}),
     accounts  |-> IF n >= 3 \/ (n = 2 /\ server.accounts[user] = NoPassword)
                   THEN [server.accounts EXCEPT ![user] = password]
                   ELSE server.accounts,
     grants    |-> server.grants \union
                     (IF n >= 4 THEN {user} \X server.databases ELSE {})]

EnsureDatabase(server, db, user, password, n) ==
    [databases |-> server.databases \union (IF n >= 1 THEN {db} ELSE {}),
     accounts  |-> IF n >= 3 \/ (n = 2 /\ server.accounts[user] = NoPassword)
                   THEN [server.accounts EXCEPT ![user] = password]
                   ELSE server.accounts,
     grants    |-> server.grants \union (IF n >= 4 THEN {<<user, db>>} ELSE {})]

\* DROP DATABASE IF EXISTS; DROP USER IF EXISTS; FLUSH PRIVILEGES.  Dropping a
\* schema leaves the grants on it in place, dropping an account removes its own.
DropStatements == 3

DropDatabase(server, db, user, n) ==
    [databases |-> server.databases \ (IF n >= 1 THEN {db} ELSE {}),
     accounts  |-> IF n >= 2 THEN [server.accounts EXCEPT ![user] = NoPassword]
                             ELSE server.accounts,
     grants    |-> {g \in server.grants : n >= 2 => g[1] # user}]

\* The schemas an account can open.
Opens(server, user) ==
    {d \in server.databases : \E g \in server.grants : g[1] = user /\ d \in Covers[g[2]]}

\* The server holds nothing: no schema and no account.
HoldsNothing(server) ==
    server.databases = {} /\ \A u \in User : server.accounts[u] = NoPassword
=============================================================================
