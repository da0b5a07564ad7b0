---------------------------- MODULE TenancyProofs ----------------------------
(***************************************************************************)
(* Sites that share a MySQL server do not meet on it, for any number of    *)
(* them, as long as their names differ (NamesDistinct), and none can open  *)
(* the schema of another as long as no GRANT covers one (NamesApart).  The *)
(* last two sections say for which site names those that Naming gives are  *)
(* so; the run wildcard has two for which they are not.                    *)
(***************************************************************************)
EXTENDS Tenancy, Naming, SequenceTheorems, TLAPS

-----------------------------------------------------------------------------
(* What the statements of the provisioner do to a server                    *)

LEMMA EnsureEffect ==
    ASSUME NEW S \in Server, NEW d \in Database, NEW u \in User,
           NEW p \in Nat, NEW n \in 0..EnsureStatements
    PROVE  LET T == EnsureDatabase(S, d, u, p, n)
           IN  /\ T \in Server
               /\ T.databases \subseteq S.databases \union {d}
               /\ S.databases \subseteq T.databases
               /\ \A e \in Database : e # d => (e \in T.databases <=> e \in S.databases)
               /\ \A v \in User : v # u => T.accounts[v] = S.accounts[v]
               /\ T.accounts[u] \in {S.accounts[u], p}
               /\ S.grants \subseteq T.grants
               /\ T.grants \subseteq S.grants \union {<<u, d>>}
  <1> DEFINE D == S.databases \union (IF n >= 1 THEN {d} ELSE {})
             A == IF n >= 3 \/ (n = 2 /\ S.accounts[u] = NoPassword)
                  THEN [S.accounts EXCEPT ![u] = p] ELSE S.accounts
             G == S.grants \union (IF n >= 4 THEN {<<u, d>>} ELSE {})
  <1>1. /\ S.databases \in SUBSET Database
        /\ S.accounts \in [User -> Nat]
        /\ S.grants \in SUBSET (User \X Database)
    BY DEF Server
  <1>2. /\ D \in SUBSET Database /\ D \subseteq S.databases \union {d}
        /\ S.databases \subseteq D
        /\ \A e \in Database : e # d => (e \in D <=> e \in S.databases)
    BY <1>1
  <1>3. /\ A \in [User -> Nat] /\ A[u] \in {S.accounts[u], p}
        /\ \A v \in User : v # u => A[v] = S.accounts[v]
    BY <1>1
  <1>4. /\ G \in SUBSET (User \X Database)
        /\ S.grants \subseteq G /\ G \subseteq S.grants \union {<<u, d>>}
    BY <1>1
  <1>5. EnsureDatabase(S, d, u, p, n) = [databases |-> D, accounts |-> A, grants |-> G]
    BY DEF EnsureDatabase
  <1> HIDE DEF D, A, G
  <1> QED
    BY <1>2, <1>3, <1>4, <1>5 DEF Server

LEMMA DropEffect ==
    ASSUME NEW S \in Server, NEW d \in Database, NEW u \in User,
           NEW n \in 0..DropStatements
    PROVE  LET T == DropDatabase(S, d, u, n)
           IN  /\ T \in Server
               /\ T.databases \subseteq S.databases
               /\ \A e \in Database : e # d => (e \in T.databases <=> e \in S.databases)
               /\ \A v \in User : v # u => T.accounts[v] = S.accounts[v]
               /\ T.accounts[u] \in {S.accounts[u], NoPassword}
               /\ T.grants \subseteq S.grants
               /\ \A g \in S.grants : g[1] # u => g \in T.grants
  <1> DEFINE D == S.databases \ (IF n >= 1 THEN {d} ELSE {})
             A == IF n >= 2 THEN [S.accounts EXCEPT ![u] = NoPassword] ELSE S.accounts
             G == {g \in S.grants : n >= 2 => g[1] # u}
  <1>1. /\ S.databases \in SUBSET Database
        /\ S.accounts \in [User -> Nat]
        /\ S.grants \in SUBSET (User \X Database)
    BY DEF Server
  <1>2. /\ D \in SUBSET Database /\ D \subseteq S.databases
        /\ \A e \in Database : e # d => (e \in D <=> e \in S.databases)
    BY <1>1
  <1>3. /\ A \in [User -> Nat] /\ A[u] \in {S.accounts[u], NoPassword}
        /\ \A v \in User : v # u => A[v] = S.accounts[v]
    BY <1>1 DEF NoPassword
  <1>4. /\ G \in SUBSET (User \X Database) /\ G \subseteq S.grants
        /\ \A g \in S.grants : g[1] # u => g \in G
    BY <1>1
  <1>5. DropDatabase(S, d, u, n) = [databases |-> D, accounts |-> A, grants |-> G]
    BY DEF DropDatabase
  <1> HIDE DEF D, A, G
  <1> QED
    BY <1>2, <1>3, <1>4, <1>5 DEF Server

-----------------------------------------------------------------------------
(* Types                                                                    *)

LEMMA NamesType ==
    ASSUME NEW s \in Site
    PROVE  DatabaseName[s] \in Database /\ DatabaseUser[s] \in User
  BY TenancyAssumption

\* What a call of the provisioner for a site is given.
LEMMA CallOfSite ==
    ASSUME TypeOK, NEW s \in Site
    PROVE  server \in Server /\ DatabaseName[s] \in Database /\ DatabaseUser[s] \in User
  BY NamesType DEF TypeOK

LEMMA DrawnAreNumbers ==
    ASSUME TypeOK, NEW s \in Site, NEW p \in drawn[s]
    PROVE  p \in Nat /\ p # NoPassword
  <1>1. drawn[s] \in SUBSET (1..issued) /\ issued \in Nat
    BY DEF TypeOK
  <1>2. p \in 1..issued
    BY <1>1
  <1> QED
    BY <1>1, <1>2 DEF NoPassword

\* A step of Provision is a call of EnsureDatabase as EnsureEffect describes it.
LEMMA ProvisionCall ==
    ASSUME TypeOK, NEW s \in Site, Provision(s)
    PROVE  \E n \in 0..EnsureStatements, p \in drawn[s] :
              /\ p \in Nat
              /\ server' = EnsureDatabase(server, DatabaseName[s], DatabaseUser[s], p, n)
  BY DrawnAreNumbers DEF Provision

\* What a step of Provision leaves as it is.
LEMMA ProvisionEffect ==
    ASSUME TypeOK, NEW s \in Site, Provision(s)
    PROVE  /\ \A e \in Database : e # DatabaseName[s] =>
                  (e \in server'.databases <=> e \in server.databases)
           /\ \A v \in User : v # DatabaseUser[s] =>
                  server'.accounts[v] = server.accounts[v]
           /\ server.grants \subseteq server'.grants
           /\ server'.grants \subseteq server.grants
                                 \union {<<DatabaseUser[s], DatabaseName[s]>>}
           /\ server'.databases \subseteq server.databases \union {DatabaseName[s]}
  <1>1. PICK n \in 0..EnsureStatements, p \in drawn[s] :
            /\ p \in Nat
            /\ server' = EnsureDatabase(server, DatabaseName[s], DatabaseUser[s], p, n)
    BY ProvisionCall
  <1> QED
    BY <1>1, EnsureEffect, CallOfSite

LEMMA TypeStep == TypeOK /\ [Next]_vars => TypeOK'
  <1> SUFFICES ASSUME TypeOK, [Next]_vars PROVE TypeOK'
    OBVIOUS
  <1>1. CASE UNCHANGED vars
    BY <1>1 DEF TypeOK, vars
  <1>2. ASSUME NEW s \in Site, Step(s) PROVE TypeOK'
    <2>1. ASSUME NEW from, NEW to \in Custody, Move(s, from, to),
                 lives' \in [Site -> Nat]
          PROVE  TypeOK'
      <3>1. custody' \in [Site -> Custody]
        BY <2>1 DEF TypeOK, Move
      <3> QED
        BY <2>1, <3>1 DEF TypeOK, Move
    <2>2. CASE Register(s)
      <3>1. lives' \in [Site -> Nat]
        BY <2>2 DEF Register, TypeOK
      <3> QED
        BY <2>1, <2>2, <3>1 DEF Register, Custody
    <2>3. CASE Withdraw(s) \/ Claim(s) \/ Doom(s) \/ Release(s)
      <3>1. lives' \in [Site -> Nat]
        BY <2>3 DEF Withdraw, Claim, Doom, Release, TypeOK
      <3> QED
        BY <2>1, <2>3, <3>1 DEF Withdraw, Claim, Doom, Release, Custody
    <2>4. CASE DrawPassword(s)
      <3>1. issued \in Nat /\ issued' = issued + 1 /\ issued' \in Nat
        BY <2>4 DEF DrawPassword, TypeOK
      <3>2. drawn \in [Site -> SUBSET (1..issued)] /\ 1..issued \subseteq 1..issued'
        BY <3>1 DEF TypeOK
      <3>3. /\ drawn' \in [Site -> SUBSET (1..issued')]
            /\ drawn'[s] = drawn[s] \union {issued'}
            /\ \A t \in Site : t # s => drawn'[t] = drawn[t]
        <4>1. drawn' = [drawn EXCEPT ![s] = @ \union {issued'}]
          BY <2>4, <3>1 DEF DrawPassword
        <4>2. drawn[s] \union {issued'} \in SUBSET (1..issued')
          BY <3>1, <3>2
        <4> QED
          BY <3>2, <4>1, <4>2
      <3>4. \A t \in Site : issued' \notin drawn[t]
        BY <3>1, <3>2
      <3>5. \A t, v \in Site : t # v => drawn'[t] \intersect drawn'[v] = {}
        BY <3>3, <3>4 DEF TypeOK
      <3>6. secret' = [secret EXCEPT ![s] = issued']
        BY <2>4, <3>1 DEF DrawPassword
      <3>7. /\ secret' \in [Site -> Nat]
            /\ \A t \in Site : secret'[t] \in drawn'[t] \union {NoPassword}
        BY <3>1, <3>3, <3>6 DEF TypeOK
      <3> QED
        BY <2>4, <3>1, <3>3, <3>5, <3>7 DEF DrawPassword, TypeOK
    <2>5. CASE LoseSecret(s)
      <3>1. /\ secret' \in [Site -> Nat]
            /\ \A t \in Site : secret'[t] \in drawn[t] \union {NoPassword}
        BY <2>5 DEF LoseSecret, TypeOK, NoPassword
      <3> QED
        BY <2>5, <3>1 DEF LoseSecret, TypeOK
    <2>6. CASE Provision(s)
      <3>1. PICK n \in 0..EnsureStatements, p \in drawn[s] :
                /\ p \in Nat
                /\ server' = EnsureDatabase(server, DatabaseName[s], DatabaseUser[s], p, n)
        BY <2>6, ProvisionCall
      <3>2. server' \in Server
        BY <3>1, EnsureEffect, CallOfSite
      <3> QED
        BY <2>6, <3>2 DEF Provision, TypeOK
    <2>7. CASE Purge(s)
      <3>1. server' \in Server
        BY <2>7, DropEffect, CallOfSite DEF Purge
      <3> QED
        BY <2>7, <3>1 DEF Purge, TypeOK
    <2> QED
      BY <1>2, <2>2, <2>3, <2>4, <2>5, <2>6, <2>7 DEF Step
  <1> QED
    BY <1>1, <1>2 DEF Next

LEMMA TypeInit == Init => TypeOK
  BY DEF Init, TypeOK, Custody, NoPassword, EmptyServer, Server

\* Every variable has its type, and no password is drawn for two sites
\* (RandomPassword, ensureSecret).
THEOREM TypeCorrect == Spec => []TypeOK
  BY TypeInit, TypeStep, PTL DEF Spec

-----------------------------------------------------------------------------
(* Isolation                                                                *)

\* What EnsureDatabase leaves on the server, row by row: each account has a
\* password of its site, each schema is one of a site, and each grant joins the
\* account of a site to the name of its schema.
OwnRows ==
    /\ \A s \in Site : server.accounts[DatabaseUser[s]] \in drawn[s] \union {NoPassword}
    /\ server.databases \subseteq {DatabaseName[s] : s \in Site}
    /\ server.grants \subseteq {<<DatabaseUser[s], DatabaseName[s]>> : s \in Site}

LEMMA RowsStep ==
    ASSUME NamesDistinct, TypeOK, OwnRows, [Next]_vars
    PROVE  OwnRows'
  <1>1. CASE UNCHANGED vars
    BY <1>1 DEF OwnRows, vars
  <1>2. ASSUME NEW s \in Site, Step(s) PROVE OwnRows'
    <2>1. CASE UNCHANGED <<server, drawn>>
      BY <2>1 DEF OwnRows
    <2>2. CASE DrawPassword(s)
      <3>1. server' = server /\ \A t \in Site : drawn[t] \subseteq drawn'[t]
        BY <2>2 DEF DrawPassword, TypeOK
      <3> QED
        BY <3>1 DEF OwnRows
    <2>3. CASE Provision(s)
      <3>1. PICK n \in 0..EnsureStatements, p \in drawn[s] :
                /\ p \in Nat
                /\ server' = EnsureDatabase(server, DatabaseName[s], DatabaseUser[s], p, n)
        BY <2>3, ProvisionCall
      <3>2. /\ \A v \in User : v # DatabaseUser[s] =>
                     server'.accounts[v] = server.accounts[v]
            /\ server'.accounts[DatabaseUser[s]] \in {server.accounts[DatabaseUser[s]], p}
        BY <3>1, EnsureEffect, CallOfSite
      <3>3. drawn' = drawn
        BY <2>3 DEF Provision
      <3>4. \A t \in Site : server'.accounts[DatabaseUser[t]]
                              \in drawn'[t] \union {NoPassword}
        BY <3>1, <3>2, <3>3, NamesType DEF OwnRows, NamesDistinct
      <3>5. /\ server'.databases \subseteq server.databases \union {DatabaseName[s]}
            /\ server'.grants \subseteq server.grants
                                  \union {<<DatabaseUser[s], DatabaseName[s]>>}
        BY <2>3, ProvisionEffect
      <3> QED
        BY <3>4, <3>5 DEF OwnRows
    <2>4. CASE Purge(s)
      <3>1. /\ \A v \in User : v # DatabaseUser[s] =>
                     server'.accounts[v] = server.accounts[v]
            /\ server'.accounts[DatabaseUser[s]]
                  \in {server.accounts[DatabaseUser[s]], NoPassword}
            /\ server'.databases \subseteq server.databases
            /\ server'.grants \subseteq server.grants
        BY <2>4, DropEffect, CallOfSite DEF Purge
      <3> QED
        BY <2>4, <3>1, NamesType DEF Purge, OwnRows
    <2> QED
      BY <1>2, <2>1, <2>2, <2>3, <2>4
      DEF Step, Register, Withdraw, Claim, Doom, Release, Move, LoseSecret
  <1> QED
    BY <1>1, <1>2 DEF Next

LEMMA RowsInvariant == ASSUME NamesDistinct PROVE Spec => []OwnRows
  <1>1. Init => OwnRows
    BY NamesType DEF Init, OwnRows, EmptyServer
  <1>2. TypeOK /\ OwnRows /\ [Next]_vars => OwnRows'
    BY RowsStep
  <1> QED
    BY <1>1, <1>2, TypeCorrect, PTL DEF Spec

\* The rows open nothing else if no name covers another.
LEMMA RowsIsolate ==
    ASSUME NamesDistinct, NamesApart, OwnRows
    PROVE  Isolated
  <1>1. ASSUME NEW s \in Site, NEW d \in Opens(server, DatabaseUser[s])
        PROVE  d = DatabaseName[s]
    <2>1. PICK g \in server.grants : g[1] = DatabaseUser[s] /\ d \in Covers[g[2]]
      BY <1>1 DEF Opens
    <2>2. PICK t \in Site : g = <<DatabaseUser[t], DatabaseName[t]>>
      BY <2>1 DEF OwnRows
    <2>3. t = s
      BY <2>1, <2>2 DEF NamesDistinct
    <2>4. d \in Covers[DatabaseName[s]]
      BY <2>1, <2>2, <2>3
    <2>5. PICK v \in Site : d = DatabaseName[v]
      BY <1>1 DEF Opens, OwnRows
    <2> QED
      BY <2>4, <2>5 DEF NamesApart
  <1> QED
    BY <1>1 DEF Isolated, ScopedToOne, OwnRows

\* Each account opens with a password of its own site and opens the schema of its
\* own site only, when no two sites share a name and no GRANT of EnsureDatabase
\* covers the schema of another site.
THEOREM SitesIsolated == ASSUME NamesDistinct, NamesApart PROVE Spec => []Isolated
  <1>1. OwnRows => Isolated
    BY RowsIsolate
  <1> QED
    BY <1>1, RowsInvariant, PTL

-----------------------------------------------------------------------------
(* Nothing left behind, nothing of others touched                           *)

LEMMA OrphansStep ==
    ASSUME NamesDistinct, TypeOK, NoOrphans, [Next]_vars
    PROVE  NoOrphans'
  <1> SUFFICES ASSUME DropDataOnDelete, NEW t \in Site, HasData(t)'
               PROVE  custody'[t] \in {"held", "doomed"}
    BY DEF NoOrphans
  <1>1. HasData(t) => custody[t] \in {"held", "doomed"}
    BY DEF NoOrphans
  <1>2. CASE UNCHANGED vars
    BY <1>1, <1>2 DEF vars, HasData
  <1>3. ASSUME NEW s \in Site, Step(s) PROVE custody'[t] \in {"held", "doomed"}
    <2>1. CASE server' = server /\ custody' = custody
      BY <1>1, <2>1 DEF HasData
    <2>2. CASE Register(s) \/ Withdraw(s) \/ Claim(s) \/ Doom(s) \/ Release(s)
      <3>1. server' = server /\ HasData(t)
        BY <2>2 DEF Register, Withdraw, Claim, Doom, Release, Move, HasData
      <3>2. custody[t] \in {"held", "doomed"}
        BY <1>1, <3>1
      <3>3. CASE s # t
        BY <2>2, <3>2, <3>3 DEF Register, Withdraw, Claim, Doom, Release, Move, TypeOK
      <3>4. CASE s = t
        BY <2>2, <3>1, <3>2, <3>4
        DEF Register, Withdraw, Claim, Doom, Release, Move, TypeOK
      <3> QED
        BY <3>3, <3>4
    <2>3. CASE Provision(s)
      <3>1. custody' = custody /\ custody[s] \in {"held", "doomed"}
        BY <2>3 DEF Provision
      <3>2. CASE s = t
        BY <3>1, <3>2
      <3>3. CASE s # t
        <4>1. /\ \A e \in Database : e # DatabaseName[s] =>
                     (e \in server'.databases <=> e \in server.databases)
              /\ \A v \in User : v # DatabaseUser[s] =>
                     server'.accounts[v] = server.accounts[v]
          BY <2>3, ProvisionEffect
        <4>2. DatabaseName[t] # DatabaseName[s] /\ DatabaseUser[t] # DatabaseUser[s]
          BY <3>3 DEF NamesDistinct
        <4>3. HasData(t)
          BY <4>1, <4>2, NamesType DEF HasData
        <4> QED
          BY <1>1, <3>1, <4>3
      <3> QED
        BY <3>2, <3>3
    <2>4. CASE Purge(s)
      <3>1. /\ custody' = custody /\ custody[s] = "doomed"
            /\ \E n \in 0..DropStatements :
                  server' = DropDatabase(server, DatabaseName[s], DatabaseUser[s], n)
        BY <2>4 DEF Purge
      <3>2. CASE s = t
        BY <3>1, <3>2
      <3>3. CASE s # t
        <4>1. /\ DatabaseName[t] # DatabaseName[s] /\ DatabaseUser[t] # DatabaseUser[s]
              /\ \A e \in Database : e # DatabaseName[s] =>
                     (e \in server'.databases <=> e \in server.databases)
              /\ \A v \in User : v # DatabaseUser[s] =>
                     server'.accounts[v] = server.accounts[v]
          BY <3>1, <3>3, DropEffect, CallOfSite, NamesType DEF NamesDistinct
        <4>2. HasData(t)
          BY <4>1, NamesType DEF HasData
        <4> QED
          BY <1>1, <3>1, <4>2
      <3> QED
        BY <3>2, <3>3
    <2> QED
      BY <1>3, <2>1, <2>2, <2>3, <2>4 DEF Step, DrawPassword, LoseSecret
  <1> QED
    BY <1>2, <1>3 DEF Next

\* With DropDataOnDelete nothing on the server belongs to a site that is not
\* held or being deleted, when the names are distinct.
THEOREM NothingLeftBehind == ASSUME NamesDistinct PROVE Spec => []NoOrphans
  <1>1. Init => NoOrphans
    BY NamesType DEF Init, NoOrphans, HasData, EmptyServer
  <1>2. TypeOK /\ NoOrphans /\ [Next]_vars => NoOrphans'
    BY OrphansStep
  <1> QED
    BY <1>1, <1>2, TypeCorrect, PTL DEF Spec

LEMMA MoveOthers ==
    ASSUME TypeOK, NEW s \in Site, NEW t \in Site, t # s,
           NEW from, NEW to, Move(s, from, to)
    PROVE  custody'[t] = custody[t] /\ server' = server
  BY DEF Move, TypeOK

LEMMA OthersStep ==
    ASSUME NamesDistinct, TypeOK, OwnRows, NEW s \in Site, Step(s)
    PROVE  \A t \in Site \ {s} : Holdings(t)' = Holdings(t) /\ custody'[t] = custody[t]
  <1> TAKE t \in Site \ {s}
  <1>1. /\ t \in Site /\ t # s
        /\ DatabaseName[t] # DatabaseName[s] /\ DatabaseUser[t] # DatabaseUser[s]
    BY DEF NamesDistinct
  <1>2. custody'[t] = custody[t]
    <2>1. CASE Register(s) \/ Withdraw(s) \/ Claim(s) \/ Doom(s) \/ Release(s)
      BY <1>1, <2>1, MoveOthers DEF Register, Withdraw, Claim, Doom, Release
    <2>2. CASE DrawPassword(s) \/ LoseSecret(s) \/ Provision(s) \/ Purge(s)
      BY <2>2 DEF DrawPassword, LoseSecret, Provision, Purge
    <2> QED
      BY <2>1, <2>2 DEF Step
  <1>3. CASE server' = server
    BY <1>2, <1>3 DEF Holdings
  <1>4. CASE Provision(s)
    <2>1. /\ \A e \in Database : e # DatabaseName[s] =>
                 (e \in server'.databases <=> e \in server.databases)
          /\ \A v \in User : v # DatabaseUser[s] =>
                 server'.accounts[v] = server.accounts[v]
          /\ server.grants \subseteq server'.grants
          /\ server'.grants \subseteq server.grants
                                \union {<<DatabaseUser[s], DatabaseName[s]>>}
      BY <1>4, ProvisionEffect
    <2>2. {g \in server'.grants : g[1] = DatabaseUser[t] \/ g[2] = DatabaseName[t]}
            = {g \in server.grants : g[1] = DatabaseUser[t] \/ g[2] = DatabaseName[t]}
      BY <1>1, <2>1
    <2> QED
      BY <1>1, <1>2, <2>1, <2>2, NamesType DEF Holdings
  <1>5. CASE Purge(s)
    <2>1. /\ \A e \in Database : e # DatabaseName[s] =>
                 (e \in server'.databases <=> e \in server.databases)
          /\ \A v \in User : v # DatabaseUser[s] =>
                 server'.accounts[v] = server.accounts[v]
          /\ server'.grants \subseteq server.grants
          /\ \A g \in server.grants : g[1] # DatabaseUser[s] => g \in server'.grants
      BY <1>5, DropEffect, CallOfSite DEF Purge
    <2>2. \A g \in server.grants : \E v \in Site : g = <<DatabaseUser[v], DatabaseName[v]>>
      BY DEF OwnRows
    <2>3. \A g \in server.grants :
             g[1] = DatabaseUser[t] \/ g[2] = DatabaseName[t] => g[1] # DatabaseUser[s]
      BY <1>1, <2>2 DEF NamesDistinct
    <2>4. {g \in server'.grants : g[1] = DatabaseUser[t] \/ g[2] = DatabaseName[t]}
            = {g \in server.grants : g[1] = DatabaseUser[t] \/ g[2] = DatabaseName[t]}
      BY <2>1, <2>3
    <2> QED
      BY <1>1, <1>2, <2>1, <2>4, NamesType DEF Holdings
  <1>6. server' = server \/ Provision(s) \/ Purge(s)
    BY DEF Step, Register, Withdraw, Claim, Doom, Release, Move, DrawPassword, LoseSecret
  <1> QED
    BY <1>2, <1>3, <1>4, <1>5, <1>6

\* What the operator does for one site leaves the others alone, statement by
\* statement of EnsureDatabase and DropDatabase, when the names are distinct.
THEOREM SitesIndependent == ASSUME NamesDistinct PROVE Spec => OthersUntouched
  <1>1. TypeOK /\ OwnRows /\ [Next]_vars
          => [\E s \in Site : \A t \in Site \ {s} :
                 Holdings(t)' = Holdings(t) /\ custody'[t] = custody[t]]_vars
    BY OthersStep DEF Next
  <1> QED
    BY <1>1, TypeCorrect, RowsInvariant, PTL DEF Spec, OthersUntouched

-----------------------------------------------------------------------------
(* Each site keeps DataCustody                                              *)

LEMMA MoveOwn ==
    ASSUME TypeOK, NEW s \in Site, NEW from, NEW to, Move(s, from, to)
    PROVE  /\ custody[s] = from /\ custody'[s] = to
           /\ HasData(s)' = HasData(s)
  BY DEF Move, TypeOK, HasData

\* A site's own step is one of DataCustody, or invisible to it.
LEMMA OwnStep ==
    ASSUME TypeOK, NEW s \in Site, Step(s)
    PROVE  [Promise(s)!Next]_(Promise(s)!vars)
  <1>1. CASE Register(s)
    BY <1>1, MoveOwn DEF Register, Promise!Register, Promise!Next
  <1>2. CASE Withdraw(s)
    BY <1>2, MoveOwn DEF Withdraw, Promise!Withdraw, Promise!Next
  <1>3. CASE Claim(s)
    BY <1>3, MoveOwn DEF Claim, Promise!Claim, Promise!Next
  <1>4. CASE Doom(s)
    BY <1>4, MoveOwn DEF Doom, Promise!Doom, Promise!Next
  <1>5. CASE Release(s)
    BY <1>5, MoveOwn DEF Release, Promise!Release, Promise!Next
  <1>6. CASE DrawPassword(s) \/ LoseSecret(s)
    <2>1. custody' = custody /\ HasData(s)' = HasData(s)
      BY <1>6 DEF DrawPassword, LoseSecret, HasData
    <2> QED
      BY <2>1 DEF Promise!vars
  <1>7. CASE Provision(s)
    <2>1. HasData(s) => HasData(s)'
      <3>1. PICK n \in 0..EnsureStatements, p \in drawn[s] :
                server' = EnsureDatabase(server, DatabaseName[s], DatabaseUser[s], p, n)
        BY <1>7, ProvisionCall
      <3>2. p \in Nat /\ p # NoPassword
        BY DrawnAreNumbers
      <3>3. /\ server.databases \subseteq server'.databases
            /\ server'.accounts[DatabaseUser[s]] \in {server.accounts[DatabaseUser[s]], p}
        BY <3>1, <3>2, EnsureEffect, CallOfSite
      <3> QED
        BY <3>2, <3>3 DEF HasData
    <2>2. custody[s] \in {"held", "doomed"} /\ custody' = custody
      BY <1>7 DEF Provision
    <2>3. CASE HasData(s)'
      BY <2>2, <2>3 DEF Promise!Provision, Promise!Next
    <2>4. CASE ~HasData(s)'
      BY <2>1, <2>2, <2>4 DEF Promise!vars, HasData
    <2> QED
      BY <2>3, <2>4
  <1>8. CASE Purge(s)
    <2>1. HasData(s)' => HasData(s)
      <3>1. /\ server'.databases \subseteq server.databases
            /\ server'.accounts[DatabaseUser[s]]
                  \in {server.accounts[DatabaseUser[s]], NoPassword}
        BY <1>8, DropEffect, CallOfSite DEF Purge
      <3> QED
        BY <3>1 DEF HasData
    <2>2. DropDataOnDelete /\ custody[s] = "doomed" /\ custody' = custody
      BY <1>8 DEF Purge
    <2>3. CASE ~HasData(s)'
      BY <2>2, <2>3 DEF Promise!Purge, Promise!Next
    <2>4. CASE HasData(s)'
      BY <2>1, <2>2, <2>4 DEF Promise!vars
    <2> QED
      BY <2>3, <2>4
  <1> QED
    BY <1>1, <1>2, <1>3, <1>4, <1>5, <1>6, <1>7, <1>8 DEF Step

LEMMA CustodyStep ==
    ASSUME NamesDistinct, TypeOK, OwnRows, [Next]_vars, NEW t \in Site
    PROVE  [Promise(t)!Next]_(Promise(t)!vars)
  <1>1. CASE UNCHANGED vars
    <2>1. custody' = custody /\ HasData(t)' = HasData(t)
      BY <1>1 DEF vars, HasData
    <2> QED
      BY <2>1 DEF Promise!vars
  <1>2. ASSUME NEW s \in Site, Step(s), s # t PROVE UNCHANGED Promise(t)!vars
    <2>1. Holdings(t)' = Holdings(t) /\ custody'[t] = custody[t]
      BY <1>2, OthersStep
    <2>2. HasData(t)' = HasData(t)
      BY <2>1 DEF Holdings, HasData
    <2> QED
      BY <2>1, <2>2 DEF Promise!vars
  <1> QED
    BY <1>1, <1>2, OwnStep DEF Next

\* The promise of DataCustody is kept for every one of the sites on the server
\* (EnsureDatabase and DropDatabase, one site's among the others'), when the
\* names are distinct.
THEOREM EverySiteKept == ASSUME NamesDistinct PROVE Spec => SitesKeepCustody
  <1>1. Init => \A s \in Site : Promise(s)!Init
    BY NamesType DEF Init, Promise!Init, HasData, EmptyServer
  <1>2. TypeOK /\ OwnRows /\ [Next]_vars
          => [\A s \in Site : [Promise(s)!Next]_(Promise(s)!vars)]_vars
    BY CustodyStep
  <1> QED
    BY <1>1, <1>2, TypeCorrect, RowsInvariant, PTL DEF Spec, SitesKeepCustody
-----------------------------------------------------------------------------
(* Names that are distinct                                                  *)

Hyphen == "-"

\* A site name of letters and hyphens that begins and ends with a letter and is
\* short enough for an account of MySQL.
PlainName(n) ==
    /\ n \in Seq(Letter \union {Hyphen})
    /\ Len(n) \in 1..UserLimit
    /\ n[1] \in Letter /\ n[Len(n)] \in Letter

\* The sites have such names and no database names of their own in their specs.
PlainSites ==
    \A s \in Site : /\ PlainName(s)
                    /\ DatabaseName[s] = SchemaFor(s) /\ DatabaseUser[s] = UserFor(s)

Blanked(n) == [i \in DOMAIN n |-> IF n[i] \in Letter THEN n[i] ELSE Blank]

LEMMA PlainNameType ==
    ASSUME NEW n, PlainName(n)
    PROVE  /\ n \in Seq(Letter \union {Hyphen}) /\ DOMAIN n = 1..Len(n)
           /\ Len(n) \in Nat \ {0}
  BY DEF PlainName

LEMMA BlankedType ==
    ASSUME NEW n, PlainName(n)
    PROVE  /\ Blanked(n) \in Seq(Letter \union {Blank})
           /\ Len(Blanked(n)) = Len(n)
           /\ DOMAIN Blanked(n) = 1..Len(n)
  <1>1. Len(n) \in Nat /\ DOMAIN n = 1..Len(n)
    BY PlainNameType
  <1>2. Blanked(n) \in [1..Len(n) -> Letter \union {Blank}]
    BY <1>1 DEF Blanked
  <1> QED
    BY <1>1, <1>2, IsASeq, LenProperties

\* A plain name has nothing for Trim to take off.
LEMMA EndsKept ==
    ASSUME NEW n, PlainName(n)
    PROVE  sanitize(n) = Blanked(n)
  <1> DEFINE f == Blanked(n)
             kept == {i \in DOMAIN f : f[i] # Blank}
  <1>1. /\ Len(n) \in Nat \ {0} /\ DOMAIN n = 1..Len(n)
        /\ f \in Seq(Letter \union {Blank}) /\ Len(f) = Len(n) /\ DOMAIN f = 1..Len(n)
    BY PlainNameType, BlankedType
  <1>2. kept \subseteq 1..Len(n) /\ 1 \in kept /\ Len(n) \in kept
    BY <1>1, NamingAssumption DEF PlainName, Blanked
  <1>3. Min(kept) = 1
    BY <1>1, <1>2 DEF Min
  <1>4. Max(kept) = Len(n)
    BY <1>1, <1>2 DEF Max
  <1>5. SubSeq(f, 1, Len(f)) = f
    BY <1>1
  <1> QED
    BY <1>1, <1>2, <1>3, <1>4, <1>5 DEF sanitize, Trim, Blanked

LEMMA BlankedApart ==
    ASSUME NEW m, NEW n, PlainName(m), PlainName(n), m # n
    PROVE  Blanked(m) # Blanked(n)
  <1> SUFFICES ASSUME Blanked(m) = Blanked(n) PROVE FALSE
    OBVIOUS
  <1>1. /\ m \in Seq(Letter \union {Hyphen}) /\ n \in Seq(Letter \union {Hyphen})
        /\ DOMAIN m = 1..Len(m) /\ DOMAIN n = 1..Len(n)
        /\ Len(m) \in Nat \ {0} /\ Len(n) \in Nat \ {0}
    BY PlainNameType
  <1>2. DOMAIN m = DOMAIN n
    BY DEF Blanked
  <1>3. Len(m) = Len(n)
    <2>1. ASSUME NEW a \in Nat \ {0}, NEW b \in Nat \ {0}, 1..a = 1..b PROVE a = b
      <3>1. a \in 1..b /\ b \in 1..a
        BY <2>1
      <3> QED
        BY <3>1
    <2> QED
      BY <1>1, <1>2, <2>1
  <1>4. PICK i \in 1..Len(m) : m[i] # n[i]
    BY <1>1, <1>3, SeqEqual
  <1>5. m[i] \in Letter \union {Hyphen} /\ n[i] \in Letter \union {Hyphen}
    BY <1>1, <1>3, <1>4
  <1>6. i \in DOMAIN m /\ i \in DOMAIN n
    BY <1>1, <1>3, <1>4
  <1>7. /\ Blanked(m)[i] = IF m[i] \in Letter THEN m[i] ELSE Blank
        /\ Blanked(n)[i] = IF n[i] \in Letter THEN n[i] ELSE Blank
    BY <1>6 DEF Blanked
  <1>8. Blanked(m)[i] = Blanked(n)[i]
    OBVIOUS
  <1> QED
    BY <1>4, <1>5, <1>7, <1>8, NamingAssumption

LEMMA PlainNamesApart ==
    ASSUME NEW m, NEW n, PlainName(m), PlainName(n), m # n
    PROVE  SchemaFor(m) # SchemaFor(n) /\ UserFor(m) # UserFor(n)
  <1>1. ASSUME NEW x, PlainName(x)
        PROVE  SchemaFor(x) = Blanked(x) /\ UserFor(x) = Blanked(x)
    <2>1. sanitize(x) = Blanked(x)
      BY <1>1, EndsKept
    <2>2. Len(Blanked(x)) = Len(x) /\ Len(x) \in 1..UserLimit
      BY <1>1, BlankedType DEF PlainName
    <2>3. Len(Blanked(x)) <= UserLimit /\ Len(Blanked(x)) <= NameLimit
      BY <2>2, NamingAssumption
    <2> QED
      BY <2>1, <2>3 DEF SchemaFor, UserFor, truncate
  <1> QED
    BY <1>1, BlankedApart

\* The names names.go makes up for plain site names are never cut off and never
\* meet: what the theorems above assume holds of them (DatabaseName,
\* DatabaseUser, sanitize, truncate).
THEOREM PlainSitesDistinct == ASSUME PlainSites PROVE NamesDistinct
  BY PlainNamesApart DEF PlainSites, NamesDistinct

\* Sites with plain names are served apart: no two from one schema or with one
\* account, no step for one touches what another has, and each keeps DataCustody.
\* Longer names, which DatabaseUser cuts, break this.
THEOREM PlainSitesApart ==
    ASSUME PlainSites
    PROVE  Spec => []Dedicated /\ []NoOrphans /\ OthersUntouched /\ SitesKeepCustody
  <1>1. NamesDistinct
    BY PlainSitesDistinct
  <1>2. Dedicated
    BY <1>1 DEF NamesDistinct, Dedicated
  <1>3. Spec => []NoOrphans
    BY <1>1, NothingLeftBehind
  <1>4. Spec => OthersUntouched
    BY <1>1, SitesIndependent
  <1>5. Spec => SitesKeepCustody
    BY <1>1, EverySiteKept
  <1> QED
    BY <1>2, <1>3, <1>4, <1>5, PTL

-----------------------------------------------------------------------------
(* Names that no GRANT for another site covers                              *)

\* MySQL reads the names in grants as Naming says.
GrantsAreMatched == \A d, e \in Database : e \in Covers[d] <=> Matches(d, e)

\* A site has a character other than "-" that another of the same length differs in.
NoWildcard ==
    \A s, t \in Site :
        s # t /\ Len(s) = Len(t) =>
            \E i \in 1..Len(s) : s[i] # t[i] /\ s[i] # Hyphen

LEMMA PlainSchema ==
    ASSUME NEW n, PlainName(n)
    PROVE  SchemaFor(n) = Blanked(n)
  <1>1. sanitize(n) = Blanked(n)
    BY EndsKept
  <1>2. Len(Blanked(n)) = Len(n) /\ Len(n) \in 1..UserLimit
    BY BlankedType DEF PlainName
  <1>3. Len(Blanked(n)) <= NameLimit
    BY <1>2, NamingAssumption
  <1> QED
    BY <1>1, <1>3 DEF SchemaFor, truncate

\* A plain name that differs from another where it has no hyphen covers only
\* schemas that differ from the other's.
LEMMA NoMatch ==
    ASSUME NEW m, NEW n, PlainName(m), PlainName(n),
           Len(m) = Len(n) => \E i \in 1..Len(m) : m[i] # n[i] /\ m[i] # Hyphen
    PROVE  ~Matches(Blanked(m), Blanked(n))
  <1> SUFFICES ASSUME Matches(Blanked(m), Blanked(n)) PROVE FALSE
    OBVIOUS
  <1>1. /\ Len(Blanked(m)) = Len(m) /\ DOMAIN Blanked(m) = 1..Len(m)
        /\ Len(Blanked(n)) = Len(n) /\ DOMAIN m = 1..Len(m) /\ DOMAIN n = 1..Len(n)
        /\ m \in Seq(Letter \union {Hyphen}) /\ n \in Seq(Letter \union {Hyphen})
    BY BlankedType, PlainNameType
  <1>2. Len(m) = Len(n)
    BY <1>1 DEF Matches
  <1>3. PICK i \in 1..Len(m) : m[i] # n[i] /\ m[i] # Hyphen
    BY <1>2
  <1>4. m[i] \in Letter /\ n[i] \in Letter \union {Hyphen}
    BY <1>1, <1>2, <1>3
  <1>5. i \in DOMAIN m /\ i \in DOMAIN n /\ i \in DOMAIN Blanked(m)
    BY <1>1, <1>2, <1>3
  <1>6. Blanked(m)[i] = m[i] /\ Blanked(n)[i] \in {n[i], Blank}
    BY <1>4, <1>5 DEF Blanked
  <1>7. n[i] \in Letter => Blanked(n)[i] = n[i]
    BY <1>5 DEF Blanked
  <1>8. Blanked(m)[i] \in {Blanked(n)[i], Blank}
    BY <1>5 DEF Matches
  <1> QED
    BY <1>3, <1>4, <1>6, <1>7, <1>8, NamingAssumption

\* Sites with plain names are isolated as long as no name is another with a
\* hyphen for some of its letters (the GRANT of EnsureDatabase, sanitize).  The
\* names of the run wildcard are the smallest that are not.
THEOREM PlainSitesIsolated ==
    ASSUME PlainSites, GrantsAreMatched, NoWildcard
    PROVE  Spec => []Isolated
  <1>1. NamesDistinct
    BY PlainSitesDistinct
  <1>2. ASSUME NEW s \in Site, NEW t \in Site, s # t
        PROVE  DatabaseName[t] \notin Covers[DatabaseName[s]]
    <2>1. /\ PlainName(s) /\ PlainName(t)
          /\ DatabaseName[s] = Blanked(s) /\ DatabaseName[t] = Blanked(t)
      BY PlainSchema DEF PlainSites
    <2>2. ~Matches(Blanked(s), Blanked(t))
      BY <1>2, <2>1, NoMatch DEF NoWildcard
    <2>3. DatabaseName[s] \in Database /\ DatabaseName[t] \in Database
      BY NamesType
    <2> QED
      BY <2>1, <2>2, <2>3 DEF GrantsAreMatched
  <1>3. NamesApart
    BY <1>2 DEF NamesApart
  <1> QED
    BY <1>1, <1>3, SitesIsolated
=============================================================================
