----------------------------- MODULE TwoFAProofs -----------------------------
(***************************************************************************)
(* Theorems about KubeTwoFA, for any set of concurrent requests and any    *)
(* number of keys.                                                         *)
(***************************************************************************)
EXTENDS KubeTwoFA, TLAPS

LEMMA AbsentType == ASSUME NEW n \in Nat PROVE Absent(n) \in Version
  BY DEF Absent, Version, NoKey

LEMMA AbsentFields ==
    ASSUME NEW n
    PROVE  /\ Absent(n).rv = n /\ ~Absent(n).live /\ ~Absent(n).enabled
           /\ Absent(n).key = NoKey /\ Absent(n).pending = NoKey
  BY DEF Absent

LEMMA IdleType == /\ NoRequest.op = "none" /\ NoRequest.arg = NoKey
                  /\ NoRequest.seen = Absent(0)
                  /\ NoRequest.seen.rv = 0 /\ ~NoRequest.seen.live
  BY DEF NoRequest, Absent

LEMMA InitInv == Init => TypeOK /\ TwoFAInv
<1> SUFFICES ASSUME Init PROVE TypeOK /\ TwoFAInv
  OBVIOUS
<1>1. secret = Absent(0) /\ secret \in Version /\ ~secret.live /\ secret.rv = 0
      /\ secret.key = NoKey /\ ~secret.enabled
  BY AbsentType DEF Init, Absent
<1>2. \A r \in Request : req[r] = NoRequest
  BY DEF Init
<1>3. TypeOK
  BY <1>1, KeysAssumption DEF Init, TypeOK
<1>4. SeenInOrder
  <2> SUFFICES ASSUME NEW r \in Request
               PROVE  /\ req[r].seen.rv <= secret.rv
                      /\ ~req[r].seen.live
                      /\ req[r].seen = Absent(req[r].seen.rv)
    BY DEF SeenInOrder
  <2> QED
    BY <1>1, <1>2, IdleType
<1>5. \A r \in Request : req[r].op = "none"
  BY <1>2, IdleType
<1>6. RequestOnTrack /\ FreshKeys
  BY <1>5 DEF RequestOnTrack, FreshKeys
<1> QED
  BY <1>1, <1>3, <1>4, <1>6 DEF TwoFAInv, NoLockout

-----------------------------------------------------------------------------
(* What a step can do to one request                                        *)

\* The first half of a request records the Secret as it is.
LEMMA LoadKeeps ==
    ASSUME TypeOK, TwoFAInv, NEW r \in Request, NEW op, NEW arg \in Nat,
           op \in {"Setup", "Enable", "Disable", "login"}, Load(r, op, arg),
           UNCHANGED secret
    PROVE  /\ req' \in [Request -> Working \union {NoRequest}]
           /\ SeenInOrder'
           /\ req'[r].op = op /\ req'[r].arg = arg /\ req'[r].seen = secret
           /\ \A q \in Request \ {r} : req'[q] = req[q]
<1>1. [op |-> op, arg |-> arg, seen |-> secret] \in Working
  BY DEF TypeOK, Working
<1>2. req' = [req EXCEPT ![r] = [op |-> op, arg |-> arg, seen |-> secret]]
  BY DEF Load
<1>3. req' \in [Request -> Working \union {NoRequest}]
  BY <1>1, <1>2 DEF TypeOK
<1>4. /\ req'[r].op = op /\ req'[r].arg = arg /\ req'[r].seen = secret
      /\ \A q \in Request \ {r} : req'[q] = req[q]
  BY <1>2 DEF TypeOK
<1>5. secret.rv <= secret.rv /\ (~secret.live => secret = Absent(secret.rv))
  BY DEF TypeOK, TwoFAInv, Version
<1>6. SeenInOrder'
  BY <1>4, <1>5 DEF SeenInOrder, TwoFAInv
<1> QED
  BY <1>3, <1>4, <1>6

\* A request that is over has nothing to be wrong about.
LEMMA EndKeeps ==
    ASSUME TypeOK, NEW r \in Request, End(r)
    PROVE  /\ req' \in [Request -> Working \union {NoRequest}]
           /\ req'[r] = NoRequest
           /\ \A q \in Request \ {r} : req'[q] = req[q]
  BY DEF TypeOK, End

\* A write of the Secret takes its resourceVersion past all that was loaded.
LEMMA WriteKeepsOrder ==
    ASSUME TypeOK, TwoFAInv, secret'.rv \in Nat, secret'.rv > secret.rv \/ ~secret'.live,
           secret'.rv >= secret.rv,
           \A q \in Request : req'[q] = req[q] \/ req'[q] = NoRequest
    PROVE  SeenInOrder'
<1> SUFFICES ASSUME NEW q \in Request
             PROVE  /\ req'[q].seen.rv <= secret'.rv
                    /\ req'[q].seen.live /\ secret'.live /\ req'[q].seen.rv = secret'.rv
                         => req'[q].seen = secret'
                    /\ ~req'[q].seen.live => req'[q].seen = Absent(req'[q].seen.rv)
  BY DEF SeenInOrder
<1>1. secret.rv \in Nat
  BY DEF TypeOK, Version
<1>2. CASE req'[q] = req[q]
  <2>1. req[q] \in Working \union {NoRequest}
    BY DEF TypeOK
  <2>2. req[q].seen.rv \in Nat
    <3>1. NoRequest.seen.rv = 0
      BY DEF NoRequest, Absent
    <3>2. req[q] \in Working => req[q].seen.rv \in Nat
      BY DEF Working, Version
    <3> QED
      BY <2>1, <3>1, <3>2
  <2>3. req[q].seen.rv <= secret.rv
    BY DEF TwoFAInv, SeenInOrder
  <2>4. ~req[q].seen.live => req[q].seen = Absent(req[q].seen.rv)
    BY DEF TwoFAInv, SeenInOrder
  <2> QED
    BY <1>1, <1>2, <2>2, <2>3, <2>4
<1>3. CASE req'[q] = NoRequest
  BY <1>1, <1>3, IdleType
<1> QED
  BY <1>2, <1>3

-----------------------------------------------------------------------------
(* What a write puts into the Secret                                        *)

\* A save that is accepted started from the Secret as it is now, so what it
\* writes is the effect its operation has on the current Data.
LEMMA SaveEffect ==
    ASSUME TypeOK, TwoFAInv, NEW r \in Request, save(r)
    PROVE  /\ secret' \in Version
           /\ secret'.live /\ secret'.rv = secret.rv + 1
           /\ secret'.enabled <=> secret'.key # NoKey
           /\ CASE req[r].op = "Setup"   -> /\ secret'.key = secret.key
                                            /\ secret'.pending = req[r].arg
                [] req[r].op = "Enable"  -> /\ req[r].arg = secret.pending
                                            /\ secret'.key = secret.pending
                                            /\ secret'.pending = NoKey
                [] req[r].op = "Disable" -> /\ req[r].arg = secret.key
                                            /\ secret'.key = NoKey
                                            /\ secret'.pending = NoKey
<1> DEFINE seen == req[r].seen
           op == req[r].op
           arg == req[r].arg
           data == Data(op, arg, seen)
<1>1. op \in {"Setup", "Enable", "Disable"} /\ Current(seen)
      /\ secret' = [data EXCEPT !.live = TRUE, !.rv = secret.rv + 1]
  BY DEF save
<1>2. seen \in Version /\ arg \in Nat
  <2>1. op # "none"
    BY <1>1
  <2>2. req[r] \in Working
    BY <2>1, IdleType DEF TypeOK
  <2> QED
    BY <2>2 DEF Working
<1>3. secret \in Version /\ secret.rv + 1 \in Nat
  BY DEF TypeOK, Version
<1>4. seen.key = secret.key /\ seen.pending = secret.pending /\ seen.enabled = secret.enabled
  <2>1. CASE seen.live
    BY <1>1, <2>1 DEF Current, TwoFAInv, SeenInOrder
  <2>2. CASE ~seen.live
    <3>1. seen = Absent(seen.rv) /\ secret = Absent(secret.rv)
      BY <1>1, <2>2 DEF Current, TwoFAInv, SeenInOrder
    <3>2. /\ seen.key = NoKey /\ seen.pending = NoKey /\ ~seen.enabled
          /\ secret.key = NoKey /\ secret.pending = NoKey /\ ~secret.enabled
      BY <3>1, AbsentFields
    <3>3. seen.enabled \in BOOLEAN /\ secret.enabled \in BOOLEAN
      BY <1>2, <1>3 DEF Version
    <3> QED
      BY <3>2, <3>3
  <2> QED
    BY <2>1, <2>2
<1>5. secret.enabled <=> secret.key # NoKey
  BY DEF TypeOK
<1>6. op = "Enable" => arg = seen.pending /\ arg # NoKey
  BY DEF TwoFAInv, RequestOnTrack, TypeOK, NoKey
<1>7. op = "Disable" => arg = seen.key
  BY DEF TwoFAInv, RequestOnTrack
<1>8. data \in Version
  BY <1>1, <1>2 DEF Data, Version, NoKey
<1>9. secret' \in Version /\ secret'.live /\ secret'.rv = secret.rv + 1
      /\ secret'.key = data.key /\ secret'.pending = data.pending
      /\ secret'.enabled = data.enabled
  BY <1>1, <1>3, <1>8 DEF Version
<1>10. CASE op = "Setup"
  <2>1. data.key = seen.key /\ data.pending = arg /\ data.enabled = seen.enabled
    BY <1>2, <1>10 DEF Data, Version
  <2> QED
    BY <1>4, <1>5, <1>9, <1>10, <2>1
<1>11. CASE op = "Enable"
  <2>1. data.key = arg /\ data.pending = NoKey /\ data.enabled
    BY <1>2, <1>11 DEF Data, Version
  <2> QED
    BY <1>4, <1>6, <1>9, <1>11, <2>1
<1>12. CASE op = "Disable"
  <2>1. data.key = NoKey /\ data.pending = NoKey /\ ~data.enabled
    BY <1>2, <1>12 DEF Data, Version
  <2> QED
    BY <1>4, <1>7, <1>9, <1>12, <2>1
<1> QED
  BY <1>1, <1>9, <1>10, <1>11, <1>12

\* The key of a Setup becomes known when its answer arrives, no other does.
LEMMA SaveKnown ==
    ASSUME NEW r \in Request, save(r)
    PROVE  \/ known' = known
           \/ req[r].op = "Setup" /\ known' = known \union {req[r].arg}
  BY DEF save

-----------------------------------------------------------------------------
(* Every step keeps the invariant                                           *)

LEMMA BeginStep ==
    ASSUME TypeOK, TwoFAInv, NEW r \in Request,
           Setup(r) \/ Enable(r) \/ Disable(r) \/ LoginTwoFactor(r)
    PROVE  TypeOK' /\ TwoFAInv'
<1>1. UNCHANGED <<secret, known, wipes, sessions>> /\ drawn \in Nat
  BY DEF Setup, Enable, Disable, LoginTwoFactor, TypeOK
<1>2. known \subseteq 1..drawn /\ known \subseteq Nat
  BY DEF TypeOK
<1>3. drawn' \in 0..MaxKeys /\ drawn' >= drawn
  BY <1>1, KeysAssumption DEF Setup, Enable, Disable, LoginTwoFactor, TypeOK
<1>4. PICK op \in {"Setup", "Enable", "Disable", "login"}, arg \in Nat :
          /\ Load(r, op, arg)
          /\ op = "Setup" => arg = drawn + 1 /\ drawn' = drawn + 1
          /\ op = "Enable" => secret.live /\ arg = secret.pending /\ arg \in known
          /\ op = "Disable" => secret.live /\ arg = secret.key /\ arg \in known
          /\ op = "login" => arg \in known
  <2>1. CASE Setup(r)
    <3>1. Load(r, "Setup", drawn + 1) /\ drawn' = drawn + 1 /\ drawn + 1 \in Nat
      BY <1>1, <2>1 DEF Setup
    <3> QED
      BY <3>1
  <2>2. CASE Enable(r)
    <3>1. /\ Load(r, "Enable", secret.pending) /\ secret.live
          /\ secret.pending \in known /\ secret.pending \in Nat
      BY <1>2, <2>2 DEF Enable, Codes
    <3> QED
      BY <3>1
  <2>3. CASE Disable(r)
    <3>1. /\ Load(r, "Disable", secret.key) /\ secret.live
          /\ secret.key \in known /\ secret.key \in Nat
      BY <1>2, <2>3 DEF Disable, Codes
    <3> QED
      BY <3>1
  <2>4. CASE LoginTwoFactor(r)
    <3>1. PICK code \in known : Load(r, "login", code)
      BY <2>4 DEF LoginTwoFactor
    <3> QED
      BY <1>2, <3>1
  <2> QED
    BY <2>1, <2>2, <2>3, <2>4
<1>5. /\ req' \in [Request -> Working \union {NoRequest}]
      /\ SeenInOrder'
      /\ req'[r].op = op /\ req'[r].arg = arg /\ req'[r].seen = secret
      /\ \A q \in Request \ {r} : req'[q] = req[q]
  BY <1>1, <1>4, LoadKeeps
<1>6. known \subseteq 1..drawn'
  BY <1>1, <1>2, <1>3
<1>7. TypeOK'
  BY <1>1, <1>3, <1>5, <1>6 DEF TypeOK
<1>8. RequestOnTrack'
  <2> SUFFICES ASSUME NEW q \in Request
               PROVE  /\ req'[q].op = "Setup" => req'[q].arg \in 1..drawn' /\ req'[q].arg \notin known
                      /\ req'[q].op = "Enable" => /\ req'[q].seen.live
                                                  /\ req'[q].arg = req'[q].seen.pending
                                                  /\ req'[q].arg \in known
                      /\ req'[q].op = "Disable" => /\ req'[q].seen.live
                                                   /\ req'[q].arg = req'[q].seen.key
                                                   /\ req'[q].arg \in known
                      /\ req'[q].op = "login" => req'[q].arg \in known
    BY <1>1 DEF RequestOnTrack
  <2>1. CASE q = r
    BY <1>1, <1>2, <1>4, <1>5, <2>1
  <2>2. CASE q # r
    BY <1>1, <1>3, <1>5, <2>2 DEF TwoFAInv, RequestOnTrack
  <2> QED
    BY <2>1, <2>2
<1>9. FreshKeys'
  <2>1. \A q \in Request : req[q].op = "Setup" => req[q].arg \in 1..drawn
    BY DEF TwoFAInv, RequestOnTrack
  <2>2. \A q \in Request : req[q].op = "Setup" => req[q].arg # drawn + 1
    BY <1>1, <2>1
  <2> QED
    BY <1>4, <1>5, <2>2 DEF TwoFAInv, FreshKeys
<1> QED
  BY <1>1, <1>5, <1>7, <1>8, <1>9 DEF TwoFAInv, NoLockout

LEMMA SaveStep ==
    ASSUME TypeOK, TwoFAInv, NEW r \in Request, save(r)
    PROVE  TypeOK' /\ TwoFAInv'
<1>1. UNCHANGED <<drawn, wipes, sessions>> /\ End(r)
      /\ req[r].op \in {"Setup", "Enable", "Disable"}
  BY DEF save
<1>2. /\ req' \in [Request -> Working \union {NoRequest}]
      /\ req'[r] = NoRequest
      /\ \A q \in Request \ {r} : req'[q] = req[q]
  BY <1>1, EndKeeps
<1>3. /\ secret' \in Version /\ secret'.live /\ secret'.rv = secret.rv + 1
      /\ secret'.enabled <=> secret'.key # NoKey
  BY SaveEffect
<1>4. secret.rv \in Nat /\ secret'.rv \in Nat /\ secret'.rv > secret.rv
  BY <1>3 DEF TypeOK, Version
<1>5. known' \subseteq 1..drawn /\ known \subseteq known'
  BY SaveKnown DEF TypeOK, TwoFAInv, RequestOnTrack
<1>6. TypeOK'
  BY <1>1, <1>2, <1>3, <1>5 DEF TypeOK
<1>7. SeenInOrder'
  BY <1>2, <1>4, WriteKeepsOrder
<1>8. RequestOnTrack'
  <2> SUFFICES ASSUME NEW q \in Request, q # r
               PROVE  /\ req[q].op = "Setup" => req[q].arg \in 1..drawn /\ req[q].arg \notin known'
                      /\ req[q].op = "Enable" => /\ req[q].seen.live
                                                 /\ req[q].arg = req[q].seen.pending
                                                 /\ req[q].arg \in known'
                      /\ req[q].op = "Disable" => /\ req[q].seen.live
                                                  /\ req[q].arg = req[q].seen.key
                                                  /\ req[q].arg \in known'
                      /\ req[q].op = "login" => req[q].arg \in known'
    BY <1>1, <1>2, IdleType DEF RequestOnTrack
  <2>1. req[q].op = "Setup" /\ req[r].op = "Setup" => req[q].arg # req[r].arg
    BY DEF TwoFAInv, FreshKeys
  <2> QED
    BY <1>5, <2>1, SaveKnown DEF TwoFAInv, RequestOnTrack
<1>9. FreshKeys'
  BY <1>2, IdleType DEF TwoFAInv, FreshKeys
<1>10. NoLockout'
  BY <1>1, <1>5, SaveEffect DEF TwoFAInv, NoLockout, RequestOnTrack
<1>11. (~secret.live => secret = Absent(secret.rv))'
  BY <1>3
<1> QED
  BY <1>6, <1>7, <1>8, <1>9, <1>10, <1>11 DEF TwoFAInv

LEMMA KnownType == TypeOK => known \subseteq Nat /\ Codes \subseteq Nat
  BY DEF TypeOK, Codes, NoKey

LEMMA IssueType ==
    ASSUME TypeOK, NEW code \in Nat, NEW read \in BOOLEAN, Issue(code, read)
    PROVE  sessions' \subseteq [code : Nat, read : BOOLEAN]
  BY DEF TypeOK, Issue

LEMMA EndStep ==
    ASSUME TypeOK, TwoFAInv, NEW r \in Request, Abandon(r) \/ Validate(r)
    PROVE  TypeOK' /\ TwoFAInv'
<1>1. UNCHANGED <<secret, known, drawn, wipes>> /\ End(r)
  BY DEF Abandon, Validate
<1>2. sessions' \subseteq [code : Nat, read : BOOLEAN]
  <2>1. req[r].op = "login" => req[r].arg \in Nat
    BY KnownType DEF TwoFAInv, RequestOnTrack
  <2>2. CASE Abandon(r)
    BY <2>2 DEF Abandon, TypeOK
  <2>3. CASE Validate(r)
    BY <2>1, <2>3, IssueType DEF Validate
  <2> QED
    BY <2>2, <2>3
<1>3. /\ req' \in [Request -> Working \union {NoRequest}]
      /\ req'[r] = NoRequest
      /\ \A q \in Request \ {r} : req'[q] = req[q]
  BY <1>1, EndKeeps
<1>4. TypeOK'
  BY <1>1, <1>2, <1>3 DEF TypeOK
<1>5. SeenInOrder'
  <2>1. NoRequest.seen = Absent(NoRequest.seen.rv) /\ NoRequest.seen.rv <= secret.rv
    BY IdleType DEF TypeOK, Version
  <2> QED
    BY <1>1, <1>3, <2>1, IdleType DEF TwoFAInv, SeenInOrder
<1>6. RequestOnTrack' /\ FreshKeys'
  BY <1>1, <1>3, IdleType DEF TwoFAInv, RequestOnTrack, FreshKeys
<1> QED
  BY <1>1, <1>4, <1>5, <1>6 DEF TwoFAInv, NoLockout

LEMMA LoginStep ==
    ASSUME TypeOK, TwoFAInv, NEW r \in Request, LoginOneFactor(r) \/ LoginUnread(r)
    PROVE  TypeOK' /\ TwoFAInv'
<1>1. UNCHANGED <<secret, known, drawn, wipes, req>>
  BY DEF LoginOneFactor, LoginUnread
<1>2. sessions' \subseteq [code : Nat, read : BOOLEAN]
  <2>1. PICK code \in Nat, read \in BOOLEAN : Issue(code, read)
    BY KnownType DEF LoginOneFactor, LoginUnread
  <2> QED
    BY <2>1, IssueType
<1> QED
  BY <1>1, <1>2 DEF TypeOK, TwoFAInv, SeenInOrder, RequestOnTrack, FreshKeys, NoLockout

LEMMA WipeStep ==
    ASSUME TypeOK, TwoFAInv, Wipe
    PROVE  TypeOK' /\ TwoFAInv'
<1>1. secret' = Absent(secret.rv) /\ wipes' = wipes + 1
      /\ UNCHANGED <<known, drawn, req, sessions>>
  BY DEF Wipe
<1>2. secret.rv \in Nat
  BY DEF TypeOK, Version
<1>3. secret' \in Version /\ ~secret'.live /\ secret'.rv = secret.rv
      /\ secret'.key = NoKey /\ ~secret'.enabled
  BY <1>1, <1>2, AbsentType, AbsentFields
<1>4. TypeOK'
  BY <1>1, <1>3 DEF TypeOK
<1>5. SeenInOrder'
  BY <1>1, <1>2, <1>3, WriteKeepsOrder
<1>6. RequestOnTrack' /\ FreshKeys'
  BY <1>1 DEF TwoFAInv, RequestOnTrack, FreshKeys
<1> QED
  BY <1>1, <1>3, <1>4, <1>5, <1>6 DEF TwoFAInv, NoLockout

LEMMA InvStep == TypeOK /\ TwoFAInv /\ [Next]_vars => (TypeOK /\ TwoFAInv)'
<1>1. UNCHANGED vars /\ TypeOK /\ TwoFAInv => (TypeOK /\ TwoFAInv)'
  BY DEF vars, TypeOK, TwoFAInv, SeenInOrder, RequestOnTrack, FreshKeys, NoLockout
<1> QED
  BY <1>1, BeginStep, SaveStep, EndStep, LoginStep, WipeStep DEF Next

-----------------------------------------------------------------------------
(* Every step is an atomic operation of TwoFactor, or invisible to it       *)

LEMMA SaveImplements ==
    ASSUME TypeOK, TwoFAInv, NEW r \in Request, save(r)
    PROVE  Store!Next
<1>1. UNCHANGED sessions /\ req[r].op \in {"Setup", "Enable", "Disable"}
  BY DEF save
<1>2. CASE req[r].op = "Setup"
  <2> DEFINE k == req[r].arg
  <2>1. k \in 1..MaxKeys /\ k \notin known
    BY <1>2, KeysAssumption DEF TwoFAInv, RequestOnTrack, TypeOK
  <2>2. secret'.key = secret.key /\ secret'.pending = k
    BY <1>2, SaveEffect
  <2>3. known' \in {known, known \union {k}}
    BY <1>2, SaveKnown
  <2>4. Store!Setup(k)
    BY <1>1, <2>1, <2>2, <2>3 DEF Store!Setup
  <2> QED
    BY <2>1, <2>4 DEF Store!Next
<1>3. CASE req[r].op = "Enable"
  <2>1. /\ secret.pending \in known /\ secret'.key = secret.pending
        /\ secret'.pending = NoKey
    BY <1>3, SaveEffect DEF TwoFAInv, RequestOnTrack
  <2>2. known' = known
    BY <1>3, SaveKnown
  <2> QED
    BY <1>1, <2>1, <2>2 DEF Store!Enable, Store!Next
<1>4. CASE req[r].op = "Disable"
  <2>1. secret.key \in known /\ secret'.key = NoKey /\ secret'.pending = NoKey
    BY <1>4, SaveEffect DEF TwoFAInv, RequestOnTrack
  <2>2. known' = known
    BY <1>4, SaveKnown
  <2> QED
    BY <1>1, <2>1, <2>2 DEF Store!Disable, Store!Next
<1> QED
  BY <1>1, <1>2, <1>3, <1>4

LEMMA GrantImplements ==
    ASSUME TypeOK, TwoFAInv, NEW r \in Request,
           LoginOneFactor(r) \/ LoginUnread(r) \/ Validate(r)
    PROVE  Store!Next
<1>1. UNCHANGED <<secret, known>>
  BY DEF LoginOneFactor, LoginUnread, Validate
<1>2. PICK code \in Codes, read \in BOOLEAN :
          Issue(code, read) /\ (read => secret.key \in {NoKey, code})
  <2>1. CASE LoginOneFactor(r)
    <3>1. secret.key = NoKey
      BY <2>1 DEF LoginOneFactor, Enabled, TypeOK
    <3> QED
      BY <2>1, <3>1 DEF LoginOneFactor
  <2>2. CASE LoginUnread(r)
    BY <2>2 DEF LoginUnread
  <2>3. CASE Validate(r)
    BY <2>3 DEF Validate, TwoFAInv, RequestOnTrack, Codes
  <2> QED
    BY <2>1, <2>2, <2>3
<1>3. Codes \subseteq 1..MaxKeys \union {NoKey}
  <2>1. drawn \in 0..MaxKeys /\ MaxKeys \in Nat
    BY KeysAssumption DEF TypeOK
  <2>2. 1..drawn \subseteq 1..MaxKeys
    BY <2>1
  <2>3. known \subseteq 1..drawn
    BY DEF TypeOK
  <2> QED
    BY <2>2, <2>3 DEF Codes
<1>4. Store!Grant(code, read)
  BY <1>1, <1>2 DEF Store!Grant, Issue, Codes
<1> QED
  BY <1>2, <1>3, <1>4 DEF Store!Next

LEMMA StepImplements ==
    ASSUME TypeOK, TwoFAInv, [Next]_vars
    PROVE  [Store!Next]_(Store!vars)
<1>1. ASSUME UNCHANGED <<secret, known, sessions>> PROVE UNCHANGED Store!vars
  BY <1>1 DEF Store!vars
<1>2. ASSUME NEW r \in Request,
             Setup(r) \/ Enable(r) \/ Disable(r) \/ Abandon(r) \/ LoginTwoFactor(r)
      PROVE  UNCHANGED <<secret, known, sessions>>
  BY <1>2 DEF Setup, Enable, Disable, Abandon, LoginTwoFactor
<1>3. CASE Wipe
  BY <1>3, AbsentFields DEF Wipe, Store!Wipe, Store!Next
<1>4. CASE UNCHANGED vars
  BY <1>1, <1>4 DEF vars
<1> QED
  BY <1>1, <1>2, <1>3, <1>4, SaveImplements, GrantImplements DEF Next

-----------------------------------------------------------------------------
(* Theorems                                                                 *)

\* A version of the Secret with the current resourceVersion is the Secret, and
\* every request that is about to write has checked the code it carries against
\* that version: the inductive invariant of load and save.
THEOREM TwoFAInvariant == Spec => [](TypeOK /\ TwoFAInv)
<1>1. Init => TypeOK /\ TwoFAInv
  BY InitInv
<1>2. TypeOK /\ TwoFAInv /\ [Next]_vars => (TypeOK /\ TwoFAInv)'
  BY InvStep
<1> QED
  BY <1>1, <1>2, PTL DEF Spec

\* Every variable has its type, and the Secret says enabled exactly while it
\* holds an active key (save, Enable, Disable).
THEOREM TypeCorrect == Spec => []TypeOK
BY TwoFAInvariant, PTL

\* 2FA never locks the admin out (Enable).
THEOREM NeverLockedOut == Spec => []NoLockout
<1>1. TwoFAInv => NoLockout
  BY DEF TwoFAInv
<1> QED
  BY <1>1, TwoFAInvariant, PTL

\* Setup, Enable, Disable and login take effect at once or not at all, whatever
\* else happens between their calls.
THEOREM RequestsImplementTwoFactor == Spec => RequestsAreAtomic
<1>1. Init => Store!Init
  BY AbsentFields DEF Init, Store!Init
<1>2. TypeOK /\ TwoFAInv /\ [Next]_vars => [Store!Next]_(Store!vars)
  BY StepImplements
<1> QED
  BY <1>1, <1>2, TwoFAInvariant, PTL DEF Spec, RequestsAreAtomic, Store!Spec
=============================================================================
