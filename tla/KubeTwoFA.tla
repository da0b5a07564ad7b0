------------------------------ MODULE KubeTwoFA ------------------------------
(***************************************************************************)
(* The admin's TOTP second factor: internal/apiserver/twofa.go and the     *)
(* login of server.go.  The keys live in one Kubernetes Secret.  Setup,    *)
(* Enable and Disable load it, decide, and save what they decided, with    *)
(* any number of other requests between the two calls (the apiserver may   *)
(* have several replicas); only the resourceVersion of the Secret stands   *)
(* between them.  A login loads it twice.                                  *)
(*                                                                         *)
(* A TOTP code is represented by the key it was computed from, NoKey being *)
(* any code that fits no key.  A request that an early return ends before  *)
(* it writes is no step.                                                   *)
(***************************************************************************)
EXTENDS Naturals

CONSTANTS
    Request,    \* the requests the apiserver serves at a time
    \* Bounds on what one behaviour holds:
    MaxKeys,    \* keys generated
    MaxWipes    \* deletions of the Secret with kubectl

ASSUME KeysAssumption == MaxKeys \in Nat /\ MaxWipes \in Nat

VARIABLES
    secret,     \* the Secret wordpress-admin-2fa
    known,      \* the keys some authenticator app has scanned
    drawn,      \* keys generated so far
    wipes,      \* deletions so far
    req,        \* the requests being served
    sessions    \* how sessions were opened: [code, read]

vars == <<secret, known, drawn, wipes, req, sessions>>

-----------------------------------------------------------------------------
NoKey == 0

Version == [live : BOOLEAN, rv : Nat, key : Nat, enabled : BOOLEAN, pending : Nat]

\* What load returns for a Secret that is not there.
Absent(rv) == [live |-> FALSE, rv |-> rv, key |-> NoKey, enabled |-> FALSE,
               pending |-> NoKey]

\* A request between its load and its save: seen is what it loaded, arg the key
\* Setup generated or the code in the body.
Working == [op : {"Setup", "Enable", "Disable", "login"}, arg : Nat, seen : Version]
NoRequest == [op |-> "none", arg |-> NoKey, seen |-> Absent(0)]

Codes == known \union {NoKey}

Init == /\ secret = Absent(0) /\ known = {} /\ drawn = 0 /\ wipes = 0
        /\ req = [r \in Request |-> NoRequest]
        /\ sessions = {}

Load(r, op, arg) ==
    /\ req[r] = NoRequest
    /\ req' = [req EXCEPT ![r] = [op |-> op, arg |-> arg, seen |-> secret]]

End(r) == req' = [req EXCEPT ![r] = NoRequest]

-----------------------------------------------------------------------------
(* The first half of a request: load and the early returns                  *)

\* Broken: a key that waits already is handed out again.
Setup_Again(r) ==
    /\ drawn < MaxKeys
    /\ drawn' = drawn + 1
    /\ Load(r, "Setup", IF secret.pending # NoKey THEN secret.pending ELSE drawn + 1)
    /\ UNCHANGED <<secret, known, wipes, sessions>>

Setup(r) ==
    /\ drawn < MaxKeys
    /\ drawn' = drawn + 1
    /\ Load(r, "Setup", drawn + 1)
    /\ UNCHANGED <<secret, known, wipes, sessions>>

\* Broken: the code is checked against the active key.
Enable_ActiveKey(r) ==
    \E code \in Codes :
        /\ secret.live /\ secret.pending # NoKey
        /\ code \in {secret.key, secret.pending}
        /\ Load(r, "Enable", secret.pending)
        /\ UNCHANGED <<secret, known, drawn, wipes, sessions>>

Enable(r) ==
    \E code \in Codes :
        /\ secret.live /\ secret.pending # NoKey
        /\ code = secret.pending
        /\ Load(r, "Enable", secret.pending)
        /\ UNCHANGED <<secret, known, drawn, wipes, sessions>>

Disable(r) ==
    \E code \in Codes :
        /\ secret.live /\ secret.key # NoKey
        /\ code = secret.key
        /\ Load(r, "Disable", code)
        /\ UNCHANGED <<secret, known, drawn, wipes, sessions>>

-----------------------------------------------------------------------------
(* The second half: save                                                    *)

\* Broken: the Update does not carry the resourceVersion that was loaded.
Current_NoVersion(seen) == seen.live = secret.live

\* Create finds no Secret, Update the version that was loaded.
Current(seen) == /\ seen.live = secret.live
                 /\ secret.live => seen.rv = secret.rv

\* Broken: the key that is turned off stays in the Secret.
Data_KeepKey(op, arg, seen) ==
    CASE op = "Setup"   -> [seen EXCEPT !.pending = arg]
      [] op = "Enable"  -> [seen EXCEPT !.key = arg, !.enabled = TRUE, !.pending = NoKey]
      [] op = "Disable" -> [seen EXCEPT !.enabled = FALSE]

\* The Data a request writes: Setup copies what it loaded, the others start anew.
Data(op, arg, seen) ==
    CASE op = "Setup"   -> [seen EXCEPT !.pending = arg]
      [] op = "Enable"  -> [seen EXCEPT !.key = arg, !.enabled = TRUE, !.pending = NoKey]
      [] op = "Disable" -> [seen EXCEPT !.key = NoKey, !.enabled = FALSE, !.pending = NoKey]

\* The write lands.  A key that was set up is scanned when the answer arrives.
save(r) ==
    LET op == req[r].op
        arg == req[r].arg
        seen == req[r].seen
    IN  /\ op \in {"Setup", "Enable", "Disable"}
        /\ Current(seen)
        /\ secret' = [Data(op, arg, seen) EXCEPT !.live = TRUE, !.rv = secret.rv + 1]
        /\ known' \in {known} \union {known \union {arg} : x \in {op} \intersect {"Setup"}}
        /\ End(r)
        /\ UNCHANGED <<drawn, wipes, sessions>>

\* A request ends without a write: the save is refused, the call times out
\* before it is sent, or the apiserver dies.
Abandon(r) ==
    /\ req[r] # NoRequest
    /\ End(r)
    /\ UNCHANGED <<secret, known, drawn, wipes, sessions>>

-----------------------------------------------------------------------------
(* login, with the right password                                           *)

Enabled(s) == s.enabled /\ s.key # NoKey

Issue(code, read) == sessions' = sessions \union {[code |-> code, read |-> read]}

\* Enabled sees that no code is needed.
LoginOneFactor(r) ==
    \E code \in Codes :
        /\ req[r] = NoRequest
        /\ ~Enabled(secret)
        /\ Issue(code, TRUE)
        /\ UNCHANGED <<secret, known, drawn, wipes, req>>

\* Enabled is false when the Secret cannot be read.
LoginUnread(r) ==
    \E code \in Codes :
        /\ req[r] = NoRequest
        /\ Issue(code, FALSE)
        /\ UNCHANGED <<secret, known, drawn, wipes, req>>

\* Enabled sees that a code is needed, and one came with the request.
LoginTwoFactor(r) ==
    \E code \in known :
        /\ Enabled(secret)
        /\ Load(r, "login", code)
        /\ UNCHANGED <<secret, known, drawn, wipes, sessions>>

\* Validate loads the Secret again.
Validate(r) ==
    /\ req[r].op = "login"
    /\ secret.live /\ req[r].arg = secret.key
    /\ Issue(req[r].arg, TRUE)
    /\ End(r)
    /\ UNCHANGED <<secret, known, drawn, wipes>>

\* The way back in without an authenticator: kubectl delete secret.
Wipe ==
    /\ secret.live /\ wipes < MaxWipes
    /\ wipes' = wipes + 1
    /\ secret' = Absent(secret.rv)
    /\ UNCHANGED <<known, drawn, req, sessions>>

-----------------------------------------------------------------------------
Next == \/ \E r \in Request : \/ Setup(r) \/ Enable(r) \/ Disable(r)
                              \/ save(r) \/ Abandon(r)
                              \/ LoginOneFactor(r) \/ LoginUnread(r)
                              \/ LoginTwoFactor(r) \/ Validate(r)
        \/ Wipe

Spec == Init /\ [][Next]_vars

-----------------------------------------------------------------------------
(* Safety                                                                   *)

\* Every variable has its type, and the Secret is flagged as enabled exactly
\* while it holds a key (what Enable and Disable write).
TypeOK ==
    /\ secret \in Version
    /\ secret.enabled <=> secret.key # NoKey
    /\ known \subseteq 1..drawn
    /\ drawn \in 0..MaxKeys /\ wipes \in Nat
    /\ req \in [Request -> Working \union {NoRequest}]
    /\ sessions \subseteq [code : Nat, read : BOOLEAN]

\* 2FA never locks the admin out: the key logins are checked against is one an
\* authenticator app has, although Setup may have been called again, by another
\* tab, between the scan and Enable (Enable verifies a code before promoting).
NoLockout == secret.key = NoKey \/ secret.key \in known

-----------------------------------------------------------------------------
(* The inductive invariant                                                  *)

\* A version that carries the current resourceVersion is the Secret itself.
SeenInOrder ==
    \A r \in Request :
        LET seen == req[r].seen
        IN  /\ seen.rv <= secret.rv
            /\ seen.live /\ secret.live /\ seen.rv = secret.rv => seen = secret
            /\ ~seen.live => seen = Absent(seen.rv)

\* What a request has established when it writes.
RequestOnTrack ==
    \A r \in Request :
        /\ req[r].op = "Setup" => /\ req[r].arg \in 1..drawn
                                  /\ req[r].arg \notin known
        /\ req[r].op = "Enable" => /\ req[r].seen.live
                                   /\ req[r].arg = req[r].seen.pending
                                   /\ req[r].arg \in known
        /\ req[r].op = "Disable" => /\ req[r].seen.live
                                    /\ req[r].arg = req[r].seen.key
                                    /\ req[r].arg \in known
        /\ req[r].op = "login" => req[r].arg \in known

\* Two requests never carry the same new key.
FreshKeys ==
    \A r, q \in Request :
        req[r].op = "Setup" /\ req[q].op = "Setup" /\ req[r].arg = req[q].arg => r = q

TwoFAInv == /\ SeenInOrder /\ RequestOnTrack /\ FreshKeys
            /\ ~secret.live => secret = Absent(secret.rv)
            /\ NoLockout

-----------------------------------------------------------------------------
Store == INSTANCE TwoFactor WITH Key <- 1..MaxKeys,
                                 active <- secret.key, pending <- secret.pending

\* "Active 2FA is untouched until a new secret is verified": whatever requests
\* race between load and save, each takes effect at once or not at all.
RequestsAreAtomic == Store!Spec
=============================================================================
