------------------------------ MODULE TwoFactor ------------------------------
(***************************************************************************)
(* What the admin's second factor promises, with every request atomic: a   *)
(* key becomes active only from pending, by somebody who holds it, and is  *)
(* given up only by somebody who holds it; enrolling a new one leaves the  *)
(* active one alone; a session needs a code of the key active at a moment  *)
(* of its login.                                                           *)
(***************************************************************************)
CONSTANTS Key, NoKey   \* the TOTP keys there are, and a value for none

VARIABLES
    active,    \* the TOTP key logins are checked against, or NoKey
    pending,   \* the key waiting to be verified, or NoKey
    known,     \* the keys some authenticator app has scanned
    sessions   \* [code, read]: the key whose code opened a session, and
               \* whether the login could read the store at all

vars == <<active, pending, known, sessions>>

Init == active = NoKey /\ pending = NoKey /\ known = {} /\ sessions = {}

\* A new key, which the admin may get to see or not.
Setup(k) == /\ k \notin known
            /\ pending' = k
            /\ known' \in {known, known \union {k}}
            /\ UNCHANGED <<active, sessions>>

Enable == /\ pending \in known
          /\ active' = pending /\ pending' = NoKey
          /\ UNCHANGED <<known, sessions>>

Disable == /\ active \in known
           /\ active' = NoKey /\ pending' = NoKey
           /\ UNCHANGED <<known, sessions>>

\* A login that could not read the store counts as one without second factor.
Grant(code, read) == /\ code \in known \union {NoKey}
                     /\ read => active \in {NoKey, code}
                     /\ sessions' = sessions \union {[code |-> code, read |-> read]}
                     /\ UNCHANGED <<active, pending, known>>

\* The store is wiped from outside.
Wipe == active' = NoKey /\ pending' = NoKey /\ UNCHANGED <<known, sessions>>

Next == \/ \E k \in Key : Setup(k)
        \/ Enable \/ Disable \/ Wipe
        \/ \E code \in Key \union {NoKey}, read \in BOOLEAN : Grant(code, read)

Spec == Init /\ [][Next]_vars
=============================================================================
