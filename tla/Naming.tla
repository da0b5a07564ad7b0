-------------------------------- MODULE Naming --------------------------------
(***************************************************************************)
(* The MySQL names of a site that names none in its spec:                  *)
(* internal/resources/names.go.  A site name is a sequence of characters.  *)
(* The limits are parameters (64 and 32 in the code) and so are the        *)
(* lengths of the prefixes "wp_" and "wpu_", which are the same for all    *)
(* sites and left out of the names themselves.                             *)
(***************************************************************************)
EXTENDS Naturals, Sequences, FiniteSetsExt

CONSTANTS
    Letter,        \* a to z, 0 to 9
    NameLimit,     \* 64 - Len("wp_")
    UserLimit      \* 32 - Len("wpu_")

\* What every other character becomes.
Blank == "_"

ASSUME NamingAssumption ==
    /\ Blank \notin Letter
    /\ NameLimit \in Nat /\ UserLimit \in Nat /\ UserLimit <= NameLimit

\* MySQL's reading of a schema name in a GRANT, where Blank is any character.
\* (The "_" of "wp_" meets itself in the name of every other site.)
Matches(pattern, name) ==
    /\ Len(pattern) = Len(name)
    /\ \A i \in DOMAIN pattern : pattern[i] \in {name[i], Blank}

\* Trim(s, "_")
Trim(s) == LET kept == {i \in DOMAIN s : s[i] # Blank}
           IN  IF kept = {} THEN <<>> ELSE SubSeq(s, Min(kept), Max(kept))

\* Names of Kubernetes objects are in lower case already.
sanitize(name) == Trim([i \in DOMAIN name |-> IF name[i] \in Letter THEN name[i] ELSE Blank])

truncate(s, n) == IF Len(s) <= n THEN s ELSE SubSeq(s, 1, n)

SchemaFor(name) == truncate(sanitize(name), NameLimit)

UserFor(name) == truncate(sanitize(name), UserLimit)
=============================================================================
