----------------------------- MODULE DataCustody -----------------------------
(***************************************************************************)
(* What the operator promises about the data of one site name: data is     *)
(* created only for a site whose finalizer is held, destroyed only for a   *)
(* site somebody deleted, and a site is let go only when its data is gone  *)
(* (with DropDataOnDelete; without it the data outlives the site).  How    *)
(* many processes, caches and retries it takes is not visible here.        *)
(***************************************************************************)
CONSTANT DropDataOnDelete

VARIABLES
    custody,  \* "none", "unclaimed", "held" or "doomed"
    data      \* is there anything of this site on the MySQL server?

vars == <<custody, data>>

TypeOK == custody \in {"none", "unclaimed", "held", "doomed"} /\ data \in BOOLEAN

Init == custody = "none" /\ data = FALSE

\* A site of this name is created.
Register == custody = "none" /\ custody' = "unclaimed" /\ UNCHANGED data

\* It is deleted before the operator put its finalizer on it.
Withdraw == custody = "unclaimed" /\ custody' = "none" /\ UNCHANGED data

\* The operator adds its finalizer.
Claim == custody = "unclaimed" /\ custody' = "held" /\ UNCHANGED data

\* Somebody deletes a site that has the finalizer.
Doom == custody = "held" /\ custody' = "doomed" /\ UNCHANGED data

\* A reconcile that began before the deletion may still create data.
Provision == custody \in {"held", "doomed"} /\ data' = TRUE /\ UNCHANGED custody

Purge == /\ DropDataOnDelete /\ custody = "doomed"
         /\ data' = FALSE /\ UNCHANGED custody

Release == /\ custody = "doomed"
           /\ DropDataOnDelete => ~data
           /\ custody' = "none" /\ UNCHANGED data

Next == Register \/ Withdraw \/ Claim \/ Doom \/ Provision \/ Purge \/ Release

Spec == Init /\ [][Next]_vars
=============================================================================
