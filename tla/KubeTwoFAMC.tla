----------------------------- MODULE KubeTwoFAMC -----------------------------
(* Instances of KubeTwoFA for TLC.                                          *)
EXTENDS KubeTwoFA, TLC

\* Requests are interchangeable.
MC_Symmetry == Permutations(Request)
=============================================================================
