------------------------------ MODULE ConsoleMC ------------------------------
(* Instances of Console for TLC.                                            *)
EXTENDS Console, TLC

\* Windows are alike, and so are the contents of a form.
MC_Symmetry == Permutations(Page) \union Permutations(Form)
=============================================================================
