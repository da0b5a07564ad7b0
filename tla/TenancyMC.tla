------------------------------ MODULE TenancyMC ------------------------------
(* Instances of Tenancy for TLC, with the names Naming gives to sites.      *)
EXTENDS Tenancy, Naming

MC_Letter == {"a", "b", "c"}

\* a-b and a-c: apart after three characters.
MC_Sites == {<<"a", "-", "b">>, <<"a", "-", "c">>}

\* The GRANT for a-b covers the schema of acb.
MC_WildSites == {<<"a", "-", "b">>, <<"a", "c", "b">>}

MC_Database == {SchemaFor(s) : s \in Site}
MC_User == {UserFor(s) : s \in Site}
MC_Covers == [d \in Database |-> {e \in Database : Matches(d, e)}]
MC_DatabaseName == [s \in Site |-> SchemaFor(s)]
MC_DatabaseUser == [s \in Site |-> UserFor(s)]
=============================================================================
