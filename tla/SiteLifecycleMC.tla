--------------------------- MODULE SiteLifecycleMC ---------------------------
(* Instances of SiteLifecycle for TLC.                                      *)
EXTENDS SiteLifecycle

\* No name is covered by the GRANT on another.
MC_Covers == [d \in Database |-> {d}]

\* Every spec asks for the same schema and account: the defaults, derived from
\* the name of the site.
MC_OneName == [c \in Config |-> CHOOSE d \in Database : TRUE]
MC_OneUser == [c \in Config |-> CHOOSE u \in User : TRUE]

\* Every spec asks for a schema of its own (spec.database.name).
MC_OwnName == CHOOSE f \in [Config -> Database] :
                  \A c, d \in Config : c # d => f[c] # f[d]
=============================================================================
