------------------------------ MODULE Resources ------------------------------
(***************************************************************************)
(* The objects the operator builds for a site (internal/resources), up to  *)
(* the parts of the spec they copy.  A site s has s.uid, s.cfg (its spec   *)
(* but for spec.suspend) and s.suspend.  SiteLifecycle and DevMode write   *)
(* these objects, each in its own way.                                     *)
(***************************************************************************)
EXTENDS Naturals

CONSTANTS
    Config,            \* the spec of a site, up to spec.suspend
    NoConfig           \* content of an object that takes none of it

ASSUME ConfigAssumption == NoConfig \notin Config

Kinds == {"ConfigMap", "Deployment", "Service", "Ingress"}

\* cfg is the spec an object was built from, zero its replicas forced to 0.
Object == [live : BOOLEAN, owner : Nat, cfg : Config \union {NoConfig}, zero : BOOLEAN]

NoObject == [live |-> FALSE, owner |-> 0, cfg |-> NoConfig, zero |-> FALSE]

DesiredPHPConfigMap(s) ==
    [live |-> TRUE, owner |-> s.uid, cfg |-> s.cfg, zero |-> FALSE]

DesiredDeployment(s) ==
    [live |-> TRUE, owner |-> s.uid, cfg |-> s.cfg, zero |-> s.suspend]

DesiredService(s) ==
    [live |-> TRUE, owner |-> s.uid, cfg |-> NoConfig, zero |-> FALSE]

DesiredIngress(s) ==
    [live |-> TRUE, owner |-> s.uid, cfg |-> s.cfg, zero |-> FALSE]

Desired(s) == [k \in Kinds |-> CASE k = "ConfigMap"  -> DesiredPHPConfigMap(s)
                                 [] k = "Deployment" -> DesiredDeployment(s)
                                 [] k = "Service"    -> DesiredService(s)
                                 [] k = "Ingress"    -> DesiredIngress(s)]
=============================================================================
