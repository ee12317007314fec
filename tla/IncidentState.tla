--------------------------- MODULE IncidentState ---------------------------
(***************************************************************************)
(* The pure functions of apps/server/src/incidents/helpers/                *)
(* incident-state.helper.ts over the services of one incident.             *)
(*                                                                         *)
(* A service is abstracted to its health and to whether its lastChangedAt  *)
(* lies after the incident's impactedAt, which is the only comparison the  *)
(* code makes with that timestamp.                                         *)
(***************************************************************************)
EXTENDS Integers

CONSTANTS
    Services,       \* service identifiers of the scenario
    Dependencies,   \* [Services -> SUBSET Services], ServiceState.dependencies
    ImpactHealth    \* [Services -> Health], statusAfterImpact of the scenario

Health == {"healthy", "degraded", "down", "recovering"}

ASSUME ServicesAssumption ==
    /\ Dependencies \in [Services -> SUBSET Services]
    /\ ImpactHealth \in [Services -> Health]

ServiceState == [health : Health, changedAfterImpact : BOOLEAN]

IncidentStatus ==
    {"normal", "detected", "responding", "partially-recovered", "recovered", "reset"}

BaselineServices ==
    [s \in Services |-> [health |-> "healthy", changedAfterImpact |-> FALSE]]

\* Every service takes its scenario status at the instant of the impact, so
\* none of them counts as changed after it.
ApplyImpact ==
    [s \in Services |-> [health |-> ImpactHealth[s], changedAfterImpact |-> FALSE]]

UpdateServiceStatus(services, s, health) ==
    [services EXCEPT ![s] = [health |-> health, changedAfterImpact |-> TRUE]]

\* One pass over the services against the health they had before the pass: a
\* chain of degraded services heals one link per call.
PropagateDependencyHealth(services) ==
    [s \in Services |->
        IF /\ services[s].health = "degraded"
           /\ \A d \in Dependencies[s] : services[d].health = "healthy"
        THEN [health |-> "healthy", changedAfterImpact |-> TRUE]
        ELSE services[s]]

Unhealthy(services) == {s \in Services : services[s].health # "healthy"}

RecoveredAfterImpact(services) ==
    {s \in Services : services[s].health = "healthy" /\ services[s].changedAfterImpact}

\* Faulty variant, used by no specification: a recovered incident stays so.
StaysRecovered(current, services) ==
    CASE current \in {"normal", "reset", "recovered"} -> current
      [] OTHER -> IF Unhealthy(services) = {} THEN "recovered" ELSE current

DeriveIncidentStatus(current, services) ==
    CASE current \in {"normal", "reset"}            -> current
      [] current \notin {"normal", "reset"} /\ Unhealthy(services) = {} -> "recovered"
      [] current \notin {"normal", "reset"} /\ Unhealthy(services) # {}
         /\ RecoveredAfterImpact(services) # {}     -> "partially-recovered"
      [] OTHER                                      -> current
=============================================================================
