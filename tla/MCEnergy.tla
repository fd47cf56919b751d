------------------------------ MODULE MCEnergy ------------------------------
(***************************************************************************)
(* Energy in the graph: the roles entities are given, and the questions    *)
(* about what they measure.  A behaviour is about one of them, which       *)
(* `part` says, and the other stands still: EnergyRoles has the whole life *)
(* of a role, Measurements what a question makes of roles and readings.    *)
(***************************************************************************)
EXTENDS EnergyRoles, Measurements

CONSTANTS registered, stateOnly, consumer, producer, \* a registered sensor, one that only has a state
          a1, a2, d1, d2, e1, e2                     \* two areas, two devices, two entities

VARIABLE part

MCEntities == {registered, stateOnly}
MCStateOnly == {stateOnly}
MCRoles == {consumer, producer}

-----------------------------------------------------------------------------
MCAreas == {a1, a2}
MCDevices == {d1, d2}
MCSensors == {e1, e2}
MCRoleNames == {"consumer", "producer"}
MCLimits == {1, 4}

(* Reports on either side of every limit. *)

Reporting(class, unit, numbers) ==
    [class : {class}, reading : {"number"}, number : numbers, unit : {unit}]

MCReports ==
    Reporting("battery", "%", {1, 2, 101}) \cup Reporting("battery", "W", {1})
        \cup Reporting("energy", "kWh", {1})
        \cup Reporting("power", "W", {2}) \cup Reporting("power", "kW", {1})
        \cup [class : {"battery"}, reading : {"unavailable"}, number : {0}, unit : {"%"}]

\* A device in an area with two entities, one of which has an area of its own;
\* an entity without a device, and one whose device is in no area.
MCHomes == {{<<a1, d1>>, <<d1, e1>>, <<d1, e2>>, <<a2, e2>>}, {<<a2, e1>>, <<d2, e2>>, <<a2, e2>>}}

-----------------------------------------------------------------------------
energyVars == <<part, vars, questionVars>>

\* One of the graphs to ask about.
NotAsked ==
    /\ QuestionsInit
    /\ \A e \in Sensors : reported[e].class = "energy" /\ inferred[e] = None
    /\ <<d2, e2>> \in links

\* Of a role that is not the consumer's, and of a battery that says nothing of
\* use, one to begin with is enough.
Unusable == {r \in MCReports : r.class = "battery" /\ (r.unit = "W" \/ r.reading # "number")}

EnergyInit ==
    \/ part = "roles" /\ Init /\ NotAsked
    \/ /\ part = "questions" /\ Init /\ live = {} /\ hint = [e \in Entities |-> None]
       /\ QuestionsInit /\ inferred[e2] # "producer" /\ reported[e2] \notin Unusable

EnergyNext ==
    /\ \/ part = "roles" /\ Next /\ UNCHANGED questionVars
       \/ part = "questions" /\ QuestionsNext /\ UNCHANGED vars
    /\ UNCHANGED part

EnergySpec == EnergyInit /\ [][EnergyNext]_energyVars
=============================================================================
