---------------------------- MODULE Measurements ----------------------------
(***************************************************************************)
(* Current measurements: how the state of an entity becomes properties of  *)
(* its node, and the two questions asked of them, which batteries are low  *)
(* and what consumes electricity.  A question takes two or three queries,  *)
(* between which the graph changes; its limits are chosen anew each time.  *)
(* Names, timestamps as text and the order of answers are left out.        *)
(***************************************************************************)
EXTENDS Integers, FiniteSets, FiniteSetsExt

CONSTANTS Areas, Devices,
          Sensors,       \* entities that measure
          Nowhere,       \* no device, no area
          Reports,       \* states a sensor may report: [class, reading, number, unit]
          RoleNames, NoRole, \* energy roles a sensor may have
          Homes,         \* links a graph may start with
          Threshold,     \* of a question: percent or watts
          MaxAge,        \* of a measurement that counts as fresh
          Limits,        \* limits a question may be asked with
          MaxSteps       \* bound: reports, synchronizations, roles, moves and ticks

Links == (Areas \X (Devices \cup Sensors)) \cup (Devices \X Sensors)

ASSUME ThingsAssumption ==
    /\ IsFiniteSet(Areas) /\ IsFiniteSet(Devices) /\ IsFiniteSet(Sensors)
    /\ Nowhere \notin Areas \cup Devices \cup Sensors
    /\ Homes \subseteq SUBSET Links

ASSUME RolesAssumption == "consumer" \in RoleNames /\ NoRole \notin RoleNames

ASSUME ReportsAssumption ==
    Reports \subseteq [class : STRING, reading : STRING, number : Int, unit : STRING]

ASSUME QuestionsAssumption ==
    Threshold \in Nat /\ MaxAge \in Nat /\ Limits \subseteq Nat \ {0} /\ MaxSteps \in Nat

VARIABLES reported,      \* Home Assistant: the state of each entity
          at, now,       \* when it was reported; the clock
          props,         \* graph: properties of each entity's node
          user, inferred,\* its energy roles
          links,         \* its HAS_DEVICE, HAS_ENTITY and (turned round) HAS_AREA edges
          steps,         \* changes so far (bound)
          synced,        \* history: the report the node was last written from, and its time
          stage, asked,  \* the question: waiting, listed, counted, answered; its limit
          asOf,          \* when it was asked
          rows,          \* batteries: <<area, device, entity>>; consumers: <<device, area>>
          counted,       \* batteries without a status, or consumers without a role
          known,         \* devices known to consume, <<device, area>>
          cut,           \* truncated
          quiet,         \* history: has the graph not changed since it was asked?
          always         \* history: entities with a consumer's role ever since

worldVars == <<reported, at, now>>
graphVars == <<props, user, inferred, links, synced>>
askVars == <<stage, asked, asOf, rows, counted, known, cut>>
questionVars == <<worldVars, graphVars, steps, askVars, quiet, always>>

-----------------------------------------------------------------------------
(* From a state to a node *)

SupportedUnits(class) == IF class = "battery" THEN {"%"} ELSE {"W", "kW"}

Status(r) ==
    IF r.reading \in {"unknown", "unavailable"} THEN "unavailable"
    ELSE IF r.unit \notin SupportedUnits(r.class) THEN "unsupported_unit"
    ELSE IF r.reading # "number" \/ (r.class = "battery" /\ r.number \notin 0..100) THEN "invalid_value"
    ELSE "available"

\* What normalize_current_measurement has to say of a report.
Measures(r) ==
    IF r.class \notin {"battery", "power"} THEN {}
    ELSE {"kind", "status", "updated"}
            \cup (IF Status(r) # "available" THEN {}
                  ELSE {IF r.class = "battery" THEN "percentage" ELSE "watts"})

Watts(r) == r.number * (IF r.unit = "kW" THEN 1000 ELSE 1)

Measurement(r, t, p) ==
    CASE p = "kind" -> r.class
      [] p = "status" -> Status(r)
      [] p = "updated" -> t
      [] p = "percentage" -> r.number
      [] p = "watts" -> Watts(r)

MeasurementProperties == {"kind", "status", "percentage", "watts", "updated"}

Written(n, kept, r, t) ==
    [p \in kept \cup {"class"} \cup Measures(r) |->
        IF p \in Measures(r) THEN Measurement(r, t, p)
        ELSE IF p = "class" THEN r.class ELSE n[p]]

\* Seeded fault: what the node had of an earlier measurement stays.
WriteOver(n, r, t) == Written(n, DOMAIN n, r, t)

\* The whole of the earlier measurement is removed with the write.
WriteMeasurement(n, r, t) == Written(n, DOMAIN n \ MeasurementProperties, r, t)

Has(e, p, v) == p \in DOMAIN props[e] /\ props[e][p] = v

-----------------------------------------------------------------------------
(* The questions *)

DevicesOf(e) == {d \in Devices : <<d, e>> \in links}
AreasOf(x)   == {a \in Areas : <<a, x>> \in links}
OrNowhere(S) == IF S = {} THEN {Nowhere} ELSE S

Available(e, kind) == Has(e, "kind", kind) /\ Has(e, "status", "available")
Fresh(e, when) == props[e].updated >= when - MaxAge

Low(e) == Available(e, "battery") /\ Fresh(e, now) /\ props[e].percentage < Threshold

\* One row for each area of each of its devices; its own area where the
\* device has none.
LowRows ==
    {row \in Areas \X (Devices \cup {Nowhere}) \X Sensors :
        LET d == row[2]  e == row[3] IN
        /\ Low(e)
        /\ d \in OrNowhere(DevicesOf(e))
        /\ row[1] \in (IF AreasOf(d) # {} THEN AreasOf(d) ELSE AreasOf(e))}

Unreadable ==
    {e \in Sensors : Has(e, "kind", "battery")
                         /\ props[e].status \in {"unavailable", "invalid_value", "unsupported_unit"}}

\* Seeded fault: the inferred role wins.
InferredFirst(e) == IF inferred[e] # NoRole THEN inferred[e] ELSE user[e]

EffectiveRole(e) == IF user[e] # NoRole THEN user[e] ELSE inferred[e]

Active(e, when) ==
    Available(e, "power") /\ props[e].watts > Threshold /\ Fresh(e, when)

\* One row for each area of a device that has one of these entities.
DeviceRows(wanted) ==
    {row \in Devices \X (Areas \cup {Nowhere}) :
        /\ \E e \in wanted : <<row[1], e>> \in links
        /\ row[2] \in OrNowhere(AreasOf(row[1]))}

Unresolved == {e \in Sensors : Active(e, asOf) /\ EffectiveRole(e) = NoRole}

ConsumerMeters == {e \in Sensors : Has(e, "class", "energy") /\ EffectiveRole(e) = "consumer"}

ListedDevices == {r[1] : r \in rows}

\* Seeded fault: devices are known consumers if they have no power just now.
KnownByPower ==
    {r \in DeviceRows(ConsumerMeters) :
        \A e \in Sensors : <<r[1], e>> \in links => ~Active(e, asOf)}

KnownRows ==
    {r \in DeviceRows(ConsumerMeters) : r[1] \notin ListedDevices}

Kept(S, n) == IF Cardinality(S) <= n THEN {S} ELSE kSubset(n, S)

Ask(limit) ==
    /\ stage = "waiting"
    /\ asked' = limit
    /\ asOf' = now
    /\ always' = ConsumerMeters
    /\ UNCHANGED <<worldVars, graphVars, steps, counted, known, quiet>>

ListLow(limit) ==
    /\ Ask(limit)
    /\ rows' \in Kept(LowRows, limit)
    /\ cut' = (Cardinality(LowRows) > limit)
    /\ stage' = "low"

CountUnreadable ==
    /\ stage = "low"
    /\ counted' = Cardinality(Unreadable)
    /\ stage' = "low_answered"
    /\ UNCHANGED <<worldVars, graphVars, steps, asked, asOf, rows, known, cut, quiet, always>>

ListActive(limit) ==
    /\ Ask(limit)
    /\ LET all == DeviceRows({e \in Sensors : Active(e, now) /\ EffectiveRole(e) = "consumer"})
       IN rows' \in Kept(all, limit) /\ cut' = (Cardinality(all) > limit)
    /\ stage' = "active"

CountUnresolved ==
    /\ stage = "active"
    /\ counted' = Cardinality(Unresolved)
    /\ stage' = "counted"
    /\ UNCHANGED <<worldVars, graphVars, steps, asked, asOf, rows, known, cut, quiet, always>>

\* Seeded fault: the row that is asked for to tell of a cut is answered too.
ListKnownAndOne ==
    /\ stage = "counted"
    /\ known' \in Kept(KnownRows, asked + 1)
    /\ cut' = (cut \/ Cardinality(KnownRows) > asked)
    /\ stage' = "active_answered"
    /\ UNCHANGED <<worldVars, graphVars, steps, asked, asOf, rows, counted, quiet, always>>

\* One row more than the limit is asked for, and not answered.
ListKnown ==
    /\ stage = "counted"
    /\ known' \in Kept(KnownRows, asked)
    /\ cut' = (cut \/ Cardinality(KnownRows) > asked)
    /\ stage' = "active_answered"
    /\ UNCHANGED <<worldVars, graphVars, steps, asked, asOf, rows, counted, quiet, always>>

-----------------------------------------------------------------------------

\* Nodes as the first synchronization leaves them.
QuestionsInit ==
    /\ reported \in [Sensors -> Reports]
    /\ at = [e \in Sensors |-> 0] /\ now = 0
    /\ props = [e \in Sensors |-> WriteMeasurement(<<>>, reported[e], 0)]
    /\ synced = [e \in Sensors |-> [report |-> reported[e], at |-> 0]]
    /\ user = [e \in Sensors |-> NoRole]
    /\ inferred \in [Sensors -> RoleNames \cup {NoRole}]
    /\ links \in Homes
    /\ steps = 0
    /\ stage = "waiting"
    /\ asked = 0 /\ asOf = 0 /\ counted = 0
    /\ rows = {} /\ known = {}
    /\ cut = FALSE /\ quiet = TRUE
    /\ always = ConsumerMeters

\* What follows the answer is of no consequence to it.
Changed ==
    /\ stage \notin {"low_answered", "active_answered"}
    /\ steps < MaxSteps
    /\ steps' = steps + 1

Report(e, r) ==
    /\ Changed
    /\ r # reported[e]
    /\ reported' = [reported EXCEPT ![e] = r]
    /\ at' = [at EXCEPT ![e] = now]
    /\ UNCHANGED <<now, graphVars, askVars, quiet, always>>

Tick ==
    /\ Changed
    /\ now' = now + 1
    /\ UNCHANGED <<reported, at, graphVars, askVars, quiet, always>>

GraphChanged ==
    /\ Changed
    /\ quiet' = (stage = "waiting")
    /\ always' = always \cap ConsumerMeters'
    /\ UNCHANGED <<worldVars, askVars>>

SyncEntity(e) ==
    /\ synced[e] # [report |-> reported[e], at |-> at[e]]
    /\ props' = [props EXCEPT ![e] = WriteMeasurement(props[e], reported[e], at[e])]
    /\ synced' = [synced EXCEPT ![e] = [report |-> reported[e], at |-> at[e]]]
    /\ UNCHANGED <<user, inferred, links>>
    /\ GraphChanged

\* A role is set by the user (EnergyRoles has the whole of it).
SetUserRole(e, role) ==
    /\ role # user[e]
    /\ user' = [user EXCEPT ![e] = role]
    /\ UNCHANGED <<props, inferred, links, synced>>
    /\ GraphChanged

\* A device moves to an area, and its node stays linked to the old one.
Move(d, a) ==
    /\ <<a, d>> \notin links
    /\ links' = links \cup {<<a, d>>}
    /\ UNCHANGED <<props, user, inferred, synced>>
    /\ GraphChanged

QuestionsNext ==
    \/ \E e \in Sensors : SyncEntity(e)
    \/ \E e \in Sensors, r \in Reports : Report(e, r)
    \/ \E e \in Sensors, role \in RoleNames \cup {NoRole} : SetUserRole(e, role)
    \/ \E d \in Devices, a \in Areas : Move(d, a)
    \/ Tick
    \/ \E limit \in Limits : ListLow(limit) \/ ListActive(limit)
    \/ CountUnreadable \/ CountUnresolved \/ ListKnown

QuestionsSpec == QuestionsInit /\ [][QuestionsNext]_questionVars

-----------------------------------------------------------------------------

AnsweredLow == stage = "low_answered"
AnsweredActive == stage = "active_answered"

\* Measurements a node may bear (normalize_current_measurement), and answers
\* no longer than the limit they were asked with (low_battery_areas,
\* active_consumers).
QuestionsTypeOK ==
    /\ \A e \in Sensors :
          /\ {"percentage", "watts"} \cap DOMAIN props[e] # {} => Has(e, "status", "available")
          /\ "percentage" \in DOMAIN props[e] => props[e].percentage \in 0..100
    /\ stage \in {"waiting", "low", "low_answered", "active", "counted", "active_answered"}
    /\ stage # "waiting" => asked \in Limits /\ Cardinality(rows) <= asked /\ Cardinality(known) <= asked

Reading(e) == synced[e].report
Usable(e, class, units) ==
    Reading(e).class = class /\ Reading(e).reading = "number" /\ Reading(e).unit \in units
Recent(e) == asOf - synced[e].at <= MaxAge

LowBatteries ==
    {e \in Sensors :
        /\ Usable(e, "battery", {"%"}) /\ Reading(e).number \in 0..100
        /\ Reading(e).number < Threshold /\ Recent(e)
        /\ \E x \in DevicesOf(e) \cup {e} : AreasOf(x) # {}}

SilentBatteries ==
    {e \in Sensors : Reading(e).class = "battery"
                         /\ ~(Usable(e, "battery", {"%"}) /\ Reading(e).number \in 0..100)}

\* An answer about low batteries that is not cut, of a graph that did not
\* change meanwhile, names exactly the batteries that reported a fresh percentage below
\* the threshold and are anywhere, and counts those that reported nothing of
\* use: whatever the entity reported before, of whatever kind.
LowBatteryIsExact ==
    AnsweredLow /\ quiet /\ ~cut =>
        {r[3] : r \in rows} = LowBatteries /\ counted = Cardinality(SilentBatteries)

Consumes(e) ==
    Usable(e, "power", {"W", "kW"}) /\ Watts(Reading(e)) > Threshold /\ Recent(e)

ActiveConsumers ==
    {d \in Devices : \E e \in Sensors :
        /\ <<d, e>> \in links /\ Consumes(e)
        /\ (user[e] = "consumer" \/ (user[e] = NoRole /\ inferred[e] = "consumer"))}

RolelessConsumers == {e \in Sensors : Consumes(e) /\ user[e] = NoRole /\ inferred[e] = NoRole}

\* Likewise of consumers: a device is named if one of its entities reported
\* fresh power above the threshold in watts, and is a consumer to the user or,
\* where the user says nothing, by inference; those without a role are counted.
ActiveIsExact ==
    AnsweredActive /\ quiet /\ ~cut =>
        ListedDevices = ActiveConsumers /\ counted = Cardinality(RolelessConsumers)

\* Whatever changes between the three queries, a device is in one of the two
\* lists and not in both; and one that was a known consumer all along is in
\* either, unless the answer says that it was cut.
ConsumersAreSortedOnce ==
    AnsweredActive =>
        LET knownDevices == {r[1] : r \in known} IN
        /\ ListedDevices \cap knownDevices = {}
        /\ ~cut => \A d \in Devices :
              (\E e \in always : <<d, e>> \in links) => d \in ListedDevices \cup knownDevices

\* Both questions are answered as the entities reported, and no consumer falls
\* between two queries.
QuestionsAreExact == QuestionsTypeOK /\ LowBatteryIsExact /\ ActiveIsExact /\ ConsumersAreSortedOnce
=============================================================================
