--------------------------- MODULE ContextExport ----------------------------
(***************************************************************************)
(* The export of an area and of the whole home: a first query for the      *)
(* surroundings, as ContextTools has it, and further ones for what refers  *)
(* to them, between which the graph changes.  The projection of a node to  *)
(* its exported fields is left out, semantic types go with the automations.*)
(***************************************************************************)
EXTENDS ContextTools

CONSTANTS Reportable,    \* what the findings of this graph may be about
          Asked,         \* requests, [type, target]
          Limit,         \* DEFAULT_QUERY_LIMIT
          MaxChanges     \* bound: changes of the graph during an export

ASSUME ExportAssumption ==
    /\ Limit \in Nat \ {0} /\ MaxChanges \in Nat
    /\ IsFiniteSet(Automations) /\ IsFiniteSet(Reportable) /\ Reportable \subseteq Nodes

VARIABLES findings,        \* what the findings of the graph are about
          changes,         \* changes so far (bound)
          request,         \* the export that is asked for
          stage,           \* waiting, automations, findings, answered
          area,            \* the area it resolved to
          entities, automations, reported, \* collected: entities, automations, targets of findings
          said,            \* the cuts the answer tells of
          outcome,         \* none, ok, not_found, error
          before,          \* history: links and findings seen since it began
          cut              \* history: was a list cut?

homeVars == <<nodes, edges, findings, changes>>
answerVars == <<request, stage, area, entities, automations, reported, said, outcome, before, cut>>
exportVars == <<homeVars, answerVars>>

Kept(S) == IF Cardinality(S) <= Limit THEN {S} ELSE kSubset(Limit, S)
TooMany(S) == Cardinality(S) > Limit

ExportInit ==
    /\ HomeInit
    /\ findings \in SUBSET Reportable
    /\ changes = 0
    /\ request \in Asked
    /\ stage = "waiting"
    /\ area = CHOOSE a \in Areas : TRUE
    /\ entities = {} /\ automations = {} /\ reported = {}
    /\ said = {}
    /\ outcome = "none"
    /\ before = [edges |-> edges, findings |-> findings]
    /\ cut = FALSE

Finish(what) == stage' = "answered" /\ outcome' = what

\* The target of an area export and its surroundings, in one query; whether
\* area_context cut them is not passed on.
ExportArea ==
    /\ stage = "waiting" /\ request.type = "area"
    /\ \/ /\ Matches(request.target, Areas) = {}
          /\ Finish("not_found")
          /\ UNCHANGED <<area, entities, cut>>
       \/ \E a \in Matches(request.target, Areas) :
             /\ area' = a
             /\ \E kept \in Kept(AreaRows(a)) : entities' = Listed(kept)
             /\ cut' = (TooMany(AreaRows(a)) \/ TooMany(AreaContext(a).devices))
             /\ stage' = "automations"
             /\ UNCHANGED outcome
    /\ UNCHANGED <<homeVars, request, automations, reported, said, before>>

\* Seeded fault: the cut of the entities is not told of.
ExportHomeSilently ==
    /\ stage = "waiting" /\ request.type = "whole_home"
    /\ entities' \in Kept(Of(Entities))
    /\ said' = (IF TooMany(Of(Devices)) THEN {"devices"} ELSE {})
    /\ cut' = (TooMany(Of(Devices)) \/ TooMany(Of(Entities)))
    /\ stage' = "automations"
    /\ UNCHANGED <<homeVars, request, area, automations, reported, outcome, before>>

\* The whole home: every list is read up to the limit, and a cut is noted.
ExportHome ==
    /\ stage = "waiting" /\ request.type = "whole_home"
    /\ entities' \in Kept(Of(Entities))
    /\ said' = (IF TooMany(Of(Devices)) THEN {"devices"} ELSE {})
                  \cup (IF TooMany(Of(Entities)) THEN {"entities"} ELSE {})
    /\ cut' = (TooMany(Of(Devices)) \/ TooMany(Of(Entities)))
    /\ stage' = "automations"
    /\ UNCHANGED <<homeVars, request, area, automations, reported, outcome, before>>

\* The automations that refer to what is exported; semantic types likewise.
ExportAutomations ==
    /\ stage = "automations"
    /\ \/ /\ request.type = "area"
          /\ automations' = {x \in Automations : \E e \in entities : <<x, e>> \in edges}
          /\ UNCHANGED <<said, cut>>
       \/ /\ request.type = "whole_home"
          /\ automations' \in Kept(Of(Automations))
          /\ said' = said \cup (IF TooMany(Of(Automations)) THEN {"automations"} ELSE {})
          /\ cut' = (cut \/ TooMany(Of(Automations)))
    /\ stage' = "findings"
    /\ UNCHANGED <<homeVars, request, area, entities, reported, outcome, before>>

\* Seeded fault: the findings of an area are all the findings there are.
ExportAllFindings ==
    /\ stage = "findings"
    /\ reported' = findings
    /\ UNCHANGED <<said, cut>>
    /\ Finish("ok")
    /\ UNCHANGED <<homeVars, request, area, entities, automations, before>>

\* The findings about an exported entity or about the target as it was given.
ExportFindings ==
    /\ stage = "findings"
    /\ \/ /\ request.type = "area"
          /\ reported' = findings \cap (entities \cup {request.target})
          /\ UNCHANGED <<said, cut>>
       \/ /\ request.type = "whole_home"
          /\ reported' \in Kept(findings)
          /\ said' = said \cup (IF TooMany(findings) THEN {"validation findings"} ELSE {})
          /\ cut' = (cut \/ TooMany(findings))
    /\ Finish("ok")
    /\ UNCHANGED <<homeVars, request, area, entities, automations, before>>

Fail ==
    /\ stage # "answered"
    /\ Finish("error")
    /\ UNCHANGED <<homeVars, request, area, entities, automations, reported, said, before, cut>>

\* Operations of the coordinator change the graph meanwhile.
GraphChanges ==
    /\ stage \in {"automations", "findings"} /\ changes < MaxChanges
    /\ changes' = changes + 1
    /\ \/ HomeNext /\ UNCHANGED findings
       \/ \E t \in Reportable :
             /\ findings' = (IF t \in findings THEN findings \ {t} ELSE findings \cup {t})
             /\ UNCHANGED <<nodes, edges>>
    /\ before' = [edges |-> before.edges \cup edges', findings |-> before.findings \cup findings']
    /\ UNCHANGED <<request, stage, area, entities, automations, reported, said, outcome, cut>>

ExportNext ==
    \/ ExportArea \/ ExportHome \/ ExportAutomations \/ ExportFindings
    \/ Fail \/ GraphChanges

ExportSpec == ExportInit /\ [][ExportNext]_exportVars

-----------------------------------------------------------------------------

Done == outcome = "ok"

\* Whatever changes between its queries, an exported area tells of nothing
\* that was not at some time about it: no automation or finding of another
\* part of the home (_export_area_or_whole_home).
ExportKeepsToTheArea ==
    Done /\ request.type = "area" =>
        /\ \A x \in automations : \E e \in entities : <<x, e>> \in before.edges
        /\ reported \subseteq before.findings \cap (entities \cup {area})

\* An exported home says that it was cut exactly when it was, and one that does
\* not, of a graph that did not change meanwhile, has all there is.
HomeIsWholeOrSaysSo ==
    Done /\ request.type = "whole_home" =>
        /\ cut <=> said # {}
        /\ (said = {} /\ changes = 0) => /\ entities = Of(Entities)
                                         /\ automations = Of(Automations)
                                         /\ reported = findings

\* An export has nothing foreign, and nothing missing that it does not tell of.
ExportIsSound == ExportKeepsToTheArea /\ HomeIsWholeOrSaysSo
=============================================================================
