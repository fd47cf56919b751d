--------------------------- MODULE MCGraphStream ---------------------------
(***************************************************************************)
(* What is told of a graph that goes on changing: the stream of changes to *)
(* a panel, with a buffer of two, four publications and one reload, and    *)
(* what the context tools and an export say of it.  They do not take       *)
(* notice of each other: a behaviour is about one of them, which `part`    *)
(* says, and the others stand still.                                       *)
(***************************************************************************)
EXTENDS GraphStream, ContextExport

CONSTANTS n1, n2,                                               \* of the stream
          a1, a2, d1, d2, e1, e2, e3, x1, kitchen, lamp, attic  \* of the tools

VARIABLE part

MCElements == {n1, n2}

-----------------------------------------------------------------------------
(* Two areas of one name, two devices, entities one of which comes and     *)
(* goes, and an automation that shares a name.                             *)

MCAreas == {a1, a2}
MCDevices == {d1, d2}
MCEntities == {e1, e2, e3}
MCNameOf ==
    [n \in MCAreas \cup MCEntities \cup MCDevices \cup {x1} |->
        IF n \in MCAreas THEN kitchen ELSE IF n \in {e2, x1} THEN attic ELSE lamp]

MCLinkable == (MCAreas \X {d1, d2, e1}) \cup {<<a1, e3>>} \cup ({d1} \X {e1, e2})
                 \cup ({d2} \X {e2, e3}) \cup ({x1} \X {e1, e3})
MCAsked == {[type |-> "whole_home", target |-> a1]}
              \cup {[type |-> "area", target |-> t] : t \in {a1, kitchen, attic}}

\* The graphs an export begins with; their findings are all or none.
ExportLinks == {<<a1, d1>>, <<a2, d1>>, <<a1, e1>>, <<a1, e3>>, <<d1, e1>>, <<d1, e2>>, <<x1, e1>>}

-----------------------------------------------------------------------------
mcVars == <<part, vars, exportVars>>

\* No export, of a home that is empty.
NoExport ==
    /\ nodes = {} /\ edges = {} /\ findings = {} /\ changes = 0
    /\ request = [type |-> "whole_home", target |-> a1] /\ stage = "waiting" /\ area = a1
    /\ entities = {} /\ automations = {} /\ reported = {} /\ said = {} /\ outcome = "none"
    /\ before = [edges |-> {}, findings |-> {}] /\ cut = FALSE

MCInit ==
    /\ Init
    /\ \/ part = "stream" /\ NoExport
       \/ /\ part = "tools" /\ ExportInit
          /\ nodes = Nodes /\ edges = {} /\ findings = {} /\ request.type = "whole_home"
       \/ /\ part = "export" /\ ExportInit
          /\ edges \in SUBSET ExportLinks /\ findings \in {{}, Reportable}

MCNext ==
    /\ \/ part = "stream" /\ Next /\ UNCHANGED exportVars
       \/ part = "tools" /\ HomeNext /\ UNCHANGED <<vars, findings, changes, answerVars>>
       \/ part = "export" /\ ExportNext /\ UNCHANGED vars
    /\ UNCHANGED part

\* The fairness of GraphStream.
MCSpec == MCInit /\ [][MCNext]_mcVars /\ Fairness
=============================================================================
