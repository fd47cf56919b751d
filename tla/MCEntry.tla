------------------------------ MODULE MCEntry ------------------------------
(***************************************************************************)
(* Config entries: what the flows make of several of them, and the life of *)
(* one with its set-ups, runtimes and issues.  A behaviour is about one of *)
(* the two, which `part` says, and the other stands still: EntryLifecycle  *)
(* has every outcome of a set-up, ConfigFlow what changes meet it.         *)
(***************************************************************************)
EXTENDS EntryLifecycle, ConfigFlow

CONSTANTS a1, a2, e1, e2, f1, f2  \* two databases, two entries, two flows at a time

VARIABLE part

-----------------------------------------------------------------------------
(* Two databases and as many entries that may take one from the other.  Of   *)
(* the life of an entry, two set-ups are a runtime that is left over and the *)
(* one after it; a threshold of two tells some failures from too many.       *)

MCAddrs == {a1, a2}
MCEntries == {e1, e2}
MCFlows == {f1, f2}

-----------------------------------------------------------------------------
entryVars == <<part, vars, flowVars>>

EntryInit ==
    /\ part \in {"life", "flows"}
    /\ Init /\ (part # "life" => up /\ version = "none")
    /\ FlowsInit /\ (part # "flows" => answering = {})

EntryNext ==
    /\ \/ part = "life" /\ Next /\ UNCHANGED flowVars
       \/ part = "flows" /\ FlowsNext /\ UNCHANGED vars
    /\ UNCHANGED part

Alive(A) == part = "life" /\ A

Flowing(A) == part = "flows" /\ A

\* The fairness of EntryLifecycle!FairSpec and of ConfigFlow!FlowsSpec, each of the
\* behaviours that are about it.
EntrySpec ==
    /\ EntryInit /\ [][EntryNext]_entryVars
    /\ WF_vars(Alive(GraphUp))
    /\ WF_vars(Alive(SetupStep))
    /\ WF_vars(Alive(CloseBegin \/ CloseEnd))
    /\ \A n \in Setup : WF_vars(Alive(Start(n))) /\ WF_vars(Alive(Succeed(n) \/ Fail(n)))
    /\ \A e \in Entry :
          /\ WF_flowVars(Flowing(Reload(e))) /\ WF_flowVars(Flowing(Unloaded(e)))
          /\ WF_flowVars(Flowing(SetUp(e))) /\ WF_flowVars(Flowing(Retry(e)))
=============================================================================
