----------------------------- MODULE MCRecords -----------------------------
(***************************************************************************)
(* What is kept for a time: findings of the validation, the counters of    *)
(* the last minutes, and the log of what agents asked.  A behaviour is     *)
(* about one of them, which `part` says, and the others stand still.       *)
(***************************************************************************)
EXTENDS Validation, SyncActivity, AgentAudit

CONSTANTS t1, t2,   \* two elements
          c1, c2    \* two calls

VARIABLE part

\* One check of the graph, one of Home Assistant.

MCTargets == {t1, t2}
MCChecks == <<"orphan_entity", "missing_semantic_classification">>
MCLive == {"missing_semantic_classification"}

-----------------------------------------------------------------------------
(* Calls through Assist, the two audited services and the endpoint, with a   *)
(* token that may be replaced, of every kind.                                *)

Mcp(near, tok, ask) == [channel |-> "mcp", near |-> near, token |-> tok, ask |-> ask]

MCCalls == {c1, c2}

MCRequests ==
    {[channel |-> ch, near |-> TRUE, token |-> 0, ask |-> "tool"] : ch \in {"assist", "impact", "export"}}
      \cup {Mcp(TRUE, 1, ask) : ask \in {"malformed", "handshake", "unknown", "query", "tool"}}
      \cup {Mcp(TRUE, 2, "tool"), Mcp(TRUE, 0, "tool"), Mcp(FALSE, 1, "tool")}

-----------------------------------------------------------------------------
recordVars == <<part, vars, activityVars, auditVars>>

RecordsInit ==
    /\ part \in {"findings", "counters", "log"}
    /\ Init
    /\ ActivityInit /\ (part # "counters" => now = Window)
    /\ AuditInit
    /\ part # "log" => request = [c \in Calls |-> Mcp(TRUE, 1, "tool")]

RecordsNext ==
    /\ \/ part = "findings" /\ Next /\ UNCHANGED <<activityVars, auditVars>>
       \/ part = "counters" /\ ActivityNext /\ UNCHANGED <<vars, auditVars>>
       \/ part = "log" /\ AuditNext /\ UNCHANGED <<vars, activityVars>>
    /\ UNCHANGED part

RecordsSpec == RecordsInit /\ [][RecordsNext]_recordVars
=============================================================================
