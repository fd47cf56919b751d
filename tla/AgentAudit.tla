----------------------------- MODULE AgentAudit -----------------------------
(***************************************************************************)
(* The calls of agents, through Assist, the services and the MCP endpoint, *)
(* and the log that keeps one record of each.  An append loads the stored  *)
(* list, drops what is older than the retention, adds its record and saves *)
(* the list, under no lock; a periodic sweep does the same without a       *)
(* record.  The MCP endpoint checks the network, then the token it reads   *)
(* from the store, before it looks at what is asked.                       *)
(*                                                                         *)
(* A list of records is a bag: a record may be in it twice, but nothing    *)
(* that is said of it depends on the order.                                *)
(***************************************************************************)
EXTENDS Integers, Bags

CONSTANTS Calls,       \* one call each
          Requests,    \* what a call may ask, [channel, near, token, ask]
          Retention,   \* AGENT_AUDIT_RETENTION_DAYS
          MaxTime,     \* bound: the clock, which starts at 1
          MaxToken     \* bound: tokens generated; token 0 is none

\* What is assumed of the constants.
ASSUME AuditAssumption ==
    /\ Retention \in Nat /\ MaxTime \in Nat \ {0} /\ MaxToken \in Nat \ {0}
    /\ Requests \subseteq [channel : {"assist", "impact", "export", "mcp"}, near : BOOLEAN,
                           token : 0..MaxToken,
                           ask : {"malformed", "handshake", "unknown", "query", "tool"}]

VARIABLES
    clock,      \* the clock
    enabled,    \* the option CONF_MCP_ENABLED
    token,      \* the token store
    log,        \* the audit store: a bag of records
    request,    \* per call, what it asks
    pc,         \* per call: waiting, checking, working, filing, saving, answered
    verdict,    \* per call, the status it is to record and to answer
    stamp,      \* per call, the timestamp of its record; 0 is none
    batch,      \* per call that saves, the bag it loaded, pruned and extended
    sweep,      \* the sweep: idle, or the bag it is about to save
    overlapped, \* history: calls that saved across another load
    retired     \* history: calls that arrived with a token already replaced

callVars == <<request, pc, verdict, stamp, batch>>
history  == <<overlapped, retired>>
auditVars == <<clock, enabled, token, log, callVars, sweep, history>>

Idle == [busy |-> FALSE, records |-> EmptyBag]

AuditInit ==
    /\ clock = 1
    /\ enabled = FALSE
    /\ token = 0
    /\ log = EmptyBag
    /\ request \in [Calls -> Requests]
    /\ pc = [c \in Calls |-> "waiting"]
    /\ verdict = [c \in Calls |-> "none"]
    /\ stamp = [c \in Calls |-> 0]
    /\ batch = [c \in Calls |-> EmptyBag]
    /\ sweep = Idle
    /\ overlapped = {}
    /\ retired = {}

-----------------------------------------------------------------------------

\* Seeded fault: the record that has just reached the end of the retention
\* is dropped with the older ones.
PastRetentionEarly(r) == clock - r.at >= Retention

PastRetention(r) == clock - r.at > Retention

Pruned(records) == [r \in {x \in DOMAIN records : ~PastRetention(x)} |-> records[r]]

RecordOf(c) == [call |-> c, at |-> stamp[c], status |-> verdict[c]]

\* The answer is decided and its record stamped; the append comes next.
File(c, status) ==
    /\ pc' = [pc EXCEPT ![c] = "filing"]
    /\ verdict' = [verdict EXCEPT ![c] = status]
    /\ stamp' = [stamp EXCEPT ![c] = clock]
    /\ UNCHANGED <<request, batch>>

\* An answer that leaves no record.
Answer(c, status) ==
    /\ pc' = [pc EXCEPT ![c] = "answered"]
    /\ verdict' = [verdict EXCEPT ![c] = status]
    /\ UNCHANGED <<request, stamp, batch>>

Proceed(c, stage) ==
    /\ pc' = [pc EXCEPT ![c] = stage]
    /\ UNCHANGED <<request, verdict, stamp, batch>>

\* post, to its first await: a disabled endpoint does not exist, a remote
\* outside the configured networks is refused.
ReceiveMcp(c) ==
    /\ pc[c] = "waiting"
    /\ request[c].channel = "mcp"
    /\ \/ ~enabled /\ Answer(c, "not_served")
       \/ enabled /\ ~request[c].near /\ File(c, "network_not_allowed")
       \/ enabled /\ request[c].near /\ Proceed(c, "checking")
    /\ retired' = IF request[c].token \in 1..(token - 1) THEN retired \cup {c} ELSE retired
    /\ UNCHANGED <<clock, enabled, token, log, sweep, overlapped>>

\* A service call, or an Assist intent: no authorisation of its own.  With no
\* loaded entry there is nothing to ask and nowhere to record.
ReceiveLocal(c) ==
    /\ pc[c] = "waiting"
    /\ request[c].channel # "mcp"
    /\ Proceed(c, "working") \/ Answer(c, "not_found")
    /\ UNCHANGED <<clock, enabled, token, log, sweep, history>>

\* Seeded fault: the view compares with any token it was ever given.
AuthorisedByAny(c) == token # 0 /\ request[c].token \in 1..token

\* The token read from the store, and what is asked of it.  A body that is JSON
\* but no object ends the handler by an exception, without a record.
Authorised(c) == token # 0 /\ request[c].token = token

Check(c) ==
    /\ pc[c] = "checking"
    /\ \/ ~Authorised(c) /\ File(c, "invalid_token")
       \/ /\ Authorised(c)
          /\ \/ request[c].ask = "malformed" /\ (File(c, "parse_error") \/ Answer(c, "error"))
             \/ request[c].ask = "unknown" /\ File(c, "unknown_method")
             \/ request[c].ask = "handshake" /\ Answer(c, "ok")
             \/ request[c].ask \in {"query", "tool"} /\ Proceed(c, "working")
    /\ UNCHANGED <<clock, enabled, token, log, sweep, history>>

\* What a tool comes to; whichever it is, the caller records it.
ToolEnds(c) ==
    /\ pc[c] = "working"
    /\ \E status \in {"ok", "not_found", "error"} : File(c, status)
    /\ UNCHANGED <<clock, enabled, token, log, sweep, history>>

UseTool(c)  == request[c].channel = "mcp" /\ request[c].ask = "tool" /\ ToolEnds(c)
Analyze(c)  == request[c].channel = "impact" /\ ToolEnds(c)
Export(c)   == request[c].channel = "export" /\ ToolEnds(c)
AnswerIntent(c) == request[c].channel = "assist" /\ ToolEnds(c)

\* The query tool catches a rejection only: a failure of the graph leaves the
\* handler without a record.
RunQuery(c) ==
    /\ pc[c] = "working"
    /\ request[c].channel = "mcp" /\ request[c].ask = "query"
    /\ (\E status \in {"ok", "rejected"} : File(c, status)) \/ Answer(c, "error")
    /\ UNCHANGED <<clock, enabled, token, log, sweep, history>>

Saving == {c \in Calls : pc[c] = "saving"}

\* Seeded fault: the list is loaded, pruned and saved without the new record.
LoadLogOnly(c) ==
    /\ pc[c] = "filing"
    /\ batch' = [batch EXCEPT ![c] = Pruned(log)]
    /\ pc' = [pc EXCEPT ![c] = "saving"]
    /\ UNCHANGED <<clock, enabled, token, log, request, verdict, stamp, sweep, history>>

\* async_append_record, to the end of the load.
LoadLog(c) ==
    /\ pc[c] = "filing"
    /\ batch' = [batch EXCEPT ![c] = Pruned(log) (+) SetToBag({RecordOf(c)})]
    /\ pc' = [pc EXCEPT ![c] = "saving"]
    /\ overlapped' = IF Saving # {} \/ sweep.busy THEN overlapped \cup Saving \cup {c}
                     ELSE overlapped
    /\ UNCHANGED <<clock, enabled, token, log, request, verdict, stamp, sweep, retired>>

\* Seeded fault: the record of a tool is appended by the tool and by the
\* endpoint that called it.
SaveTwice(c) ==
    /\ pc[c] = "saving"
    /\ log' = batch[c] (+) SetToBag({RecordOf(c)})
    /\ batch' = [batch EXCEPT ![c] = EmptyBag]
    /\ pc' = [pc EXCEPT ![c] = "answered"]
    /\ UNCHANGED <<clock, enabled, token, request, verdict, stamp, sweep, history>>

\* Its save, and the answer that waited for it.
SaveLog(c) ==
    /\ pc[c] = "saving"
    /\ log' = batch[c]
    /\ batch' = [batch EXCEPT ![c] = EmptyBag]
    /\ pc' = [pc EXCEPT ![c] = "answered"]
    /\ UNCHANGED <<clock, enabled, token, request, verdict, stamp, sweep, history>>

\* async_prune_expired, to the end of the load; nothing to drop, nothing saved.
SweepLoad ==
    /\ ~sweep.busy
    /\ Pruned(log) # log
    /\ sweep' = [busy |-> TRUE, records |-> Pruned(log)]
    /\ overlapped' = overlapped \cup Saving
    /\ UNCHANGED <<clock, enabled, token, log, callVars, retired>>

SweepSave ==
    /\ sweep.busy
    /\ log' = sweep.records
    /\ sweep' = Idle
    /\ UNCHANGED <<clock, enabled, token, callVars, history>>

\* The button: the store holds the new token before the user is told of it.
RegenerateToken ==
    /\ enabled /\ token < MaxToken
    /\ token' = token + 1
    /\ UNCHANGED <<clock, enabled, log, callVars, sweep, history>>

\* The options are saved at once; the reload that creates a first token
\* (async_get_or_create_token) follows.
SetEnabled ==
    /\ enabled' = ~enabled
    /\ UNCHANGED <<clock, token, log, callVars, sweep, history>>

CreateToken ==
    /\ enabled /\ token = 0
    /\ token' = 1
    /\ UNCHANGED <<clock, enabled, log, callVars, sweep, history>>

Tick ==
    /\ clock < MaxTime
    /\ clock' = clock + 1
    /\ UNCHANGED <<enabled, token, log, callVars, sweep, history>>

Handle(c) ==
    \/ ReceiveMcp(c) \/ ReceiveLocal(c) \/ Check(c)
    \/ UseTool(c) \/ Analyze(c) \/ Export(c) \/ AnswerIntent(c) \/ RunQuery(c)
    \/ LoadLog(c) \/ SaveLog(c)

AuditNext ==
    \/ \E c \in Calls : Handle(c)
    \/ SweepLoad \/ SweepSave
    \/ RegenerateToken \/ SetEnabled \/ CreateToken \/ Tick

AuditSpec == AuditInit /\ [][AuditNext]_auditVars

-----------------------------------------------------------------------------

Statuses == {"ok", "not_found", "error", "rejected", "network_not_allowed",
             "invalid_token", "parse_error", "unknown_method"}

Records == [call : Calls, at : 0..MaxTime, status : Statuses]

IsLog(B) == DOMAIN B \subseteq Records /\ IsABag(B)

\* Every part of the state is of its kind, and a list that is being saved has
\* the record of the call that saves it.
AuditTypeOK ==
    /\ clock \in 1..MaxTime /\ enabled \in BOOLEAN /\ token \in 0..MaxToken
    /\ IsLog(log)
    /\ request \in [Calls -> Requests]
    /\ pc \in [Calls -> {"waiting", "checking", "working", "filing", "saving", "answered"}]
    /\ verdict \in [Calls -> Statuses \cup {"none", "not_served"}]
    /\ stamp \in [Calls -> 0..clock]
    /\ DOMAIN batch = Calls
    /\ \A c \in Calls : IsLog(batch[c]) /\ (pc[c] = "saving" => RecordOf(c) \in DOMAIN batch[c])
    /\ sweep.busy \in BOOLEAN /\ IsLog(sweep.records)
    /\ overlapped \subseteq Calls /\ retired \subseteq Calls

Filed(c) == {r \in DOMAIN log : r.call = c}

\* The log never holds two records of one call, even when a list was loaded
\* before another call saved it, and the record it holds says what the caller
\* was answered (async_append_record is called once on every path of
\* _handle_tools_call, async_handle, analyze and export).
OneRecordPerCall ==
    \A c \in Calls :
        /\ \A r, s \in Filed(c) : r = s
        /\ \A r \in Filed(c) : log[r] = 1 /\ pc[c] = "answered" /\ r.status = verdict[c]

\* What async_append_record guarantees without a lock: a record that was saved
\* and is not past its retention is missing only if another call, or the
\* sweep, loaded the list before the save and saved it after.
LostOnlyToOverlap ==
    \A c \in Calls :
        (pc[c] = "answered" /\ stamp[c] > 0 /\ clock - stamp[c] <= Retention)
           => Filed(c) # {} \/ c \in overlapped

\* Whatever arrives with a token that the store had already replaced is not
\* served, however the check and the regeneration interleave
\* (async_regenerate_token: "immediately invalidating the previous one").
RetiredTokenRefused ==
    \A c \in retired : pc[c] # "working" /\ verdict[c] \notin {"ok", "not_found", "error"}

\* Every call is served on a token in force if it needs one, and leaves one
\* record, true to its answer, that only an overlapping save can drop.
CallsAreAccountedFor == AuditTypeOK /\ OneRecordPerCall /\ LostOnlyToOverlap /\ RetiredTokenRefused
=============================================================================
