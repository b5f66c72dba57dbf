----------------------------- MODULE ToolAccess -----------------------------
(***************************************************************************)
(* What an agent's tools may reach.  A binding names a data connector, a   *)
(* tool of a remote MCP server, or both; builders plan and re-plan it, an  *)
(* approver promotes it, and a run takes a copy of every binding when it   *)
(* starts and decides each call from that copy.  A promotion is a request  *)
(* of its own that reads the rows, checks them and then saves.  Calls to a *)
(* connector pass its circuit breaker, whose counter lives in the cache    *)
(* and is read and written back without a lock.                            *)
(*                                                                         *)
(* The agent's status moves as Governance says, here in any order; the     *)
(* registry entry of the server is in Registry.                            *)
(***************************************************************************)
EXTENDS Integers, FiniteSets

CONSTANTS Runs,          \* runs of the agent that call tools
          Tools,         \* tool names of its bindings
          Connectors,    \* data connectors, of type rest or sql
          Threshold,     \* CONNECTOR_CIRCUIT_BREAKER_FAILURE_THRESHOLD
          Boundary,      \* values of the package's can_bind_production_tools
          BlockPrivate,  \* NET_GUARD_BLOCK_PRIVATE
          McpEnabled,    \* MCP_SERVER_ENABLED
          Retarget       \* a plan may change a binding a promotion has read

ASSUME ThresholdAssumption == Threshold \in Nat \ {0}
ASSUME ConnectorAssumption == {"mcp", "none"} \intersect Connectors = {}

VARIABLES status,    \* Agent.status
          server,    \* the RemoteMcpServer row
          binding,   \* the AgentToolBinding rows
          promoter,  \* the promotion request under way
          run,       \* the runs, and what each took a copy of
          breaker,   \* per connector: what the cache holds
          sanctioned, \* ghost: the target an approver last approved, per tool
          streak,    \* ghost: calls failed in a row, per connector
          overlapped \* ghost: connectors whose count two calls, or a call and
                     \* the count's expiry, have used at once

vars == <<status, server, binding, promoter, run, breaker, sanctioned, streak, overlapped>>

-----------------------------------------------------------------------------
(* Rows                                                                    *)

(* One binding per tool name, absent before its first plan.                *)
AgentToolBinding == [status : {"absent", "proposed", "sandbox", "live"},
                     connector : Connectors \union {"none"}, mcp : BOOLEAN,
                     approved : BOOLEAN]

RemoteMcpServer == [active : BOOLEAN, status : {"registered", "active", "disabled"},
                    catalog : BOOLEAN]

(* Usable for a new binding: active, enabled, with a cached catalog.       *)
IsUsable(s) == s.active /\ s.status = "active" /\ s.catalog

(* The MCP server wins over a connector that is attached as well.          *)
TargetKind(b) == IF b.mcp THEN "mcp" ELSE b.connector

IsLive(s) == s \in {"pilot", "production"}

(* Live needs the LIVE status and an approval, in a run that is not a      *)
(* sandbox run.                                                            *)
EffectiveMode(b, mode) ==
  IF mode = "live" /\ b.status = "live" /\ b.approved THEN "live" ELSE "sandbox"

-----------------------------------------------------------------------------
(* Destinations and statements, by the class the checks tell apart         *)

Destinations == {"public", "private", "internal", "not_http"}

IsBlockedIp(d) == d = "internal" \/ (d = "private" /\ BlockPrivate)

(* Scheme and host are checked before the address.                         *)
ValidateDestination(d) == d # "not_http" /\ ~IsBlockedIp(d)

Statements == {"select", "foreign_schema", "write", "catalog", "stacked", "comment"}

(* Only a single plain SELECT; a schema in the config confines its tables. *)
Validate(sql, confined) == sql = "select" \/ (sql = "foreign_schema" /\ ~confined)

CircuitClosed(c) == ~breaker[c].open

(* RestConnector: both URLs are validated, then the breaker asked.         *)
RestRequest(c) == CircuitClosed(c) /\ \E d \in Destinations : ValidateDestination(d)

(* SqlConnector: the breaker is asked, then the statement validated.       *)
Query(c) == CircuitClosed(c) /\ \E s \in Statements : Validate(s, TRUE)

-----------------------------------------------------------------------------
(* The circuit breaker of a connector                                      *)

NoFailures == [failures |-> 0, open |-> FALSE]

FaultyRegisterFailure(seen, b) == [failures |-> seen, open |-> b.open \/ seen >= Threshold]

(* The count read before, plus one, is written back; at the threshold the  *)
(* breaker opens.                                                          *)
RegisterFailure(seen, b) ==
  [failures |-> IF seen < Threshold THEN seen + 1 ELSE seen,
   open     |-> b.open \/ seen + 1 >= Threshold]

ClearFailures == NoFailures

(* The cooldown ends; the count lives at least as long.                    *)
Cooldown(c) ==
  /\ breaker[c].open
  /\ breaker' = [breaker EXCEPT ![c].open = FALSE]
  /\ UNCHANGED <<status, server, binding, promoter, run, sanctioned, streak, overlapped>>

(* A minute without a failure: the count is forgotten.                     *)
CountExpires(c) ==
  /\ ~breaker[c].open
  /\ breaker[c].failures > 0
  /\ breaker' = [breaker EXCEPT ![c].failures = 0]
  /\ streak' = [streak EXCEPT ![c] = 0]
  /\ overlapped' = IF \E r \in Runs : run[r].pc = "failing" /\ run[r].target = c
                   THEN overlapped \union {c} ELSE overlapped
  /\ UNCHANGED <<status, server, binding, promoter, run, sanctioned>>

-----------------------------------------------------------------------------
(* Plans                                                                   *)

(* A blueprint or package plan: the connector is the active one whose name *)
(* matches, if any; the MCP target and the approval stay on the row.       *)
CreateBindingsFromPlan(t) ==
  /\ Retarget \/ promoter.pc = "idle"
  /\ \E c \in Connectors \union {"none"} :
       binding' = [binding EXCEPT ![t] = [@ EXCEPT !.connector = c,
                     !.status = IF c = "none" THEN "proposed" ELSE "sandbox"]]
  /\ UNCHANGED <<status, server, promoter, run, breaker, sanctioned, streak, overlapped>>

FaultyCreateMcpBinding(t) ==
  /\ Retarget \/ promoter.pc = "idle"
  /\ server.catalog
  /\ binding' = [binding EXCEPT ![t] = [@ EXCEPT !.connector = "none", !.mcp = TRUE,
                   !.status = IF @ = "live" THEN "live"
                              ELSE IF IsUsable(server) THEN "sandbox" ELSE "proposed"]]
  /\ UNCHANGED <<status, server, promoter, run, breaker, sanctioned, streak, overlapped>>

(* The endpoint needs the tool in the cached catalog, whatever the status. *)
CreateMcpBinding(t) ==
  /\ Retarget \/ promoter.pc = "idle"
  /\ server.catalog
  /\ binding' = [binding EXCEPT ![t] = [@ EXCEPT !.connector = "none", !.mcp = TRUE,
                   !.status = IF IsUsable(server) THEN "sandbox" ELSE "proposed"]]
  /\ UNCHANGED <<status, server, promoter, run, breaker, sanctioned, streak, overlapped>>

-----------------------------------------------------------------------------
(* Promotions                                                              *)

NoPromoter == [pc |-> "idle", mode |-> "sandbox", rows |-> [t \in Tools |-> FALSE],
               targets |-> [t \in Tools |-> "none"], kinds |-> [t \in Tools |-> FALSE],
               late |-> FALSE]

(* The request loads the rows, all of the agent's or one by name.          *)
ReadBindings(mode) ==
  /\ promoter.pc = "idle"
  /\ \E chosen \in {Tools} \union {{t} : t \in Tools} :
       LET found == {t \in chosen : binding[t].status # "absent"} IN
       /\ found # {}
       /\ promoter' = [pc |-> "read", mode |-> mode,
            rows |-> [t \in Tools |-> t \in found],
            targets |-> [t \in Tools |-> IF t \in found THEN TargetKind(binding[t]) ELSE "none"],
            kinds |-> [t \in Tools |-> t \in found /\ binding[t].mcp],
            late |-> ~server.active]
  /\ UNCHANGED <<status, server, binding, run, breaker, sanctioned, streak, overlapped>>

Chosen == {t \in Tools : promoter.rows[t]}

FaultyMayGoLive(t) ==
  /\ promoter.targets[t] # "none"
  /\ IsLive(status)
  /\ promoter.kinds[t] => server.status = "active"

(* The guards of promote_to_live on a row as it was read; agent and server *)
(* are fetched now.                                                        *)
MayGoLive(t) ==
  /\ promoter.targets[t] # "none"
  /\ IsLive(status)
  /\ promoter.kinds[t] => server.active /\ server.status = "active"

(* One transaction: a row that fails its guards rolls back the others.     *)
CheckBindings ==
  /\ promoter.pc = "read"
  /\ \E bindable \in Boundary :
       promoter' = IF promoter.mode = "sandbox" \/ (bindable /\ \A t \in Chosen : MayGoLive(t))
                   THEN [promoter EXCEPT !.pc = "checked"] ELSE NoPromoter
  /\ UNCHANGED <<status, server, binding, run, breaker, sanctioned, streak, overlapped>>

(* Only status and approval are saved: target columns keep what a plan     *)
(* wrote in between.                                                       *)
PromoteToLive ==
  /\ promoter.pc = "checked"
  /\ promoter.mode = "live"
  /\ binding' = [t \in Tools |-> IF t \in Chosen
                   THEN [binding[t] EXCEPT !.status = "live", !.approved = TRUE]
                   ELSE binding[t]]
  /\ sanctioned' = [t \in Tools |-> IF t \in Chosen THEN promoter.targets[t] ELSE sanctioned[t]]
  /\ promoter' = NoPromoter
  /\ UNCHANGED <<status, server, run, breaker, streak, overlapped>>

(* Needs no target, and leaves an earlier approval on the row.             *)
PromoteToSandbox ==
  /\ promoter.pc = "checked"
  /\ promoter.mode = "sandbox"
  /\ binding' = [t \in Tools |-> IF t \in Chosen
                   THEN [binding[t] EXCEPT !.status = "sandbox"] ELSE binding[t]]
  /\ promoter' = NoPromoter
  /\ UNCHANGED <<status, server, run, breaker, sanctioned, streak, overlapped>>

-----------------------------------------------------------------------------
(* The agent and the MCP server                                            *)

(* Governance changes the status.                                          *)
AgentMoves ==
  /\ status' \in {"sandbox", "pilot"} \ {status}
  /\ UNCHANGED <<server, binding, promoter, run, breaker, sanctioned, streak, overlapped>>

(* A sync asks only for the row: a disabled server becomes ACTIVE again,   *)
(* though is_active stays off.                                             *)
McpServerSync ==
  /\ \E offered \in BOOLEAN :
       server' = [server EXCEPT !.status = "active", !.catalog = offered]
  /\ server' # server
  /\ UNCHANGED <<status, binding, promoter, run, breaker, sanctioned, streak, overlapped>>

(* Bindings to the server keep their status.                               *)
McpServerDisable ==
  /\ server' = [server EXCEPT !.active = FALSE, !.status = "disabled"]
  /\ server' # server
  /\ UNCHANGED <<status, binding, promoter, run, breaker, sanctioned, streak, overlapped>>

-----------------------------------------------------------------------------
(* Runs and their calls                                                    *)

NoRun == [pc |-> "idle", mode |-> "sandbox",
          tools |-> [t \in Tools |-> [target |-> "none", mode |-> "none"]],
          allowed |-> [t \in Tools |-> "none"], target |-> "none", tool |-> "none", seen |-> 0]

(* resolve_bindings: all but proposed rows, each with its spec builder.    *)
ResolveBindings(mode) ==
  [t \in Tools |-> IF binding[t].status \in {"absent", "proposed"}
                   THEN [target |-> "none", mode |-> "none"]
                   ELSE [target |-> TargetKind(binding[t]),
                         mode |-> EffectiveMode(binding[t], mode)]]

(* The view loads the agent; the mode follows from its status then.        *)
Admit(r) ==
  /\ run[r].pc = "idle"
  /\ run' = [run EXCEPT ![r] = [NoRun EXCEPT !.pc = "admitted",
               !.mode = IF IsLive(status) THEN "live" ELSE "sandbox"]]
  /\ UNCHANGED <<status, server, binding, promoter, breaker, sanctioned, streak, overlapped>>

(* toolset_for, just before the adapter starts.                            *)
ToolsetFor(r) ==
  /\ run[r].pc = "admitted"
  /\ run' = [run EXCEPT ![r] = [@ EXCEPT !.pc = "ready",
               !.tools = ResolveBindings(run[r].mode), !.allowed = sanctioned]]
  /\ UNCHANGED <<status, server, binding, promoter, breaker, sanctioned, streak, overlapped>>

(* An external caller of the platform's own MCP endpoint has no agent: the *)
(* mode is live, but there is no binding and so no tool beyond builtins.   *)
McpEndpoint(r) ==
  /\ McpEnabled
  /\ run[r].pc = "idle"
  /\ run' = [run EXCEPT ![r] = [NoRun EXCEPT !.pc = "ready", !.mode = "live"]]
  /\ UNCHANGED <<status, server, binding, promoter, breaker, sanctioned, streak, overlapped>>

(* Two calls hold the connector at once from now on.                       *)
Contend(c) == IF \E q \in Runs : run[q].pc \in {"calling", "failing"} /\ run[q].target = c
              THEN {c} ELSE {}

Begin(r, t, target) ==
  /\ run' = [run EXCEPT ![r] = [@ EXCEPT !.pc = "calling", !.tool = t, !.target = target]]
  /\ UNCHANGED <<status, server, binding, promoter, breaker, sanctioned, streak>>

(* By the connector's type, which nothing below depends on.  A dry run, an *)
(* unknown tool and a refused input change nothing.                        *)
ExecuteLive(r, t) ==
  LET c == run[r].tools[t].target IN
  /\ c \in Connectors
  /\ Query(c) \/ RestRequest(c)
  /\ Begin(r, t, c)
  /\ overlapped' = overlapped \union Contend(c)

(* The client asks nothing about the server row, only its address.         *)
CallTool(r, t) ==
  /\ run[r].tools[t].target = "mcp"
  /\ \E d \in Destinations : ValidateDestination(d)
  /\ Begin(r, t, "mcp")
  /\ UNCHANGED overlapped

(* The model asks for a tool the run holds; the gates are tier and binding *)
(* and the tier of a binding is its agent's.                               *)
Dispatch(r, t) ==
  /\ run[r].pc = "ready"
  /\ run[r].tools[t].mode = "live"
  /\ ExecuteLive(r, t) \/ CallTool(r, t)

(* The answer: a success clears the breaker; a failure reads the count.    *)
Answer(r) ==
  LET c == run[r].target IN
  /\ run[r].pc = "calling"
  /\ \/ /\ run' = [run EXCEPT ![r] = [@ EXCEPT !.pc = "ready", !.target = "none", !.tool = "none"]]
        /\ IF c \in Connectors
           THEN /\ breaker' = [breaker EXCEPT ![c] = ClearFailures]
                /\ streak' = [streak EXCEPT ![c] = 0]
           ELSE UNCHANGED <<breaker, streak>>
     \/ /\ c \in Connectors
        /\ run' = [run EXCEPT ![r] = [@ EXCEPT !.pc = "failing", !.seen = breaker[c].failures]]
        /\ UNCHANGED <<breaker, streak>>
  /\ UNCHANGED <<status, server, binding, promoter, sanctioned, overlapped>>

(* ... which is written back in a second call of the cache.                *)
WriteFailure(r) ==
  LET c == run[r].target IN
  /\ run[r].pc = "failing"
  /\ breaker' = [breaker EXCEPT ![c] = RegisterFailure(run[r].seen, @)]
  /\ streak' = [streak EXCEPT ![c] = IF @ < Threshold THEN @ + 1 ELSE @]
  /\ run' = [run EXCEPT ![r] = [@ EXCEPT !.pc = "ready", !.target = "none", !.tool = "none",
                                         !.seen = 0]]
  /\ UNCHANGED <<status, server, binding, promoter, sanctioned, overlapped>>

(* The run ends or the process dies, at any point.                         *)
End(r) ==
  /\ run[r].pc # "idle"
  /\ run' = [run EXCEPT ![r] = NoRun]
  /\ UNCHANGED <<status, server, binding, promoter, breaker, sanctioned, streak, overlapped>>

-----------------------------------------------------------------------------

Absent == [status |-> "absent", connector |-> "none", mcp |-> FALSE, approved |-> FALSE]

(* A freshly registered server, not yet introspected.                      *)
Init ==
  /\ status = "sandbox"
  /\ server = [active |-> TRUE, status |-> "registered", catalog |-> FALSE]
  /\ binding = [t \in Tools |-> Absent]
  /\ promoter = NoPromoter
  /\ run = [r \in Runs |-> NoRun]
  /\ breaker = [c \in Connectors |-> NoFailures]
  /\ sanctioned = [t \in Tools |-> "none"]
  /\ streak = [c \in Connectors |-> 0]
  /\ overlapped = {}

Next ==
  \/ \E t \in Tools : CreateBindingsFromPlan(t) \/ CreateMcpBinding(t)
  \/ \E mode \in {"sandbox", "live"} : ReadBindings(mode)
  \/ CheckBindings \/ PromoteToLive \/ PromoteToSandbox
  \/ AgentMoves \/ McpServerSync \/ McpServerDisable
  \/ \E r \in Runs : \/ Admit(r) \/ ToolsetFor(r) \/ McpEndpoint(r)
                     \/ \E t \in Tools : Dispatch(r, t)
                     \/ Answer(r) \/ WriteFailure(r) \/ End(r)
  \/ \E c \in Connectors : Cooldown(c) \/ CountExpires(c)

Spec == Init /\ [][Next]_vars

-----------------------------------------------------------------------------
(* Properties                                                              *)

TypeOK ==
  /\ status \in {"sandbox", "pilot"}
  /\ server \in RemoteMcpServer
  /\ binding \in [Tools -> AgentToolBinding]
  /\ promoter.pc \in {"idle", "read", "checked"}
  /\ \A r \in Runs : /\ run[r].pc \in {"idle", "admitted", "ready", "calling", "failing"}
                     /\ run[r].mode \in {"sandbox", "live"}
                     /\ run[r].seen \in 0 .. Threshold
                     /\ run[r].pc = "failing" => run[r].target \in Connectors
  /\ breaker \in [Connectors -> [failures : 0 .. Threshold, open : BOOLEAN]]
  /\ streak \in [Connectors -> 0 .. Threshold]
  /\ overlapped \subseteq Connectors

(* A real call goes only to the target an approver approved for that tool, *)
(* as of the moment the run took its copies, and only from a run admitted  *)
(* while the agent was live: re-planning, demotion, a disabled server and  *)
(* a changed status in between never widen what a run reaches, as long as  *)
(* no plan changes a row between a promotion's read and its save.          *)
CallsSanctioned ==
  \A r \in Runs : run[r].pc \in {"calling", "failing"} =>
    /\ run[r].mode = "live"
    /\ run[r].target # "none"
    /\ run[r].target = run[r].allowed[run[r].tool]

(* While the calls of a connector do not overlap, and its count does not   *)
(* expire between a failure's read and write, its breaker is exact: it     *)
(* opens at the threshold of failures in a row and not before.             *)
BreakerExact ==
  \A c \in Connectors \ overlapped :
    /\ breaker[c].failures = streak[c]
    /\ breaker[c].open => streak[c] = Threshold

(* A server disabled before the approver's request read the bindings is    *)
(* never bound live by it, even when a sync made its status ACTIVE again.  *)
DisabledStaysUnbound ==
  [][\A t \in Tools : promoter.late /\ promoter.kinds[t] /\ promoter.rows[t]
       => (binding'[t].status = "live" => binding[t].status = "live")]_vars
=============================================================================
