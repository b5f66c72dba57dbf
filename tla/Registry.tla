------------------------------ MODULE Registry ------------------------------
(***************************************************************************)
(* The federated registry and what feeds it: the A2A card of an agent, a   *)
(* remote MCP server, and scanners of other platforms.  A source and its   *)
(* RegistryEntry are two rows written one after the other, without a       *)
(* transaction, by requests that overlap and may die in between; nothing   *)
(* but a later request repairs what one left undone.  The broker and the   *)
(* A2A endpoint start tasks for what they find.                            *)
(*                                                                         *)
(* One agent, one server, and one external agent per scanned platform.     *)
(* What a submitted task does is in AgentTasks.                            *)
(***************************************************************************)
EXTENDS Integers, FiniteSets

CONSTANTS Actors,     \* requests and commands under way at once
          Platforms,  \* scanned platforms
          Manual,     \* external agents registered by their card URL
          Reviewed,   \* bound: subjects whose entry an operator reviews
          MaxDisturbed, \* bound: subjects disturbed in one behaviour
          Faults      \* a request may die between two statements

(* Where an actor can be, but for the name of a platform it is scanning.   *)
Steps == {"idle", "card", "project", "upsert", "withdraw", "drop", "servers", "list",
          "project_server", "drop_server", "scan", "submit"}

ASSUME SubjectAssumption == /\ {"agent", "server"} \intersect (Platforms \union Manual) = {}
                            /\ Platforms \intersect (Manual \union Steps) = {}

VARIABLES agent,    \* Agent.status, and whether it was ever live (ghost)
          card,     \* the AgentCard of the agent
          server,   \* the RemoteMcpServer row
          entry,    \* the RegistryEntry of each subject
          proc,     \* what each actor is doing
          disturbed \* ghost: subjects whose requests overlapped or died

vars == <<agent, card, server, entry, proc, disturbed>>

Subjects == {"agent", "server"} \union Platforms \union Manual

-----------------------------------------------------------------------------
(* Rows                                                                    *)

AgentCard == {"none", "published", "unpublished"}

RegistryEntry == [state : {"absent", "active", "inactive"},
                  review : {"discovered", "approved", "rejected"}]

RemoteMcpServer == [active : BOOLEAN, status : {"registered", "active", "disabled"},
                    catalog : BOOLEAN]

IsUsable(s) == s.active /\ s.status = "active" /\ s.catalog

(* upsert_entry: created or updated, and active again in either case.      *)
UpsertEntry(x, review) ==
  entry' = [entry EXCEPT ![x] = [state |-> "active", review |-> review]]

(* A projection does not name review_status: approved by default, kept.    *)
Kept(x) == IF entry[x].state = "absent" THEN "approved" ELSE entry[x].review

DeactivateEntry(x) ==
  entry' = [entry EXCEPT ![x].state = IF @ = "absent" THEN @ ELSE "inactive"]

(* search_entries with its defaults.                                       *)
SearchEntries == {x \in Subjects : entry[x].state = "active" /\ entry[x].review = "approved"}

-----------------------------------------------------------------------------
(* Actors: the operation, the next statement, what was read, what is left. *)

NoCopy == [active |-> FALSE, status |-> "registered", catalog |-> FALSE]

Free == [op |-> "none", at |-> "idle", copy |-> NoCopy, review |-> "discovered", todo |-> {}]

Touched(p) ==
  CASE proc[p].at \in {"card", "project", "upsert", "withdraw", "drop"} -> {"agent"}
    [] proc[p].at \in {"list", "project_server", "drop_server"} -> {"server"}
    [] proc[p].op = "scan" -> proc[p].todo
    [] OTHER -> {}

InFlight == UNION {Touched(p) : p \in Actors}

At(p, step) == proc[p].at = step

Goto(p, step) == proc' = [proc EXCEPT ![p].at = step]

Finish(p) == proc' = [proc EXCEPT ![p] = Free]

Disturb(subjects) ==
  /\ disturbed' = disturbed \union subjects
  /\ Cardinality(disturbed') <= MaxDisturbed

Begin(p, op, step, subjects) ==
  /\ At(p, "idle")
  /\ proc' = [proc EXCEPT ![p] = [Free EXCEPT !.op = op, !.at = step,
                !.copy = IF op = "mcp_sync" THEN server ELSE NoCopy,
                !.todo = IF op = "scan" THEN subjects ELSE {}]]
  /\ Disturb(subjects \intersect InFlight)

(* After the agents, sync_all turns to the servers.                        *)
FinishAgent(p) == IF proc[p].op = "sync_all" THEN Goto(p, "servers") ELSE Finish(p)

-----------------------------------------------------------------------------
(* Cards                                                                   *)

FaultyPublishCard(p) ==
  /\ Begin(p, "publish", "card", {"agent"})
  /\ UNCHANGED <<agent, card, server, entry>>

(* Only a pilot or production agent (one status here stands for both).     *)
PublishCard(p) ==
  /\ agent.status = "pilot"
  /\ Begin(p, "publish", "card", {"agent"})
  /\ UNCHANGED <<agent, card, server, entry>>

SaveCard(p) ==
  /\ At(p, "card")
  /\ card' = "published"
  /\ Goto(p, "project")
  /\ UNCHANGED <<agent, server, entry, disturbed>>

(* project_agent asks for the card once more.                              *)
ReadCard(p) ==
  /\ At(p, "project")
  /\ Goto(p, IF card = "published" THEN "upsert" ELSE "drop")
  /\ UNCHANGED <<agent, card, server, entry, disturbed>>

ProjectAgent(p) ==
  /\ At(p, "upsert")
  /\ UpsertEntry("agent", Kept("agent"))
  /\ FinishAgent(p)
  /\ UNCHANGED <<agent, card, server, disturbed>>

(* A card that is not published ends the request here, whatever the entry. *)
UnpublishCard(p) ==
  /\ card = "published"
  /\ Begin(p, "unpublish", "withdraw", {"agent"})
  /\ UNCHANGED <<agent, card, server, entry>>

WithdrawCard(p) ==
  /\ At(p, "withdraw")
  /\ card' = "unpublished"
  /\ Goto(p, "drop")
  /\ UNCHANGED <<agent, server, entry, disturbed>>

FaultyUnprojectAgent(p) ==
  /\ At(p, "drop")
  /\ FinishAgent(p)
  /\ UNCHANGED <<agent, card, server, entry, disturbed>>

UnprojectAgent(p) ==
  /\ At(p, "drop")
  /\ DeactivateEntry("agent")
  /\ FinishAgent(p)
  /\ UNCHANGED <<agent, card, server, disturbed>>

-----------------------------------------------------------------------------
(* Servers                                                                 *)

(* tools/list is a network call between the read of the row and its save.  *)
McpServerSync(p) ==
  /\ Begin(p, "mcp_sync", "list", {"server"})
  /\ UNCHANGED <<agent, card, server, entry>>

(* The catalog and ACTIVE are saved, is_active is not: the row may have    *)
(* been disabled meanwhile, the copy in memory was not.                    *)
ListTools(p) ==
  /\ At(p, "list")
  /\ \/ \E offered \in BOOLEAN :
          /\ server' = [server EXCEPT !.status = "active", !.catalog = offered]
          /\ proc' = [proc EXCEPT ![p].at = "project_server",
                        ![p].copy = [@ EXCEPT !.status = "active", !.catalog = offered]]
     \/ Finish(p) /\ UNCHANGED server
  /\ UNCHANGED <<agent, card, entry, disturbed>>

ProjectMcpServer(p) ==
  /\ At(p, "project_server")
  /\ IF IsUsable(proc[p].copy) THEN UpsertEntry("server", Kept("server"))
     ELSE DeactivateEntry("server")
  /\ Finish(p)
  /\ UNCHANGED <<agent, card, server, disturbed>>

McpServerDisable(p) ==
  /\ Begin(p, "mcp_disable", "drop_server", {"server"})
  /\ server' = [server EXCEPT !.active = FALSE, !.status = "disabled"]
  /\ UNCHANGED <<agent, card, entry>>

DeactivateMcpServer(p) ==
  /\ At(p, "drop_server")
  /\ DeactivateEntry("server")
  /\ Finish(p)
  /\ UNCHANGED <<agent, card, server, disturbed>>

-----------------------------------------------------------------------------
(* sync_all projects what is published and active, and withdraws nothing   *)
(* else.                                                                   *)

SyncAll(p) ==
  /\ Begin(p, "sync_all", IF card = "published" THEN "project" ELSE "servers",
           IF card = "published" THEN {"agent"} ELSE {})
  /\ UNCHANGED <<agent, card, server, entry>>

SyncServers(p) ==
  /\ At(p, "servers")
  /\ IF server.active
     THEN /\ proc' = [proc EXCEPT ![p].at = "project_server", ![p].copy = server]
          /\ Disturb({"server"} \intersect InFlight)
     ELSE Finish(p) /\ UNCHANGED disturbed
  /\ UNCHANGED <<agent, card, server, entry>>

-----------------------------------------------------------------------------
(* Scanners: each lists the agents of its platform, or raises.             *)

Listings == {"error", "empty", "found"}

AgentforceScan == Listings
BedrockScan == Listings
CopilotScan == Listings
VertexScan == Listings

GetScanner(platform) ==
  CASE platform = "agentforce" -> AgentforceScan
    [] platform = "bedrock" -> BedrockScan
    [] platform = "copilot" -> CopilotScan
    [] platform = "vertex" -> VertexScan
    [] OTHER -> {"error"}

(* One platform, or all of them.                                           *)
Scan(p) ==
  /\ \E todo \in {Platforms} \union {{platform} : platform \in Platforms} :
       Begin(p, "scan", "scan", todo)
  /\ UNCHANGED <<agent, card, server, entry>>

FaultyReadReview(p, platform) ==
  /\ At(p, "scan")
  /\ platform \in proc[p].todo
  /\ "found" \in GetScanner(platform)
  /\ proc' = [proc EXCEPT ![p].at = platform, ![p].review = "discovered"]
  /\ UNCHANGED <<agent, card, server, entry, disturbed>>

(* The review status of an agent that is catalogued already.               *)
ReadReview(p, platform) ==
  /\ At(p, "scan")
  /\ platform \in proc[p].todo
  /\ "found" \in GetScanner(platform)
  /\ proc' = [proc EXCEPT ![p].at = platform,
                ![p].review = IF entry[platform].state = "absent" THEN "discovered"
                              ELSE entry[platform].review]
  /\ UNCHANGED <<agent, card, server, entry, disturbed>>

Remaining(p, platform) ==
  IF proc[p].todo = {platform} THEN Finish(p)
  ELSE proc' = [proc EXCEPT ![p].at = "scan", ![p].todo = @ \ {platform}]

(* Nothing found, or an error, which one platform does not pass on.        *)
ScanNothing(p, platform) ==
  /\ At(p, "scan")
  /\ platform \in proc[p].todo
  /\ GetScanner(platform) \intersect {"error", "empty"} # {}
  /\ Remaining(p, platform)
  /\ UNCHANGED <<agent, card, server, entry, disturbed>>

(* ... which the upsert writes back.                                       *)
CatalogScannedAgent(p, platform) ==
  /\ At(p, platform)
  /\ platform \in proc[p].todo
  /\ UpsertEntry(platform, proc[p].review)
  /\ Remaining(p, platform)
  /\ UNCHANGED <<agent, card, server, disturbed>>

(* The endpoints for one scan and for all.                                 *)
Scanning(p) ==
  \/ Scan(p)
  \/ \E platform \in Platforms :
       ReadReview(p, platform) \/ ScanNothing(p, platform) \/ CatalogScannedAgent(p, platform)

-----------------------------------------------------------------------------
(* Operators and external registrations                                    *)

SetReviewStatus(x) ==
  /\ x \in Reviewed
  /\ entry[x].state # "absent"
  /\ \E verdict \in {"approved", "rejected"} : entry' = [entry EXCEPT ![x].review = verdict]
  /\ Disturb({x} \intersect InFlight)
  /\ UNCHANGED <<agent, card, server, proc>>

RegistryDetailDelete(x) ==
  /\ entry[x].state = "active"
  /\ DeactivateEntry(x)
  /\ UNCHANGED <<agent, card, server, proc, disturbed>>

(* fetch_card wants a name and a URL, or raises before anything is kept.   *)
FetchCard == {[name |-> n, url |-> u] : n, u \in BOOLEAN}

RegisterExternalAgent(x) ==
  /\ \E found \in FetchCard : found.name /\ found.url
  /\ UpsertEntry(x, Kept(x))
  /\ UNCHANGED <<agent, card, server, proc, disturbed>>

-----------------------------------------------------------------------------
(* Discovery and invocation                                                *)

(* Agents among what a search returns, approved only.                      *)
SelectCandidates == SearchEntries \ {"server"}

(* The language model may rank them in any order, the scores give one: the *)
(* first of them that has an agent row is taken.                           *)
LlmRank(candidates) == candidates

Executable(x) == x = "agent"

RouteAndExecute(p) ==
  /\ \E x \in LlmRank(SelectCandidates) : Executable(x)
  /\ Begin(p, "invoke", "submit", {})
  /\ UNCHANGED <<agent, card, server, entry>>

(* message/send: the card is looked up, the agent's status is not.         *)
Rpc(p) ==
  /\ card = "published"
  /\ Begin(p, "invoke", "submit", {})
  /\ UNCHANGED <<agent, card, server, entry>>

(* The task is AgentTasks' from here on.                                   *)
Submit(p) ==
  /\ At(p, "submit")
  /\ Finish(p)
  /\ UNCHANGED <<agent, card, server, entry, disturbed>>

(* Governance moves the agent; neither card nor entry follows.             *)
AgentMoves ==
  /\ \E s \in {"sandbox", "pilot"} \ {agent.status} :
       agent' = [status |-> s, wasLive |-> agent.wasLive \/ s = "pilot"]
  /\ UNCHANGED <<card, server, entry, proc, disturbed>>

Crash(p) ==
  /\ Faults
  /\ ~At(p, "idle")
  /\ Disturb(Touched(p))
  /\ Finish(p)
  /\ UNCHANGED <<agent, card, server, entry>>

-----------------------------------------------------------------------------

Init ==
  /\ agent = [status |-> "sandbox", wasLive |-> FALSE]
  /\ card = "none"
  /\ server = [active |-> TRUE, status |-> "registered", catalog |-> FALSE]
  /\ entry = [x \in Subjects |-> [state |-> "absent", review |-> "discovered"]]
  /\ proc = [p \in Actors |-> Free]
  /\ disturbed = {}

Next ==
  \/ \E p \in Actors :
       \/ PublishCard(p) \/ SaveCard(p) \/ ReadCard(p) \/ ProjectAgent(p)
       \/ UnpublishCard(p) \/ WithdrawCard(p) \/ UnprojectAgent(p)
       \/ McpServerSync(p) \/ ListTools(p) \/ ProjectMcpServer(p)
       \/ McpServerDisable(p) \/ DeactivateMcpServer(p)
       \/ SyncAll(p) \/ SyncServers(p) \/ Scanning(p)
       \/ RouteAndExecute(p) \/ Rpc(p) \/ Submit(p) \/ Crash(p)
  \/ \E x \in Subjects : SetReviewStatus(x) \/ RegistryDetailDelete(x)
  \/ \E x \in Manual : RegisterExternalAgent(x)
  \/ AgentMoves

Spec == Init /\ [][Next]_vars

-----------------------------------------------------------------------------
(* Properties                                                              *)

TypeOK ==
  /\ agent \in [status : {"sandbox", "pilot"}, wasLive : BOOLEAN]
  /\ card \in AgentCard
  /\ server \in RemoteMcpServer
  /\ entry \in [Subjects -> RegistryEntry]
  /\ \A p \in Actors : /\ proc[p].copy \in RemoteMcpServer
                       /\ proc[p].review \in {"discovered", "approved", "rejected"}
                       /\ proc[p].todo \subseteq Platforms
  /\ disturbed \subseteq Subjects

(* Unless requests about it overlapped or died half-way, a source and its  *)
(* entry agree whenever no request is under way: the catalog offers only   *)
(* an agent whose card is published and a server that is enabled, and a    *)
(* published card is in the catalog.                                       *)
EntryFollowsSource ==
  LET settled == Subjects \ (disturbed \union InFlight) IN
  /\ "agent" \in settled =>
       /\ (entry["agent"].state = "active" => card = "published")
       /\ (card = "published" => entry["agent"].state # "absent")
  /\ "server" \in settled /\ entry["server"].state = "active" =>
       server.active /\ server.status = "active"

(* An agent that was never live is in no catalog, has no published card    *)
(* and is started neither by the broker nor over A2A, whatever overlaps.   *)
NeverLiveNeverFound ==
  ~agent.wasLive => /\ card # "published"
                    /\ "agent" \notin SearchEntries
                    /\ \A p \in Actors : ~At(p, "submit")

(* A re-scan never takes back what a reviewer decided, unless it was under *)
(* way when the reviewer did.                                              *)
VerdictStands ==
  [][\A x \in Subjects \ disturbed :
       entry[x].state # "absent" /\ entry[x].review # "discovered"
         => entry'[x].review # "discovered"]_vars
=============================================================================
