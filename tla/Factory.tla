------------------------------- MODULE Factory -------------------------------
(***************************************************************************)
(* The agent factory.  A process insight is scored and turned into a       *)
(* blueprint, which people edit, approve and build into a draft agent; an  *)
(* ingested package brings insight, blueprint and sandbox agent together.  *)
(* No request locks or re-reads a row: each loads a copy, checks the copy, *)
(* and saves all of it (an edit, an ingestion) or the fields it names (an  *)
(* approval, a build).  Requests overlap and may die between statements.   *)
(*                                                                         *)
(* The bindings of a new agent are in ToolAccess, its governance (here one *)
(* step out of draft) in Governance.                                       *)
(***************************************************************************)
EXTENDS Integers, FiniteSets

CONSTANTS Requests,    \* requests under way at once
          Blueprints,  \* bound: blueprints ever created
          Agents,      \* bound: agents ever created
          PackageIds,  \* bound: primary keys of the package in use at once
          Findings,    \* contents of an insight: see Finding
          Designs,     \* contents of a design: mission, tools, steps...
          Bodies,      \* bodies of an edit: see Body
          Documents    \* package documents: see Document

VARIABLES insight,    \* the ProcessInsight row: a set of at most one Finding
          blueprint,  \* the AgentBlueprint rows
          agent,      \* the agents the factory made
          package,    \* the AgentFactoryPackage row of the one package_id
          req,        \* what each request is doing
          read,       \* ghost: per blueprint, the design its approver read
          disturbed   \* ghost: blueprints whose requests overlapped or died

vars == <<insight, blueprint, agent, package, req, read, disturbed>>

-----------------------------------------------------------------------------
(* Scoring: a finding is its type, how many keywords of high impact and of *)
(* high risk its text holds, its systems, those that need a connector, and *)
(* whether it has risk notes.                                              *)

FindingType == {"automation_opportunity", "rework_pattern", "bottleneck",
                "exception", "control_gap", "other"}

Finding == [type : FindingType, impact : Nat, risks : Nat, systems : Nat,
            enterprise : BOOLEAN, notes : BOOLEAN]

Least(i, j) == IF i <= j THEN i ELSE j
Most(i, j) == IF i >= j THEN i ELSE j

AutomationFit(f) ==
  CASE f.type = "automation_opportunity" -> 9
    [] f.type \in {"rework_pattern", "bottleneck"} -> 7
    [] f.type = "exception" -> 6
    [] f.type = "control_gap" -> 5
    [] OTHER -> 4

Complexity(f) == Least(9, Most(1, 2 * f.systems))

Risk(f) == Least(10, 2 * f.risks + IF f.notes THEN 2 ELSE 1)

(* The composite, in hundredths: what round(..., 2) leaves is exact.       *)
Score(f) == 35 * Least(10, 5 + f.impact) + 35 * AutomationFit(f)
            + 20 * (10 - Complexity(f)) + 10 * (10 - Risk(f))

DeriveRiskLevel(score) ==
  CASE score <= 2 -> "low"
    [] score \in 3..5 -> "medium"
    [] score \in 6..8 -> "high"
    [] OTHER -> "blocked"

DetectMissing(f) ==
  CASE f.systems = 0 /\ f.type # "other" -> "data"
    [] f.enterprise -> "tools"
    [] OTHER -> "none"

-----------------------------------------------------------------------------
(* Rows.  The links to the insight are left out: nothing reads them, and a *)
(* save refused because the insight is gone ends the request, as Die does. *)

(* What the generators and the ingestor give a new blueprint.              *)
StatusFor(missing) ==
  CASE missing = "data" -> "needs_data"
    [] missing = "tools" -> "needs_tool"
    [] OTHER -> "draft"

NoAgent == "none"   \* the NULL of a link

AgentBlueprint == [status : {"absent", "draft", "needs_data", "needs_tool", "approved", "built"},
                   risk : {"low", "medium", "high", "blocked"}, score : 0..1000,
                   design : Designs, agent : Agents \union {NoAgent}]

(* What an edit sends; a field it does not send keeps its value.           *)
Body == [design : Designs \union {"unsent"},
         risk : {"low", "medium", "high", "blocked", "unsent"},
         missing : {"none", "tools", "data", "unsent"}]

(* A document is valid or not, permits a sandbox agent or not, and holds a *)
(* finding, a design, a risk level and what its binding plan lacks.        *)
Document == [ok : BOOLEAN, permits : BOOLEAN, finding : Findings, design : Designs,
             risk : {"low", "medium", "high", "blocked"}, missing : {"none", "tools", "data"}]

ASSUME FactoryAssumption ==
  /\ Designs # {} /\ {"none", "nobody"} \intersect Designs = {}
  /\ {"none", "package"} \intersect Blueprints = {} /\ NoAgent \notin Agents
  /\ "none" \notin PackageIds
  /\ Findings \subseteq Finding /\ Bodies \subseteq Body /\ Documents \subseteq Document

(* The row keeps the raw document (none or one of them); its boundary,     *)
(* permits, says can_build_sandbox_agent, FALSE unless it is granted.      *)
AgentFactoryPackage == [status : {"absent", "received", "invalid", "sandbox_created"},
                        id : PackageIds \union {"none"},
                        raw : SUBSET Documents, permits : BOOLEAN,
                        blueprint : Blueprints \union {"none"},
                        agent : Agents \union {NoAgent}]

Drafts == {a \in Agents : agent[a].status = "draft"}

Exists(a) == agent[a].status \in {"draft", "promoted"}

FaultyEditable(row) == row.status \in {"draft", "needs_data", "needs_tool", "approved"}

Editable(row) == row.status \in {"draft", "needs_data", "needs_tool"}

CanTransitionToApproved(row) == Editable(row)

(* A blueprint that links the agent: source_blueprints.exists().           *)
SourceBlueprints(a) == {b \in Blueprints : /\ blueprint[b].status # "absent"
                                           /\ blueprint[b].agent = a}

SourcePackages(a) == package.status # "absent" /\ package.agent = a

-----------------------------------------------------------------------------
(* Requests: the operation, its next statement, and the copies it holds.   *)

NewRow == [status |-> "absent", risk |-> "low", score |-> 0,
           design |-> CHOOSE d \in Designs : TRUE, agent |-> NoAgent]

NewPackage == [status |-> "absent", id |-> "none", raw |-> {}, permits |-> FALSE,
               blueprint |-> "none", agent |-> NoAgent]

Free == [op |-> "none", id |-> "none", row |-> NewRow, agent |-> NoAgent,
         package |-> NewPackage]

On(b) == {q \in Requests : req[q].op \in {"patch", "approve", "build", "link", "delete"}
                           /\ req[q].id = b}

Finish(r) == req' = [req EXCEPT ![r] = Free]

(* Loads blueprint b, and with it, for a deletion, a built agent that is   *)
(* still a draft; a request already on b will leave one of them stale.     *)
Load(r, b, op) ==
  /\ req[r] = Free
  /\ blueprint[b].status # "absent"
  /\ req' = [req EXCEPT ![r].op = op, ![r].id = b, ![r].row = blueprint[b],
       ![r].agent = IF op = "delete" /\ blueprint[b].agent \in Drafts
                    THEN blueprint[b].agent ELSE NoAgent]
  /\ disturbed' = IF On(b) = {} THEN disturbed ELSE disturbed \union {b}
  /\ UNCHANGED <<insight, blueprint, agent, package, read>>

-----------------------------------------------------------------------------
(* Insights and generation                                                 *)

(* POST with a known source_reference updates; PATCH edits.                *)
UpsertInsight(f) ==
  /\ insight' = {f}
  /\ UNCHANGED <<blueprint, agent, package, req, read, disturbed>>

(* Its blueprints and packages stay, without the link.                     *)
DeleteInsight ==
  /\ insight # {}
  /\ insight' = {}
  /\ UNCHANGED <<blueprint, agent, package, req, read, disturbed>>

NewBlueprint(b, f, design, risk, missing) ==
  /\ blueprint[b].status = "absent"
  /\ read[b] = "none"
  /\ blueprint' = [blueprint EXCEPT ![b] =
       [status |-> StatusFor(missing), risk |-> risk, score |-> Score(f),
        design |-> design, agent |-> NoAgent]]
  /\ read' = [read EXCEPT ![b] = "nobody"]

(* The model's design replaces the derived one field by field, where it    *)
(* has a field of the right shape; no answer leaves the derived one.       *)
DeriveDesign(derived, answer) == IF answer = {} THEN derived ELSE CHOOSE d \in answer : TRUE

Generate(b) ==
  /\ \E f \in insight, derived \in Designs, answer \in {{}} \union {{d} : d \in Designs} :
       NewBlueprint(b, f, DeriveDesign(derived, answer), DeriveRiskLevel(Risk(f)),
                    DetectMissing(f))
  /\ UNCHANGED <<insight, agent, package, req, disturbed>>

-----------------------------------------------------------------------------
(* Editing, approving and deleting a blueprint                             *)

LoadPatch(r, b) == Editable(blueprint[b]) /\ Load(r, b, "patch")

(* save() writes every column of the copy, and inserts it when the row has *)
(* been deleted; the status follows the missing lists only if the body has *)
(* them.                                                                   *)
SavePatch(r) ==
  /\ req[r].op = "patch"
  /\ \E body \in Bodies :
       blueprint' = [blueprint EXCEPT ![req[r].id] =
         [req[r].row EXCEPT
            !.design = IF body.design = "unsent" THEN @ ELSE body.design,
            !.risk = IF body.risk = "unsent" THEN @ ELSE body.risk,
            !.status = IF body.missing = "unsent" THEN @ ELSE StatusFor(body.missing)]]
  /\ Finish(r)
  /\ UNCHANGED <<insight, agent, package, read, disturbed>>

(* A blocked blueprint can be approved, and is refused only at the build.  *)
LoadApprove(r, b) == CanTransitionToApproved(blueprint[b]) /\ Load(r, b, "approve")

(* update_fields: the design stays as it is now, and a deleted row fails.  *)
SaveApprove(r) ==
  /\ req[r].op = "approve"
  /\ LET b == req[r].id
         found == blueprint[b].status # "absent" IN
       /\ blueprint' = IF found THEN [blueprint EXCEPT ![b].status = "approved"] ELSE blueprint
       /\ read' = IF found THEN [read EXCEPT ![b] = req[r].row.design] ELSE read
  /\ Finish(r)
  /\ UNCHANGED <<insight, agent, package, disturbed>>

LoadDelete(r, b) == Load(r, b, "delete")

(* The built agent goes with its last source, if the copy says draft; a    *)
(* package forgets the blueprint.                                          *)
DeleteBlueprint(r) ==
  /\ req[r].op = "delete"
  /\ LET b == req[r].id
         a == req[r].agent IN
       /\ blueprint' = [blueprint EXCEPT ![b] = NewRow]
       /\ package' = [package EXCEPT !.blueprint = IF @ = b THEN "none" ELSE @]
       /\ agent' = IF a # NoAgent /\ SourceBlueprints(a) \subseteq {b} /\ ~SourcePackages(a)
                   THEN [agent EXCEPT ![a].status = "deleted"] ELSE agent
  /\ Finish(r)
  /\ UNCHANGED <<insight, read, disturbed>>

(* PATCH and DELETE of one blueprint.                                      *)
BlueprintDetail == \E r \in Requests :
  \/ \E b \in Blueprints : LoadPatch(r, b) \/ LoadDelete(r, b)
  \/ SavePatch(r) \/ DeleteBlueprint(r)

-----------------------------------------------------------------------------
(* Building                                                                *)

NewAgent(a, b, design) ==
  /\ agent[a].status = "absent"
  /\ agent' = [agent EXCEPT ![a] = [status |-> "draft", design |-> design, of |-> b]]

Buildable(row) == row.status = "approved" /\ row.risk # "blocked"

LoadBuild(r, b) == Buildable(blueprint[b]) /\ Load(r, b, "build")

(* The agent, its bindings and its tool names.                             *)
BuildAgent(r, a) ==
  /\ req[r].op = "build"
  /\ NewAgent(a, req[r].id, req[r].row.design)
  /\ req' = [req EXCEPT ![r].op = "link", ![r].agent = a]
  /\ UNCHANGED <<insight, blueprint, package, read, disturbed>>

(* update_fields again; a deleted row or a deleted agent fails.            *)
LinkAgent(r) ==
  /\ req[r].op = "link"
  /\ LET b == req[r].id
         found == blueprint[b].status # "absent" /\ Exists(req[r].agent) IN
       /\ blueprint' = IF found THEN [blueprint EXCEPT ![b].status = "built",
                                                       ![b].agent = req[r].agent]
                       ELSE blueprint
       /\ disturbed' = IF found THEN disturbed ELSE disturbed \union {b}
  /\ Finish(r)
  /\ UNCHANGED <<insight, agent, package, read>>

(* Governance moves the agent on.                                          *)
PromoteAgent(a) ==
  /\ agent[a].status = "draft"
  /\ agent' = [agent EXCEPT ![a].status = "promoted"]
  /\ UNCHANGED <<insight, blueprint, package, req, read, disturbed>>

(* The catalogue deletes only drafts no blueprint names; a package may.    *)
LoadAgent(r, a) ==
  /\ req[r] = Free
  /\ agent[a].status = "draft"
  /\ SourceBlueprints(a) = {}
  /\ req' = [req EXCEPT ![r].op = "delete_agent", ![r].agent = a]
  /\ UNCHANGED <<insight, blueprint, agent, package, read, disturbed>>

(* SET_NULL: the package, and a blueprint that has linked it meanwhile,    *)
(* keep their status without the link.                                     *)
DeleteAgent(r) ==
  /\ req[r].op = "delete_agent"
  /\ LET a == req[r].agent IN
       /\ agent' = [agent EXCEPT ![a].status = "deleted"]
       /\ package' = [package EXCEPT !.agent = IF @ = a THEN NoAgent ELSE @]
       /\ blueprint' = [b \in Blueprints |->
            IF b \in SourceBlueprints(a) THEN [blueprint[b] EXCEPT !.agent = NoAgent]
            ELSE blueprint[b]]
       /\ disturbed' = disturbed \union SourceBlueprints(a)
  /\ Finish(r)
  /\ UNCHANGED <<insight, read>>

-----------------------------------------------------------------------------
(* Ingesting a package                                                     *)

(* update_or_create keeps the key of the row, or takes a new one.          *)
PackageId ==
  IF package.status # "absent" THEN {package.id}
  ELSE PackageIds \ {req[r].package.id : r \in Requests}

(* The row starts over; what it links from an earlier ingestion stays      *)
(* linked.                                                                 *)
PersistPackage(r, doc) ==
  /\ req[r] = Free
  /\ doc.ok
  /\ \E i \in PackageId :
       package' = [package EXCEPT !.id = i, !.raw = {doc}, !.permits = doc.permits,
                                  !.status = "received"]
  /\ req' = [req EXCEPT ![r].op = "ingest_blueprint", ![r].package = package']
  /\ UNCHANGED <<insight, blueprint, agent, read, disturbed>>

(* The document, the report and the status: boundary and links stay.       *)
PersistInvalid(doc) ==
  /\ ~doc.ok
  /\ \E i \in PackageId :
       package' = [package EXCEPT !.id = i, !.raw = {doc}, !.status = "invalid"]
  /\ UNCHANGED <<insight, blueprint, agent, req, read, disturbed>>

(* The insight is upserted, the blueprint is always a new one.             *)
IngestBlueprint(r, b) ==
  /\ req[r].op = "ingest_blueprint"
  /\ \E doc \in req[r].package.raw :
       /\ insight' = {doc.finding}
       /\ NewBlueprint(b, doc.finding, doc.design, doc.risk, doc.missing)
  /\ req' = [req EXCEPT ![r].op = "ingest_agent", ![r].package.blueprint = b]
  /\ UNCHANGED <<agent, package, disturbed>>

(* A new sandbox agent, its bindings and its evaluation suite.             *)
IngestAgent(r, a) ==
  /\ req[r].op = "ingest_agent"
  /\ req[r].package.permits
  /\ \E doc \in req[r].package.raw : NewAgent(a, "package", doc.design)
  /\ req' = [req EXCEPT ![r].op = "save_package", ![r].package.agent = a,
                        ![r].package.status = "sandbox_created"]
  /\ UNCHANGED <<insight, blueprint, package, read, disturbed>>

IngestWithoutAgent(r) ==
  /\ req[r].op = "ingest_agent"
  /\ ~req[r].package.permits
  /\ req' = [req EXCEPT ![r].op = "save_package"]
  /\ UNCHANGED <<insight, blueprint, agent, package, read, disturbed>>

(* The database refuses a link to a row deleted meanwhile, and a second    *)
(* row with the package_id.                                                *)
Saves(copy) ==
  /\ blueprint[copy.blueprint].status # "absent"
  /\ copy.agent = NoAgent \/ Exists(copy.agent)
  /\ package.status = "absent" \/ package.id = copy.id

FaultySavePackage(r) ==
  /\ req[r].op = "save_package"
  /\ LET copy == req[r].package IN
       package' = IF Saves(copy)
                  THEN [package EXCEPT !.status = copy.status, !.blueprint = copy.blueprint,
                                       !.agent = copy.agent]
                  ELSE package
  /\ Finish(r)
  /\ UNCHANGED <<insight, blueprint, agent, read, disturbed>>

(* package.save() writes the whole copy, and inserts it again when the row *)
(* has been deleted.                                                       *)
SavePackage(r) ==
  /\ req[r].op = "save_package"
  /\ package' = IF Saves(req[r].package) THEN req[r].package ELSE package
  /\ Finish(r)
  /\ UNCHANGED <<insight, blueprint, agent, read, disturbed>>

(* The handler of POST: validate, persist, then the rows one by one.       *)
Ingest ==
  \/ \E doc \in Documents : PersistInvalid(doc) \/ \E r \in Requests : PersistPackage(r, doc)
  \/ \E r \in Requests : \/ \E b \in Blueprints : IngestBlueprint(r, b)
                         \/ \E a \in Agents : IngestAgent(r, a)
                         \/ IngestWithoutAgent(r) \/ SavePackage(r)

DeletePackage ==
  /\ package.status # "absent"
  /\ package' = NewPackage
  /\ UNCHANGED <<insight, blueprint, agent, req, read, disturbed>>

(* The worker process of a request ends between two statements.            *)
Die(r) ==
  /\ req[r] # Free
  /\ Finish(r)
  /\ disturbed' = IF req[r].op = "link" THEN disturbed \union {req[r].id} ELSE disturbed
  /\ UNCHANGED <<insight, blueprint, agent, package, read>>

-----------------------------------------------------------------------------
Init ==
  /\ insight = {}
  /\ blueprint = [b \in Blueprints |-> NewRow]
  /\ agent = [a \in Agents |-> [status |-> "absent", design |-> NewRow.design, of |-> "none"]]
  /\ package = NewPackage
  /\ req = [r \in Requests |-> Free]
  /\ read = [b \in Blueprints |-> "none"]
  /\ disturbed = {}

Next ==
  \/ \E f \in Findings : UpsertInsight(f)
  \/ DeleteInsight
  \/ \E b \in Blueprints : Generate(b)
  \/ \E r \in Requests, b \in Blueprints : LoadApprove(r, b) \/ LoadBuild(r, b)
  \/ BlueprintDetail
  \/ \E r \in Requests : SaveApprove(r) \/ LinkAgent(r) \/ DeleteAgent(r) \/ Die(r)
  \/ \E r \in Requests, a \in Agents : BuildAgent(r, a) \/ LoadAgent(r, a)
  \/ \E a \in Agents : PromoteAgent(a)
  \/ Ingest \/ DeletePackage

Spec == Init /\ [][Next]_vars

-----------------------------------------------------------------------------
(* Properties                                                              *)

(* The values the rows and the requests' copies take: the columns of the   *)
(* factory's models.                                                       *)
TypeOK ==
  /\ insight \subseteq Findings
  /\ blueprint \in [Blueprints -> AgentBlueprint]
  /\ agent \in [Agents -> [status : {"absent", "draft", "promoted", "deleted"},
                           design : Designs, of : Blueprints \union {"none", "package"}]]
  /\ package \in AgentFactoryPackage
  /\ req \in [Requests ->
       [op : {"none", "patch", "approve", "build", "link", "delete", "delete_agent",
              "ingest_blueprint", "ingest_agent", "save_package"},
        id : Blueprints \union {"none"}, row : AgentBlueprint,
        agent : Agents \union {NoAgent}, package : AgentFactoryPackage]]
  /\ read \in [Blueprints -> Designs \union {"none", "nobody"}]
  /\ disturbed \subseteq Blueprints

(* Across the separate requests that edit, approve and build a blueprint,  *)
(* as long as no two of them overlapped and none died, what is approved    *)
(* is what its approver read, and at most one agent was built from it, of  *)
(* that very design.                                                       *)
BuiltAsApproved ==
  \A b \in Blueprints \ disturbed :
    /\ blueprint[b].status \in {"approved", "built"} => blueprint[b].design = read[b]
    /\ \A a, c \in {x \in Agents : agent[x].of = b} :
         /\ a = c
         /\ \/ \E r \in Requests : req[r].op = "link" /\ req[r].agent = a
            \/ blueprint[b].status = "absent"
            \/ blueprint[b].agent = a /\ agent[a].design = read[b]

(* A package that says its sandbox agent was created keeps the document    *)
(* that permits one; the agent it names, unless that has been deleted      *)
(* since, is the one made from this very document, whatever ingestions of  *)
(* the same package overlap, die half way or run into deletions.           *)
SandboxPermitted ==
  package.status = "sandbox_created" =>
    \E doc \in package.raw :
      /\ doc.ok /\ doc.permits /\ package.permits
      /\ package.agent # NoAgent =>
           agent[package.agent].of = "package" /\ agent[package.agent].design = doc.design

=============================================================================
