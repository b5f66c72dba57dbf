---------------------------- MODULE FactoryProofs ----------------------------
(* Theorems about Factory, for every number of requests, blueprints and    *)
(* agents, and whatever documents and edits are sent.                      *)
EXTENDS Factory, TLAPS

USE DEF vars

-----------------------------------------------------------------------------
(* Scores stay on their scale                                              *)

LEMMA ScoreInRange ==
  ASSUME NEW f \in Finding
  PROVE  Score(f) \in 0..1000
<1>1. /\ f.impact \in Nat /\ f.risks \in Nat /\ f.systems \in Nat
      /\ f.notes \in BOOLEAN
  BY DEF Finding
<1>2. AutomationFit(f) \in {4, 5, 6, 7, 9}  BY DEF AutomationFit
<1>3. Complexity(f) \in 1..9  BY <1>1 DEF Complexity, Least, Most
<1>4. Risk(f) \in 0..10  BY <1>1 DEF Risk, Least
<1>5. Least(10, 5 + f.impact) \in 5..10  BY <1>1 DEF Least
<1> QED BY <1>2, <1>3, <1>4, <1>5 DEF Score

-----------------------------------------------------------------------------
(* Type correctness, one group of variables at a time                      *)

AgentRow == [status : {"absent", "draft", "promoted", "deleted"},
             design : Designs, of : Blueprints \union {"none", "package"}]

RequestState ==
  [op : {"none", "patch", "approve", "build", "link", "delete", "delete_agent",
         "ingest_blueprint", "ingest_agent", "save_package"},
   id : Blueprints \union {"none"}, row : AgentBlueprint,
   agent : Agents \union {NoAgent}, package : AgentFactoryPackage]

OnABlueprint == {"patch", "approve", "build", "link", "delete"}

RowsType ==
  /\ blueprint \in [Blueprints -> AgentBlueprint]
  /\ agent \in [Agents -> AgentRow]
  /\ package \in AgentFactoryPackage
GhostType ==
  /\ insight \subseteq Findings
  /\ read \in [Blueprints -> Designs \union {"none", "nobody"}]
  /\ disturbed \subseteq Blueprints
(* A request on a blueprint names one.                                     *)
RequestType ==
  /\ req \in [Requests -> RequestState]
  /\ \A r \in Requests : req[r].op \in OnABlueprint => req[r].id \in Blueprints

Typed == RowsType /\ GhostType /\ RequestType

LEMMA TypedIsTypeOK == Typed => TypeOK
  BY DEF Typed, TypeOK, RowsType, GhostType, RequestType, AgentRow, RequestState

LEMMA NewRowType == NewRow \in AgentBlueprint
<1>1. (CHOOSE d \in Designs : TRUE) \in Designs  BY FactoryAssumption
<1> QED BY <1>1 DEF NewRow, AgentBlueprint

LEMMA StatusSet ==
  ASSUME NEW row \in AgentBlueprint,
         NEW state \in {"absent", "draft", "needs_data", "needs_tool", "approved", "built"},
         NEW a \in Agents \union {NoAgent}
  PROVE  /\ [row EXCEPT !.status = state] \in AgentBlueprint
         /\ [row EXCEPT !.status = state, !.agent = a] \in AgentBlueprint
<1>1. [row EXCEPT !.status = state] \in AgentBlueprint
  BY DEF AgentBlueprint
<1>2. [row EXCEPT !.status = state, !.agent = a] \in AgentBlueprint
  BY DEF AgentBlueprint
<1> QED BY <1>1, <1>2

LEMMA NewPackageType == NewPackage \in AgentFactoryPackage
  BY DEF NewPackage, AgentFactoryPackage

LEMMA FreeType == Free \in RequestState
  BY NewRowType, NewPackageType DEF Free, RequestState

LEMMA InitType == Init => Typed
<1> SUFFICES ASSUME Init PROVE RowsType /\ GhostType /\ RequestType
  BY DEF Typed
<1>1. NewRow.design \in Designs  BY NewRowType DEF AgentBlueprint
<1>2. agent \in [Agents -> AgentRow]  BY <1>1 DEF Init, AgentRow
<1>3. RowsType  BY <1>2, NewRowType, NewPackageType DEF Init, RowsType
<1>4. GhostType  BY DEF Init, GhostType
<1>5. RequestType  BY FreeType DEF Init, RequestType, Free, OnABlueprint
<1> QED BY <1>3, <1>4, <1>5

(* A new blueprint is well formed.                                         *)
LEMMA NewBlueprintType ==
  ASSUME RowsType, GhostType, NEW b \in Blueprints, NEW f \in Findings, NEW design \in Designs,
         NEW risk \in {"low", "medium", "high", "blocked"}, NEW missing,
         NewBlueprint(b, f, design, risk, missing)
  PROVE  /\ blueprint' \in [Blueprints -> AgentBlueprint]
         /\ read' \in [Blueprints -> Designs \union {"none", "nobody"}]
<1>1. StatusFor(missing) \in {"draft", "needs_data", "needs_tool"}  BY DEF StatusFor
<1>2. Score(f) \in 0..1000  BY ScoreInRange, FactoryAssumption
<1>3. [status |-> StatusFor(missing), risk |-> risk, score |-> Score(f),
       design |-> design, agent |-> NoAgent] \in AgentBlueprint
  BY <1>1, <1>2 DEF AgentBlueprint
<1>4. blueprint' \in [Blueprints -> AgentBlueprint]
  BY <1>3 DEF NewBlueprint, RowsType
<1>5. read' \in [Blueprints -> Designs \union {"none", "nobody"}]
  BY DEF NewBlueprint, GhostType
<1> QED BY <1>4, <1>5

(* So is a new agent.                                                      *)
LEMMA NewAgentType ==
  ASSUME RowsType, NEW a \in Agents, NEW b \in Blueprints \union {"package"}, NEW design \in Designs,
         NewAgent(a, b, design)
  PROVE  agent' \in [Agents -> AgentRow]
  BY DEF NewAgent, RowsType, AgentRow

LEMMA FinishType ==
  ASSUME RequestType, NEW r \in Requests, Finish(r)
  PROVE  RequestType'
<1>1. req' \in [Requests -> RequestState]  BY FreeType DEF Finish, RequestType
<1>2. Free.op \notin OnABlueprint  BY DEF Free, OnABlueprint
<1> QED BY <1>1, <1>2 DEF Finish, RequestType

LEMMA LoadType ==
  ASSUME Typed, NEW r \in Requests, NEW b \in Blueprints,
         NEW op \in {"patch", "approve", "build", "delete"}, Load(r, b, op)
  PROVE  Typed'
<1>0. RowsType /\ GhostType /\ RequestType  BY DEF Typed
<1>1. RowsType'  BY <1>0 DEF Load, RowsType
<1>2. GhostType'  BY <1>0 DEF Load, GhostType
<1>3. RequestType'
  <2>1. blueprint[b] \in AgentBlueprint  BY <1>0 DEF RowsType
  <2> DEFINE a == IF op = "delete" /\ blueprint[b].agent \in Drafts
                  THEN blueprint[b].agent ELSE NoAgent
  <2>2. a \in Agents \union {NoAgent}  BY DEF Drafts
  <2>3. req[r] \in RequestState  BY <1>0 DEF RequestType
  <2>4. [req[r] EXCEPT !.op = op, !.id = b, !.row = blueprint[b], !.agent = a] \in RequestState
    <3> HIDE DEF a
    <3> QED BY <2>1, <2>2, <2>3 DEF RequestState
  <2>5. req' = [req EXCEPT ![r] = [req[r] EXCEPT !.op = op, !.id = b, !.row = blueprint[b], !.agent = a]]
    BY <1>0 DEF Load, RequestType
  <2>6. req' \in [Requests -> RequestState]  BY <1>0, <2>4, <2>5 DEF RequestType
  <2>7. req'[r].id = b  BY <1>0, <2>3, <2>5 DEF RequestType, RequestState
  <2>8. \A q \in Requests \ {r} : req'[q] = req[q]  BY <1>0, <2>5 DEF RequestType
  <2> QED BY <1>0, <2>6, <2>7, <2>8 DEF RequestType
<1> QED BY <1>1, <1>2, <1>3 DEF Typed

(* A request that leaves the rows alone but for one of them.               *)
LEMMA SavePatchType ==
  ASSUME Typed, NEW r \in Requests, SavePatch(r)
  PROVE  Typed'
<1>0. RowsType /\ GhostType /\ RequestType  BY DEF Typed
<1>1. RequestType'  BY <1>0, FinishType DEF SavePatch
<1>2. PICK body \in Bodies :
        blueprint' = [blueprint EXCEPT ![req[r].id] =
         [req[r].row EXCEPT
            !.design = IF body.design = "unsent" THEN @ ELSE body.design,
            !.risk = IF body.risk = "unsent" THEN @ ELSE body.risk,
            !.status = IF body.missing = "unsent" THEN @ ELSE StatusFor(body.missing)]]
  BY DEF SavePatch
<1> DEFINE row == req[r].row
           design == IF body.design = "unsent" THEN row.design ELSE body.design
           risk == IF body.risk = "unsent" THEN row.risk ELSE body.risk
           state == IF body.missing = "unsent" THEN row.status ELSE StatusFor(body.missing)
<1>3. row \in AgentBlueprint  BY <1>0 DEF RequestType, RequestState
<1>4. body \in Body  BY FactoryAssumption
<1>5. design \in Designs /\ risk \in {"low", "medium", "high", "blocked"}
  BY <1>3, <1>4 DEF AgentBlueprint, Body
<1>6. state \in {"absent", "draft", "needs_data", "needs_tool", "approved", "built"}
  BY <1>3 DEF AgentBlueprint, StatusFor
<1>7. blueprint' = [blueprint EXCEPT ![req[r].id] =
                     [row EXCEPT !.design = design, !.risk = risk, !.status = state]]
  BY <1>2
<1>8. [row EXCEPT !.design = design, !.risk = risk, !.status = state] \in AgentBlueprint
  <2> HIDE DEF row, design, risk, state
  <2> QED BY <1>3, <1>5, <1>6 DEF AgentBlueprint
<1>9. RowsType'
  <2>1. blueprint' \in [Blueprints -> AgentBlueprint]
    <3> HIDE DEF row, design, risk, state
    <3> QED BY <1>0, <1>7, <1>8 DEF RowsType
  <2>2. UNCHANGED <<agent, package>>  BY DEF SavePatch
  <2> QED BY <1>0, <2>1, <2>2 DEF RowsType
<1>10. GhostType'  BY <1>0 DEF GhostType, SavePatch
<1> QED BY <1>1, <1>9, <1>10 DEF Typed

LEMMA BlueprintType ==
  ASSUME Typed, NEW r \in Requests,
         SaveApprove(r) \/ DeleteBlueprint(r) \/ LinkAgent(r)
  PROVE  Typed'
<1>0. RowsType /\ GhostType /\ RequestType  BY DEF Typed
<1>1. RequestType'  BY <1>0, FinishType DEF SaveApprove, DeleteBlueprint, LinkAgent
<1>2. /\ req[r].row \in AgentBlueprint /\ req[r].agent \in Agents \union {NoAgent}
      /\ req[r].id \in Blueprints \union {"none"}
  BY <1>0 DEF RequestType, RequestState
<1>3. CASE SaveApprove(r)
  <2> DEFINE found == blueprint[req[r].id].status # "absent"
  <2>1. /\ blueprint' = IF found THEN [blueprint EXCEPT ![req[r].id].status = "approved"] ELSE blueprint
        /\ read' = IF found THEN [read EXCEPT ![req[r].id] = req[r].row.design] ELSE read
    BY <1>3 DEF SaveApprove
  <2>2. req[r].row.design \in Designs  BY <1>2 DEF AgentBlueprint
  <2>3. blueprint' \in [Blueprints -> AgentBlueprint]
    <3>1. CASE ~found  BY <1>0, <2>1, <3>1 DEF RowsType
    <3>2. CASE found
      <4>1. req[r].id \in Blueprints  BY <1>0, <1>3 DEF RequestType, OnABlueprint, SaveApprove
      <4>2. [blueprint[req[r].id] EXCEPT !.status = "approved"] \in AgentBlueprint
        BY <1>0, <4>1, StatusSet DEF RowsType
      <4>3. blueprint' = [blueprint EXCEPT ![req[r].id] =
                           [blueprint[req[r].id] EXCEPT !.status = "approved"]]
        BY <1>0, <2>1, <3>2, <4>1
      <4> QED BY <1>0, <4>2, <4>3 DEF RowsType
    <3> QED BY <3>1, <3>2
  <2>4. read' \in [Blueprints -> Designs \union {"none", "nobody"}]
    <3> HIDE DEF found
    <3> QED BY <1>0, <2>1, <2>2 DEF GhostType
  <2>5. RowsType' /\ GhostType'  BY <1>0, <1>3, <2>3, <2>4 DEF RowsType, GhostType, SaveApprove
  <2> QED BY <1>1, <2>5 DEF Typed
<1>4. CASE DeleteBlueprint(r)
  <2>1. blueprint' \in [Blueprints -> AgentBlueprint]
    BY <1>0, <1>4, NewRowType DEF RowsType, DeleteBlueprint
  <2>2. agent' \in [Agents -> AgentRow]  BY <1>0, <1>4 DEF RowsType, DeleteBlueprint, AgentRow
  <2>3. package' \in AgentFactoryPackage
    BY <1>0, <1>4 DEF RowsType, DeleteBlueprint, AgentFactoryPackage
  <2>4. RowsType' /\ GhostType'
    BY <1>0, <1>4, <2>1, <2>2, <2>3 DEF RowsType, GhostType, DeleteBlueprint
  <2> QED BY <1>1, <2>4 DEF Typed
<1>5. CASE LinkAgent(r)
  <2> DEFINE found == blueprint[req[r].id].status # "absent" /\ Exists(req[r].agent)
  <2>1. /\ blueprint' = IF found THEN [blueprint EXCEPT ![req[r].id].status = "built",
                                                        ![req[r].id].agent = req[r].agent]
                         ELSE blueprint
        /\ disturbed' = IF found THEN disturbed ELSE disturbed \union {req[r].id}
        /\ UNCHANGED <<insight, agent, package, read>>
    BY <1>5 DEF LinkAgent
  <2>2. req[r].id \in Blueprints  BY <1>0, <1>5 DEF RequestType, OnABlueprint, LinkAgent
  <2>3. blueprint' \in [Blueprints -> AgentBlueprint]
    <3>1. CASE ~found  BY <1>0, <2>1, <3>1 DEF RowsType
    <3>2. CASE found
      <4>1. [blueprint[req[r].id] EXCEPT !.status = "built", !.agent = req[r].agent] \in AgentBlueprint
        BY <1>0, <1>2, <2>2, StatusSet DEF RowsType
      <4>2. blueprint' = [blueprint EXCEPT ![req[r].id] =
              [blueprint[req[r].id] EXCEPT !.status = "built", !.agent = req[r].agent]]
        BY <1>0, <2>1, <2>2, <3>2 DEF RowsType
      <4> QED BY <1>0, <4>1, <4>2 DEF RowsType
    <3> QED BY <3>1, <3>2
  <2>4. RowsType'  BY <1>0, <2>1, <2>3 DEF RowsType
  <2>5. GhostType'
    <3> HIDE DEF found
    <3> QED BY <1>0, <2>1, <2>2 DEF GhostType
  <2> QED BY <1>1, <2>4, <2>5 DEF Typed
<1> QED BY <1>3, <1>4, <1>5

LEMMA AgentStepType ==
  ASSUME Typed, NEW a \in Agents,
         (\E r \in Requests : BuildAgent(r, a) \/ LoadAgent(r, a)) \/ PromoteAgent(a)
  PROVE  Typed'
<1>0. RowsType /\ GhostType /\ RequestType  BY DEF Typed
<1>1. ASSUME NEW r \in Requests, BuildAgent(r, a) PROVE Typed'
  <2>1. req[r] \in RequestState /\ req[r].id \in Blueprints
    BY <1>0, <1>1 DEF RequestType, OnABlueprint, BuildAgent
  <2>2. req[r].row.design \in Designs  BY <2>1 DEF RequestState, AgentBlueprint
  <2>3. agent' \in [Agents -> AgentRow]  BY <1>0, <1>1, <2>1, <2>2, NewAgentType DEF BuildAgent
  <2>4. RowsType' /\ GhostType'  BY <1>0, <1>1, <2>3 DEF RowsType, GhostType, BuildAgent
  <2>5. req' = [req EXCEPT ![r] = [req[r] EXCEPT !.op = "link", !.agent = a]]
    BY <1>0, <1>1 DEF BuildAgent, RequestType
  <2>6. [req[r] EXCEPT !.op = "link", !.agent = a] \in RequestState  BY <2>1 DEF RequestState
  <2>7. [req[r] EXCEPT !.op = "link", !.agent = a].id = req[r].id  BY <2>1 DEF RequestState
  <2>8. RequestType'  BY <1>0, <2>1, <2>5, <2>6, <2>7 DEF RequestType
  <2> QED BY <2>4, <2>8 DEF Typed
<1>2. CASE PromoteAgent(a)
  <2>1. agent' \in [Agents -> AgentRow]  BY <1>0, <1>2 DEF RowsType, PromoteAgent, AgentRow
  <2>2. RowsType' /\ GhostType' /\ RequestType'
    BY <1>0, <1>2, <2>1 DEF RowsType, GhostType, RequestType, PromoteAgent
  <2> QED BY <2>2 DEF Typed
<1>3. ASSUME NEW r \in Requests, LoadAgent(r, a) PROVE Typed'
  <2> DEFINE state == [Free EXCEPT !.op = "delete_agent", !.agent = a]
  <2>1. state \in RequestState /\ state.op = "delete_agent"  BY FreeType DEF RequestState
  <2>2. req' = [req EXCEPT ![r] = state]  BY <1>0, <1>3 DEF LoadAgent, RequestType
  <2>3. RequestType'
    <3> HIDE DEF state
    <3> QED BY <1>0, <2>1, <2>2 DEF RequestType, OnABlueprint
  <2> QED BY <1>0, <1>3, <2>3 DEF Typed, RowsType, GhostType, LoadAgent
<1> QED BY <1>1, <1>2, <1>3

LEMMA DeleteAgentType ==
  ASSUME Typed, NEW r \in Requests, DeleteAgent(r)
  PROVE  Typed'
<1>0. RowsType /\ GhostType /\ RequestType  BY DEF Typed
<1>1. RequestType'  BY <1>0, FinishType DEF DeleteAgent
<1>2. agent' \in [Agents -> AgentRow]  BY <1>0 DEF RowsType, DeleteAgent, AgentRow
<1>3. package' \in AgentFactoryPackage
  BY <1>0 DEF RowsType, DeleteAgent, AgentFactoryPackage
<1>4. blueprint' \in [Blueprints -> AgentBlueprint]
  <2>1. \A b \in Blueprints : [blueprint[b] EXCEPT !.agent = NoAgent] \in AgentBlueprint
    BY <1>0 DEF RowsType, AgentBlueprint
  <2> QED BY <1>0, <2>1 DEF RowsType, DeleteAgent
<1>5. SourceBlueprints(req[r].agent) \subseteq Blueprints  BY DEF SourceBlueprints
<1>6. RowsType' /\ GhostType'
  BY <1>0, <1>2, <1>3, <1>4, <1>5 DEF RowsType, GhostType, DeleteAgent
<1> QED BY <1>1, <1>6 DEF Typed

LEMMA InsightType ==
  ASSUME Typed,
         \/ \E f \in Findings : UpsertInsight(f)
         \/ DeleteInsight
         \/ \E b \in Blueprints : Generate(b)
  PROVE  Typed'
<1>0. RowsType /\ GhostType /\ RequestType  BY DEF Typed
<1>1. CASE \E f \in Findings : UpsertInsight(f)
  BY <1>0, <1>1 DEF Typed, RowsType, GhostType, RequestType, UpsertInsight
<1>2. CASE DeleteInsight
  BY <1>0, <1>2 DEF Typed, RowsType, GhostType, RequestType, DeleteInsight
<1>3. ASSUME NEW b \in Blueprints, Generate(b) PROVE Typed'
  <2>1. PICK f \in insight, derived \in Designs, answer \in {{}} \union {{d} : d \in Designs} :
          NewBlueprint(b, f, DeriveDesign(derived, answer), DeriveRiskLevel(Risk(f)), DetectMissing(f))
    BY <1>3 DEF Generate
  <2>2. DeriveDesign(derived, answer) \in Designs  BY DEF DeriveDesign
  <2>3. DeriveRiskLevel(Risk(f)) \in {"low", "medium", "high", "blocked"}  BY DEF DeriveRiskLevel
  <2>4. f \in Findings  BY <1>0 DEF GhostType
  <2>5. /\ blueprint' \in [Blueprints -> AgentBlueprint]
        /\ read' \in [Blueprints -> Designs \union {"none", "nobody"}]
    BY <1>0, <2>1, <2>2, <2>3, <2>4, NewBlueprintType
  <2> QED BY <1>0, <1>3, <2>5 DEF Typed, RowsType, GhostType, RequestType, Generate
<1> QED BY <1>1, <1>2, <1>3

(* The request of an ingestion takes its next step.                        *)
LEMMA IngestRequestType ==
  ASSUME RequestType, NEW r \in Requests, NEW state \in RequestState,
         state.op \in {"ingest_blueprint", "ingest_agent", "save_package"},
         req' = [req EXCEPT ![r] = state]
  PROVE  RequestType'
  BY DEF RequestType, OnABlueprint

LEMMA PackageIdType == RowsType => PackageId \subseteq PackageIds \union {"none"}
  BY DEF RowsType, AgentFactoryPackage, PackageId

LEMMA IngestType ==
  ASSUME Typed, Ingest \/ DeletePackage
  PROVE  Typed'
<1>0. RowsType /\ GhostType /\ RequestType  BY DEF Typed
<1>1. CASE DeletePackage
  BY <1>0, <1>1, NewPackageType DEF Typed, RowsType, GhostType, RequestType, DeletePackage
<1>2. ASSUME NEW doc \in Documents, PersistInvalid(doc) PROVE Typed'
  <2>1. package' \in AgentFactoryPackage
    <3>1. PICK i \in PackageId : package' = [package EXCEPT !.id = i, !.raw = {doc}, !.status = "invalid"]
      BY <1>2 DEF PersistInvalid
    <3>2. i \in PackageIds \union {"none"}  BY <1>0, PackageIdType
    <3>3. {doc} \in SUBSET Documents  OBVIOUS
    <3> QED BY <1>0, <3>1, <3>2, <3>3 DEF RowsType, AgentFactoryPackage
  <2> QED BY <1>0, <1>2, <2>1 DEF Typed, RowsType, GhostType, RequestType, PersistInvalid
<1>3. ASSUME NEW doc \in Documents, NEW r \in Requests, PersistPackage(r, doc) PROVE Typed'
  <2>1. doc.permits \in BOOLEAN  BY FactoryAssumption DEF Document
  <2>2. package' \in AgentFactoryPackage
    <3>1. PICK i \in PackageId : package' =
            [package EXCEPT !.id = i, !.raw = {doc}, !.permits = doc.permits, !.status = "received"]
      BY <1>3 DEF PersistPackage
    <3>2. i \in PackageIds \union {"none"}  BY <1>0, PackageIdType
    <3>3. {doc} \in SUBSET Documents  OBVIOUS
    <3> QED BY <1>0, <2>1, <3>1, <3>2, <3>3 DEF RowsType, AgentFactoryPackage
  <2> DEFINE state == [Free EXCEPT !.op = "ingest_blueprint", !.package = package']
  <2>3. state \in RequestState  BY <2>2, FreeType DEF RequestState
  <2>4. req' = [req EXCEPT ![r] = state]  BY <1>0, <1>3 DEF PersistPackage, RequestType
  <2>5. state.op = "ingest_blueprint"  BY FreeType DEF RequestState
  <2>6. RequestType'
    <3> HIDE DEF state
    <3> QED BY <1>0, <2>3, <2>4, <2>5, IngestRequestType
  <2> QED BY <1>0, <1>3, <2>2, <2>6 DEF Typed, RowsType, GhostType, PersistPackage
<1>4. ASSUME NEW r \in Requests, NEW b \in Blueprints, IngestBlueprint(r, b) PROVE Typed'
  <2>1. req[r] \in RequestState  BY <1>0 DEF RequestType
  <2>2. PICK doc \in req[r].package.raw :
          /\ insight' = {doc.finding}
          /\ NewBlueprint(b, doc.finding, doc.design, doc.risk, doc.missing)
    BY <1>4 DEF IngestBlueprint
  <2>3. doc \in Document  BY <2>1, FactoryAssumption DEF RequestState, AgentFactoryPackage
  <2>4. /\ doc.finding \in Findings /\ doc.design \in Designs
        /\ doc.risk \in {"low", "medium", "high", "blocked"}
    BY <2>3 DEF Document
  <2>5. /\ blueprint' \in [Blueprints -> AgentBlueprint]
        /\ read' \in [Blueprints -> Designs \union {"none", "nobody"}]
    BY <1>0, <2>2, <2>4, NewBlueprintType
  <2> DEFINE copy == [req[r].package EXCEPT !.blueprint = b]
             state == [req[r] EXCEPT !.op = "ingest_agent", !.package = copy]
  <2>6. copy \in AgentFactoryPackage  BY <2>1 DEF RequestState, AgentFactoryPackage
  <2>7. state \in RequestState /\ state.op = "ingest_agent"
    <3> HIDE DEF copy
    <3> QED BY <2>1, <2>6 DEF RequestState
  <2>8. req' = [req EXCEPT ![r] = state]  BY <1>0, <1>4, <2>1 DEF IngestBlueprint, RequestType, RequestState
  <2>9. RequestType'
    <3> HIDE DEF state
    <3> QED BY <1>0, <2>7, <2>8, IngestRequestType
  <2>10. RowsType'  BY <1>0, <1>4, <2>5 DEF RowsType, IngestBlueprint
  <2>11. GhostType'  BY <1>0, <1>4, <2>2, <2>4, <2>5 DEF GhostType, IngestBlueprint
  <2> QED BY <2>9, <2>10, <2>11 DEF Typed
<1>5. ASSUME NEW r \in Requests, NEW a \in Agents, IngestAgent(r, a) PROVE Typed'
  <2>1. req[r] \in RequestState  BY <1>0 DEF RequestType
  <2>2. PICK doc \in req[r].package.raw : NewAgent(a, "package", doc.design)  BY <1>5 DEF IngestAgent
  <2>3. doc.design \in Designs
    BY <2>1, FactoryAssumption DEF RequestState, AgentFactoryPackage, Document
  <2>4. agent' \in [Agents -> AgentRow]  BY <1>0, <2>2, <2>3, NewAgentType
  <2> DEFINE copy == [req[r].package EXCEPT !.agent = a, !.status = "sandbox_created"]
             state == [req[r] EXCEPT !.op = "save_package", !.package = copy]
  <2>5. copy \in AgentFactoryPackage  BY <2>1 DEF RequestState, AgentFactoryPackage
  <2>6. state \in RequestState /\ state.op = "save_package"
    <3> HIDE DEF copy
    <3> QED BY <2>1, <2>5 DEF RequestState
  <2>7. req' = [req EXCEPT ![r] = state]
    BY <1>0, <1>5, <2>1 DEF IngestAgent, RequestType, RequestState, AgentFactoryPackage
  <2>8. RequestType'
    <3> HIDE DEF state
    <3> QED BY <1>0, <2>6, <2>7, IngestRequestType
  <2>9. RowsType' /\ GhostType'  BY <1>0, <1>5, <2>4 DEF RowsType, GhostType, IngestAgent
  <2> QED BY <2>8, <2>9 DEF Typed
<1>6. ASSUME NEW r \in Requests, IngestWithoutAgent(r) PROVE Typed'
  <2>1. req[r] \in RequestState  BY <1>0 DEF RequestType
  <2> DEFINE state == [req[r] EXCEPT !.op = "save_package"]
  <2>2. state \in RequestState /\ state.op = "save_package"  BY <2>1 DEF RequestState
  <2>3. req' = [req EXCEPT ![r] = state]  BY <1>0, <1>6 DEF IngestWithoutAgent, RequestType
  <2>4. RequestType'
    <3> HIDE DEF state
    <3> QED BY <1>0, <2>2, <2>3, IngestRequestType
  <2> QED BY <1>0, <1>6, <2>4 DEF Typed, RowsType, GhostType, IngestWithoutAgent
<1>7. ASSUME NEW r \in Requests, SavePackage(r) PROVE Typed'
  <2>1. req[r].package \in AgentFactoryPackage  BY <1>0 DEF RequestType, RequestState
  <2>2. package' \in {req[r].package, package}  BY <1>7 DEF SavePackage
  <2>3. RequestType'  BY <1>0, <1>7, FinishType DEF SavePackage
  <2>4. RowsType' /\ GhostType'  BY <1>0, <1>7, <2>1, <2>2 DEF RowsType, GhostType, SavePackage
  <2> QED BY <2>3, <2>4 DEF Typed
<1> QED BY <1>1, <1>2, <1>3, <1>4, <1>5, <1>6, <1>7 DEF Ingest

LEMMA DieType ==
  ASSUME Typed, NEW r \in Requests, Die(r)
  PROVE  Typed'
<1>0. RowsType /\ GhostType /\ RequestType  BY DEF Typed
<1>1. RequestType'  BY <1>0, FinishType DEF Die
<1>2. req[r].op = "link" => req[r].id \in Blueprints  BY <1>0 DEF RequestType, OnABlueprint
<1>3. RowsType' /\ GhostType'  BY <1>0, <1>2 DEF RowsType, GhostType, Die
<1> QED BY <1>1, <1>3 DEF Typed

LEMMA StepType == Typed /\ [Next]_vars => Typed'
<1> SUFFICES ASSUME Typed, [Next]_vars PROVE Typed'
  OBVIOUS
<1>1. CASE UNCHANGED vars
  BY <1>1 DEF Typed, RowsType, GhostType, RequestType
<1>2. ASSUME NEW r \in Requests, NEW b \in Blueprints,
             LoadPatch(r, b) \/ LoadDelete(r, b) \/ LoadApprove(r, b) \/ LoadBuild(r, b)
      PROVE  Typed'
  <2>1. PICK op \in {"patch", "approve", "build", "delete"} : Load(r, b, op)
    BY <1>2 DEF LoadPatch, LoadDelete, LoadApprove, LoadBuild
  <2> QED BY <2>1, LoadType
<1> QED BY <1>1, <1>2, SavePatchType, BlueprintType, AgentStepType, DeleteAgentType,
          InsightType, IngestType, DieType
       DEF Next, BlueprintDetail

(* Every row and every copy a request holds keeps its type.                *)
THEOREM TypeCorrect == Spec => []TypeOK
<1>1. Spec => []Typed  BY InitType, StepType, PTL DEF Spec
<1> QED BY <1>1, TypedIsTypeOK, PTL

-----------------------------------------------------------------------------
(* A package that says sandbox_created: the row, and every copy of it that *)
(* an ingestion is still to save, has its boundary and its agent from the  *)
(* document it keeps                                                       *)

MadeFrom(doc, a, agents) ==
  a # NoAgent => /\ agents[a].status # "absent"
                 /\ agents[a].of = "package" /\ agents[a].design = doc.design

Sane(p, agents) ==
  p.status = "sandbox_created" =>
    \E doc \in p.raw : doc.ok /\ doc.permits /\ p.permits /\ MadeFrom(doc, p.agent, agents)

(* Before its agent is made, a copy has its boundary from its document.    *)
Matching(p) == \A doc \in p.raw : doc.ok /\ doc.permits = p.permits

Ingesting == {"ingest_blueprint", "ingest_agent"}

GoodCopy(state, agents) ==
  /\ Sane(state.package, agents)
  /\ state.op \in Ingesting => Matching(state.package)

Packages ==
  /\ Sane(package, agent)
  /\ \A r \in Requests : GoodCopy(req[r], agent)

(* No step changes what an agent was made from.                            *)
LEMMA AgentsStay ==
  ASSUME Typed, [Next]_vars
  PROVE  \A a \in Agents : agent[a].status # "absent" =>
           /\ agent'[a].status # "absent"
           /\ agent'[a].of = agent[a].of /\ agent'[a].design = agent[a].design
<1> DEFINE Stay == \A a \in Agents : agent[a].status # "absent" =>
                     /\ agent'[a].status # "absent"
                     /\ agent'[a].of = agent[a].of /\ agent'[a].design = agent[a].design
<1>0. RowsType  BY DEF Typed
<1>1. ASSUME UNCHANGED agent PROVE Stay  BY <1>1
<1>2. ASSUME NEW a \in Agents, NEW b, NEW design, NewAgent(a, b, design) PROVE Stay
  BY <1>0, <1>2 DEF NewAgent, RowsType, AgentRow
<1>3. ASSUME NEW a \in Agents, NEW state \in {"promoted", "deleted"},
             agent' = [agent EXCEPT ![a].status = state]
      PROVE  Stay
  BY <1>0, <1>3 DEF RowsType, AgentRow
<1>4. ASSUME NEW r \in Requests, DeleteBlueprint(r) \/ DeleteAgent(r) PROVE Stay
  <2>1. agent' = agent \/ agent' = [agent EXCEPT ![req[r].agent].status = "deleted"]
    BY <1>4 DEF DeleteBlueprint, DeleteAgent
  <2>2. CASE req[r].agent \in Agents  BY <1>1, <1>3, <2>1, <2>2
  <2>3. CASE req[r].agent \notin Agents
    <3>1. agent' = agent  BY <1>0, <2>1, <2>3 DEF RowsType
    <3> QED BY <1>1, <3>1
  <2> QED BY <2>2, <2>3
<1>5. ASSUME NEW r \in Requests, NEW a \in Agents, BuildAgent(r, a) \/ IngestAgent(r, a)
      PROVE  Stay
  BY <1>2, <1>5 DEF BuildAgent, IngestAgent
<1>6. ASSUME NEW a \in Agents, PromoteAgent(a) PROVE Stay  BY <1>3, <1>6 DEF PromoteAgent
<1>7. ASSUME \/ \E f \in Findings : UpsertInsight(f)
             \/ DeleteInsight \/ DeletePackage \/ UNCHANGED vars
             \/ \E b \in Blueprints : Generate(b)
             \/ \E doc \in Documents : PersistInvalid(doc)
      PROVE  Stay
  BY <1>1, <1>7 DEF UpsertInsight, DeleteInsight, DeletePackage, Generate, PersistInvalid
<1>8. ASSUME NEW r \in Requests, NEW b \in Blueprints,
             LoadPatch(r, b) \/ LoadDelete(r, b) \/ LoadApprove(r, b) \/ LoadBuild(r, b)
             \/ IngestBlueprint(r, b)
      PROVE  Stay
  BY <1>1, <1>8 DEF LoadPatch, LoadDelete, LoadApprove, LoadBuild, Load, IngestBlueprint
<1>9. ASSUME NEW r \in Requests,
             SavePatch(r) \/ SaveApprove(r) \/ LinkAgent(r) \/ Die(r) \/ IngestWithoutAgent(r)
             \/ SavePackage(r)
      PROVE  Stay
  BY <1>1, <1>9 DEF SavePatch, SaveApprove, LinkAgent, Die, IngestWithoutAgent, SavePackage
<1>10. ASSUME NEW r \in Requests, NEW a \in Agents, LoadAgent(r, a) PROVE Stay
  BY <1>1, <1>10 DEF LoadAgent
<1>11. ASSUME NEW r \in Requests, NEW doc \in Documents, PersistPackage(r, doc) PROVE Stay
  BY <1>1, <1>11 DEF PersistPackage
<1> HIDE DEF Stay
<1>12. Stay
  BY <1>4, <1>5, <1>6, <1>7, <1>8, <1>9, <1>10, <1>11 DEF Next, BlueprintDetail, Ingest
<1> QED BY <1>12 DEF Stay

LEMMA SaneStays ==
  ASSUME NEW f, NEW g, NEW p \in AgentFactoryPackage, Sane(p, f),
         \A a \in Agents : f[a].status # "absent" =>
           /\ g[a].status # "absent"
           /\ g[a].of = f[a].of /\ g[a].design = f[a].design
  PROVE  Sane(p, g)
  BY DEF Sane, MadeFrom, AgentFactoryPackage

LEMMA FreeIsGood == \A agents : GoodCopy(Free, agents)
  BY DEF GoodCopy, Sane, Free, NewPackage, Ingesting

LEMMA PackagesInit == Init => Packages
<1>1. Init => Sane(package, agent)  BY DEF Init, Sane, NewPackage
<1> QED BY <1>1, FreeIsGood DEF Init, Packages

LEMMA PackagesStep == Typed /\ Packages /\ [Next]_vars => Packages'
<1> SUFFICES ASSUME Typed, Packages, [Next]_vars PROVE Packages'
  OBVIOUS
<1>0. RowsType /\ RequestType  BY DEF Typed
<1>1. \A p \in AgentFactoryPackage : Sane(p, agent) => Sane(p, agent')
  BY AgentsStay, SaneStays
<1>2. \A q \in Requests : req[q].package \in AgentFactoryPackage /\ GoodCopy(req[q], agent)
  BY <1>0 DEF RequestType, RequestState, Packages
<1>3. Sane(package, agent')  BY <1>0, <1>1 DEF Packages, RowsType
(* The copies that a step leaves, or drops.                                *)
<1>4. ASSUME NEW q \in Requests,
             \/ /\ req'[q].package = req[q].package
                /\ req'[q].op \in Ingesting => req[q].op \in Ingesting
             \/ req'[q] = Free
      PROVE  GoodCopy(req'[q], agent')
  <2>1. CASE req'[q] = Free  BY <2>1, FreeIsGood
  <2>2. CASE req'[q] # Free
    <3>1. Sane(req[q].package, agent')  BY <1>1, <1>2 DEF GoodCopy
    <3> QED BY <1>2, <1>4, <2>2, <3>1 DEF GoodCopy
  <2> QED BY <2>1, <2>2
<1>5. ASSUME Sane(package', agent'), \A q \in Requests : GoodCopy(req'[q], agent')
      PROVE  Packages'
  BY <1>5 DEF Packages
<1>6. ASSUME NEW r \in Requests, Finish(r) PROVE \A q \in Requests : GoodCopy(req'[q], agent')
  <2>1. \A q \in Requests : req'[q] = req[q] \/ req'[q] = Free
    BY <1>0, <1>6 DEF Finish, RequestType
  <2> QED BY <1>4, <2>1
<1>7. ASSUME UNCHANGED <<package, req>> PROVE Packages'
  BY <1>3, <1>4, <1>5, <1>7
<1>8. ASSUME NEW r \in Requests, NEW b \in Blueprints,
             LoadPatch(r, b) \/ LoadDelete(r, b) \/ LoadApprove(r, b) \/ LoadBuild(r, b)
      PROVE  Packages'
  <2>1. PICK op \in {"patch", "approve", "build", "delete"} : Load(r, b, op)
    BY <1>8 DEF LoadPatch, LoadDelete, LoadApprove, LoadBuild
  <2>2. \A q \in Requests : /\ req'[q].package = req[q].package
                            /\ req'[q].op \in {op, req[q].op}
    BY <1>0, <2>1 DEF Load, RequestType, RequestState
  <2>3. \A q \in Requests : GoodCopy(req'[q], agent')  BY <1>4, <2>2 DEF Ingesting
  <2>4. package' = package  BY <2>1 DEF Load
  <2> QED BY <1>3, <1>5, <2>3, <2>4
<1>9. ASSUME NEW r \in Requests, NEW a \in Agents, BuildAgent(r, a) \/ LoadAgent(r, a)
      PROVE  Packages'
  <2>1. \A q \in Requests : /\ req'[q].package = req[q].package
                            /\ req'[q].op \in {"link", "delete_agent", req[q].op}
    BY <1>0, <1>9 DEF BuildAgent, LoadAgent, RequestType, RequestState
  <2>2. \A q \in Requests : GoodCopy(req'[q], agent')  BY <1>4, <2>1 DEF Ingesting
  <2>3. package' = package  BY <1>9 DEF BuildAgent, LoadAgent
  <2> QED BY <1>3, <1>5, <2>2, <2>3
<1>10. ASSUME NEW r \in Requests, IngestWithoutAgent(r) PROVE Packages'
  <2>1. \A q \in Requests : /\ req'[q].package = req[q].package
                            /\ req'[q].op \in {"save_package", req[q].op}
    BY <1>0, <1>10 DEF IngestWithoutAgent, RequestType, RequestState
  <2>2. \A q \in Requests : GoodCopy(req'[q], agent')  BY <1>4, <2>1 DEF Ingesting
  <2> QED BY <1>3, <1>5, <1>10, <2>2 DEF IngestWithoutAgent
<1>11. ASSUME NEW r \in Requests, SavePatch(r) \/ SaveApprove(r) \/ LinkAgent(r) \/ Die(r)
       PROVE  Packages'
  <2>1. Finish(r) /\ package' = package  BY <1>11 DEF SavePatch, SaveApprove, LinkAgent, Die
  <2> QED BY <1>3, <1>5, <1>6, <2>1
<1>12. ASSUME NEW r \in Requests, DeleteBlueprint(r) PROVE Packages'
  <2>1. Finish(r)  BY <1>12 DEF DeleteBlueprint
  <2>2. /\ package'.status = package.status /\ package'.raw = package.raw
        /\ package'.permits = package.permits /\ package'.agent = package.agent
    BY <1>0, <1>12 DEF DeleteBlueprint, RowsType, AgentFactoryPackage
  <2>3. Sane(package', agent')  BY <1>3, <2>2 DEF Sane
  <2> QED BY <1>5, <1>6, <2>1, <2>3
<1>13. ASSUME NEW r \in Requests, DeleteAgent(r) PROVE Packages'
  <2>1. Finish(r)  BY <1>13 DEF DeleteAgent
  <2>2. /\ package'.status = package.status /\ package'.raw = package.raw
        /\ package'.permits = package.permits /\ package'.agent \in {package.agent, NoAgent}
    BY <1>0, <1>13 DEF DeleteAgent, RowsType, AgentFactoryPackage
  <2>3. Sane(package', agent')  BY <1>3, <2>2 DEF Sane, MadeFrom
  <2> QED BY <1>5, <1>6, <2>1, <2>3
<1>14. ASSUME NEW doc \in Documents, PersistInvalid(doc) PROVE Packages'
  <2>1. package'.status = "invalid" /\ req' = req
    BY <1>0, <1>14 DEF PersistInvalid, RowsType, AgentFactoryPackage
  <2>2. Sane(package', agent')  BY <2>1 DEF Sane
  <2> QED BY <1>4, <1>5, <2>1, <2>2
<1>15. ASSUME NEW doc \in Documents, NEW r \in Requests, PersistPackage(r, doc) PROVE Packages'
  <2>1. /\ package'.status = "received" /\ package'.raw = {doc}
        /\ package'.permits = doc.permits
    <3>1. PICK i \in PackageId : package' =
            [package EXCEPT !.id = i, !.raw = {doc}, !.permits = doc.permits, !.status = "received"]
      BY <1>15 DEF PersistPackage
    <3> QED BY <1>0, <3>1 DEF RowsType, AgentFactoryPackage
  <2>2. doc.ok  BY <1>15 DEF PersistPackage
  <2>3. req'[r].package = package' /\ \A q \in Requests \ {r} : req'[q] = req[q]
    BY <1>0, <1>15, FreeType DEF PersistPackage, RequestType, RequestState
  <2>4. GoodCopy(req'[r], agent')  BY <2>1, <2>2, <2>3 DEF GoodCopy, Sane, Matching
  <2>5. Sane(package', agent')  BY <2>1 DEF Sane
  <2>6. \A q \in Requests : GoodCopy(req'[q], agent')  BY <1>4, <2>3, <2>4
  <2> QED BY <1>5, <2>5, <2>6
<1>16. ASSUME NEW r \in Requests, NEW b \in Blueprints, IngestBlueprint(r, b) PROVE Packages'
  <2>1. /\ req'[r].package = [req[r].package EXCEPT !.blueprint = b]
        /\ req[r].op = "ingest_blueprint"
        /\ \A q \in Requests \ {r} : req'[q] = req[q]
    BY <1>0, <1>16 DEF IngestBlueprint, RequestType, RequestState
  <2>2. LET p == req[r].package  p2 == req'[r].package IN
          /\ p2.status = p.status /\ p2.raw = p.raw
          /\ p2.permits = p.permits /\ p2.agent = p.agent
    BY <1>2, <2>1 DEF AgentFactoryPackage
  <2>3. Sane(req[r].package, agent')  BY <1>1, <1>2 DEF GoodCopy
  <2>4. Sane(req'[r].package, agent')  BY <2>2, <2>3 DEF Sane
  <2>5. Matching(req'[r].package)  BY <1>2, <2>1, <2>2 DEF GoodCopy, Matching, Ingesting
  <2>6. \A q \in Requests : GoodCopy(req'[q], agent')  BY <1>4, <2>1, <2>4, <2>5 DEF GoodCopy
  <2> QED BY <1>3, <1>5, <1>16, <2>6 DEF IngestBlueprint
<1>17. ASSUME NEW r \in Requests, NEW a \in Agents, IngestAgent(r, a) PROVE Packages'
  <2>1. /\ req'[r].package = [req[r].package EXCEPT !.agent = a, !.status = "sandbox_created"]
        /\ req'[r].op = "save_package" /\ req[r].op = "ingest_agent" /\ req[r].package.permits
        /\ \A q \in Requests \ {r} : req'[q] = req[q]
    BY <1>0, <1>2, <1>17 DEF IngestAgent, RequestType, RequestState, AgentFactoryPackage
  <2>2. /\ req'[r].package.raw = req[r].package.raw /\ req'[r].package.permits
        /\ req'[r].package.agent = a
    BY <1>2, <2>1 DEF AgentFactoryPackage
  <2>3. PICK doc \in req[r].package.raw : NewAgent(a, "package", doc.design)
    BY <1>17 DEF IngestAgent
  <2>4. MadeFrom(doc, a, agent')  BY <1>0, <2>3 DEF MadeFrom, NewAgent, RowsType
  <2>5. doc.ok /\ doc.permits  BY <1>2, <2>1 DEF GoodCopy, Matching, Ingesting
  <2>6. Sane(req'[r].package, agent')  BY <2>2, <2>4, <2>5 DEF Sane
  <2>7. \A q \in Requests : GoodCopy(req'[q], agent')
    BY <1>4, <2>1, <2>6 DEF GoodCopy, Ingesting
  <2> QED BY <1>3, <1>5, <1>17, <2>7 DEF IngestAgent
<1>18. ASSUME NEW r \in Requests, SavePackage(r) PROVE Packages'
  <2>1. package' \in {req[r].package, package} /\ Finish(r)  BY <1>18 DEF SavePackage
  <2>2. Sane(req[r].package, agent')  BY <1>1, <1>2 DEF GoodCopy
  <2> QED BY <1>3, <1>5, <1>6, <2>1, <2>2
<1>19. CASE DeletePackage
  <2>1. Sane(package', agent')  BY <1>19 DEF DeletePackage, Sane, NewPackage
  <2> QED BY <1>4, <1>5, <1>19, <2>1 DEF DeletePackage
<1>20. CASE \/ \E f \in Findings : UpsertInsight(f)
            \/ DeleteInsight \/ \E b \in Blueprints : Generate(b)
            \/ \E a \in Agents : PromoteAgent(a)
            \/ UNCHANGED vars
  BY <1>7, <1>20 DEF UpsertInsight, DeleteInsight, Generate, PromoteAgent
<1> QED BY <1>8, <1>9, <1>10, <1>11, <1>12, <1>13, <1>14, <1>15, <1>16, <1>17, <1>18, <1>19, <1>20
       DEF Next, BlueprintDetail, Ingest

(* However ingestions of one package overlap, die or meet deletions, a row *)
(* that says its sandbox agent was created keeps the document that permits *)
(* one, and names, if that has not been deleted, the agent made from it.   *)
THEOREM SandboxAlwaysPermitted == Spec => []SandboxPermitted
<1>1. Spec => [](Typed /\ Packages)
  BY InitType, StepType, PackagesInit, PackagesStep, PTL DEF Spec
<1>2. Packages => SandboxPermitted  BY DEF Packages, Sane, MadeFrom, SandboxPermitted
<1> QED BY <1>1, <1>2, PTL

-----------------------------------------------------------------------------
(* Undisturbed blueprints                                                  *)

AgentsOf(b) == {a \in Agents : agent[a].of = b}

(* The one request on b, if any, holds the row as it is, and an agent was  *)
(* built only by a request about to link it or by one that did.            *)
Quiet(b) ==
  /\ \A p, q \in On(b) : p = q
  /\ \A r \in On(b) :
       /\ req[r].row = blueprint[b]
       /\ blueprint[b].status # "absent"
       /\ req[r].op \in {"patch", "approve"} => Editable(blueprint[b])
       /\ req[r].op \in {"build", "link"} => blueprint[b].status = "approved"
       /\ req[r].op = "link" => /\ req[r].agent \in AgentsOf(b)
                                /\ agent[req[r].agent].design = read[b]
  /\ blueprint[b].status \in {"approved", "built"} => blueprint[b].design = read[b]
  /\ \A a, c \in AgentsOf(b) : a = c
  /\ \A a \in AgentsOf(b) :
       \/ blueprint[b].status = "absent"
       \/ /\ blueprint[b].status = "built"
          /\ blueprint[b].agent = a
          /\ agent[a].design = read[b]
       \/ \E r \in On(b) : req[r].op = "link" /\ req[r].agent = a

(* Identifiers are never used again.                                       *)
Fresh ==
  /\ \A a \in Agents : agent[a].status = "absent" => agent[a].of = "none"
  /\ \A b \in Blueprints : read[b] = "none" =>
       blueprint[b].status = "absent" /\ On(b) = {} /\ AgentsOf(b) = {}

Orderly == \A b \in Blueprints \ disturbed : Quiet(b)

(* What a step elsewhere, or the end of a request that had nothing to      *)
(* link, leaves of it.                                                     *)
LEMMA Elsewhere ==
  ASSUME NEW b, Quiet(b),
         blueprint'[b] = blueprint[b], read'[b] = read[b],
         \A a \in Agents : /\ agent'[a].of = b <=> agent[a].of = b
                           /\ agent[a].of = b => agent'[a].design = agent[a].design,
         \A r \in Requests : \/ req'[r] = req[r]
                             \/ r \notin On(b)' /\ (req[r].op = "link" => r \notin On(b))
  PROVE  Quiet(b)'
<1>1. AgentsOf(b)' = AgentsOf(b)  BY DEF AgentsOf
<1>2. On(b)' \subseteq On(b)  BY DEF On
<1>3. \A r \in On(b)' : req'[r] = req[r]  BY DEF On
<1>4. \A r \in On(b) : req[r].op = "link" => r \in On(b)' /\ req'[r] = req[r]  BY DEF On
<1>5. \A a \in AgentsOf(b) : agent'[a].design = agent[a].design  BY DEF AgentsOf
<1>6. \A r \in On(b)' :
       /\ req'[r].row = blueprint'[b]
       /\ blueprint'[b].status # "absent"
       /\ req'[r].op \in {"patch", "approve"} => Editable(blueprint'[b])
       /\ req'[r].op \in {"build", "link"} => blueprint'[b].status = "approved"
       /\ req'[r].op = "link" => /\ req'[r].agent \in AgentsOf(b)'
                                 /\ agent'[req'[r].agent].design = read'[b]
  BY <1>1, <1>2, <1>3, <1>5 DEF Quiet
<1>7. \A a \in AgentsOf(b)' :
       \/ blueprint'[b].status = "absent"
       \/ /\ blueprint'[b].status = "built"
          /\ blueprint'[b].agent = a
          /\ agent'[a].design = read'[b]
       \/ \E r \in On(b)' : req'[r].op = "link" /\ req'[r].agent = a
  BY <1>1, <1>4, <1>5 DEF Quiet
<1>8. /\ \A p, q \in On(b)' : p = q
      /\ blueprint'[b].status \in {"approved", "built"} => blueprint'[b].design = read'[b]
      /\ \A a, c \in AgentsOf(b)' : a = c
  BY <1>1, <1>2 DEF Quiet
<1> QED BY <1>6, <1>7, <1>8 DEF Quiet

(* A new blueprint was nobody's.                                           *)
LEMMA NewIsQuiet ==
  ASSUME Typed, Fresh, NEW b \in Blueprints, NEW f, NEW design, NEW risk, NEW missing,
         NewBlueprint(b, f, design, risk, missing), UNCHANGED agent,
         \A r \in Requests : req'[r] = req[r] \/ req'[r].op \notin OnABlueprint
  PROVE  Quiet(b)'
<1>1. On(b) = {} /\ AgentsOf(b) = {}  BY DEF Fresh, NewBlueprint
<1>2. On(b)' = {}  BY <1>1 DEF On, OnABlueprint
<1>3. AgentsOf(b)' = {}  BY <1>1 DEF AgentsOf
<1>4. blueprint'[b].status \notin {"approved", "built"}
  BY DEF NewBlueprint, Typed, RowsType, StatusFor
<1> QED BY <1>2, <1>3, <1>4 DEF Quiet

(* The first request on a blueprint: no agent of it waits to be linked.    *)
LEMMA LoadQuiet ==
  ASSUME Typed, NEW r \in Requests, NEW b \in Blueprints, Quiet(b), On(b) = {},
         NEW op \in {"patch", "approve", "build", "delete"}, Load(r, b, op),
         op \in {"patch", "approve"} => Editable(blueprint[b]),
         op = "build" => Buildable(blueprint[b])
  PROVE  Quiet(b)'
<1>0. RequestType  BY DEF Typed
<1>1. /\ req'[r].op = op /\ req'[r].id = b /\ req'[r].row = blueprint[b]
      /\ \A q \in Requests \ {r} : req'[q] = req[q]
  BY <1>0 DEF Load, RequestType, RequestState
<1>2. On(b)' = {r}  BY <1>1 DEF On
<1>3. UNCHANGED <<blueprint, agent, read>>  BY DEF Load
<1>4. AgentsOf(b)' = AgentsOf(b)  BY <1>3 DEF AgentsOf
<1>5. \A q \in On(b)' :
       /\ req'[q].row = blueprint'[b]
       /\ blueprint'[b].status # "absent"
       /\ req'[q].op \in {"patch", "approve"} => Editable(blueprint'[b])
       /\ req'[q].op \in {"build", "link"} => blueprint'[b].status = "approved"
       /\ req'[q].op # "link"
  BY <1>1, <1>2, <1>3 DEF Load, Buildable
<1>6. \A a \in AgentsOf(b)' :
       \/ blueprint'[b].status = "absent"
       \/ /\ blueprint'[b].status = "built"
          /\ blueprint'[b].agent = a
          /\ agent'[a].design = read'[b]
  BY <1>3, <1>4 DEF Quiet
<1>7. /\ blueprint'[b].status \in {"approved", "built"} => blueprint'[b].design = read'[b]
      /\ \A a, c \in AgentsOf(b)' : a = c
  BY <1>3, <1>4 DEF Quiet
<1> QED BY <1>2, <1>5, <1>6, <1>7 DEF Quiet

(* The one request on b ends; nothing of it is left to link.               *)
LEMMA EndQuiet ==
  ASSUME Typed, NEW r \in Requests, NEW b, Quiet(b), r \in On(b), Finish(r)
  PROVE  On(b)' = {}
<1>1. \A q \in Requests \ {r} : q \notin On(b) /\ req'[q] = req[q]
  BY DEF Quiet, Finish, Typed, RequestType
<1>2. req'[r] = Free  BY DEF Finish, Typed, RequestType
<1> QED BY <1>1, <1>2 DEF On, Free

(* An editable or approved blueprint whose one request links nothing has   *)
(* no agent.                                                               *)
LEMMA NoAgentYet ==
  ASSUME NEW b, Quiet(b), NEW r \in On(b), req[r].op \in {"patch", "approve", "build"}
  PROVE  AgentsOf(b) = {}
  BY DEF Quiet, Editable

LEMMA SaveQuiet ==
  ASSUME Typed, NEW r \in Requests, NEW b \in Blueprints, Quiet(b), req[r].id = b,
         SavePatch(r) \/ SaveApprove(r)
  PROVE  Quiet(b)'
<1>0. RowsType /\ RequestType  BY DEF Typed
<1>1. r \in On(b) /\ Finish(r) /\ UNCHANGED agent  BY DEF On, SavePatch, SaveApprove
<1>2. AgentsOf(b) = {}  BY <1>1, NoAgentYet DEF SavePatch, SaveApprove
<1>3. AgentsOf(b)' = {}  BY <1>1, <1>2 DEF AgentsOf
<1>4. On(b)' = {}  BY <1>1, EndQuiet
<1>5. req[r].row = blueprint[b] /\ blueprint[b] \in AgentBlueprint /\ Editable(blueprint[b])
      /\ blueprint[b].status # "absent"
  BY <1>0, <1>1 DEF Quiet, RowsType, SavePatch, SaveApprove
<1>6. blueprint'[b].status \in {"approved", "built"} => blueprint'[b].design = read'[b]
  <2>1. CASE SavePatch(r)
    <3>1. PICK body \in Bodies : blueprint' = [blueprint EXCEPT ![b] =
            [blueprint[b] EXCEPT
              !.design = IF body.design = "unsent" THEN @ ELSE body.design,
              !.risk = IF body.risk = "unsent" THEN @ ELSE body.risk,
              !.status = IF body.missing = "unsent" THEN @ ELSE StatusFor(body.missing)]]
      BY <1>5, <2>1 DEF SavePatch
    <3>2. blueprint'[b].status \in {blueprint[b].status, StatusFor(body.missing)}
      BY <1>0, <1>5, <3>1 DEF RowsType, AgentBlueprint
    <3>3. blueprint'[b].status \notin {"approved", "built"}
      BY <1>5, <3>2 DEF Editable, StatusFor
    <3> QED BY <3>3
  <2>2. CASE SaveApprove(r)
    <3>1. /\ blueprint' = [blueprint EXCEPT ![b].status = "approved"]
          /\ read' = [read EXCEPT ![b] = blueprint[b].design]
      BY <1>5, <2>2 DEF SaveApprove
    <3>2. blueprint'[b].design = blueprint[b].design
      BY <1>0, <1>5, <3>1 DEF RowsType, AgentBlueprint
    <3>3. read'[b] = blueprint[b].design  BY <3>1 DEF Typed, GhostType
    <3> QED BY <3>2, <3>3
  <2> QED BY <2>1, <2>2
<1> QED BY <1>3, <1>4, <1>6 DEF Quiet

LEMMA DeleteQuiet ==
  ASSUME Typed, NEW r \in Requests, NEW b \in Blueprints, Quiet(b), req[r].id = b,
         DeleteBlueprint(r)
  PROVE  Quiet(b)'
<1>0. RowsType /\ RequestType  BY DEF Typed
<1>1. r \in On(b) /\ Finish(r)  BY DEF On, DeleteBlueprint
<1>2. On(b)' = {}  BY <1>1, EndQuiet
<1>3. \A a \in Agents : agent'[a].of = agent[a].of
  BY <1>0 DEF DeleteBlueprint, RowsType, AgentRow
<1>4. AgentsOf(b)' = AgentsOf(b)  BY <1>3 DEF AgentsOf
<1>5. blueprint'[b].status = "absent"  BY <1>0 DEF DeleteBlueprint, RowsType, NewRow
<1>6. \A a, c \in AgentsOf(b)' : a = c  BY <1>4 DEF Quiet
<1> QED BY <1>2, <1>5, <1>6 DEF Quiet

LEMMA BuildQuiet ==
  ASSUME Typed, NEW r \in Requests, NEW a \in Agents, NEW b \in Blueprints, Quiet(b),
         req[r].id = b, BuildAgent(r, a)
  PROVE  Quiet(b)'
<1>0. RowsType /\ RequestType  BY DEF Typed
<1>1. r \in On(b) /\ UNCHANGED <<blueprint, read>>  BY DEF On, BuildAgent
<1>2. AgentsOf(b) = {}  BY <1>1, NoAgentYet DEF BuildAgent
<1>3. /\ req[r].row = blueprint[b] /\ blueprint[b].status = "approved"
      /\ blueprint[b].design = read[b]
  BY <1>1 DEF Quiet, BuildAgent
<1>4. /\ req'[r].op = "link" /\ req'[r].agent = a /\ req'[r].id = b /\ req'[r].row = blueprint[b]
      /\ \A q \in Requests \ {r} : req'[q] = req[q]
  BY <1>0, <1>3 DEF BuildAgent, RequestType, RequestState
<1>5. /\ agent'[a].of = b /\ agent'[a].design = read[b]
      /\ \A c \in Agents \ {a} : agent'[c] = agent[c]
  BY <1>0, <1>3 DEF BuildAgent, NewAgent, RowsType
<1>6. AgentsOf(b)' = {a}  BY <1>2, <1>5 DEF AgentsOf
<1>7. On(b)' = {r}
  <2>1. \A q \in Requests \ {r} : q \notin On(b)  BY <1>1 DEF Quiet
  <2> QED BY <1>4, <2>1 DEF On
<1> QED BY <1>1, <1>3, <1>4, <1>5, <1>6, <1>7 DEF Quiet

LEMMA LinkQuiet ==
  ASSUME Typed, NEW r \in Requests, NEW b \in Blueprints \ disturbed', Quiet(b),
         req[r].id = b, LinkAgent(r)
  PROVE  Quiet(b)'
<1>0. RowsType /\ RequestType  BY DEF Typed
<1>1. r \in On(b) /\ Finish(r) /\ UNCHANGED <<agent, read>>  BY DEF On, LinkAgent
<1>2. On(b)' = {}  BY <1>1, EndQuiet
<1>3. blueprint' = [blueprint EXCEPT ![b].status = "built", ![b].agent = req[r].agent]
  BY DEF LinkAgent
<1>4. /\ blueprint[b].design = read[b]
      /\ req[r].agent \in AgentsOf(b) /\ agent[req[r].agent].design = read[b]
  BY <1>1 DEF Quiet, LinkAgent
<1>5. /\ blueprint'[b].status = "built" /\ blueprint'[b].agent = req[r].agent
      /\ blueprint'[b].design = read[b]
  BY <1>0, <1>3, <1>4 DEF RowsType, AgentBlueprint
<1>6. AgentsOf(b)' = AgentsOf(b)  BY <1>1 DEF AgentsOf
<1>7. AgentsOf(b)' = {req[r].agent}  BY <1>4, <1>6 DEF Quiet
<1> QED BY <1>1, <1>2, <1>4, <1>5, <1>7 DEF Quiet

LEMMA OrderlyStep == Typed /\ Fresh /\ Orderly /\ [Next]_vars => Orderly'
<1> SUFFICES ASSUME Typed, Fresh, Orderly, [Next]_vars,
                    NEW b \in Blueprints \ disturbed'
             PROVE  Quiet(b)'
  BY DEF Orderly
<1>0. RowsType /\ GhostType /\ RequestType  BY DEF Typed
<1>1. b \notin {"none", "package"}  BY FactoryAssumption
<1>2. ASSUME disturbed \subseteq disturbed' PROVE Quiet(b)  BY <1>2 DEF Orderly
<1>3. ASSUME UNCHANGED <<blueprint, agent, req, read, disturbed>> PROVE Quiet(b)'
  BY <1>2, <1>3, Elsewhere
<1>4. ASSUME NEW c \in Blueprints, NEW f, NEW design, NEW risk, NEW missing,
             NewBlueprint(c, f, design, risk, missing), UNCHANGED <<agent, disturbed>>,
             \A r \in Requests : req'[r] = req[r] \/ (req'[r].op \notin OnABlueprint
                                                     /\ req[r].op \notin OnABlueprint)
      PROVE  Quiet(b)'
  <2>1. CASE b = c  BY <1>4, <2>1, NewIsQuiet
  <2>2. CASE b # c
    <3>1. blueprint'[b] = blueprint[b] /\ read'[b] = read[b]
      BY <1>0, <1>4, <2>2 DEF NewBlueprint, RowsType, GhostType
    <3>2. \A r \in Requests : \/ req'[r] = req[r]
                              \/ r \notin On(b)' /\ (req[r].op = "link" => r \notin On(b))
      BY <1>4 DEF On, OnABlueprint
    <3> QED BY <1>2, <1>4, <3>1, <3>2, Elsewhere
  <2> QED BY <2>1, <2>2
<1>5. ASSUME NEW r \in Requests, NEW c \in Blueprints,
             NEW op \in {"patch", "approve", "build", "delete"}, Load(r, c, op),
             op \in {"patch", "approve"} => Editable(blueprint[c]),
             op = "build" => Buildable(blueprint[c])
      PROVE  Quiet(b)'
  <2>1. disturbed \subseteq disturbed'  BY <1>5 DEF Load
  <2>2. CASE b = c
    <3>1. On(b) = {}  BY <1>5, <2>2 DEF Load
    <3> QED BY <1>2, <1>5, <2>1, <2>2, <3>1, LoadQuiet
  <2>3. CASE b # c
    <3>1. UNCHANGED <<blueprint, agent, read>>  BY <1>5 DEF Load
    <3>2. \A q \in Requests \ {r} : req'[q] = req[q]  BY <1>0, <1>5 DEF Load, RequestType
    <3>3. req'[r].id = c  BY <1>0, <1>5 DEF Load, RequestType, RequestState
    <3>4. r \notin On(b)'  BY <2>3, <3>3 DEF On
    <3>5. req[r].op # "link"  BY <1>5 DEF Load, Free
    <3> QED BY <1>2, <2>1, <3>1, <3>2, <3>4, <3>5, Elsewhere
  <2> QED BY <2>2, <2>3
<1>6. ASSUME NEW r \in Requests, SavePatch(r) \/ SaveApprove(r) PROVE Quiet(b)'
  <2>1. UNCHANGED <<agent, disturbed>> /\ Finish(r)  BY <1>6 DEF SavePatch, SaveApprove
  <2>2. CASE req[r].id = b  BY <1>2, <1>6, <2>1, <2>2, SaveQuiet
  <2>3. CASE req[r].id # b
    <3>1. blueprint'[b] = blueprint[b] /\ read'[b] = read[b]
      BY <1>0, <1>6, <2>3 DEF SavePatch, SaveApprove, RowsType, GhostType
    <3>2. \A q \in Requests \ {r} : req'[q] = req[q]  BY <1>0, <2>1 DEF Finish, RequestType
    <3>3. r \notin On(b) /\ r \notin On(b)'  BY <1>0, <2>1, <2>3 DEF On, Finish, Free, RequestType
    <3> QED BY <1>2, <2>1, <3>1, <3>2, <3>3, Elsewhere
  <2> QED BY <2>2, <2>3
<1>7. ASSUME NEW r \in Requests, DeleteBlueprint(r) PROVE Quiet(b)'
  <2>1. UNCHANGED <<disturbed, read>> /\ Finish(r)  BY <1>7 DEF DeleteBlueprint
  <2>2. CASE req[r].id = b  BY <1>2, <1>7, <2>1, <2>2, DeleteQuiet
  <2>3. CASE req[r].id # b
    <3>1. blueprint'[b] = blueprint[b]  BY <1>0, <1>7, <2>3 DEF DeleteBlueprint, RowsType
    <3>2. \A a \in Agents : agent'[a].of = agent[a].of /\ agent'[a].design = agent[a].design
      BY <1>0, <1>7 DEF DeleteBlueprint, RowsType, AgentRow
    <3>3. \A q \in Requests \ {r} : req'[q] = req[q]  BY <1>0, <2>1 DEF Finish, RequestType
    <3>4. r \notin On(b) /\ r \notin On(b)'  BY <1>0, <2>1, <2>3 DEF On, Finish, Free, RequestType
    <3> QED BY <1>2, <2>1, <3>1, <3>2, <3>3, <3>4, Elsewhere
  <2> QED BY <2>2, <2>3
<1>8. ASSUME NEW r \in Requests, NEW a \in Agents, BuildAgent(r, a) PROVE Quiet(b)'
  <2>1. UNCHANGED <<blueprint, read, disturbed>>  BY <1>8 DEF BuildAgent
  <2>2. CASE req[r].id = b  BY <1>2, <1>8, <2>1, <2>2, BuildQuiet
  <2>3. CASE req[r].id # b
    <3>1. agent[a].of = "none"  BY <1>8 DEF BuildAgent, NewAgent, Fresh
    <3>2. agent'[a].of # b /\ \A c \in Agents \ {a} : agent'[c] = agent[c]
      BY <1>0, <1>8, <2>3 DEF BuildAgent, NewAgent, RowsType
    <3>3. \A c \in Agents : /\ agent'[c].of = b <=> agent[c].of = b
                            /\ agent[c].of = b => agent'[c].design = agent[c].design
      BY <1>1, <3>1, <3>2
    <3>4. \A q \in Requests \ {r} : req'[q] = req[q]  BY <1>0, <1>8 DEF BuildAgent, RequestType
    <3>5. req'[r].id = req[r].id  BY <1>0, <1>8 DEF BuildAgent, RequestType, RequestState
    <3>6. r \notin On(b) /\ r \notin On(b)'  BY <2>3, <3>5 DEF On
    <3> QED BY <1>2, <2>1, <3>3, <3>4, <3>6, Elsewhere
  <2> QED BY <2>2, <2>3
<1>9. ASSUME NEW r \in Requests, LinkAgent(r) PROVE Quiet(b)'
  <2>1. UNCHANGED <<agent, read>> /\ Finish(r)  BY <1>9 DEF LinkAgent
  <2>2. disturbed \subseteq disturbed'  BY <1>9 DEF LinkAgent
  <2>3. CASE req[r].id = b  BY <1>2, <1>9, <2>2, <2>3, LinkQuiet
  <2>4. CASE req[r].id # b
    <3>1. blueprint'[b] = blueprint[b]  BY <1>0, <1>9, <2>4 DEF LinkAgent, RowsType
    <3>2. \A q \in Requests \ {r} : req'[q] = req[q]  BY <1>0, <2>1 DEF Finish, RequestType
    <3>3. r \notin On(b) /\ r \notin On(b)'  BY <1>0, <2>1, <2>4 DEF On, Finish, Free, RequestType
    <3> QED BY <1>2, <2>1, <2>2, <3>1, <3>2, <3>3, Elsewhere
  <2> QED BY <2>3, <2>4
<1>10. ASSUME NEW r \in Requests, Die(r) PROVE Quiet(b)'
  <2>1. UNCHANGED <<blueprint, agent, read>> /\ Finish(r)  BY <1>10 DEF Die
  <2>2. disturbed \subseteq disturbed'  BY <1>10 DEF Die
  <2>3. \A q \in Requests \ {r} : req'[q] = req[q]  BY <1>0, <2>1 DEF Finish, RequestType
  <2>4. r \notin On(b)'  BY <1>0, <2>1 DEF On, Finish, Free, RequestType
  <2>5. req[r].op = "link" => r \notin On(b)  BY <1>10 DEF Die, On
  <2> QED BY <1>2, <2>1, <2>2, <2>3, <2>4, <2>5, Elsewhere
<1>11. ASSUME NEW r \in Requests, NEW a \in Agents, IngestAgent(r, a) PROVE Quiet(b)'
  <2>1. UNCHANGED <<blueprint, read, disturbed>>  BY <1>11 DEF IngestAgent
  <2>2. agent[a].of = "none"  BY <1>11 DEF IngestAgent, NewAgent, Fresh
  <2>3. agent'[a].of = "package" /\ \A c \in Agents \ {a} : agent'[c] = agent[c]
    BY <1>0, <1>11 DEF IngestAgent, NewAgent, RowsType
  <2>4. \A c \in Agents : /\ agent'[c].of = b <=> agent[c].of = b
                          /\ agent[c].of = b => agent'[c].design = agent[c].design
    BY <1>1, <2>2, <2>3
  <2>5. \A q \in Requests \ {r} : req'[q] = req[q]  BY <1>0, <1>11 DEF IngestAgent, RequestType
  <2>6. req'[r].op = "save_package"  BY <1>0, <1>11 DEF IngestAgent, RequestType, RequestState
  <2>7. r \notin On(b) /\ r \notin On(b)'  BY <1>11, <2>6 DEF On, IngestAgent
  <2> QED BY <1>2, <2>1, <2>4, <2>5, <2>7, Elsewhere
<1>12. ASSUME NEW r \in Requests,
              (\E doc \in Documents : PersistPackage(r, doc)) \/ IngestWithoutAgent(r) \/ SavePackage(r)
       PROVE  Quiet(b)'
  <2>1. UNCHANGED <<blueprint, agent, read, disturbed>>
    BY <1>12 DEF PersistPackage, IngestWithoutAgent, SavePackage
  <2>2. \A q \in Requests \ {r} : req'[q] = req[q]
    BY <1>0, <1>12 DEF PersistPackage, IngestWithoutAgent, SavePackage, Finish, RequestType
  <2>3. CASE \E doc \in Documents : PersistPackage(r, doc)
    <3>1. req[r] = Free  BY <2>3 DEF PersistPackage
    <3>2. req'[r].op = "ingest_blueprint"
      BY <1>0, <2>3, FreeType DEF PersistPackage, RequestType, RequestState
    <3> QED BY <1>2, <2>1, <2>2, <3>1, <3>2, Elsewhere DEF On, Free
  <2>4. CASE IngestWithoutAgent(r)
    <3>1. req'[r].op = "save_package" /\ req[r].op = "ingest_agent"
      BY <1>0, <2>4 DEF IngestWithoutAgent, RequestType, RequestState
    <3> QED BY <1>2, <2>1, <2>2, <3>1, Elsewhere DEF On
  <2>5. CASE SavePackage(r)
    <3>1. req'[r] = Free /\ req[r].op = "save_package"
      BY <1>0, <2>5 DEF SavePackage, Finish, RequestType
    <3> QED BY <1>2, <2>1, <2>2, <3>1, Elsewhere DEF On, Free
  <2> QED BY <1>12, <2>3, <2>4, <2>5
<1>13. ASSUME NEW r \in Requests, NEW c \in Blueprints, IngestBlueprint(r, c) PROVE Quiet(b)'
  <2>1. PICK doc \in req[r].package.raw : NewBlueprint(c, doc.finding, doc.design, doc.risk, doc.missing)
    BY <1>13 DEF IngestBlueprint
  <2>2. \A q \in Requests \ {r} : req'[q] = req[q]  BY <1>0, <1>13 DEF IngestBlueprint, RequestType
  <2>3. req'[r].op = "ingest_agent" /\ req[r].op = "ingest_blueprint"
    BY <1>0, <1>13 DEF IngestBlueprint, RequestType, RequestState
  <2>4. UNCHANGED <<agent, disturbed>>  BY <1>13 DEF IngestBlueprint
  <2> QED BY <1>4, <2>1, <2>2, <2>3, <2>4 DEF OnABlueprint
<1>14. ASSUME NEW c \in Blueprints, Generate(c) PROVE Quiet(b)'
  <2>1. PICK f \in insight, derived \in Designs, answer \in {{}} \union {{d} : d \in Designs} :
          NewBlueprint(c, f, DeriveDesign(derived, answer), DeriveRiskLevel(Risk(f)), DetectMissing(f))
    BY <1>14 DEF Generate
  <2>2. UNCHANGED <<agent, disturbed, req>>  BY <1>14 DEF Generate
  <2> QED BY <1>4, <2>1, <2>2
<1>15. ASSUME NEW a \in Agents, PromoteAgent(a) PROVE Quiet(b)'
  <2>1. UNCHANGED <<blueprint, req, read, disturbed>>  BY <1>15 DEF PromoteAgent
  <2>2. \A c \in Agents : agent'[c].of = agent[c].of /\ agent'[c].design = agent[c].design
    BY <1>0, <1>15 DEF PromoteAgent, RowsType, AgentRow
  <2> QED BY <1>2, <2>1, <2>2, Elsewhere
<1>16. CASE \/ \E f \in Findings : UpsertInsight(f)
            \/ DeleteInsight \/ DeletePackage \/ \E doc \in Documents : PersistInvalid(doc)
            \/ UNCHANGED vars
  BY <1>3, <1>16 DEF UpsertInsight, DeleteInsight, DeletePackage, PersistInvalid
<1>17. ASSUME NEW r \in Requests, NEW c \in Blueprints,
              LoadPatch(r, c) \/ LoadDelete(r, c) \/ LoadApprove(r, c) \/ LoadBuild(r, c)
       PROVE  Quiet(b)'
  BY <1>5, <1>17 DEF LoadPatch, LoadDelete, LoadApprove, LoadBuild, CanTransitionToApproved
<1>18. ASSUME NEW r \in Requests, DeleteAgent(r) PROVE Quiet(b)'
  <2>1. b \notin SourceBlueprints(req[r].agent) /\ disturbed \subseteq disturbed'
    BY <1>18 DEF DeleteAgent
  <2>2. blueprint'[b] = blueprint[b] /\ read' = read  BY <2>1, <1>18 DEF DeleteAgent
  <2>3. \A c \in Agents : agent'[c].of = agent[c].of /\ agent'[c].design = agent[c].design
    BY <1>0, <1>18 DEF DeleteAgent, RowsType, AgentRow
  <2>4. /\ req[r].op = "delete_agent" /\ req'[r] = Free
        /\ \A q \in Requests \ {r} : req'[q] = req[q]
    BY <1>0, <1>18 DEF DeleteAgent, Finish, RequestType
  <2>5. r \notin On(b)'  BY <2>4 DEF On, Free
  <2>6. \A q \in Requests : \/ req'[q] = req[q]
                            \/ q \notin On(b)' /\ (req[q].op = "link" => q \notin On(b))
    BY <2>4, <2>5
  <2>7. Quiet(b)  BY <1>2, <2>1
  <2> QED BY <2>2, <2>3, <2>6, <2>7, Elsewhere
<1>19. ASSUME NEW r \in Requests, NEW a \in Agents, LoadAgent(r, a) PROVE Quiet(b)'
  <2>1. UNCHANGED <<blueprint, agent, read, disturbed>>  BY <1>19 DEF LoadAgent
  <2>2. /\ req[r].op = "none" /\ req'[r].op = "delete_agent"
        /\ \A q \in Requests \ {r} : req'[q] = req[q]
    BY <1>0, <1>19 DEF LoadAgent, Free, RequestType, RequestState
  <2>3. r \notin On(b)'  BY <2>2 DEF On
  <2> QED BY <1>2, <2>1, <2>2, <2>3, Elsewhere
<1> QED BY <1>6, <1>7, <1>8, <1>9, <1>10, <1>11, <1>12, <1>13, <1>14, <1>15, <1>16, <1>17, <1>18, <1>19
       DEF Next, BlueprintDetail, Ingest

(* A step that creates neither, and starts no request on a blueprint.      *)
LEMMA StillFresh ==
  ASSUME Typed, Fresh,
         \A a \in Agents : /\ agent'[a].of = agent[a].of
                           /\ agent'[a].status = "absent" => agent[a].status = "absent",
         \A b \in Blueprints :
           /\ read'[b] = "none" => read[b] = "none"
           /\ read'[b] = "none" => /\ blueprint'[b].status = blueprint[b].status
                                   /\ On(b)' = On(b)
  PROVE  Fresh'
<1>1. \A b \in Blueprints : AgentsOf(b)' = AgentsOf(b)  BY DEF AgentsOf
<1>2. \A a \in Agents : agent'[a].status = "absent" => agent'[a].of = "none"  BY DEF Fresh
<1>3. \A b \in Blueprints : read'[b] = "none" =>
        blueprint'[b].status = "absent" /\ On(b)' = {} /\ AgentsOf(b)' = {}
  BY <1>1 DEF Fresh
<1> QED BY <1>2, <1>3 DEF Fresh

LEMMA FreshStep == Typed /\ Fresh /\ [Next]_vars => Fresh'
<1> SUFFICES ASSUME Typed, Fresh, [Next]_vars PROVE Fresh'
  OBVIOUS
<1>0. RowsType /\ GhostType /\ RequestType  BY DEF Typed
<1>1. ASSUME UNCHANGED <<blueprint, agent, read>>,
             \A b \in Blueprints : read[b] = "none" => On(b)' = {}
      PROVE  Fresh'
  <2>1. \A b \in Blueprints : AgentsOf(b)' = AgentsOf(b)  BY <1>1 DEF AgentsOf
  <2> QED BY <1>1, <2>1 DEF Fresh
<1>2. ASSUME NEW r \in Requests, req'[r].op \notin OnABlueprint,
             \A q \in Requests \ {r} : req'[q] = req[q],
             NEW b
      PROVE  On(b)' \subseteq On(b)
  BY <1>2 DEF On, OnABlueprint
<1>3. ASSUME NEW r \in Requests, req[r].op \in OnABlueprint
      PROVE  req[r].id \in Blueprints /\ read[req[r].id] # "none"
  <2>1. req[r].id \in Blueprints  BY <1>0, <1>3 DEF RequestType
  <2>2. r \in On(req[r].id)  BY <1>3 DEF On, OnABlueprint
  <2> QED BY <2>1, <2>2 DEF Fresh
<1>4. ASSUME NEW r \in Requests, Finish(r), NEW b PROVE On(b)' \subseteq On(b)
  <2>1. req'[r] = Free /\ \A q \in Requests \ {r} : req'[q] = req[q]
    BY <1>0, <1>4 DEF Finish, RequestType
  <2> QED BY <1>2, <2>1 DEF Free, OnABlueprint
<1>5. ASSUME NEW c \in Blueprints, NEW f, NEW design, NEW risk, NEW missing,
             NewBlueprint(c, f, design, risk, missing), UNCHANGED agent,
             \A b \in Blueprints : On(b)' \subseteq On(b)
      PROVE  Fresh'
  <2>1. /\ read'[c] # "none"
        /\ \A b \in Blueprints \ {c} : read'[b] = read[b] /\ blueprint'[b] = blueprint[b]
    BY <1>0, <1>5 DEF NewBlueprint, RowsType, GhostType
  <2>2. \A b \in Blueprints : AgentsOf(b)' = AgentsOf(b)  BY <1>5 DEF AgentsOf
  <2>3. \A b \in Blueprints : read'[b] = "none" =>
          blueprint'[b].status = "absent" /\ On(b)' = {} /\ AgentsOf(b)' = {}
    BY <1>5, <2>1, <2>2 DEF Fresh
  <2>4. \A a \in Agents : agent'[a].status = "absent" => agent'[a].of = "none"
    BY <1>5 DEF Fresh
  <2> QED BY <2>3, <2>4 DEF Fresh
<1>6. ASSUME NEW r \in Requests, NEW c \in Blueprints,
             NEW op \in {"patch", "approve", "build", "delete"}, Load(r, c, op)
      PROVE  Fresh'
  <2>1. read[c] # "none"  BY <1>6 DEF Load, Fresh
  <2>2. req'[r].id = c /\ \A q \in Requests \ {r} : req'[q] = req[q]
    BY <1>0, <1>6 DEF Load, RequestType, RequestState
  <2>3. \A b \in Blueprints : read[b] = "none" => On(b)' \subseteq On(b)
    BY <2>1, <2>2 DEF On
  <2>4. UNCHANGED <<blueprint, agent, read>>  BY <1>6 DEF Load
  <2>5. \A b \in Blueprints : read[b] = "none" => On(b)' = {}  BY <2>3 DEF Fresh
  <2> QED BY <1>1, <2>4, <2>5
<1>7. ASSUME NEW r \in Requests, Finish(r), req[r].op \in OnABlueprint,
             \A a \in Agents : /\ agent'[a].of = agent[a].of
                               /\ agent'[a].status = "absent" => agent[a].status = "absent",
             \A b \in Blueprints \ {req[r].id} : read'[b] = read[b] /\ blueprint'[b] = blueprint[b],
             read'[req[r].id] # "none"
      PROVE  Fresh'
  <2>1. \A b \in Blueprints : read'[b] = "none" => b # req[r].id  BY <1>7
  <2>2. \A b \in Blueprints : read'[b] = "none" => On(b) = {} /\ On(b)' \subseteq On(b)
    BY <1>4, <1>7, <2>1 DEF Fresh
  <2>3. \A b \in Blueprints : read'[b] = "none" => On(b)' = On(b)  BY <2>2
  <2> QED BY <1>7, <2>1, <2>3, StillFresh
<1>8. ASSUME NEW r \in Requests, SavePatch(r) \/ SaveApprove(r) PROVE Fresh'
  <2>1. Finish(r) /\ UNCHANGED agent /\ req[r].op \in OnABlueprint
    BY <1>8 DEF SavePatch, SaveApprove, OnABlueprint
  <2>2. req[r].id \in Blueprints /\ read[req[r].id] # "none"  BY <1>3, <2>1
  <2>3. \A b \in Blueprints \ {req[r].id} : read'[b] = read[b] /\ blueprint'[b] = blueprint[b]
    BY <1>0, <1>8, <2>2 DEF SavePatch, SaveApprove, RowsType, GhostType
  <2>4. req[r].row.design # "none"
    BY <1>0, FactoryAssumption DEF RequestType, RequestState, AgentBlueprint
  <2>5. read'[req[r].id] # "none"
    BY <1>0, <1>8, <2>2, <2>4 DEF SavePatch, SaveApprove, GhostType
  <2> QED BY <1>7, <2>1, <2>3, <2>5
<1>9. ASSUME NEW r \in Requests, DeleteBlueprint(r) \/ LinkAgent(r) PROVE Fresh'
  <2>1. Finish(r) /\ UNCHANGED read /\ req[r].op \in OnABlueprint
    BY <1>9 DEF DeleteBlueprint, LinkAgent, OnABlueprint
  <2>2. req[r].id \in Blueprints /\ read[req[r].id] # "none"  BY <1>3, <2>1
  <2>3. \A b \in Blueprints \ {req[r].id} : blueprint'[b] = blueprint[b]
    BY <1>0, <1>9, <2>2 DEF DeleteBlueprint, LinkAgent, RowsType
  <2>4. \A a \in Agents : /\ agent'[a].of = agent[a].of
                          /\ agent'[a].status = "absent" => agent[a].status = "absent"
    BY <1>0, <1>9 DEF DeleteBlueprint, LinkAgent, RowsType, AgentRow
  <2> QED BY <1>7, <2>1, <2>2, <2>3, <2>4
<1>10. ASSUME NEW r \in Requests, NEW a \in Agents, BuildAgent(r, a) PROVE Fresh'
  <2>1. req[r].id \in Blueprints /\ read[req[r].id] # "none"
    BY <1>3, <1>10 DEF BuildAgent, OnABlueprint
  <2>2. /\ agent'[a].of = req[r].id /\ agent'[a].status = "draft"
        /\ \A c \in Agents \ {a} : agent'[c] = agent[c]
    BY <1>0, <1>10 DEF BuildAgent, NewAgent, RowsType
  <2>3. \A b \in Blueprints : On(b)' = On(b)
    BY <1>0, <1>10 DEF BuildAgent, On, RequestType, RequestState
  <2>4. \A b \in Blueprints \ {req[r].id} : AgentsOf(b)' \subseteq AgentsOf(b)
    BY <2>2 DEF AgentsOf
  <2>5. UNCHANGED <<blueprint, read>>  BY <1>10 DEF BuildAgent
  <2>6. \A c \in Agents : agent'[c].status = "absent" => agent'[c].of = "none"
    BY <2>2 DEF Fresh
  <2>7. \A b \in Blueprints : read'[b] = "none" =>
          blueprint'[b].status = "absent" /\ On(b)' = {} /\ AgentsOf(b)' = {}
    BY <2>1, <2>3, <2>4, <2>5 DEF Fresh
  <2> QED BY <2>6, <2>7 DEF Fresh
<1>11. ASSUME NEW r \in Requests, NEW a \in Agents, IngestAgent(r, a) PROVE Fresh'
  <2>1. /\ agent'[a].of = "package" /\ agent'[a].status = "draft"
        /\ \A c \in Agents \ {a} : agent'[c] = agent[c]
    BY <1>0, <1>11 DEF IngestAgent, NewAgent, RowsType
  <2>2. req'[r].op = "save_package" /\ \A q \in Requests \ {r} : req'[q] = req[q]
    BY <1>0, <1>11 DEF IngestAgent, RequestType, RequestState
  <2>3. \A b \in Blueprints : On(b)' \subseteq On(b)  BY <1>2, <2>2 DEF OnABlueprint
  <2>4. "package" \notin Blueprints  BY FactoryAssumption
  <2>5. \A b \in Blueprints : AgentsOf(b)' \subseteq AgentsOf(b)  BY <2>1, <2>4 DEF AgentsOf
  <2>6. UNCHANGED <<blueprint, read>>  BY <1>11 DEF IngestAgent
  <2>7. \A c \in Agents : agent'[c].status = "absent" => agent'[c].of = "none"
    BY <2>1 DEF Fresh
  <2>8. \A b \in Blueprints : read'[b] = "none" =>
          blueprint'[b].status = "absent" /\ On(b)' = {} /\ AgentsOf(b)' = {}
    BY <2>3, <2>5, <2>6 DEF Fresh
  <2> QED BY <2>7, <2>8 DEF Fresh
<1>12. ASSUME NEW r \in Requests, NEW doc \in Documents, PersistPackage(r, doc) PROVE Fresh'
  <2>1. req'[r].op = "ingest_blueprint" /\ \A q \in Requests \ {r} : req'[q] = req[q]
    BY <1>0, <1>12, FreeType DEF PersistPackage, RequestType, RequestState
  <2>2. \A b \in Blueprints : On(b)' \subseteq On(b)  BY <1>2, <2>1 DEF OnABlueprint
  <2>3. UNCHANGED <<blueprint, agent, read>>  BY <1>12 DEF PersistPackage
  <2> QED BY <1>1, <2>2, <2>3 DEF Fresh
<1>13. ASSUME NEW r \in Requests, IngestWithoutAgent(r) PROVE Fresh'
  <2>1. req'[r].op = "save_package" /\ \A q \in Requests \ {r} : req'[q] = req[q]
    BY <1>0, <1>13 DEF IngestWithoutAgent, RequestType, RequestState
  <2>2. \A b \in Blueprints : On(b)' \subseteq On(b)  BY <1>2, <2>1 DEF OnABlueprint
  <2>3. UNCHANGED <<blueprint, agent, read>>  BY <1>13 DEF IngestWithoutAgent
  <2> QED BY <1>1, <2>2, <2>3 DEF Fresh
<1>14. ASSUME NEW r \in Requests, SavePackage(r) \/ Die(r) PROVE Fresh'
  <2>1. Finish(r) /\ UNCHANGED <<blueprint, agent, read>>  BY <1>14 DEF SavePackage, Die
  <2>2. \A b \in Blueprints : On(b)' \subseteq On(b)  BY <1>4, <2>1
  <2> QED BY <1>1, <2>1, <2>2 DEF Fresh
<1>15. ASSUME NEW r \in Requests, NEW c \in Blueprints, IngestBlueprint(r, c) PROVE Fresh'
  <2>1. PICK doc \in req[r].package.raw : NewBlueprint(c, doc.finding, doc.design, doc.risk, doc.missing)
    BY <1>15 DEF IngestBlueprint
  <2>2. req'[r].op = "ingest_agent" /\ \A q \in Requests \ {r} : req'[q] = req[q]
    BY <1>0, <1>15 DEF IngestBlueprint, RequestType, RequestState
  <2>3. \A b \in Blueprints : On(b)' \subseteq On(b)  BY <1>2, <2>2 DEF OnABlueprint
  <2>4. UNCHANGED agent  BY <1>15 DEF IngestBlueprint
  <2> QED BY <1>5, <2>1, <2>3, <2>4
<1>16. ASSUME NEW c \in Blueprints, Generate(c) PROVE Fresh'
  <2>1. PICK f \in insight, derived \in Designs, answer \in {{}} \union {{d} : d \in Designs} :
          NewBlueprint(c, f, DeriveDesign(derived, answer), DeriveRiskLevel(Risk(f)), DetectMissing(f))
    BY <1>16 DEF Generate
  <2>2. UNCHANGED <<agent, req>>  BY <1>16 DEF Generate
  <2>3. \A b \in Blueprints : On(b)' = On(b)  BY <2>2 DEF On
  <2> QED BY <1>5, <2>1, <2>2, <2>3
<1>17. ASSUME NEW a \in Agents, PromoteAgent(a) PROVE Fresh'
  <2>1. UNCHANGED <<blueprint, req, read, disturbed>>  BY <1>17 DEF PromoteAgent
  <2>2. \A c \in Agents : /\ agent'[c].of = agent[c].of
                          /\ agent'[c].status = "absent" => agent[c].status = "absent"
    BY <1>0, <1>17 DEF PromoteAgent, RowsType, AgentRow
  <2>3. \A b \in Blueprints : On(b)' = On(b)  BY <2>1 DEF On
  <2> QED BY <2>1, <2>2, <2>3, StillFresh
<1>18. CASE \/ \E f \in Findings : UpsertInsight(f)
            \/ DeleteInsight \/ DeletePackage \/ \E doc \in Documents : PersistInvalid(doc)
            \/ UNCHANGED vars
  <2>1. UNCHANGED <<blueprint, agent, req, read>>
    BY <1>18 DEF UpsertInsight, DeleteInsight, DeletePackage, PersistInvalid
  <2>2. \A b \in Blueprints : On(b)' = On(b)  BY <2>1 DEF On
  <2> QED BY <1>1, <2>1, <2>2 DEF Fresh
<1>19. ASSUME NEW r \in Requests, NEW c \in Blueprints,
              LoadPatch(r, c) \/ LoadDelete(r, c) \/ LoadApprove(r, c) \/ LoadBuild(r, c)
       PROVE  Fresh'
  BY <1>6, <1>19 DEF LoadPatch, LoadDelete, LoadApprove, LoadBuild
<1>20. ASSUME NEW r \in Requests, DeleteAgent(r) PROVE Fresh'
  <2>1. Finish(r) /\ read' = read  BY <1>20 DEF DeleteAgent
  <2>2. \A c \in Agents : /\ agent'[c].of = agent[c].of
                          /\ agent'[c].status = "absent" => agent[c].status = "absent"
    BY <1>0, <1>20 DEF DeleteAgent, RowsType, AgentRow
  <2>3. \A b \in Blueprints : blueprint'[b].status = blueprint[b].status
    BY <1>0, <1>20 DEF DeleteAgent, RowsType, AgentBlueprint
  <2>4. \A b \in Blueprints : read[b] = "none" => On(b) = {} /\ On(b)' = {}
    BY <1>4, <2>1 DEF Fresh
  <2> QED BY <2>1, <2>2, <2>3, <2>4, StillFresh
<1>21. ASSUME NEW r \in Requests, NEW a \in Agents, LoadAgent(r, a) PROVE Fresh'
  <2>1. UNCHANGED <<blueprint, agent, read>>  BY <1>21 DEF LoadAgent
  <2>2. req'[r].op = "delete_agent" /\ \A q \in Requests \ {r} : req'[q] = req[q]
    BY <1>0, <1>21 DEF LoadAgent, RequestType, RequestState
  <2>3. \A b \in Blueprints : On(b)' \subseteq On(b)  BY <1>2, <2>2 DEF OnABlueprint
  <2> QED BY <1>1, <2>1, <2>3 DEF Fresh
<1> QED BY <1>8, <1>9, <1>10, <1>11, <1>12, <1>13, <1>14, <1>15, <1>16, <1>17, <1>18, <1>19, <1>20, <1>21
       DEF Next, BlueprintDetail, Ingest

LEMMA QuietInit == Init => Fresh /\ Orderly
<1> SUFFICES ASSUME Init PROVE Fresh /\ Orderly
  OBVIOUS
<1>1. \A b \in Blueprints : On(b) = {}  BY DEF Init, On, Free
<1>2. \A b \in Blueprints : b # "none"  BY FactoryAssumption
<1>3. \A b \in Blueprints : AgentsOf(b) = {}  BY <1>2 DEF Init, AgentsOf
<1>4. \A b \in Blueprints : blueprint[b].status = "absent"  BY DEF Init, NewRow
<1>5. Fresh  BY <1>1, <1>3, <1>4 DEF Init, Fresh
<1>6. Orderly  BY <1>1, <1>3, <1>4 DEF Orderly, Quiet
<1> QED BY <1>5, <1>6

(* For any number of people and requests: a blueprint whose requests never *)
(* overlapped and never died is approved as its approver read it, and      *)
(* built at most once, into an agent of that very design.                  *)
THEOREM AlwaysBuiltAsApproved == Spec => []BuiltAsApproved
<1>1. Spec => [](Typed /\ Fresh /\ Orderly)
  BY InitType, StepType, QuietInit, FreshStep, OrderlyStep, PTL DEF Spec
<1>2. Orderly => BuiltAsApproved
  <2> SUFFICES ASSUME Orderly, NEW b \in Blueprints \ disturbed
               PROVE  /\ blueprint[b].status \in {"approved", "built"} => blueprint[b].design = read[b]
                      /\ \A a, c \in {x \in Agents : agent[x].of = b} :
                           /\ a = c
                           /\ \/ \E r \in Requests : req[r].op = "link" /\ req[r].agent = a
                              \/ blueprint[b].status = "absent"
                              \/ blueprint[b].agent = a /\ agent[a].design = read[b]
    BY DEF BuiltAsApproved
  <2> QED BY DEF Orderly, Quiet, AgentsOf, On
<1> QED BY <1>1, <1>2, PTL
=============================================================================
