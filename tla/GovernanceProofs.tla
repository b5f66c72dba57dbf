-------------------------- MODULE GovernanceProofs --------------------------
(* Theorems about Governance, for every number of requests, reviews and    *)
(* approvals, overlapping or served one at a time.                         *)
EXTENDS Governance, FiniteSetTheorems, SequenceTheorems, TLAPS

(* The tuples of variables, opened in every step below.                    *)
USE DEF vars, agent, evidence, transitions, decisions, executions

-----------------------------------------------------------------------------
(* One more entry in the ledger                                            *)

PromotedIn(s) == {i \in 1..Len(s) : s[i].to = "production"}

LEMMA AppendEntry ==
  ASSUME NEW s \in Seq(Entry), NEW e \in Entry
  PROVE  /\ s \o <<e>> \in Seq(Entry)
         /\ Len(s \o <<e>>) = Len(s) + 1
         /\ (s \o <<e>>)[Len(s) + 1] = e
         /\ \A i \in 1..Len(s) : (s \o <<e>>)[i] = s[i]
         /\ s \o <<e>> # <<>>
         /\ Last(s \o <<e>>) = e
<1>1. <<e>> \in Seq(Entry) /\ Len(<<e>>) = 1 /\ <<e>>[1] = e  OBVIOUS
<1>2. /\ s \o <<e>> \in Seq(Entry)
      /\ Len(s \o <<e>>) = Len(s) + 1
      /\ (s \o <<e>>)[Len(s) + 1] = e
      /\ \A i \in 1..Len(s) : (s \o <<e>>)[i] = s[i]
  BY <1>1 DEF Entry
<1>3. s \o <<e>> # <<>>  BY <1>2
<1> QED BY <1>2, <1>3 DEF Last

LEMMA OneMorePromotion ==
  ASSUME NEW s \in Seq(Entry), NEW e \in Entry
  PROVE  Cardinality(PromotedIn(s \o <<e>>))
           = IF e.to = "production" THEN Cardinality(PromotedIn(s)) + 1
             ELSE Cardinality(PromotedIn(s))
<1> DEFINE n == Len(s)
<1>1. n \in Nat  OBVIOUS
<1>2. IsFiniteSet(PromotedIn(s))
  <2>1. IsFiniteSet(1..n)  BY <1>1, FS_Interval
  <2>2. PromotedIn(s) \subseteq 1..n  BY DEF PromotedIn
  <2> QED BY <2>1, <2>2, FS_Subset
<1>3. n + 1 \notin PromotedIn(s)  BY <1>1 DEF PromotedIn
<1>4. CASE e.to = "production"
  <2>1. PromotedIn(s \o <<e>>) = PromotedIn(s) \cup {n + 1}
    BY <1>1, <1>4, AppendEntry DEF PromotedIn
  <2>2. Cardinality(PromotedIn(s) \cup {n + 1}) = Cardinality(PromotedIn(s)) + 1
    BY <1>2, <1>3, FS_AddElement
  <2> QED BY <2>1, <2>2, <1>4
<1>5. CASE e.to # "production"
  <2>1. PromotedIn(s \o <<e>>) = PromotedIn(s)  BY <1>1, <1>5, AppendEntry DEF PromotedIn
  <2> QED BY <2>1, <1>5
<1> QED BY <1>4, <1>5

-----------------------------------------------------------------------------
(* Type correctness                                                        *)

LEMMA InitType == Init => TypeOK
<1> SUFFICES ASSUME Init PROVE TypeOK
  OBVIOUS
<1>1. ledger \in Seq(Entry)  BY DEF Init
<1>2. copy \in [Admins -> [status : Statuses, deployed : BOOLEAN]]
  BY DEF Init, Nobody, Statuses
<1>3. granted \in 0..MaxApprovals /\ expired \subseteq 1..granted
  BY GovernanceAssumption DEF Init
<1>4. picked \in [Runners -> 0..MaxApprovals] /\ runs \in [Approvals -> Nat]
  BY GovernanceAssumption DEF Init
<1> QED BY <1>1, <1>2, <1>3, <1>4 DEF Init, TypeOK, Statuses

(* The type invariant, one group of variables at a time: a step disturbs   *)
(* one or two of them.                                                     *)
AgentType ==
  /\ status \in Statuses
  /\ deployed \in BOOLEAN
  /\ versions \in Nat
  /\ ledger \in Seq(Entry)
EvidenceType ==
  /\ review \in [Reviews -> {"absent", "pending", "approved", "rejected"}]
  /\ granted \in 0..MaxApprovals
  /\ expired \subseteq 1..granted
  /\ suite \in {"none", "unproven", "passing"}
ConsumedType == consumed \in [Approvals -> BOOLEAN]
TransitionType ==
  /\ apc \in [Admins -> {"idle", "review gate", "approval gate", "eval gate", "review test", "save"}]
  /\ copy \in [Admins -> [status : Statuses, deployed : BOOLEAN]]
  /\ goal \in [Admins -> Statuses]
  /\ overturned \subseteq Admins
DecisionType ==
  /\ rpc \in [Reviewers -> {"idle", "deciding"}]
  /\ opened \in [Reviewers -> Reviews]
RunType ==
  /\ upc \in [Runners -> {"new", "opened", "picked", "started", "refused"}]
  /\ picked \in [Runners -> 0..MaxApprovals]
  /\ runs \in [Approvals -> Nat]

(* A run that picked an approval holds the id of one.                      *)
PickedExists == \A u \in Runners : upc[u] = "picked" => picked[u] \in Approvals

Types ==
  /\ overlap \in Overlaps
  /\ AgentType /\ EvidenceType /\ ConsumedType
  /\ TransitionType /\ DecisionType /\ RunType /\ PickedExists

LEMMA TypeParts == TypeOK /\ PickedExists <=> Types
BY DEF TypeOK, Types, AgentType, EvidenceType, ConsumedType, TransitionType, DecisionType, RunType

(* What a step that leaves a group alone does to it: nothing.              *)
LEMMA Unchanged ==
  /\ AgentType /\ UNCHANGED agent => AgentType'
  /\ EvidenceType /\ UNCHANGED <<review, granted, expired, suite>> => EvidenceType'
  /\ ConsumedType /\ UNCHANGED consumed => ConsumedType'
  /\ TransitionType /\ UNCHANGED transitions => TransitionType'
  /\ DecisionType /\ UNCHANGED decisions => DecisionType'
  /\ RunType /\ PickedExists /\ UNCHANGED executions => RunType' /\ PickedExists'
BY DEF AgentType, EvidenceType, ConsumedType, TransitionType, DecisionType, RunType, PickedExists

LEMMA LeaveType ==
  ASSUME Types, NEW x \in Admins, Leave(x), AgentType'
  PROVE  Types'
<1>1. Nobody \in [status : Statuses, deployed : BOOLEAN] /\ "draft" \in Statuses
  BY DEF Nobody, Statuses
<1>2. TransitionType'  BY <1>1 DEF Leave, Types, TransitionType
<1>3. UNCHANGED <<overlap, evidence, decisions, executions>>  BY DEF Leave
<1> QED BY <1>2, <1>3, Unchanged DEF Types

LEMMA StepInType ==
  ASSUME Types, NEW x \in Admins,
         NEW pc \in {"review gate", "approval gate", "eval gate", "review test", "save"}, Step(x, pc)
  PROVE  Types'
<1>1. TransitionType'  BY DEF Step, Types, TransitionType
<1>2. UNCHANGED <<overlap, agent, evidence, decisions, executions>>  BY DEF Step
<1> QED BY <1>1, <1>2, Unchanged DEF Types

(* What a write does, seen from the agent's rows.                          *)
LEMMA WriteFacts ==
  ASSUME Types, NEW x \in Admins, Write(x)
  PROVE  /\ apc[x] = "save" /\ Leave(x)
         /\ status' = goal[x] /\ goal[x] \in Statuses
         /\ deployed' = (copy[x].deployed \/ goal[x] = "production")
         /\ deployed' \in BOOLEAN
         /\ versions' = IF goal[x] = "production" THEN versions + 1 ELSE versions
         /\ ledger' = ledger \o Record(x)
         /\ \E e \in Entry : Record(x) = <<e>> /\ e.to = goal[x] /\ e.forced = Forced(x)
<1>1. copy[x].status \in Statuses /\ copy[x].deployed \in BOOLEAN /\ goal[x] \in Statuses
  BY DEF Types, TransitionType
<1>2. Forced(x) \in BOOLEAN  BY DEF Forced
<1>3. [from |-> copy[x].status, to |-> goal[x], forced |-> Forced(x)] \in Entry
  BY <1>1, <1>2 DEF Entry
<1>4. \E e \in Entry : Record(x) = <<e>> /\ e.to = goal[x] /\ e.forced = Forced(x)
  <2> DEFINE e == [from |-> copy[x].status, to |-> goal[x], forced |-> Forced(x)]
  <2>1. Record(x) = <<e>> /\ e.to = goal[x] /\ e.forced = Forced(x)  BY DEF Record
  <2> QED BY <1>3, <2>1
<1>5. deployed' = (copy[x].deployed \/ goal[x] = "production")  BY DEF Write, Commit
<1>6. deployed' \in BOOLEAN  BY <1>5
<1> QED BY <1>1, <1>4, <1>5, <1>6 DEF Write, Commit

LEMMA ReadFacts ==
  ASSUME Types, NEW x \in Admins, ReadAgent(x)
  PROVE  /\ apc[x] = "idle" /\ Admitted
         /\ UNCHANGED <<overlap, agent, evidence, overturned, decisions, executions>>
         /\ copy' = [copy EXCEPT ![x] = [status |-> status, deployed |-> deployed]]
         /\ \E to \in Statuses :
              /\ to \in ALLOWED_TRANSITIONS[status]
              /\ goal' = [goal EXCEPT ![x] = to]
              /\ apc' = [apc EXCEPT ![x] =
                   IF to = "production" /\ x \notin Staff THEN "review gate" ELSE "save"]
<1>1. ALLOWED_TRANSITIONS[status] \subseteq Statuses
  BY DEF Types, AgentType, ALLOWED_TRANSITIONS, Statuses
<1> QED BY <1>1 DEF ReadAgent

LEMMA TransitionKeepsTypes ==
  ASSUME Types, NEW x \in Admins, Transition(x)
  PROVE  Types'
<1>1. CASE ReadAgent(x)
  <2>1. PICK to \in Statuses :
          /\ goal' = [goal EXCEPT ![x] = to]
          /\ apc' = [apc EXCEPT ![x] =
                IF to = "production" /\ x \notin Staff THEN "review gate" ELSE "save"]
    BY <1>1, ReadFacts
  <2>2. [status |-> status, deployed |-> deployed] \in [status : Statuses, deployed : BOOLEAN]
    BY DEF Types, AgentType
  <2>3. copy' \in [Admins -> [status : Statuses, deployed : BOOLEAN]]
    BY <1>1, <2>2, ReadFacts DEF Types, TransitionType
  <2>4. overturned' = overturned  BY <1>1, ReadFacts
  <2>5. TransitionType'  BY <2>1, <2>3, <2>4 DEF Types, TransitionType
  <2>6. UNCHANGED <<overlap, agent, evidence, decisions, executions>>  BY <1>1, ReadFacts
  <2> QED BY <2>5, <2>6, Unchanged DEF Types
<1>2. CASE PassReviewGate(x) \/ PassApprovalGate(x) \/ PassEvalGate(x) \/ TestReview(x)
  BY <1>2, StepInType DEF PassReviewGate, PassApprovalGate, PassEvalGate, TestReview
<1>3. CASE Refuse(x) \/ RollBack(x)
  <2>1. Leave(x) /\ UNCHANGED agent  BY <1>3 DEF Refuse, RollBack
  <2>2. AgentType'  BY <2>1, Unchanged DEF Types
  <2> QED BY <2>1, <2>2, LeaveType
<1>4. CASE Write(x)
  <2>1. PICK e \in Entry : Record(x) = <<e>>  BY <1>4, WriteFacts
  <2>2. AgentType  BY DEF Types
  <2>3. ledger' \in Seq(Entry)
    <3>1. ledger' = ledger \o <<e>>  BY <1>4, <2>1, WriteFacts
    <3>2. ledger \in Seq(Entry)  BY <2>2 DEF AgentType
    <3> QED BY <3>1, <3>2, AppendEntry
  <2>4. versions' \in Nat  BY <1>4, <2>2, WriteFacts DEF AgentType
  <2>5. AgentType'  BY <1>4, <2>3, <2>4, WriteFacts DEF AgentType
  <2> QED BY <1>4, <2>5, WriteFacts, LeaveType
<1> QED BY <1>1, <1>2, <1>3, <1>4 DEF Transition

LEMMA EvidenceKeepsTypes ==
  ASSUME Types, Evidence
  PROVE  Types'
<1> USE DEF Types
<1>1. ASSUME NEW r \in Reviews, CreateReview(r) PROVE Types'
  <2>1. EvidenceType'  BY <1>1 DEF CreateReview, EvidenceType
  <2>2. UNCHANGED <<overlap, agent, consumed, transitions, decisions, executions>>
    BY <1>1 DEF CreateReview
  <2> QED BY <2>1, <2>2, Unchanged
<1>2. ASSUME NEW d \in Reviewers, OpenReview(d) PROVE Types'
  <2>1. DecisionType'  BY <1>2 DEF OpenReview, DecisionType
  <2>2. UNCHANGED <<overlap, agent, evidence, transitions, executions>>  BY <1>2 DEF OpenReview
  <2> QED BY <2>1, <2>2, Unchanged
<1>3. ASSUME NEW d \in Reviewers, Decide(d) PROVE Types'
  <2>1. DecisionType'  BY <1>3 DEF Decide, DecisionType
  <2>2. EvidenceType'  BY <1>3 DEF Decide, EvidenceType, DecisionType
  <2>3. TransitionType'  BY <1>3 DEF Decide, TransitionType
  <2>4. UNCHANGED <<overlap, agent, consumed, executions>>  BY <1>3 DEF Decide
  <2> QED BY <2>1, <2>2, <2>3, <2>4, Unchanged
<1>4. CASE Grant
  <2>1. EvidenceType'  BY <1>4, GovernanceAssumption DEF Grant, EvidenceType
  <2>2. UNCHANGED <<overlap, agent, consumed, transitions, decisions, executions>>
    BY <1>4 DEF Grant
  <2> QED BY <2>1, <2>2, Unchanged
<1>5. ASSUME NEW a \in Approvals, Expire(a) PROVE Types'
  <2>1. a \in 1..granted  BY <1>5, GovernanceAssumption DEF Expire, EvidenceType, Approvals
  <2>2. EvidenceType'  BY <1>5, <2>1 DEF Expire, EvidenceType
  <2>3. UNCHANGED <<overlap, agent, consumed, transitions, decisions, executions>>
    BY <1>5 DEF Expire
  <2> QED BY <2>2, <2>3, Unchanged
<1>6. CASE CreateSuite \/ PassSuite
  <2>1. EvidenceType'  BY <1>6 DEF CreateSuite, PassSuite, EvidenceType
  <2>2. UNCHANGED <<overlap, agent, consumed, transitions, decisions, executions>>
    BY <1>6 DEF CreateSuite, PassSuite
  <2> QED BY <2>1, <2>2, Unchanged
<1> QED BY <1>1, <1>2, <1>3, <1>4, <1>5, <1>6 DEF Evidence

LEMMA RunKeepsTypes ==
  ASSUME Types, NEW u \in Runners, Run(u)
  PROVE  Types'
<1> USE DEF Types
<1>1. CASE OpenRun(u) \/ NoApproval(u)
  <2>1. RunType' /\ PickedExists'
    BY <1>1 DEF OpenRun, NoApproval, RunType, PickedExists
  <2>2. UNCHANGED <<overlap, agent, evidence, transitions, decisions>>
    BY <1>1 DEF OpenRun, NoApproval
  <2> QED BY <2>1, <2>2, Unchanged
<1>2. CASE PickApproval(u)
  <2>1. PICK a \in Approvals : picked' = [picked EXCEPT ![u] = a]
    BY <1>2 DEF PickApproval
  <2>2. a \in 0..MaxApprovals  BY GovernanceAssumption DEF Approvals
  <2>3. RunType'  BY <1>2, <2>1, <2>2 DEF PickApproval, RunType
  <2>4. PickedExists'  BY <1>2, <2>1 DEF PickApproval, RunType, PickedExists
  <2>5. UNCHANGED <<overlap, agent, evidence, transitions, decisions>>
    BY <1>2 DEF PickApproval
  <2> QED BY <2>3, <2>4, <2>5, Unchanged
<1>3. CASE Consume(u)
  <2>1. picked[u] \in Approvals  BY <1>3 DEF Consume, Launch, PickedExists
  <2>2. RunType' /\ ConsumedType'
    BY <1>3, <2>1 DEF Consume, Launch, RunType, ConsumedType
  <2>3. PickedExists'  BY <1>3 DEF Consume, Launch, RunType, PickedExists
  <2>4. UNCHANGED <<overlap, agent, review, granted, expired, suite, transitions, decisions>>
    BY <1>3 DEF Consume, Launch
  <2> QED BY <2>2, <2>3, <2>4, Unchanged
<1> QED BY <1>1, <1>2, <1>3 DEF Run

LEMMA StepKeepsTypes == Types /\ [Next]_vars => Types'
<1> SUFFICES ASSUME Types, [Next]_vars PROVE Types'
  OBVIOUS
<1>1. CASE UNCHANGED vars  BY <1>1, Unchanged DEF Types
<1>2. CASE Next  BY <1>2, TransitionKeepsTypes, EvidenceKeepsTypes, RunKeepsTypes DEF Next
<1> QED BY <1>1, <1>2

LEMMA AlwaysTypes == Spec => []Types
<1>1. Init => Types
  <2>1. Init => TypeOK /\ PickedExists  BY InitType DEF Init, PickedExists
  <2> QED BY <2>1, TypeParts
<1> QED BY <1>1, StepKeepsTypes, PTL DEF Spec

(* Every reachable state of the agent, its evidence and the requests on it *)
(* is well typed, whatever overlaps.                                       *)
THEOREM TypeCorrect == Spec => []TypeOK
BY AlwaysTypes, TypeParts, PTL

-----------------------------------------------------------------------------
(* The audit trail: only a write touches the agent's rows, and it appends  *)
(* the entry that explains what it did.                                    *)

Accounts ==
  /\ status = IF ledger = <<>> THEN "draft" ELSE Last(ledger).to
  /\ versions = Cardinality(PromotedIn(ledger))
  /\ status = "production" => deployed

LEMMA AllPromotions ==
  ASSUME Types
  PROVE  Promotions(TRUE) \cup Promotions(FALSE) = PromotedIn(ledger)
<1>1. ledger \in Seq(Entry)  BY DEF Types, AgentType
<1>2. \A i \in 1..Len(ledger) : ledger[i] \in Entry  BY <1>1
<1>3. \A i \in 1..Len(ledger) : ledger[i].forced \in BOOLEAN  BY <1>2 DEF Entry
<1> QED BY <1>3 DEF Promotions, PromotedIn

LEMMA OnlyWritesTouchTheAgent ==
  ASSUME [Next]_vars, \A x \in Admins : ~Write(x)
  PROVE  UNCHANGED agent
<1>1. ASSUME NEW x \in Admins, Transition(x) PROVE UNCHANGED agent
  BY <1>1 DEF Transition, ReadAgent, PassReviewGate, PassApprovalGate, PassEvalGate, Step,
              TestReview, Refuse, RollBack
<1>2. CASE Evidence
  BY <1>2 DEF Evidence, CreateReview, OpenReview, Decide, Grant, Expire, CreateSuite, PassSuite
<1>3. ASSUME NEW u \in Runners, Run(u) PROVE UNCHANGED agent
  BY <1>3 DEF Run, OpenRun, PickApproval, NoApproval, Consume, Launch
<1> QED BY <1>1, <1>2, <1>3 DEF Next

LEMMA StepAccounts == Types /\ Accounts /\ [Next]_vars => Accounts'
<1> SUFFICES ASSUME Types, Accounts, [Next]_vars PROVE Accounts'
  OBVIOUS
<1>1. CASE \A x \in Admins : ~Write(x)
  <2>1. UNCHANGED agent  BY <1>1, OnlyWritesTouchTheAgent
  <2> QED BY <2>1 DEF Accounts
<1>2. ASSUME NEW x \in Admins, Write(x) PROVE Accounts'
  <2>1. PICK e \in Entry : Record(x) = <<e>> /\ e.to = goal[x]  BY <1>2, WriteFacts
  <2>2. ledger \in Seq(Entry)  BY DEF Types, AgentType
  <2>3. ledger' = ledger \o <<e>>  BY <1>2, <2>1, WriteFacts
  <2>4. ledger' # <<>> /\ Last(ledger') = e  BY <2>2, <2>3, AppendEntry
  <2>5. status' = e.to  BY <1>2, <2>1, WriteFacts
  <2>6. versions' = Cardinality(PromotedIn(ledger'))
    <3>1. versions = Cardinality(PromotedIn(ledger))  BY DEF Accounts
    <3>2. versions' = IF e.to = "production" THEN versions + 1 ELSE versions
      BY <1>2, <2>1, WriteFacts
    <3> QED BY <2>2, <2>3, <3>1, <3>2, OneMorePromotion
  <2>7. status' = "production" => deployed'
    BY <1>2, WriteFacts
  <2> QED BY <2>4, <2>5, <2>6, <2>7 DEF Accounts
<1> QED BY <1>1, <1>2

LEMMA InitAccounts == Init => Accounts
<1> SUFFICES ASSUME Init PROVE Accounts
  OBVIOUS
<1>1. ledger = <<>> /\ status = "draft" /\ versions = 0  BY DEF Init
<1>2. PromotedIn(<<>>) = {}  BY DEF PromotedIn
<1>3. Cardinality(PromotedIn(ledger)) = 0  BY <1>1, <1>2, FS_EmptySet
<1> QED BY <1>1, <1>3 DEF Accounts

(* However the requests on an agent interleave, its last audit record      *)
(* names its status, it has one version snapshot per promotion, and in     *)
(* production it has a deployment date: what transition() commits together *)
(* stays together for any number of web workers.                           *)
THEOREM LedgerAlwaysAccounts == Spec => []LedgerAccounts
<1>1. Types /\ Accounts => LedgerAccounts  BY AllPromotions DEF Accounts, LedgerAccounts
<1> QED BY <1>1, AlwaysTypes, InitAccounts, StepAccounts, PTL DEF Spec

-----------------------------------------------------------------------------
(* The production gates: a request that went past the approval gate found  *)
(* an approval, and approvals are never withdrawn; one that went past the  *)
(* test of the transaction found an approved review, and whoever takes the *)
(* last one away takes note of it.  Served one at a time, nobody decides   *)
(* a review while a transition is under way.                               *)

Gated ==
  \A x \in Admins : goal[x] = "production" /\ x \notin Staff =>
    /\ apc[x] \in {"eval gate", "review test", "save"} => granted > 0
    /\ apc[x] = "save" => Reviewed \/ x \in overturned

Apart ==
  ~overlap =>
    /\ overturned = {}
    /\ \A x \in Admins, d \in Reviewers : apc[x] # "idle" => rpc[d] = "idle"

LEMMA OverlapFixed ==
  ASSUME [Next]_vars
  PROVE  overlap' = overlap
<1>1. ASSUME NEW x \in Admins, Transition(x) PROVE UNCHANGED overlap
  BY <1>1 DEF Transition, ReadAgent, PassReviewGate, PassApprovalGate, PassEvalGate, Step,
              TestReview, Refuse, RollBack, Write, Commit, Leave
<1>2. CASE Evidence
  BY <1>2 DEF Evidence, CreateReview, OpenReview, Decide, Grant, Expire, CreateSuite, PassSuite
<1>3. ASSUME NEW u \in Runners, Run(u) PROVE UNCHANGED overlap
  BY <1>3 DEF Run, OpenRun, PickApproval, NoApproval, Consume, Launch
<1> QED BY <1>1, <1>2, <1>3 DEF Next

(* A transition touches neither reviews nor approvals.                     *)
LEMMA TransitionGated ==
  ASSUME Types, Gated, NEW x \in Admins, Transition(x)
  PROVE  Gated'
<1>1. UNCHANGED <<granted, review>>
  BY DEF Transition, ReadAgent, PassReviewGate, PassApprovalGate, PassEvalGate, Step,
         TestReview, Refuse, RollBack, Write, Commit, Leave
<1>2. Reviewed' = Reviewed  BY <1>1 DEF Reviewed
<1>3. CASE ReadAgent(x)
  <2>1. PICK to \in Statuses :
          /\ goal' = [goal EXCEPT ![x] = to]
          /\ apc' = [apc EXCEPT ![x] =
                IF to = "production" /\ x \notin Staff THEN "review gate" ELSE "save"]
    BY <1>3, ReadFacts
  <2>2. overturned' = overturned  BY <1>3, ReadFacts
  <2> QED BY <1>1, <1>2, <2>1, <2>2 DEF Gated, Types, TransitionType
<1>4. CASE PassReviewGate(x)
  BY <1>1, <1>2, <1>4 DEF PassReviewGate, Step, Gated, Types, TransitionType
<1>5. CASE PassApprovalGate(x)
  <2>1. granted > 0
    <3>1. PICK a \in Approvals : a <= granted  BY <1>5 DEF PassApprovalGate, Valid
    <3>2. a \in Nat /\ a >= 1  BY GovernanceAssumption DEF Approvals
    <3>3. granted \in Nat  BY GovernanceAssumption DEF Types, EvidenceType
    <3> QED BY <3>1, <3>2, <3>3
  <2>2. /\ apc' = [apc EXCEPT ![x] = "eval gate"] /\ UNCHANGED <<goal, overturned>>
    BY <1>5 DEF PassApprovalGate, Step
  <2> QED BY <1>1, <1>2, <2>1, <2>2 DEF Gated, Types, TransitionType
<1>6. CASE PassEvalGate(x)
  BY <1>1, <1>2, <1>6 DEF PassEvalGate, Step, Gated, Types, TransitionType
<1>7. CASE TestReview(x)
  BY <1>1, <1>2, <1>7 DEF TestReview, Step, Gated, Types, TransitionType
<1>8. CASE Refuse(x) \/ RollBack(x) \/ Write(x)
  <2>1. Leave(x)  BY <1>8 DEF Refuse, RollBack, Write, Commit
  <2> QED BY <1>1, <1>2, <2>1 DEF Leave, Gated, Types, TransitionType
<1> QED BY <1>3, <1>4, <1>5, <1>6, <1>7, <1>8 DEF Transition

(* Approvals only become more; a decision that leaves no approved review   *)
(* marks every request about to save.                                      *)
LEMMA EvidenceGated ==
  ASSUME Types, Gated, Evidence
  PROVE  Gated'
<1>1. UNCHANGED <<apc, goal>>
  BY DEF Evidence, CreateReview, OpenReview, Decide, Grant, Expire, CreateSuite, PassSuite
<1>2. granted > 0 => granted' > 0
  <2>1. granted' = granted \/ granted' = granted + 1
    BY DEF Evidence, CreateReview, OpenReview, Decide, Grant, Expire, CreateSuite, PassSuite
  <2>2. granted \in Nat  BY GovernanceAssumption DEF Types, EvidenceType
  <2> QED BY <2>1, <2>2
<1>3. ASSUME NEW x \in Admins, apc[x] = "save", Reviewed \/ x \in overturned
      PROVE  Reviewed' \/ x \in overturned'
  <2>1. ASSUME NEW d \in Reviewers, Decide(d) PROVE Reviewed' \/ x \in overturned'
    BY <1>3, <2>1 DEF Decide
  <2>2. ASSUME NEW r \in Reviews, CreateReview(r) PROVE Reviewed' \/ x \in overturned'
    <3>1. /\ review[r] = "absent" /\ overturned' = overturned
          /\ \A s \in Reviews : s # r => review'[s] = review[s]
      BY <2>2 DEF CreateReview, Types, EvidenceType
    <3> QED BY <1>3, <3>1 DEF Reviewed
  <2>3. ASSUME UNCHANGED <<review, overturned>> PROVE Reviewed' \/ x \in overturned'
    BY <1>3, <2>3 DEF Reviewed
  <2> QED
    BY <2>1, <2>2, <2>3 DEF Evidence, OpenReview, Grant, Expire, CreateSuite, PassSuite
<1> QED BY <1>1, <1>2, <1>3 DEF Gated

LEMMA StepGated == Types /\ Gated /\ [Next]_vars => Gated'
<1> SUFFICES ASSUME Types, Gated, [Next]_vars PROVE Gated'
  OBVIOUS
<1>1. ASSUME NEW u \in Runners, Run(u) PROVE Gated'
  <2>1. UNCHANGED <<review, transitions, granted>>
    BY <1>1 DEF Run, OpenRun, PickApproval, NoApproval, Consume, Launch
  <2> QED BY <2>1 DEF Gated, Reviewed
<1>2. CASE UNCHANGED vars  BY <1>2 DEF Gated, Reviewed
<1> QED BY <1>1, <1>2, TransitionGated, EvidenceGated DEF Next

LEMMA StepApart == Types /\ Apart /\ [Next]_vars => Apart'
<1> SUFFICES ASSUME Types, Apart, [Next]_vars, ~overlap
             PROVE  /\ overturned' = {}
                    /\ \A x \in Admins, d \in Reviewers : apc'[x] # "idle" => rpc'[d] = "idle"
  BY OverlapFixed DEF Apart
<1>0. /\ overturned = {}
      /\ \A x \in Admins, d \in Reviewers : apc[x] # "idle" => rpc[d] = "idle"
  BY DEF Apart
<1> DEFINE Goal == /\ overturned' = {}
                   /\ \A x \in Admins, d \in Reviewers : apc'[x] # "idle" => rpc'[d] = "idle"
<1>1. ASSUME NEW x \in Admins, Transition(x) PROVE Goal
  <2>1. UNCHANGED rpc /\ overturned' \subseteq overturned
    BY <1>1 DEF Transition, ReadAgent, PassReviewGate, PassApprovalGate, PassEvalGate, Step,
                TestReview, Refuse, RollBack, Write, Commit, Leave
  <2>2. CASE ReadAgent(x)
    <3>1. \A d \in Reviewers : rpc[d] = "idle"  BY <2>2, ReadFacts DEF Admitted, Quiet
    <3> QED BY <1>0, <2>1, <3>1
  <2>3. CASE ~ReadAgent(x)
    <3>1. \A y \in Admins : apc'[y] # "idle" => apc[y] # "idle"
      BY <1>1, <2>3 DEF Transition, PassReviewGate, PassApprovalGate, PassEvalGate, Step,
                        TestReview, Refuse, RollBack, Write, Commit, Leave, Types, TransitionType
    <3> QED BY <1>0, <2>1, <3>1
  <2> QED BY <2>2, <2>3
<1>2. CASE Evidence
  <2>1. UNCHANGED apc
    BY <1>2 DEF Evidence, CreateReview, OpenReview, Decide, Grant, Expire, CreateSuite, PassSuite
  <2>2. ASSUME NEW d \in Reviewers, OpenReview(d) PROVE Goal
    <3>1. \A x \in Admins : apc[x] = "idle"  BY <2>2 DEF OpenReview, Admitted, Quiet
    <3>2. overturned' = overturned  BY <2>2 DEF OpenReview
    <3> QED BY <1>0, <2>1, <3>1, <3>2
  <2>3. ASSUME NEW d \in Reviewers, Decide(d) PROVE Goal
    <3>1. /\ rpc[d] = "deciding"
          /\ \A e \in Reviewers : rpc'[e] = "idle" \/ rpc'[e] = rpc[e]
      BY <2>3 DEF Decide, Types, DecisionType
    <3>2. \A x \in Admins : apc[x] = "idle"  BY <1>0, <3>1
    <3>3. overturned' = {}  BY <1>0, <2>3, <3>2 DEF Decide
    <3> QED BY <2>1, <3>2, <3>3
  <2>4. ASSUME UNCHANGED <<rpc, overturned>> PROVE Goal
    BY <1>0, <2>1, <2>4
  <2> QED
    BY <1>2, <2>2, <2>3, <2>4
    DEF Evidence, CreateReview, Grant, Expire, CreateSuite, PassSuite
<1>3. ASSUME NEW u \in Runners, Run(u) PROVE Goal
  <2>1. UNCHANGED <<apc, overturned, rpc>>
    BY <1>3 DEF Run, OpenRun, PickApproval, NoApproval, Consume, Launch
  <2> QED BY <1>0, <2>1
<1>4. CASE UNCHANGED vars  BY <1>0, <1>4
<1> QED BY <1>1, <1>2, <1>3, <1>4 DEF Next

LEMMA GatedPromotions ==
  ASSUME Types, Gated, Apart, [Next]_vars, Promotions(FALSE)' # Promotions(FALSE)
  PROVE  /\ granted > 0
         /\ \/ Reviewed
            \/ overlap /\ \E x \in overturned : apc'[x] = "idle"
<1>1. PICK x \in Admins : Write(x)
  <2> SUFFICES ASSUME \A x \in Admins : ~Write(x) PROVE FALSE
    OBVIOUS
  <2>1. UNCHANGED agent  BY OnlyWritesTouchTheAgent
  <2> QED BY <2>1 DEF Promotions
<1>2. PICK e \in Entry : Record(x) = <<e>> /\ e.to = goal[x] /\ e.forced = Forced(x)
  BY <1>1, WriteFacts
<1>3. ledger \in Seq(Entry)  BY DEF Types, AgentType
<1>4. ledger' = ledger \o <<e>>  BY <1>1, <1>2, WriteFacts
<1>5. e.to = "production" /\ e.forced = FALSE
  <2> SUFFICES ASSUME ~(e.to = "production" /\ e.forced = FALSE)
               PROVE  Promotions(FALSE)' = Promotions(FALSE)
    OBVIOUS
  <2> DEFINE n == Len(ledger)
  <2>1. /\ n \in Nat /\ Len(ledger') = n + 1 /\ ledger'[n + 1] = e
        /\ \A i \in 1..n : ledger'[i] = ledger[i]
    BY <1>3, <1>4, AppendEntry
  <2> QED BY <2>1 DEF Promotions
<1>6. goal[x] = "production" /\ ~Forced(x) /\ x \notin Staff
  BY <1>2, <1>5 DEF Forced
<1>7. apc[x] = "save" /\ Leave(x)  BY <1>1, WriteFacts
<1>8. apc'[x] = "idle"  BY <1>7 DEF Leave, Types, TransitionType
<1>9. granted > 0 /\ (Reviewed \/ x \in overturned)  BY <1>6, <1>7 DEF Gated
<1>10. x \in overturned => overlap  BY DEF Apart
<1> QED BY <1>8, <1>9, <1>10

LEMMA AlwaysGated == Spec => [](Gated /\ Apart)
<1>1. Init => Gated /\ Apart  BY DEF Init, Gated, Apart
<1> QED BY <1>1, AlwaysTypes, StepGated, StepApart, PTL DEF Spec

(* Whatever number of transition requests, review decisions and runs       *)
(* interleave, nobody but staff promotes an agent that was never granted   *)
(* an approval, or that has no approved review, unless a rejection landed  *)
(* between the test and the UPDATE of that very transaction; served one at *)
(* a time, not even then.                                                  *)
THEOREM PromotionsAlwaysGated == Spec => PromotionsGated
<1>1. Types /\ (Gated /\ Apart) /\ [Next]_vars
        => [Promotions(FALSE)' # Promotions(FALSE) =>
              /\ granted > 0
              /\ \/ Reviewed
                 \/ overlap /\ \E x \in overturned : apc'[x] = "idle"]_vars
  BY GatedPromotions
<1> QED BY <1>1, AlwaysTypes, AlwaysGated, PTL DEF Spec, PromotionsGated

-----------------------------------------------------------------------------
(* Requests served one at a time                                           *)

Busy(x) == apc[x] # "idle"
Running(u) == upc[u] \in {"opened", "picked"}

(* At most one request is under way, and what it holds in memory is what   *)
(* the rows still say.                                                     *)
OneTransition == \A x, y \in Admins : Busy(x) /\ Busy(y) => x = y
CopyCurrent ==
  \A x \in Admins : Busy(x) =>
    /\ goal[x] \in ALLOWED_TRANSITIONS[status]
    /\ copy[x].deployed = deployed
OneRun == \A u, v \in Runners : Running(u) /\ Running(v) => u = v
PickUnused == \A u \in Runners : upc[u] = "picked" => ~consumed[picked[u]]
UsedUp == \A a \in Approvals : runs[a] > 0 => consumed[a]
OnceEach == \A a \in Approvals : runs[a] <= 1

SerialTransitions == ~overlap => OneTransition /\ CopyCurrent
SerialRuns == ~overlap => OneRun /\ PickUnused /\ OnceEach

(* Leaving frees the one slot.                                             *)
LEMMA LeaveSerial ==
  ASSUME Types, NEW x \in Admins, Busy(x), OneTransition, Leave(x)
  PROVE  (OneTransition /\ CopyCurrent)'
<1>1. apc' = [apc EXCEPT ![x] = "idle"] /\ DOMAIN apc = Admins
  BY DEF Leave, Types, TransitionType
<1>2. apc'[x] = "idle" /\ \A y \in Admins \ {x} : apc'[y] = apc[y]  BY <1>1
<1>3. \A y \in Admins : ~Busy(y)'  BY <1>2 DEF Busy, OneTransition
<1> QED BY <1>3 DEF OneTransition, CopyCurrent

LEMMA StepSerialTransitions == Types /\ SerialTransitions /\ [Next]_vars => SerialTransitions'
<1> SUFFICES ASSUME Types, SerialTransitions, [Next]_vars, ~overlap
             PROVE  (OneTransition /\ CopyCurrent)'
  BY OverlapFixed DEF SerialTransitions
<1>0. OneTransition /\ CopyCurrent  BY DEF SerialTransitions
<1>1. ASSUME UNCHANGED <<agent, apc, copy, goal>> PROVE (OneTransition /\ CopyCurrent)'
  BY <1>0, <1>1 DEF OneTransition, CopyCurrent, Busy
<1>2. ASSUME NEW x \in Admins, Transition(x) PROVE (OneTransition /\ CopyCurrent)'
  <2>1. CASE ReadAgent(x)
    <3>1. \A y \in Admins : ~Busy(y)  BY <2>1, ReadFacts DEF Admitted, Quiet, Busy
    <3>2. PICK to \in Statuses :
            /\ to \in ALLOWED_TRANSITIONS[status]
            /\ goal' = [goal EXCEPT ![x] = to]
            /\ apc' = [apc EXCEPT ![x] =
                  IF to = "production" /\ x \notin Staff THEN "review gate" ELSE "save"]
      BY <2>1, ReadFacts
    <3>3. goal'[x] = to /\ \A y \in Admins : Busy(y)' => y = x
      BY <3>1, <3>2 DEF Types, TransitionType, Busy
    <3>4. copy'[x].deployed = deployed
      <4>1. copy' = [copy EXCEPT ![x] = [status |-> status, deployed |-> deployed]]
        BY <2>1, ReadFacts
      <4>2. copy'[x] = [status |-> status, deployed |-> deployed]
        BY <4>1 DEF Types, TransitionType
      <4> QED BY <4>2
    <3>5. status' = status /\ deployed' = deployed  BY <2>1, ReadFacts
    <3> QED BY <3>2, <3>3, <3>4, <3>5 DEF OneTransition, CopyCurrent
  <2>2. CASE PassReviewGate(x) \/ PassApprovalGate(x) \/ PassEvalGate(x) \/ TestReview(x)
    <3>1. PICK pc \in {"review gate", "approval gate", "eval gate", "review test", "save"} :
            Busy(x) /\ Step(x, pc)
      BY <2>2 DEF PassReviewGate, PassApprovalGate, PassEvalGate, TestReview, Busy
    <3>2. \A y \in Admins : Busy(y)' => Busy(y)
      BY <3>1 DEF Step, Busy, Types, TransitionType
    <3>3. UNCHANGED <<agent, copy, goal>>  BY <3>1 DEF Step
    <3> QED BY <1>0, <3>2, <3>3 DEF OneTransition, CopyCurrent
  <2>3. CASE Refuse(x) \/ RollBack(x) \/ Write(x)
    <3>1. Leave(x) /\ Busy(x)  BY <2>3 DEF Refuse, RollBack, Write, Commit, Busy
    <3> QED BY <1>0, <3>1, LeaveSerial
  <2> QED BY <1>2, <2>1, <2>2, <2>3 DEF Transition
<1>3. CASE Evidence
  <2>1. UNCHANGED <<agent, apc, copy, goal>>
    BY <1>3 DEF Evidence, CreateReview, OpenReview, Decide, Grant, Expire, CreateSuite, PassSuite
  <2> QED BY <1>1, <2>1
<1>4. ASSUME NEW u \in Runners, Run(u) PROVE (OneTransition /\ CopyCurrent)'
  <2>1. UNCHANGED <<agent, apc, copy, goal>>
    BY <1>4 DEF Run, OpenRun, PickApproval, NoApproval, Consume, Launch
  <2> QED BY <1>1, <2>1
<1>5. CASE UNCHANGED vars  BY <1>1, <1>5
<1> QED BY <1>2, <1>3, <1>4, <1>5 DEF Next

LEMMA SerialTransitionStep ==
  ASSUME Types, SerialTransitions, [Next]_vars, ~overlap, status' # status
  PROVE  /\ status' \in ALLOWED_TRANSITIONS[status]
         /\ deployed => deployed'
<1>1. PICK x \in Admins : Write(x)  BY OnlyWritesTouchTheAgent
<1>2. Busy(x)  BY <1>1, WriteFacts DEF Busy
<1>3. goal[x] \in ALLOWED_TRANSITIONS[status] /\ copy[x].deployed = deployed
  BY <1>2 DEF SerialTransitions, CopyCurrent
<1> QED BY <1>1, <1>3, WriteFacts

LEMMA AlwaysSerialTransitions == Spec => []SerialTransitions
<1>1. Init => SerialTransitions
  BY DEF Init, SerialTransitions, OneTransition, CopyCurrent, Busy
<1> QED BY <1>1, AlwaysTypes, StepSerialTransitions, PTL DEF Spec

(* Requests served one at a time follow ALLOWED_TRANSITIONS and never lose *)
(* the deployment date, however many are served: only two that overlap can *)
(* leave it.                                                               *)
THEOREM SerialKeepsTheLifecycle == Spec => SerialLifecycle
<1>1. Types /\ SerialTransitions /\ [Next]_vars
        => [~overlap /\ status' # status =>
              /\ status' \in ALLOWED_TRANSITIONS[status]
              /\ deployed => deployed']_vars
  BY SerialTransitionStep
<1> QED BY <1>1, AlwaysTypes, AlwaysSerialTransitions, PTL DEF Spec, SerialLifecycle

LEMMA StepRuns ==
  Types /\ UsedUp /\ SerialRuns /\ [Next]_vars => UsedUp' /\ SerialRuns'
<1> SUFFICES ASSUME Types, UsedUp, SerialRuns, [Next]_vars
             PROVE  UsedUp' /\ (~overlap => (OneRun /\ PickUnused /\ OnceEach)')
  BY OverlapFixed DEF SerialRuns
<1> DEFINE Goal == UsedUp' /\ (~overlap => (OneRun /\ PickUnused /\ OnceEach)')
<1>1. ASSUME UNCHANGED <<consumed, executions>> PROVE Goal
  BY <1>1 DEF UsedUp, SerialRuns, OneRun, PickUnused, OnceEach, Running
<1>2. ASSUME NEW x \in Admins, Transition(x) PROVE Goal
  <2>1. UNCHANGED <<consumed, executions>>
    BY <1>2 DEF Transition, ReadAgent, PassReviewGate, PassApprovalGate, PassEvalGate, Step,
                TestReview, Refuse, RollBack, Write, Commit, Leave
  <2> QED BY <1>1, <2>1
<1>3. CASE Evidence
  <2>1. UNCHANGED <<consumed, executions>>
    BY <1>3 DEF Evidence, CreateReview, OpenReview, Decide, Grant, Expire, CreateSuite, PassSuite
  <2> QED BY <1>1, <2>1
<1>4. ASSUME NEW u \in Runners, Run(u) PROVE Goal
  <2>0. /\ upc \in [Runners -> {"new", "opened", "picked", "started", "refused"}]
        /\ picked \in [Runners -> 0..MaxApprovals]
        /\ runs \in [Approvals -> Nat] /\ consumed \in [Approvals -> BOOLEAN]
    BY DEF Types, RunType, ConsumedType
  <2>1. CASE OpenRun(u)
    <3>1. UNCHANGED <<consumed, picked, runs>>  BY <2>1 DEF OpenRun
    <3>2. UsedUp'  BY <3>1 DEF UsedUp
    <3>3. ASSUME ~overlap PROVE (OneRun /\ PickUnused /\ OnceEach)'
      <4>1. \A v \in Runners : ~Running(v)  BY <2>1, <3>3 DEF OpenRun, Admitted, Quiet, Running
      <4>2. \A v \in Runners : (Running(v)' => v = u) /\ upc'[v] # "picked"
        BY <2>0, <2>1, <4>1 DEF OpenRun, Running
      <4>3. OnceEach'  BY <3>1, <3>3 DEF SerialRuns, OnceEach
      <4> QED BY <4>2, <4>3 DEF OneRun, PickUnused
    <3> QED BY <3>2, <3>3
  <2>2. CASE PickApproval(u)
    <3>1. UNCHANGED <<consumed, runs>>  BY <2>2 DEF PickApproval
    <3>2. UsedUp'  BY <3>1 DEF UsedUp
    <3>3. ASSUME ~overlap PROVE (OneRun /\ PickUnused /\ OnceEach)'
      <4>1. PICK a \in Approvals : ~consumed[a] /\ picked' = [picked EXCEPT ![u] = a]
        BY <2>2 DEF PickApproval, Valid
      <4>2. \A v \in Runners : Running(v)' => Running(v)
        BY <2>0, <2>2 DEF PickApproval, Running
      <4>3. PickUnused'
        BY <2>0, <2>2, <3>1, <3>3, <4>1 DEF PickApproval, PickUnused, SerialRuns
      <4> QED BY <3>1, <3>3, <4>2, <4>3 DEF SerialRuns, OneRun, OnceEach
    <3> QED BY <3>2, <3>3
  <2>3. CASE NoApproval(u)
    <3>1. UNCHANGED <<consumed, picked, runs>>  BY <2>3 DEF NoApproval
    <3>2. \A v \in Runners : (Running(v)' => Running(v)) /\ (upc'[v] = "picked" => upc[v] = "picked")
      BY <2>0, <2>3 DEF NoApproval, Running
    <3> QED BY <3>1, <3>2 DEF UsedUp, SerialRuns, OneRun, PickUnused, OnceEach
  <2>4. CASE Consume(u)
    <3> DEFINE a == picked[u]
    <3>1. /\ a \in Approvals /\ upc[u] = "picked"
          /\ consumed' = [consumed EXCEPT ![a] = TRUE]
          /\ runs' = [runs EXCEPT ![a] = @ + 1]
          /\ upc' = [upc EXCEPT ![u] = "started"] /\ picked' = picked
      BY <2>4 DEF Consume, Launch, Types, PickedExists
    <3>2. UsedUp'  BY <2>0, <3>1 DEF UsedUp
    <3>3. ASSUME ~overlap PROVE (OneRun /\ PickUnused /\ OnceEach)'
      <4>1. \A v \in Runners : ~Running(v)'
        BY <2>0, <3>1, <3>3 DEF SerialRuns, OneRun, Running
      <4>2. (OneRun /\ PickUnused)'  BY <4>1 DEF OneRun, PickUnused, Running
      <4>3. ~consumed[a]  BY <3>1, <3>3 DEF SerialRuns, PickUnused
      <4>4. runs[a] = 0  BY <2>0, <3>1, <4>3 DEF UsedUp
      <4>5. OnceEach'  BY <2>0, <3>1, <3>3, <4>4 DEF SerialRuns, OnceEach
      <4> QED BY <4>2, <4>5
    <3> QED BY <3>2, <3>3
  <2> QED BY <1>4, <2>1, <2>2, <2>3, <2>4 DEF Run
<1>5. CASE UNCHANGED vars  BY <1>1, <1>5
<1> QED BY <1>2, <1>3, <1>4, <1>5 DEF Next

LEMMA AlwaysRuns == Spec => [](UsedUp /\ SerialRuns)
<1>1. Init => UsedUp /\ SerialRuns
  BY DEF Init, UsedUp, SerialRuns, OneRun, PickUnused, OnceEach, Running
<1> QED BY <1>1, AlwaysTypes, StepRuns, PTL DEF Spec

(* An approval that started a run is consumed, and of runs served one at a *)
(* time none starts on a used approval, for any number of them.            *)
THEOREM SerialUseIsSingle == Spec => []SerialApprovals
<1>1. UsedUp /\ SerialRuns => SerialApprovals
  BY DEF UsedUp, SerialRuns, OnceEach, SerialApprovals
<1> QED BY <1>1, AlwaysRuns, PTL
=============================================================================
