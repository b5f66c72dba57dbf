----------------------------- MODULE Governance -----------------------------
(***************************************************************************)
(* The governed lifecycle of one agent: GovernanceService.transition       *)
(* (services/governance.py) over Agent.transition_to (models.py), the      *)
(* review, approval and eval records its production gates read, and the    *)
(* execution of a Tier-4 agent, which uses up an approval (views.py).      *)
(*                                                                         *)
(* A request reads the rows it needs one statement at a time, decides on   *)
(* what it holds in memory and writes it back without a lock, so requests  *)
(* served by different web workers overlap.  Each action is one statement  *)
(* or one transaction.                                                     *)
(***************************************************************************)
EXTENDS Integers, Sequences, FiniteSets, SequencesExt

CONSTANTS
  Admins,        \* transition requests being served
  Staff,         \* those of them made by staff, who break the glass
  Reviewers,     \* review decisions being served
  Runners,       \* Tier-4 run requests (bound: each is made once)
  Reviews,       \* the GovernanceReview rows that may be created
  MaxApprovals,  \* bound: approvals ever granted; ids follow created_at
  MaxLedger,     \* bound: transitions of the agent
  SuiteRequired, \* TRUE iff EVAL_GATE_REQUIRE_SUITE_MIN_TIER covers the agent
  Overlaps       \* {TRUE}: requests overlap, {FALSE}: one at a time, or both

Approvals == 1..MaxApprovals

ASSUME GovernanceAssumption ==
  /\ Staff \subseteq Admins
  /\ MaxApprovals \in Nat
  /\ MaxLedger \in Nat
  /\ SuiteRequired \in BOOLEAN
  /\ Overlaps \subseteq BOOLEAN

VARIABLES
  overlap,      \* do requests on the agent overlap in this deployment?
  \* the rows
  status,       \* Agent.status
  deployed,     \* Agent.deployed_at IS NOT NULL
  versions,     \* how many AgentVersion snapshots promotions took
  ledger,       \* the agent.transition entries of AuditLog, in order
  review,       \* review[r]: status of each GovernanceReview
  granted,      \* how many approvals were granted
  consumed,     \* consumed[a]: is_consumed
  expired,      \* the approvals whose expires_at has passed
  suite,        \* the newest active EvalSuite: "none", "unproven" (no passing run) or "passing"
  \* requests
  apc, copy, goal,    \* transitions: where each is, the agent it read, to_status
  overturned,         \* ghost: those due to save an agent whose last approved
                      \* review was rejected after they tested it
  rpc, opened,        \* review decisions, and the review each read
  upc, picked,        \* Tier-4 runs, and the approval each read
  runs                \* runs[a]: agent runs started on approval a

agent == <<status, deployed, versions, ledger>>
evidence == <<review, granted, consumed, expired, suite>>
transitions == <<apc, copy, goal, overturned>>
decisions == <<rpc, opened>>
executions == <<upc, picked, runs>>
vars == <<overlap, agent, evidence, transitions, decisions, executions>>

Statuses == {"draft", "review", "pilot", "production", "retired"}
Live == {"pilot", "production"}

ALLOWED_TRANSITIONS ==
  [draft      |-> {"review"},
   review     |-> {"draft", "pilot"},
   pilot      |-> {"review", "production"},
   production |-> {"pilot", "retired"},
   retired    |-> {}]

Entry == [from : Statuses, to : Statuses, forced : BOOLEAN]

TypeOK ==
  /\ overlap \in Overlaps
  /\ status \in Statuses
  /\ deployed \in BOOLEAN
  /\ versions \in Nat
  /\ ledger \in Seq(Entry)
  /\ review \in [Reviews -> {"absent", "pending", "approved", "rejected"}]
  /\ granted \in 0..MaxApprovals
  /\ consumed \in [Approvals -> BOOLEAN]
  /\ expired \subseteq 1..granted
  /\ suite \in {"none", "unproven", "passing"}
  /\ apc \in [Admins -> {"idle", "review gate", "approval gate", "eval gate", "review test", "save"}]
  /\ copy \in [Admins -> [status : Statuses, deployed : BOOLEAN]]
  /\ goal \in [Admins -> Statuses]
  /\ overturned \subseteq Admins
  /\ rpc \in [Reviewers -> {"idle", "deciding"}]
  /\ opened \in [Reviewers -> Reviews]
  /\ upc \in [Runners -> {"new", "opened", "picked", "started", "refused"}]
  /\ picked \in [Runners -> 0..MaxApprovals]
  /\ runs \in [Approvals -> Nat]

Nobody == [status |-> "draft", deployed |-> FALSE]

Init ==
  /\ overlap \in Overlaps
  /\ status = "draft"
  /\ deployed = FALSE
  /\ versions = 0
  /\ ledger = <<>>
  /\ review = [r \in Reviews |-> "absent"]
  /\ granted = 0
  /\ consumed = [a \in Approvals |-> FALSE]
  /\ expired = {}
  /\ suite = "none"
  /\ apc = [x \in Admins |-> "idle"]
  /\ copy = [x \in Admins |-> Nobody]
  /\ goal = [x \in Admins |-> "draft"]
  /\ overturned = {}
  /\ rpc = [d \in Reviewers |-> "idle"]
  /\ opened \in [Reviewers -> Reviews]
  /\ upc = [u \in Runners |-> "new"]
  /\ picked = [u \in Runners |-> 0]
  /\ runs = [a \in Approvals |-> 0]

(* A request may be taken up: another may be under way only if they overlap.*)
Quiet ==
  /\ \A x \in Admins : apc[x] = "idle"
  /\ \A d \in Reviewers : rpc[d] = "idle"
  /\ \A u \in Runners : upc[u] \notin {"opened", "picked"}
Admitted == overlap \/ Quiet

-----------------------------------------------------------------------------
(* transition(): the state machine and the gates are tested on what the    *)
(* request read, one gate at a time.                                       *)

Forced(x) == x \in Staff /\ goal[x] = "production"

Step(x, pc) ==
  /\ apc' = [apc EXCEPT ![x] = pc]
  /\ UNCHANGED <<overlap, agent, evidence, copy, goal, overturned, decisions, executions>>

(* The request is answered and its memory gone.                            *)
Leave(x) ==
  /\ apc' = [apc EXCEPT ![x] = "idle"]
  /\ copy' = [copy EXCEPT ![x] = Nobody]
  /\ goal' = [goal EXCEPT ![x] = "draft"]
  /\ overturned' = overturned \ {x}
  /\ UNCHANGED <<overlap, evidence, decisions, executions>>

ReadAgent(x) ==
  /\ apc[x] = "idle"
  /\ Admitted
  /\ \E to \in ALLOWED_TRANSITIONS[status] :
       /\ goal' = [goal EXCEPT ![x] = to]
       /\ apc' = [apc EXCEPT ![x] =
                    IF to = "production" /\ x \notin Staff THEN "review gate" ELSE "save"]
  /\ copy' = [copy EXCEPT ![x] = [status |-> status, deployed |-> deployed]]
  /\ UNCHANGED <<overlap, agent, evidence, overturned, decisions, executions>>

Reviewed == \E r \in Reviews : review[r] = "approved"
Valid(a) == a <= granted /\ ~consumed[a] /\ a \notin expired

PassReviewGate(x) == apc[x] = "review gate" /\ Reviewed /\ Step(x, "approval gate")

PassApprovalGate(x) ==
  apc[x] = "approval gate" /\ (\E a \in Approvals : Valid(a)) /\ Step(x, "eval gate")

PassEvalGate(x) ==
  /\ apc[x] = "eval gate"
  /\ suite # "unproven"
  /\ SuiteRequired => suite # "none"
  /\ Step(x, "review test")

(* TransitionError out of a gate.                                          *)
Refuse(x) ==
  /\ \/ apc[x] = "review gate" /\ ~Reviewed
     \/ apc[x] = "approval gate" /\ \A a \in Approvals : ~Valid(a)
     \/ apc[x] = "eval gate" /\ (suite = "unproven" \/ (SuiteRequired /\ suite = "none"))
  /\ Leave(x)
  /\ UNCHANGED agent

(* Faulty variants are named Faulty...; no specification uses them.  They  *)
(* show that the properties below notice the bug each one describes.       *)

(* The transaction does not look at the reviews again.                     *)
FaultyTestReview(x) == apc[x] = "review test" /\ Step(x, "save")

(* The transaction: transition_to() tests the reviews again in a SELECT    *)
(* that locks nothing, and other requests commit before what comes next.   *)
TestReview(x) == apc[x] = "review test" /\ Reviewed /\ Step(x, "save")

(* No approved review by now: ValueError, and the transaction is void.     *)
RollBack(x) == apc[x] = "review test" /\ ~Reviewed /\ Leave(x) /\ UNCHANGED agent

(* The UPDATE, the snapshot and the audit record, which become visible at  *)
(* once; status and deployed_at come from the copy in memory.              *)
Commit(x, entries) ==
  /\ apc[x] = "save"
  /\ Len(ledger) < MaxLedger
  /\ status' = goal[x]
  /\ deployed' = (copy[x].deployed \/ goal[x] = "production")
  /\ versions' = IF goal[x] = "production" THEN versions + 1 ELSE versions
  /\ ledger' = ledger \o entries
  /\ Leave(x)

Record(x) == <<[from |-> copy[x].status, to |-> goal[x], forced |-> Forced(x)]>>

(* A failed audit write does not roll the status change back.              *)
FaultyWriteUnaudited(x) == Commit(x, <<>>)

Write(x) == Commit(x, Record(x))

-----------------------------------------------------------------------------
(* The evidence                                                            *)

(* request_review, or the admin site.                                      *)
CreateReview(r) ==
  /\ review[r] = "absent"
  /\ review' = [review EXCEPT ![r] = "pending"]
  /\ UNCHANGED <<overlap, agent, granted, consumed, expired, suite, transitions, decisions, executions>>

(* governance_decide: the review is read while pending ...                 *)
OpenReview(d) ==
  /\ rpc[d] = "idle"
  /\ Admitted
  /\ \E r \in Reviews : review[r] = "pending" /\ opened' = [opened EXCEPT ![d] = r]
  /\ rpc' = [rpc EXCEPT ![d] = "deciding"]
  /\ UNCHANGED <<overlap, agent, evidence, transitions, executions>>

(* ... and saved whatever became of it, and whoever relies on it.          *)
Decide(d) ==
  /\ rpc[d] = "deciding"
  /\ \E decision \in {"approved", "rejected"} :
       review' = [review EXCEPT ![opened[d]] = decision]
  /\ overturned' = IF Reviewed /\ ~Reviewed'
                   THEN overturned \cup {x \in Admins : apc[x] = "save"}
                   ELSE overturned
  /\ rpc' = [rpc EXCEPT ![d] = "idle"]
  /\ UNCHANGED <<overlap, agent, granted, consumed, expired, suite, apc, copy, goal, opened, executions>>

Grant ==
  /\ granted < MaxApprovals
  /\ granted' = granted + 1
  /\ UNCHANGED <<overlap, agent, review, consumed, expired, suite, transitions, decisions, executions>>

Expire(a) ==
  /\ a <= granted /\ a \notin expired
  /\ expired' = expired \cup {a}
  /\ UNCHANGED <<overlap, agent, review, granted, consumed, suite, transitions, decisions, executions>>

(* A new suite has no passing run; run_suite may give it one, for good.    *)
CreateSuite ==
  /\ suite' = "unproven"
  /\ suite # "unproven"
  /\ UNCHANGED <<overlap, agent, review, granted, consumed, expired, transitions, decisions, executions>>

PassSuite ==
  /\ suite = "unproven"
  /\ suite' = "passing"
  /\ UNCHANGED <<overlap, agent, review, granted, consumed, expired, transitions, decisions, executions>>

-----------------------------------------------------------------------------
(* run_agent() on a Tier-4 agent                                           *)

(* The agent is looked up among the live ones.                             *)
OpenRun(u) ==
  /\ upc[u] = "new"
  /\ Admitted
  /\ upc' = [upc EXCEPT ![u] = IF status \in Live THEN "opened" ELSE "refused"]
  /\ UNCHANGED <<overlap, agent, evidence, transitions, decisions, picked, runs>>

(* The newest valid approval, in memory.                                   *)
PickApproval(u) ==
  /\ upc[u] = "opened"
  /\ \E a \in Approvals :
       /\ Valid(a)
       /\ \A b \in Approvals : Valid(b) => b <= a
       /\ picked' = [picked EXCEPT ![u] = a]
  /\ upc' = [upc EXCEPT ![u] = "picked"]
  /\ UNCHANGED <<overlap, agent, evidence, transitions, decisions, runs>>

NoApproval(u) ==
  /\ upc[u] = "opened"
  /\ \A a \in Approvals : ~Valid(a)
  /\ upc' = [upc EXCEPT ![u] = "refused"]
  /\ UNCHANGED <<overlap, agent, evidence, transitions, decisions, picked, runs>>

Launch(u, isConsumed) ==
  /\ upc[u] = "picked"
  /\ consumed' = [consumed EXCEPT ![picked[u]] = isConsumed]
  /\ runs' = [runs EXCEPT ![picked[u]] = @ + 1]
  /\ upc' = [upc EXCEPT ![u] = "started"]
  /\ UNCHANGED <<overlap, agent, review, granted, expired, suite, transitions, decisions, picked>>

(* The approval is not marked.                                             *)
FaultyConsume(u) == Launch(u, FALSE)

(* The approval is saved as consumed, whoever consumed it before, and the  *)
(* run starts.                                                             *)
Consume(u) == Launch(u, TRUE)

-----------------------------------------------------------------------------
Transition(x) ==
  \/ ReadAgent(x) \/ PassReviewGate(x) \/ PassApprovalGate(x) \/ PassEvalGate(x)
  \/ Refuse(x) \/ TestReview(x) \/ RollBack(x) \/ Write(x)

Evidence ==
  \/ \E r \in Reviews : CreateReview(r)
  \/ \E d \in Reviewers : OpenReview(d) \/ Decide(d)
  \/ Grant
  \/ \E a \in Approvals : Expire(a)
  \/ CreateSuite
  \/ PassSuite

Run(u) == OpenRun(u) \/ PickApproval(u) \/ NoApproval(u) \/ Consume(u)

Next ==
  \/ \E x \in Admins : Transition(x)
  \/ Evidence
  \/ \E u \in Runners : Run(u)

Spec == Init /\ [][Next]_vars

-----------------------------------------------------------------------------
(* Properties                                                              *)

Promotions(forced) ==
  {i \in 1..Len(ledger) : ledger[i].to = "production" /\ ledger[i].forced = forced}

(* The audit trail accounts for the agent whatever overlaps: its last entry*)
(* names the current status, every promotion left a version snapshot, and  *)
(* an agent in production has a deployment date ("must commit together",   *)
(* governance.py:265).                                                     *)
LedgerAccounts ==
  /\ status = IF ledger = <<>> THEN "draft" ELSE Last(ledger).to
  /\ versions = Cardinality(Promotions(TRUE) \cup Promotions(FALSE))
  /\ status = "production" => deployed

(* Nobody but staff promotes an agent that was never granted an approval,  *)
(* or no review of which is approved as the promotion commits.  The one    *)
(* way around is a second reviewer who had opened the review while it was  *)
(* pending and whose rejection lands between the test in the transaction   *)
(* and its UPDATE; requests served one at a time never meet it             *)
(* (_check_production_gates, transition_to).                               *)
PromotionsGated ==
  [][Promotions(FALSE)' # Promotions(FALSE) =>
       /\ granted > 0
       /\ \/ Reviewed
          \/ overlap /\ \E x \in overturned : apc'[x] = "idle"]_vars

(* Requests served one at a time keep to ALLOWED_TRANSITIONS and never     *)
(* lose the deployment date.                                               *)
SerialLifecycle ==
  [][~overlap /\ status' # status =>
       /\ status' \in ALLOWED_TRANSITIONS[status]
       /\ deployed => deployed']_vars

(* Requests served one at a time start one run per approval, and an        *)
(* approval that started a run counts as consumed.                         *)
SerialApprovals ==
  \A a \in Approvals :
    /\ runs[a] > 0 => consumed[a]
    /\ ~overlap => runs[a] <= 1
=============================================================================
