# TLA+ models of the agentic platform

The repository is a Django control plane for governed AI agents: it registers
agents and promotes them through a lifecycle, runs them one at a time, as
asynchronous tasks or as steps of a workflow, and exposes them to other systems.
This directory models the parts of it that keep state across processes and
failures. TLC checks every model on a small instance; TLAPS proves every safety
property that holds there for all instances, some of them under the conditions
named under "Proofs". `PROJECT.json` lists the components, the runs, the source lines of every definition, the hazards of the
code and which property watches which.

## Inventory

| Part | State it keeps | Operations | What is hard about it | Module |
|---|---|---|---|---|
| Workflow queue (`services/workflow_queue.py`, `tasks.py`, `process_workflow_runs`) | `WorkflowRun` rows, Celery messages | enqueue, dispatch, claim, recover stale runs, requeue dead letters | several kinds of worker, redelivery (`acks_late`), crashes between commit and dispatch, staleness judged by `updated_at` | `WorkflowQueue` |
| Orchestrator (`services/orchestrator.py`) | local sets of one execution, `WorkflowTaskRun` rows, `outputs` | start, execute, waves, retries, skips | thread pool, single-writer merge, graphs that may be cyclic, accounting after failures | `Orchestrator` |
| Agent tasks (`services/agent_tasks.py`) | `AsyncAgentTask` rows, Celery messages | submit, claim, run, mark, recover | two backends, inline execution in a web request, no heartbeat | `AgentTasks` |
| Governance (`services/governance.py`, `models.Agent`, views) | `Agent.status`, reviews, approvals, audit log | transition, decide, approve, consume | gates read one by one and outside the writing transaction, unlocked writes by several web workers | `Governance` |
| Agent runtime, guardrails, adapters (`services/agent_runtime.py`, `guardrails.py`, `adapters/`) | `AgentRun`, session messages, telemetry events, span | stream | disconnects, errors after the run was saved completed, overlapping messages of one session | `AgentRuntime` |
| Budgets (`services/telemetry.py`, `compute_budgets`) | `BudgetAlert`, `Agent.budget_alert` | check after a run, hourly job | the flag is tested on a stale copy and saved back | `AgentRuntime` |
| Tool bindings (`services/tools/*`, connectors, MCP client and endpoint) | `AgentToolBinding`, `RemoteMcpServer` | plan, bind, promote, resolve, call | an approval that outlives what it approved, copies taken at the start of a run | `ToolAccess` |
| Circuit breaker (`services/connectors/rest_connector.py`, `orchestrator.py`) | two cache entries | count, open, reset | read and write in two steps, expiry | `ToolAccess` |
| Interop (`services/interop/*`, `services/scanners/*`, `api/a2a_views.py`) | cards, MCP servers, registry entries | publish, project, sync, scan, review, route, start a task | two rows that must agree, nothing repairs what a request left half done | `Registry` |
| Factory, package ingestion (`services/factory.py`, `package_ingestor.py`) | insights, blueprints, packages, draft agents | score, generate, edit, approve, build, ingest | whole rows saved from stale copies, rows left by a failure half way | `Factory` |
| Scheduler, rate limits, shared memory, span export (`services/operations.py`, `middleware.py`, `services/memory.py`, commands) | `next_run_at`, cache counters, memory rows, `exported` | dispatch what is due, count, write, read, purge, export | overlapping beats, a death between enqueue and save, expiry, concurrent writers | `Operations` |
| Compiler, evaluations, model router, retrieval, reports, admin, front end | little or none | translation, scoring, search, rendering | see "Not modelled" | |

They meet in the database, the cache and Celery: a request or the scheduler
enqueues a run, a worker or a polling command claims it and calls `execute()`,
`execute()` calls the runtime for each step, the runtime takes a copy of the
agent's bindings and calls tools, writes an `AgentRun`, and the recovery job, started
by beat every five minutes or by each loop of the polling command, looks at the
`updated_at` of the rows to decide who died. The factory and package ingestion
create the agents that governance promotes; the registry offers those that were
promoted and published, and starts agent tasks for whoever finds them.

## Modules

**`RunLifecycle`** is the abstract specification: what a caller of either queue may
rely on. A run is owned by at most one process, only the owner settles it, an
orphan goes back to the queue until its attempts are used up, and a settled run
stays settled unless an operator requeues a dead letter.

**`WorkflowQueue`** is the queue. One action is one transaction, one broker call or
the death of one process. The variables are the columns of `WorkflowRun` the
protocol depends on (`status`, `attempts`, `completed` for `completed_at IS NOT
NULL`, `outputs` as the set of steps that have one, `fresh` for "`updated_at` is
inside the 900 s window"), the messages in the broker, the list recovery still has
to redispatch, and for each process where it is and the copy of the row it holds.
`enqueue` is `FindExisting`, `FindNone`, `CreateRun`, `LoseInsertRace` and
`DispatchNew`; `try_claim_run` and `claim_next_pending_run` share `Claim`;
`compile_and_run`, which executes without a claim, is `StartInline`; the writes of
`execute()` are `BeginExecute`, `Wave` and `Settle`; the recovery job is
`RecoverStale`, `Redispatch` and `CrashRecovery`; the requeue of a dead letter is
`ReadDeadLetter`, `SaveRequeue` and `DispatchRequeue`. A message may be delivered
again after it was consumed. If the save in the `finally` of `execute()` raises,
the row stays as it is and the process moves on, which is what `CrashWorker` does.
A step in `Agentless` succeeds without an output: `Wave` merges the outputs of the
others, and writes the row, which is also the heartbeat, only if there is one to
merge. The steps of a workflow and their agents are taken not to change while a run
of it exists (`WorkflowTask.agent` is SET_NULL, so deleting an agent would make its
steps agentless half way).

**`Orchestrator`** is one call of `execute()`: the loop with its iteration bound, the
ready and skippable sets, the wave in a pool of `ORCHESTRATOR_MAX_PARALLEL` threads
or in the coordinator's own, the attempts of a step and their task records, the
merge, and the exceptions that leave each of these. The graph is chosen in `Init`,
because `depends_on` is free JSON. `outputs` are those of this execution: what an
earlier attempt left in the row is the business of `WorkflowQueue`, which keeps
`Wave` at the grain of its writes and leaves the choice of steps to this module. A
workflow without steps fails before the loop and is left out.

**`AgentTasks`** has the shape of the queue with the differences that matter: the
request itself runs the task when there is no broker, nothing is written between
claim and outcome, and no worker polls. `backend` is chosen in `Init`.

**`Governance`** is one agent, with the requests of platform admins and staff,
reviewers and Tier-4 callers being served at once. The gates of
`_check_production_gates` are one action each. The transaction has two: `TestReview`
is the review test that `transition_to` repeats, which locks nothing, and `Write` the
UPDATE with snapshot and audit entry, from the copy of the agent the request read; a
decision of a reviewer may commit between them, and the ghost `overturned` notes the
requests it met there. A test that fails is `RollBack`. `overlap` says whether the deployment serves requests on one agent at the
same time; `render.yaml` starts four web workers, so it does, and the serial case
is there to separate what the code guarantees from what it leaves to chance.

**`AgentRuntime`** is one agent and the runs users stream from it, one action for
each statement that writes: `RunAgent` (the view and its session), the row, the
input scan, the adapter, the output scan with the completed row, the exchange
appended to the session, telemetry, budget, `done`, and the handler that turns any
exception into FAILED. Each step may raise, the handler itself may fail, the client
may leave wherever the generator yields, and the process may die. `compute_budgets`
is `JobLoad` and `ComputeBudgets`, with the copy of the agent in between. What a
pattern or a classifier finds is a choice; what a finding does at each guardrail
level is the code's.

**`ToolAccess`** is what the tools of one agent may reach. A binding is planned and
re-planned by builders, a promotion reads the rows (`ReadBindings`), checks them
(`CheckBindings`) and saves them (`PromoteToLive`), and a run takes its copies in
`ToolsetFor` and decides each `Dispatch` from them: built-in, connector, tool of a
remote server, or simulated. `Answer` and `WriteFailure` are the two halves of the
breaker's count. `McpEndpoint` is the platform's own MCP server. The ghosts
`sanctioned` and `run[r].allowed` record what an approver approved, `streak` the
failures in a row, `overlapped` the connectors whose calls met.

**`Registry`** is one agent with its card, one MCP server, the external agents of the
scanned platforms and those registered by URL. Every request is a sequence of
statements that others may interleave with and that may stop (`Crash`).
`UpsertEntry` keeps a reviewer's verdict the way the code does, by reading it first.
`RouteAndExecute` and `Rpc` are the broker and the A2A endpoint up to the task they
submit. `disturbed` marks the subjects whose requests overlapped or died.

**`Factory`** is one insight, the blueprints derived from it, their agents and one
package. A request loads a copy (`Load...`) and saves it later: an edit saves every
column, an approval and a build the fields they name. An ingestion creates package,
insight, blueprint and agent one by one and then saves the package whole. A deletion
leaves NULL in the links to the row (SET_NULL) and no status touched; a save that
would link a deleted row, or insert a second row with the `package_id`, is refused.
The links to the insight are left out, so a save refused because the insight is gone
is a request that dies, and the model has besides the run in which it goes through. Scores are computed as the code computes
them, from the numbers of a finding; the texts a blueprint derives are one design.

**`Operations`** is what runs beside the agents: `dispatch_scheduled_workflows` with
its slots and idempotency keys, the window of the API rate limiter (`cache.add`,
`cache.incr`, reseed) and the one of the trigger view (`cache.get`, `cache.set`), the
rows of one memory key with their expiry, and the exporter of spans. A clock moves,
and any process may die between two statements.

`ToolAccess` and `Registry` share the MCP server, `Governance` and `ToolAccess` the
agent's status; each models the other's moves as steps it cannot foresee
(`AgentMoves`, `PromoteAgent`, `McpServerSync`), in any order, so that its properties
do not rest on the other's.

**`MC*`** modules give the constants their values for TLC, the `.cfg` files name
the properties. The modules **`...Proofs`** hold the theorems: one for each model, with
`Orchestrator` and `AgentRuntime` together in `ExecutionProofs`, where the names of
`AgentRuntime` (`RuntimeInit`, `RuntimeNext`, `RuntimeSpec`) keep the two apart. Definitions called `Faulty...` are plausible bugs; no specification
uses them. With one of them in the place of the definition it varies, TLC finds the
property listed under "mutants" violated.

## Runs

| Run | Instance | What it shows |
|---|---|---|
| `wq_any` | 1 run; a polling, a Celery and an inline worker; 2 operators; slow steps | attempts stay bounded whatever happens |
| `wq_timely` | 2 runs, 2 requests with one key, 3 workers, 1 operator, 3 steps, one without agent, broker | single execution, kept outputs, settled runs, refinement of `RunLifecycle` |
| `wq_live` | 2 runs, 2 polling workers, no broker, fair | every queued run settles, a dead worker's run is recovered |
| `orch_dag` | 4 steps, 1,536 graphs, one step with a retry, one without agent, pool of 2, fair | order, completeness, accounting, records, termination |
| `orch_skip` (violation) | the chain a, b, c | the skip is not transitive |
| `tasks_timely` | 2 tasks, 3 submits (2 share a key), 2 workers, both backends, fair | single execution, stable answers, settled or stranded, refinement |
| `gov_gates` | 2 admins (1 staff), 2 reviewers, 1 review, 1 approval, 2 runs, 4 transitions | the ledger accounts for the agent; a promotion has its approval and, unless a rejection lands after the test, its review; single use when serial |
| `rt_runs` | 2 runs over 2 conversations, 2 months, a cap, faults, fair | row, telemetry and span tell one story; conversations keep their exchanges; flagged text is not stored; the budget flag converges |
| `tool_calls` | 2 runs, 1 tool, 1 connector, threshold 2 | a call has the sanction of a promotion; the breaker is exact; a disabled server is bound by nobody |
| `reg_sources` | 2 actors, 1 agent, 1 server, 1 scanned and 1 manual agent | the catalogue follows its sources; what was never live is not found; verdicts stand |
| `factory` | 2 requests, 1 blueprint, 2 agents, 2 designs, 1 finding, 2 package rows | a blueprint is built once and as approved; a package that says its sandbox agent was created keeps the document that permits it, and names no other agent |
| `ops_jobs` | 2 processes, 2 spans, 3 starts, 6 ticks, limits of 1 | spacing of scheduled runs, quotas, fresh memory, honest export marks |

Type invariants are proved rather than checked in every run; TLC found each of them
to hold first.

### Bounds

`MaxRuns`, `MaxTasks`, `Requests`, `MaxApprovals` and `MaxLedger` bound what is
created, nothing else is cut off. Two runs are enough because runs meet only
through the order of polling and the idempotency key; two racing requests decide a
key; three workers let a redelivery, a poll and a crash overlap on one run;
`MaxAttempts = 2` passes through "an attempt left", "none left" and, with the
requeue, "fresh again". Four steps give a diamond, a chain of three below a
failure, and a cycle beside a healthy part. A ledger of four entries takes the
agent to production, back to pilot, and lets a second promotion race.

* `rt_runs`: two runs overlap at every statement, in one session or in two. The
  platform is the one whose adapter may leave the most (clean or flagged text, priced
  or not): what any other adapter leaves is among it. The level is "block", the only
  one that withholds, and telemetry is on. A cap of 1 and runs that cost 0 or 1 lie on
  both sides of the budget; `MaxMonth = 2` lets a run span the turn of a month.
* `tool_calls`: a second tool or connector shares nothing with the first, and a
  threshold of 2 has a failure that opens the breaker and one that does not.
  `Retarget` is FALSE: see "Known disagreements".
* `reg_sources`: two actors are any two overlapping requests. `MaxDisturbed = 1` stops
  behaviours at a second disturbed subject, because a property then speaks of the
  others only; `Reviewed` leaves the verdicts to the scanned agent.
* `factory`: with one blueprint id, a second ingestion is followed up to the
  blueprint it can no longer create, which is far enough to overwrite, or be
  overwritten by, the save of the first; identifiers are not used again, except the
  two of the package's row once no request holds a copy with them.
* `ops_jobs`: three starts are two operations that overlap and one that finds what
  they left; six ticks are three windows, or three intervals, of two. `MaxTime` and
  `MaxStarts` are all that ends a behaviour.

Deadlock checking is off in the runs whose model stops once its bounded requests are
served; the cfg says so.

### Fairness

Liveness is checked under weak fairness of what the deployment keeps running:
requests being served (not in `AgentTasks`, where submits may hang), workers
polling or consuming, processes inside `execute()` or an agent call either
progressing or dying (the Celery hard limit of 30 minutes kills them), time
passing, and the recovery job. Crashes, redelivery and operators are never forced.
`Orchestrator` is fair to the coordinator and to the next step of every thread,
not to failures: it assumes that an agent call returns or raises. The LLM client
has a timeout of its own; `WorkflowTask.timeout_seconds` is stored but no code
enforces it. `AgentRuntime` is weakly fair to the steps of a run whose client stays,
since the server iterates the response, and to the start of the hourly budget job
(beat); it is strongly fair to the job's save, which says that a job which is
started for ever does not fail every time. Nothing makes a run raise, disconnect or
crash, or a month pass.

`Timely` is the deployment the comments of the code have in mind: a worker that
writes nothing for the whole window is dead, nobody executes without a claim, and
one operator requeues at a time. `wq_any` does without it.

### Known disagreements

Where the code does not do what a comment or docstring says, the properties state
what it does guarantee. These are the differences, and how to see each.

* A worker silent for more than 900 s is taken for dead, its run is executed again
  and the later save overwrites a settled row (`orchestrator.py:191`, against
  182-184): `SettledStays` in `wq_any`, where `SlowSteps` is TRUE.
* Under Celery alone, a run whose process dies between the commit and `delay()` stays
  PENDING, because recovery looks at RUNNING rows only (`workflow_queue.py:63`,
  against 72-73): `EveryRunSettles` with `DbWorkers = {}` and `Broker = TRUE` under
  `FairSpec`.
* The skip of a failed step's dependants is not transitive (`orchestrator.py:221`):
  the run `orch_skip`.
* With the database backend, a recovered agent task is put back to SUBMITTED, where
  no process looks (`workflow_queue.py:216`, against `models.py:1729-1730`): the
  `Stranded` of `SettledOrStranded`.
* Two overlapping transitions move an agent along an edge `ALLOWED_TRANSITIONS` does
  not have (`models.py:238`, against `governance.py:245-246`): `SerialLifecycle` holds
  only without `overlap`.
* A reviewer who rejects the only approved review between the test of it in the
  transaction and the UPDATE does not stop the promotion (`models.py:229-241`, against
  `governance.py:245-247`): `PromotionsGated` without its `overturned`.
* Two overlapping Tier-4 runs consume one approval (`views.py:174`, against
  `models.py:398`): likewise `SerialApprovals`.
* A plan that changes a binding between the read and the save of one promotion is
  promoted unread, because the promotion saves status and approval only
  (`bindings.py:393`): `CallsSanctioned` with `Retarget = TRUE`.
* Two overlapping writes to one memory scope leave two rows, and every later
  write of the scope fails (`memory.py:71`): what `overlapped` excludes in
  `MemoryFresh`.
* Two overlapping builds of one blueprint make two agents, and the one linked first
  is left without a source (`factory.py:555`, tested on a copy): the second
  conjunct of `BuiltAsApproved` without `disturbed`.
* Deleting a draft sandbox agent leaves its package SANDBOX_CREATED without an agent
  (`models.py:1439`): `DeleteAgent`, and the condition on `package.agent` in
  `SandboxPermitted`.
* An agent demoted after it was published stays discoverable, because the entry is
  not looked at again (`models.py:1600`): `NeverLiveNeverFound` speaks of agents that never
  were live.
* A scan in flight while a reviewer decides puts back the verdict it had read
  (`federation.py:241`): what `disturbed` excludes in `VerdictStands`.
* The key that is to limit an SLO alert to one per hour contains the measured value
  (`operations.py:81`). No model: see the hazards.

## Proofs

The theorems hold for all values of the constants that satisfy the module's own
assumptions, which say that bounds are natural numbers, that subsets are subsets
and that names which stand for "nobody" or for another kind of thing are not used
twice (`SubjectAssumption`, `ConnectorAssumption`, `FactoryAssumption`). TLC evaluates
them in the runs. Theorems of the form `Timely => (Spec => ...)` are about the
deployments described under "Fairness". Each preservation lemma has one step per
action or group of actions, and TLC found every property that a run lists to hold
before it was proved.

`WorkflowQueueProofs`, for any number of runs, workers, requests and steps:

* `TypeCorrect`, `PoisonIsBounded` and `CompletionIsStamped` assume nothing about
  timing. The last two are not inductive: a claim keeps `attempts` within the limit
  only because queued runs have an attempt left, `StartInline` and `CreateRun` need
  the rows that do not exist yet to be blank, and a requeue from a stale copy needs
  to know that its row exists. `Bookkeeping == TypeOK /\ NoGhostRows /\
  PoisonBounded /\ CompletionStamped` is.
* `KeyMeansOneRun`: one run per idempotency key, from `Keys`, which ties the row of
  a key to what its requests hold.
* `OneExecutorAtATime` and `RunningStaysRecoverable` are for timely deployments.
  `Exclusive` adds that the run of a live worker is fresh (so recovery passes it
  over), that an operator's copy of a dead letter is current, and that no RUNNING
  run has `completed_at`. `SettledRunsStay`, an action property, follows from it.
* `CompletedRunsAreWhole` and `OutputsAreKept` add `Memory`: what an executing
  worker holds is at least what the row holds, and what a step with an agent that is
  done left in memory is in the row, so a completed run has the outputs of exactly
  the steps with an agent.
* `ImplementsRunLifecycle`: under `Timely` the initial states map to those of
  `RunLifecycle` and every step to one of its steps or to a stutter; `OwnerFact`
  makes the owner the mapping chooses the one live worker that holds the run.

`ExecutionProofs`, for every graph over any number of steps, every retry limit and
every pool size: `TypeCorrect`, `DependenciesAlwaysFirst`, `RecordsAgree`,
`NothingLeftBehind`, `CompletedMeansAll` and the four below. The inductive invariant `Inv` says what
each stage of the loop knows: `Stages` where a step stands and that every iteration
takes at least one step out of `pending`, so that the bound of the loop, the number
of steps, is not reached with work left; `Merged` that the coordinator's sets are
what the threads returned; `Recorded` what the records of a step can look like;
`DependenciesComplete` that a step that started has completed dependencies; and
`Concluded` what a verdict was drawn from.

* `CompletedAlwaysComplete` and `StallsHaveCause` speak of the graph. `Reachable` is the
  least set closed under readiness. `Grounded` says that whatever completed or was
  dispatched lies in every closed set, so a run that completed all steps has shown
  that the graph is well founded. At a stall without a failure the completed steps
  are a closed set that leaves out a step that waits, so the graph is not.
* `FailureBlocksDownstream`: a step that depends on a failed one, through however many
  others, never starts. It is what the code guarantees of the test that
  `DownstreamSkipped` quotes: such a step does not run, though it may never be
  recorded as skipped. The steps that have not started are closed under "depends on".
* `StepsRunOut` is the part of termination that needs no fairness: every step raises
  `Position`, how far the coordinator has come, or the `Effort` of one thread, lowers
  none, and `Limited` bounds them by the number of steps and the retry limits. That
  fair threads do take these steps is `Ends`, which TLC checks.

`ExecutionProofs`, for any number of runs of an agent and months, all caps, levels and
platforms, with and without `Faults`. `AgentTypes` and `RunInv` are inductive together.
A step either changes one row and no conversation (`RowChange`, with one lemma for
each action), or takes up a session, or appends an exchange.

* `RuntimeTyped`.
* `StoriesAlwaysAgree` from `Story`: what row, telemetry and span hold at each
  statement, in particular that nothing reports a failure before the handler does.
* `LeaksNeverStored` from `Leakproof`, which adds the three places a text passes: the
  adapter's answer once it is scanned, the row of a completed run, and the messages
  a run read from its session.
* `ConversationsSerial` from `Alone` and `Serial`. Of the runs that stand between the
  read of a session and its save, at most one is on a session that was never
  contended, and the messages it read are still the conversation; those of the other
  runs are how it begins. `ConversationsOnlyGrow` is the action property that follows.
* `ConversationsAlwaysTrue` holds for contended sessions too, where exchanges may be
  lost: what is there belongs to runs of that session, once each, with the text of
  the row unless the run failed after it was saved.

`AgentTasksProofs`, for any number of tasks, workers and submits: `TypeCorrect`,
`AttemptsAreBounded` and `KeyMeansOneTask` with no timing, `OneExecutorPerTask`,
`AnswersAlwaysStand` and `ImplementsRunLifecycle` under `Timely`. The argument is
the queue's; the requeue by an operator is gone and inline execution by the request
joins the executors.

`GovernanceProofs`, for any number of requests, reviews and approvals:

* `LedgerAlwaysAccounts`: only `Write` touches the agent's rows, and each write
  explains the status it leaves.
* `PromotionsAlwaysGated`, for every interleaving: `Gated` carries the approval of a
  request from the gate to the UPDATE, and says that one about to update has a
  review that is approved or was overturned since its test; `Apart` that nothing
  is overturned where requests do not overlap, so there the review is approved.
* `SerialKeepsTheLifecycle` and `SerialUseIsSingle`: with requests one at a time, at
  most one is under way and its copy is current (`SerialTransitions`, `SerialRuns`).
  Both need it: see "Known disagreements".

`ToolAccessProofs`, for any number of runs, tools and connectors and any threshold:

* `TypeCorrect`, in which no counter passes the threshold.
* `AlwaysSanctioned` is for `~Retarget`. `CallsSanctioned` speaks of a call; the
  invariant `Sanctioned` adds where its sanction comes from: every live row has the
  target its approver saw (`RowsSanctioned`), a promotion under way still holds the
  targets of the rows (`RequestFresh`, which is where `Retarget` would break it), one
  that has been checked has targets (`RequestChecked`), and so do the copies of a run.
* `DisabledNeverBound` rests on `LateRequest`: a request that began after the server was
  disabled and has passed its checks holds no row bound to that server.
* `BreakerAlwaysExact`: `AllExact` adds that at most one call of an undisturbed connector
  is under way and that the count it read is the count in the cache.

`RegistryProofs`, for any number of actors, platforms and external agents:
`NeverFoundBeforeLive` needs no assumption on overlap; its invariant `NeverLive` says
that no request has come as far as writing a card or an entry, or submitting a task.
`EntryAgrees` and `VerdictsStand` are about undisturbed subjects: `AgentInv` and
`ServerInv` say that one request at most is about the subject and what is true at
each of its statements, `ScanInv` that the verdict a scan read is still the one in
the row.

`FactoryProofs`, for any number of requests, blueprints and agents and all documents and
edits: `SandboxAlwaysPermitted` holds for every interleaving, death and deletion. The row
and every copy an ingestion may still save, once they say "created", hold a document
that permits it and an agent made from it or none (`Packages`); before that, a copy
has its boundary from its document (`Matching`). `AlwaysBuiltAsApproved` is about blueprints whose requests never met:
`Quiet` says that the one request on a blueprint holds the row as it is and that an
agent was built only by a request about to link it; `Fresh` that identifiers are
new. `ScoreInRange` bounds the readiness score.

`OperationsProofs`, for any number of processes and spans and every interval, limit,
window and lifetime: `Solo` says that while no two processes were at one operation,
one at most is. On it rest `RunsAlwaysSpaced` (`ScheduleInv`: the slot in the row was
enqueued already or lies an interval after the last run, which survives a death
between the two), the second half of `QuotaAlways` (`TriggerInv`) and `MemoryAlways`
(`MemoryInv`: what is in a scope is what was written last, or that has expired). The first
half of `QuotaAlways` (`WindowInv`: every admission was counted or missed its window)
and `ExportedAlways` (`SpanInv`: what a job is about to mark did arrive) hold for all
overlaps.

Only model-checked: all liveness and termination, since fairness and ENABLED are
beyond the prover (`EveryRunSettles`, `DeadWorkersRunRecovered`, `Ends`,
`SettledOrStranded`, `BudgetFlagConverges`), and `DownstreamSkipped`, which the code
violates. What `FailureBlocksDownstream`, `StepsRunOut`, `ConversationsAlwaysTrue` and
`ConversationsOnlyGrow` state is in no run, but TLC found it to hold with the
constants of `orch_dag` and `rt_runs` before it was proved.

## Not modelled

* **Model router**: a pure choice among model tiers from a table.
* **Retrieval**: numerical similarity search over embeddings.
* **Visualiser, maturity reports, front end**: they read and render.
* **Admin**: its forced transitions are transitions by staff in `Governance`. Its forms
  let staff edit or delete governed rows directly (the status of a review, the expiry
  of an approval, bindings, blueprints, memory, the tasks of a workflow). No model
  has such edits: each starts from rows written by the platform's own operations.
* Parts of modelled components: `create_version` and its change-control gates,
  the scoring of evaluation cases, which steps a blueprint compiles to, template
  substitution and `delegate_to_agent`, the pattern tables of the guardrails, payloads
  and streaming of the providers, protocol translation and the A2A methods that read,
  the paging of scanners, baselines and metrics, SLO checks, digests and evidence
  bundles. They transform data, or read and send it, without a protocol between
  processes.
* Organisation and role checks decide who may call an operation; the models start
  where the request was let through.

## What is left

1. `AgentRuntime` composed with `AgentTasks`, whose `Record` it refines: what a task
   reports against what its run row says.
2. `Governance` with `create_version`, and the states of an evaluation run.
3. The DAG the compiler produces as an input of `Orchestrator`.
