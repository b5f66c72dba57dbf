---------------------------- MODULE WorkflowQueue ----------------------------
(***************************************************************************)
(* The durable workflow queue: services/workflow_queue.py, the Celery task *)
(* that claims from it (tasks.py) and the database writes of               *)
(* OrchestratorService.execute (services/orchestrator.py).                 *)
(*                                                                         *)
(* Processes: HTTP requests that enqueue runs, Celery workers, the workers *)
(* of the process_workflow_runs command, web threads that start and        *)
(* execute a run in place (WorkflowCompiler.compile_and_run), the          *)
(* stale-run recovery job and operators that requeue dead letters.  Each   *)
(* action is one database transaction, one broker call, or the death of a  *)
(* process.  The wave loop inside execute() is kept at the grain of its    *)
(* writes; module Orchestrator models which steps it may run.              *)
(***************************************************************************)
EXTENDS Integers

CONSTANTS
  MaxRuns,        \* bound: runs ever created; run ids follow started_at
  DbWorkers,      \* process_workflow_runs processes
  TaskWorkers,    \* Celery workers
  InlineRunners,  \* web threads inside compile_and_run
  Operators,      \* platform admins requeueing dead letters
  Requests,       \* enqueue calls (bound: each is made once)
  KeyOf,          \* KeyOf[q]: the idempotency key request q carries
  NoKey,          \* no idempotency key (NULL)
  Steps,          \* the steps of the workflow
  Agentless,      \* those of them with agent = NULL
  MaxAttempts,    \* WORKFLOW_RUN_MAX_ATTEMPTS
  Broker,         \* TRUE iff EXECUTION_BACKEND = "celery"
  NoWorker,       \* nobody: the owner of a run no worker executes
  SlowSteps       \* TRUE iff a live worker may write nothing for longer than
                  \* the staleness window (900 s)

Workers == DbWorkers \cup TaskWorkers \cup InlineRunners
Runs == 1..MaxRuns
AgentSteps == Steps \ Agentless

ASSUME QueueAssumption ==
  /\ MaxRuns \in Nat
  /\ MaxAttempts \in Nat \ {0}
  /\ Broker \in BOOLEAN
  /\ SlowSteps \in BOOLEAN
  /\ Steps # {}
  /\ Agentless \subseteq Steps
  /\ DOMAIN KeyOf = Requests
  /\ NoWorker \notin Workers

VARIABLES
  \* the WorkflowRun table
  nextRun,     \* id of the next row
  key,         \* idempotency_key
  status,      \* status ("absent": no such row yet)
  attempts,    \* attempts
  completed,   \* completed_at IS NOT NULL
  outputs,     \* the steps that have an entry in outputs
  fresh,       \* updated_at lies inside the staleness window
  \* the broker and the recovery job
  msgs,        \* runs with an execute_workflow_run message in the queue
  redispatch,  \* recovered_ids the recovery job has yet to dispatch
  \* workers: where each is, and its in-memory copy of the run
  wpc, wrun, mem, done, lost,
  \* requests and operators
  rpc, rrun, opc, target

row == <<nextRun, key, status, attempts, completed, outputs, fresh>>
net == <<msgs, redispatch>>
workers == <<wpc, wrun, mem, done, lost>>
clients == <<rpc, rrun, opc, target>>
vars == <<row, net, workers, clients>>

Terminal == {"completed", "failed", "cancelled", "dead_letter"}
Status == {"absent", "pending", "running"} \cup Terminal

Live(w, r) == wpc[w] # "idle" /\ wrun[w] = r

TypeOK ==
  /\ nextRun \in 1..(MaxRuns + 1)
  /\ status \in [Runs -> Status]
  /\ attempts \in [Runs -> Nat]
  /\ completed \in [Runs -> BOOLEAN]
  /\ outputs \in [Runs -> SUBSET Steps]
  /\ fresh \in [Runs -> BOOLEAN]
  /\ key \in [Runs -> {KeyOf[q] : q \in Requests} \cup {NoKey}]
  /\ msgs \subseteq Runs
  /\ redispatch \subseteq Runs
  /\ wpc \in [Workers -> {"idle", "claimed", "executing"}]
  /\ wrun \in [Workers -> Runs \cup {0}]
  /\ \A w \in Workers : wpc[w] # "idle" => wrun[w] \in Runs
  /\ mem \in [Workers -> SUBSET Steps]
  /\ done \in [Workers -> SUBSET Steps]
  /\ lost \in [Workers -> SUBSET Steps]
  /\ rpc \in [Requests -> {"new", "creating", "dispatching", "done", "aborted"}]
  /\ rrun \in [Requests -> Runs \cup {0}]
  /\ \A q \in Requests : rpc[q] \in {"dispatching", "done"} => rrun[q] \in Runs
  /\ opc \in [Operators -> {"idle", "read", "saved"}]
  /\ target \in [Operators -> Runs \cup {0}]
  /\ \A o \in Operators : opc[o] # "idle" => target[o] \in Runs

Init ==
  /\ nextRun = 1
  /\ key = [r \in Runs |-> NoKey]
  /\ status = [r \in Runs |-> "absent"]
  /\ attempts = [r \in Runs |-> 0]
  /\ completed = [r \in Runs |-> FALSE]
  /\ outputs = [r \in Runs |-> {}]
  /\ fresh = [r \in Runs |-> TRUE]
  /\ msgs = {}
  /\ redispatch = {}
  /\ wpc = [w \in Workers |-> "idle"]
  /\ wrun = [w \in Workers |-> 0]
  /\ mem = [w \in Workers |-> {}]
  /\ done = [w \in Workers |-> {}]
  /\ lost = [w \in Workers |-> {}]
  /\ rpc = [q \in Requests |-> "new"]
  /\ rrun = [q \in Requests |-> 0]
  /\ opc = [o \in Operators |-> "idle"]
  /\ target = [o \in Operators |-> 0]

-----------------------------------------------------------------------------
(* Rows and messages                                                       *)

(* orchestrator.start: INSERT of a pending run.                            *)
Start(k) ==
  /\ nextRun <= MaxRuns
  /\ nextRun' = nextRun + 1
  /\ key' = [key EXCEPT ![nextRun] = k]
  /\ status' = [status EXCEPT ![nextRun] = "pending"]
  /\ UNCHANGED <<attempts, completed, outputs, fresh>>

(* dispatch_run: a message under Celery, nothing otherwise.                *)
DispatchRun(r) == msgs' = IF Broker THEN msgs \cup {r} ELSE msgs

-----------------------------------------------------------------------------
(* enqueue(): look the key up, insert, dispatch.                           *)

HasKey(r, q) == status[r] # "absent" /\ KeyOf[q] # NoKey /\ key[r] = KeyOf[q]

(* The pre-check finds the run another request created.                    *)
FindExisting(q) ==
  /\ rpc[q] = "new"
  /\ \E r \in Runs :
       /\ HasKey(r, q)
       /\ rrun' = [rrun EXCEPT ![q] = r]
  /\ rpc' = [rpc EXCEPT ![q] = "done"]
  /\ UNCHANGED <<row, net, workers, opc, target>>

FindNone(q) ==
  /\ rpc[q] = "new"
  /\ \A r \in Runs : ~HasKey(r, q)
  /\ rpc' = [rpc EXCEPT ![q] = "creating"]
  /\ UNCHANGED <<row, net, workers, rrun, opc, target>>

(* Faulty variants are named Faulty...; no specification uses them.  They  *)
(* show that the properties below notice the bug each one describes.       *)

(* The insert without the unique constraint on idempotency_key.            *)
FaultyCreateNoConstraint(q) ==
  /\ rpc[q] = "creating"
  /\ Start(KeyOf[q])
  /\ rrun' = [rrun EXCEPT ![q] = nextRun]
  /\ rpc' = [rpc EXCEPT ![q] = "dispatching"]
  /\ UNCHANGED <<net, workers, opc, target>>

(* The unique constraint lets the insert through.                          *)
CreateRun(q) ==
  /\ rpc[q] = "creating"
  /\ \A r \in Runs : ~HasKey(r, q)
  /\ Start(KeyOf[q])
  /\ rrun' = [rrun EXCEPT ![q] = nextRun]
  /\ rpc' = [rpc EXCEPT ![q] = "dispatching"]
  /\ UNCHANGED <<net, workers, opc, target>>

(* IntegrityError: the winner's run is returned, nothing is dispatched.    *)
LoseInsertRace(q) ==
  /\ rpc[q] = "creating"
  /\ \E r \in Runs :
       /\ HasKey(r, q)
       /\ rrun' = [rrun EXCEPT ![q] = r]
  /\ rpc' = [rpc EXCEPT ![q] = "done"]
  /\ UNCHANGED <<row, net, workers, opc, target>>

DispatchNew(q) ==
  /\ rpc[q] = "dispatching"
  /\ DispatchRun(rrun[q])
  /\ rpc' = [rpc EXCEPT ![q] = "done"]
  /\ UNCHANGED <<row, redispatch, workers, rrun, opc, target>>

(* The web process dies, or delay() raises because the broker is down.     *)
AbortRequest(q) ==
  /\ rpc[q] \in {"creating", "dispatching"}
  /\ rpc' = [rpc EXCEPT ![q] = "aborted"]
  /\ UNCHANGED <<row, net, workers, rrun, opc, target>>

-----------------------------------------------------------------------------
(* Claims                                                                  *)

(* A worker's locals are gone once it is done with a run or dies.          *)
Release(w) ==
  /\ wpc' = [wpc EXCEPT ![w] = "idle"]
  /\ wrun' = [wrun EXCEPT ![w] = 0]
  /\ mem' = [mem EXCEPT ![w] = {}]
  /\ done' = [done EXCEPT ![w] = {}]
  /\ lost' = [lost EXCEPT ![w] = {}]

(* The claim without its status filter: a redelivered message claims again.*)
FaultyClaimAnyStatus(w, r) ==
  /\ wpc[w] = "idle"
  /\ status[r] # "absent"
  /\ status' = [status EXCEPT ![r] = "running"]
  /\ attempts' = [attempts EXCEPT ![r] = @ + 1]
  /\ fresh' = [fresh EXCEPT ![r] = TRUE]
  /\ wpc' = [wpc EXCEPT ![w] = "claimed"]
  /\ wrun' = [wrun EXCEPT ![w] = r]
  /\ mem' = [mem EXCEPT ![w] = outputs[r]]
  /\ UNCHANGED <<nextRun, key, completed, outputs, done, lost>>

(* The worker starts from empty outputs instead of those in the row.       *)
FaultyClaimEmptyOutputs(w, r) ==
  /\ wpc[w] = "idle"
  /\ status[r] = "pending"
  /\ status' = [status EXCEPT ![r] = "running"]
  /\ attempts' = [attempts EXCEPT ![r] = @ + 1]
  /\ fresh' = [fresh EXCEPT ![r] = TRUE]
  /\ wpc' = [wpc EXCEPT ![w] = "claimed"]
  /\ wrun' = [wrun EXCEPT ![w] = r]
  /\ mem' = [mem EXCEPT ![w] = {}]
  /\ UNCHANGED <<nextRun, key, completed, outputs, done, lost>>

(* The body both claims share: PENDING -> RUNNING, attempts + 1, and the   *)
(* worker keeps the row it read.                                           *)
Claim(w, r) ==
  /\ wpc[w] = "idle"
  /\ status[r] = "pending"
  /\ status' = [status EXCEPT ![r] = "running"]
  /\ attempts' = [attempts EXCEPT ![r] = @ + 1]
  /\ fresh' = [fresh EXCEPT ![r] = TRUE]
  /\ wpc' = [wpc EXCEPT ![w] = "claimed"]
  /\ wrun' = [wrun EXCEPT ![w] = r]
  /\ mem' = [mem EXCEPT ![w] = outputs[r]]
  /\ UNCHANGED <<nextRun, key, completed, outputs, done, lost>>

(* try_claim_run from a delivered message.  The message may stay in the    *)
(* queue: acks_late, so the broker delivers it again if the worker dies or *)
(* the visibility timeout passes.                                          *)
ClaimFromMessage(w) ==
  /\ \E r \in msgs :
       /\ Claim(w, r)
       /\ msgs' \in {msgs, msgs \ {r}}
  /\ UNCHANGED <<redispatch, clients>>

(* try_claim_run returned None: the task reports "skipped".                *)
SkipMessage(w) ==
  /\ wpc[w] = "idle"
  /\ \E r \in msgs :
       /\ status[r] # "pending"
       /\ msgs' = msgs \ {r}
  /\ UNCHANGED <<row, redispatch, workers, clients>>

(* claim_next_pending_run: the pending run with the least started_at.      *)
Oldest(r) ==
  /\ status[r] = "pending"
  /\ \A s \in Runs : status[s] = "pending" => r <= s

ClaimNext(w) ==
  /\ \E r \in Runs : Oldest(r) /\ Claim(w, r)
  /\ UNCHANGED <<net, clients>>

(* compile_and_run: start() then execute() in the same thread, with no     *)
(* claim in between.                                                       *)
StartInline(w) ==
  /\ wpc[w] = "idle"
  /\ Start(NoKey)
  /\ wpc' = [wpc EXCEPT ![w] = "claimed"]
  /\ wrun' = [wrun EXCEPT ![w] = nextRun]
  /\ mem' = [mem EXCEPT ![w] = {}]
  /\ UNCHANGED <<net, done, lost, clients>>

-----------------------------------------------------------------------------
(* execute()                                                               *)

(* The run in memory is never terminal here, so the early return of        *)
(* execute() is not taken; the first save writes RUNNING whatever the row  *)
(* holds by now.                                                           *)
BeginExecute(w) ==
  /\ wpc[w] = "claimed"
  /\ status' = [status EXCEPT ![wrun[w]] = "running"]
  /\ fresh' = [fresh EXCEPT ![wrun[w]] = TRUE]
  /\ wpc' = [wpc EXCEPT ![w] = "executing"]
  /\ UNCHANGED <<nextRun, key, attempts, completed, outputs, wrun, mem, done, lost,
                 net, clients>>

Left(w) == Steps \ (done[w] \cup lost[w])

(* The outputs of a wave are merged and saved, and that save is the only   *)
(* heartbeat.                                                              *)
MergeWave(w, produced) ==
  /\ mem' = [mem EXCEPT ![w] = @ \cup produced]
  /\ outputs' = [outputs EXCEPT ![wrun[w]] = mem[w] \cup produced]
  /\ fresh' = [fresh EXCEPT ![wrun[w]] = TRUE]

(* A wave: the steps in S succeed, those in F fail or are skipped.  A step *)
(* without an agent succeeds and has no output; a wave without any output  *)
(* writes nothing.                                                         *)
Wave(w) ==
  /\ wpc[w] = "executing"
  /\ \E S, F \in SUBSET Left(w) :
       /\ S \cap F = {}
       /\ S \cup F # {}
       /\ done' = [done EXCEPT ![w] = @ \cup S]
       /\ lost' = [lost EXCEPT ![w] = @ \cup F]
       /\ IF S \cap AgentSteps # {} THEN MergeWave(w, S \cap AgentSteps)
          ELSE UNCHANGED <<mem, outputs, fresh>>
  /\ UNCHANGED <<nextRun, key, status, attempts, completed, wpc, wrun, net, clients>>

(* The save in the finally clause: status, outputs and completed_at, again *)
(* whatever the row holds by now.                                          *)
Settle(w, verdict) ==
  /\ status' = [status EXCEPT ![wrun[w]] = verdict]
  /\ completed' = [completed EXCEPT ![wrun[w]] = TRUE]
  /\ outputs' = [outputs EXCEPT ![wrun[w]] = mem[w]]
  /\ fresh' = [fresh EXCEPT ![wrun[w]] = TRUE]
  /\ Release(w)
  /\ UNCHANGED <<nextRun, key, attempts, net, clients>>

(* The final status ignores failed_steps.                                  *)
FaultySucceed(w) ==
  /\ wpc[w] = "executing"
  /\ Left(w) = {}
  /\ Settle(w, "completed")

Succeed(w) ==
  /\ wpc[w] = "executing"
  /\ Left(w) = {}
  /\ lost[w] = {}
  /\ Settle(w, "completed")

(* Failed steps, a stalled DAG, or an exception out of a sequential wave.  *)
Fail(w) ==
  /\ wpc[w] = "executing"
  /\ Settle(w, "failed")

(* SIGKILL, out of memory, Celery hard time limit: no finally clause runs. *)
CrashWorker(w) ==
  /\ wpc[w] # "idle"
  /\ Release(w)
  /\ UNCHANGED <<row, net, clients>>

-----------------------------------------------------------------------------
(* recover_stale_running_runs()                                            *)

(* Recovery that ignores updated_at.                                       *)
FaultyStaleAnyAge(r) == status[r] = "running" /\ ~completed[r]

(* Recovery that passes over the runs it ought to park.                    *)
FaultyStaleSkipsExhausted(r) ==
  status[r] = "running" /\ ~fresh[r] /\ ~completed[r] /\ attempts[r] < MaxAttempts

(* One attempt too many.                                                   *)
FaultyExhausted(r) == attempts[r] > MaxAttempts

(* The staleness window passes without a write to the row.                 *)
GoStale(r) ==
  /\ status[r] = "running"
  /\ fresh[r]
  /\ SlowSteps \/ \A w \in Workers : ~Live(w, r)
  /\ fresh' = [fresh EXCEPT ![r] = FALSE]
  /\ UNCHANGED <<nextRun, key, status, attempts, completed, outputs, net, workers, clients>>

Stale(r) == status[r] = "running" /\ ~fresh[r] /\ ~completed[r]
Exhausted(r) == attempts[r] >= MaxAttempts

(* One transaction over every stale row; the redispatch comes after it.    *)
RecoverStale ==
  /\ \E r \in Runs : Stale(r)
  /\ status' = [r \in Runs |->
                  IF ~Stale(r) THEN status[r]
                  ELSE IF Exhausted(r) THEN "dead_letter" ELSE "pending"]
  /\ completed' = [r \in Runs |-> completed[r] \/ (Stale(r) /\ Exhausted(r))]
  /\ fresh' = [r \in Runs |-> fresh[r] \/ Stale(r)]
  /\ redispatch' = redispatch \cup {r \in Runs : Stale(r) /\ ~Exhausted(r)}
  /\ UNCHANGED <<nextRun, key, attempts, outputs, msgs, workers, clients>>

Redispatch ==
  /\ \E r \in redispatch :
       /\ DispatchRun(r)
       /\ redispatch' = redispatch \ {r}
  /\ UNCHANGED <<row, workers, clients>>

CrashRecovery ==
  /\ redispatch # {}
  /\ redispatch' = {}
  /\ UNCHANGED <<row, msgs, workers, clients>>

-----------------------------------------------------------------------------
(* requeue_dead_letter(): the view reads the row, the service tests the    *)
(* copy and saves it without a lock, then dispatches.                      *)

(* The requeue leaves completed_at on the row.                             *)
FaultySaveRequeue(o) ==
  /\ opc[o] = "read"
  /\ status' = [status EXCEPT ![target[o]] = "pending"]
  /\ attempts' = [attempts EXCEPT ![target[o]] = 0]
  /\ fresh' = [fresh EXCEPT ![target[o]] = TRUE]
  /\ opc' = [opc EXCEPT ![o] = "saved"]
  /\ UNCHANGED <<nextRun, key, completed, outputs, net, workers, rpc, rrun, target>>

ReadDeadLetter(o) ==
  /\ opc[o] = "idle"
  /\ \E r \in Runs :
       /\ status[r] = "dead_letter"
       /\ target' = [target EXCEPT ![o] = r]
  /\ opc' = [opc EXCEPT ![o] = "read"]
  /\ UNCHANGED <<row, net, workers, rpc, rrun>>

SaveRequeue(o) ==
  /\ opc[o] = "read"
  /\ status' = [status EXCEPT ![target[o]] = "pending"]
  /\ attempts' = [attempts EXCEPT ![target[o]] = 0]
  /\ completed' = [completed EXCEPT ![target[o]] = FALSE]
  /\ fresh' = [fresh EXCEPT ![target[o]] = TRUE]
  /\ opc' = [opc EXCEPT ![o] = "saved"]
  /\ UNCHANGED <<nextRun, key, outputs, net, workers, rpc, rrun, target>>

DispatchRequeue(o) ==
  /\ opc[o] = "saved"
  /\ DispatchRun(target[o])
  /\ opc' = [opc EXCEPT ![o] = "idle"]
  /\ target' = [target EXCEPT ![o] = 0]
  /\ UNCHANGED <<row, redispatch, workers, rpc, rrun>>

AbortRequeue(o) ==
  /\ opc[o] \in {"read", "saved"}
  /\ opc' = [opc EXCEPT ![o] = "idle"]
  /\ target' = [target EXCEPT ![o] = 0]
  /\ UNCHANGED <<row, net, workers, rpc, rrun>>

-----------------------------------------------------------------------------
Request(q) ==
  \/ FindExisting(q) \/ FindNone(q) \/ CreateRun(q)
  \/ LoseInsertRace(q) \/ DispatchNew(q) \/ AbortRequest(q)

Execute(w) ==
  \/ BeginExecute(w) \/ Wave(w) \/ Succeed(w) \/ Fail(w) \/ CrashWorker(w)

Requeue(o) ==
  \/ ReadDeadLetter(o) \/ SaveRequeue(o) \/ DispatchRequeue(o) \/ AbortRequeue(o)

Recovery == RecoverStale \/ Redispatch \/ CrashRecovery

Next ==
  \/ \E q \in Requests : Request(q)
  \/ \E w \in TaskWorkers : ClaimFromMessage(w) \/ SkipMessage(w)
  \/ \E w \in DbWorkers : ClaimNext(w)
  \/ \E w \in InlineRunners : StartInline(w)
  \/ \E w \in Workers : Execute(w)
  \/ \E r \in Runs : GoStale(r)
  \/ Recovery
  \/ \E o \in Operators : Requeue(o)

Spec == Init /\ [][Next]_vars

(* Requests are served, workers poll and either progress or are killed by  *)
(* the hard time limit, time passes and the recovery job runs every five   *)
(* minutes.  Nothing forces an operator to act.                            *)
Fairness ==
  /\ \A q \in Requests : WF_vars(Request(q))
  /\ \A w \in TaskWorkers : WF_vars(ClaimFromMessage(w) \/ SkipMessage(w))
  /\ \A w \in DbWorkers : WF_vars(ClaimNext(w))
  /\ \A w \in Workers : WF_vars(Execute(w))
  /\ \A r \in Runs : WF_vars(GoStale(r))
  /\ WF_vars(Recovery)

FairSpec == Spec /\ Fairness

-----------------------------------------------------------------------------
(* Properties                                                              *)

(* The deployment the code's comments describe: a worker that writes       *)
(* nothing for the whole window is dead, nobody executes a run it did not  *)
(* claim, and dead letters are requeued by one operator at a time.         *)
Timely ==
  /\ ~SlowSteps
  /\ InlineRunners = {}
  /\ \A o1, o2 \in Operators : o1 = o2

(* A poison run cannot loop forever: whatever the workers do, no run is    *)
(* claimed more often than WORKFLOW_RUN_MAX_ATTEMPTS between two requeues, *)
(* queued work always has an attempt left, and only a run that used them   *)
(* all is parked (workflow_queue.py, recover_stale_running_runs).          *)
PoisonBounded ==
  \A r \in Runs :
    /\ attempts[r] <= MaxAttempts
    /\ status[r] = "pending" => attempts[r] < MaxAttempts
    /\ status[r] = "dead_letter" => attempts[r] = MaxAttempts

(* completed_at agrees with the status where recovery relies on it: a      *)
(* settled run has it, and a queued run, which recovery must still be able *)
(* to find once it is claimed, has not (the completed_at__isnull filter).  *)
CompletionStamped ==
  \A r \in Runs :
    /\ status[r] \in Terminal => completed[r]
    /\ status[r] = "pending" => ~completed[r]

(* Ids are handed out in order, a row that does not exist yet is blank, and *)
(* workers and operators only hold rows that exist.                        *)
NoGhostRows ==
  /\ \A r \in Runs : r >= nextRun => status[r] = "absent"
  /\ \A r \in Runs : status[r] = "absent" => attempts[r] = 0 /\ ~completed[r]
  /\ \A w \in Workers : wpc[w] # "idle" => status[wrun[w]] # "absent"
  /\ \A o \in Operators : opc[o] # "idle" => status[target[o]] # "absent"

(* The inductive invariant behind PoisonBounded and CompletionStamped.     *)
Bookkeeping == TypeOK /\ NoGhostRows /\ PoisonBounded /\ CompletionStamped

(* Every request that carried an idempotency key and was answered got the  *)
(* one run of that key, also when the requests raced (enqueue).            *)
OneRunPerKey ==
  \A p, q \in Requests :
    (rpc[p] = "done" /\ rpc[q] = "done" /\ KeyOf[p] = KeyOf[q] /\ KeyOf[p] # NoKey)
      => rrun[p] = rrun[q] /\ key[rrun[p]] = KeyOf[p]

(* No two workers execute one run at a time, and the run a worker executes *)
(* is RUNNING in the database ("a Celery redelivery and a DB worker can    *)
(* never double-execute one run", workflow_queue.py:6).                    *)
OneExecutor ==
  /\ \A v, w \in Workers, r \in Runs : Live(v, r) /\ Live(w, r) => v = w
  /\ \A w \in Workers, r \in Runs : Live(w, r) => status[r] = "running"

(* The inductive invariant behind OneExecutor in a timely deployment: a    *)
(* live worker keeps its run fresh, so recovery leaves it alone; an        *)
(* operator's copy of a dead letter is up to date; and completed_at is     *)
(* never left on a RUNNING run.                                            *)
Exclusive ==
  /\ OneExecutor
  /\ \A w \in Workers : wpc[w] # "idle" => fresh[wrun[w]]
  /\ \A o \in Operators : opc[o] = "read" => status[target[o]] = "dead_letter"
  /\ \A r \in Runs : status[r] = "running" => ~completed[r]

(* A RUNNING run can be found by recovery once its worker is gone: nothing *)
(* leaves completed_at behind on it.                                       *)
RunningIsRecoverable ==
  \A r \in Runs : status[r] = "running" => ~completed[r]

(* A completed run holds the output of every step that has an agent, also  *)
(* when an earlier attempt died between two waves or a wave saved nothing, *)
(* and no output of a step that has none (execute, single-writer merge).   *)
CompletedHasAllOutputs ==
  \A r \in Runs : status[r] = "completed" => outputs[r] = AgentSteps

(* A settled run stays as it is; only a dead letter moves, back to the     *)
(* queue (execute: "a duplicate dispatch can never re-run completed work").*)
SettledStays ==
  [][\A r \in Runs :
       status[r] \in Terminal =>
         \/ status'[r] = status[r] /\ outputs'[r] = outputs[r]
         \/ status[r] = "dead_letter" /\ status'[r] = "pending"]_vars

(* No output that reached the database is lost again, not by a crash, a    *)
(* second attempt or a requeue.                                            *)
OutputsSurvive ==
  [][\A r \in Runs : outputs[r] \subseteq outputs'[r]]_vars

(* Every queued run is eventually settled, however often workers crash.    *)
EveryRunSettles ==
  \A r \in Runs : status[r] = "pending" ~> status[r] \in Terminal

(* A run whose worker died is picked up by the recovery job ("Recover      *)
(* RUNNING runs whose worker died", recover_stale_running_runs).           *)
DeadWorkersRunRecovered ==
  \A r \in Runs :
    (status[r] = "running" /\ \A w \in Workers : ~Live(w, r))
      ~> (status[r] # "running" \/ \E w \in Workers : Live(w, r))

(* The lifecycle the queue promises, with the live worker as the owner.    *)
Owner(r) ==
  IF \E w \in Workers : Live(w, r) THEN CHOOSE w \in Workers : Live(w, r) ELSE NoWorker
Lifecycle ==
  INSTANCE RunLifecycle WITH
    state <- status, owner <- [r \in Runs |-> Owner(r)], tries <- attempts

(* In a timely deployment the queue implements RunLifecycle: exclusive     *)
(* ownership, bounded retries, no move out of a settled state.             *)
ImplementsLifecycle == Lifecycle!Spec
=============================================================================
