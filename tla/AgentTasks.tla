----------------------------- MODULE AgentTasks -----------------------------
(***************************************************************************)
(* Asynchronous agent tasks: services/agent_tasks.py, the Celery task      *)
(* execute_agent_task (tasks.py), the AsyncAgentTask row (models.py) and   *)
(* recover_stale_working_tasks (services/workflow_queue.py).               *)
(*                                                                         *)
(* A request submits a task.  With a broker a Celery worker claims and     *)
(* runs it, otherwise the request runs it before it answers.  Unlike a     *)
(* workflow run, a task writes nothing between its claim and its outcome,  *)
(* is drained by no polling worker and is never requeued by an operator.   *)
(* Each action is one transaction, one broker call or the death of a       *)
(* process.                                                                *)
(***************************************************************************)
EXTENDS Integers

CONSTANTS
  MaxTasks,     \* bound: tasks ever created
  Workers,      \* Celery workers
  Requests,     \* submit calls (bound: each is made once)
  KeyOf,        \* KeyOf[q]: the idempotency key request q carries
  NoKey,        \* no idempotency key (NULL)
  MaxAttempts,  \* ASYNC_TASK_MAX_ATTEMPTS
  Backends,     \* the values of EXECUTION_BACKEND: "db", "celery" or both
  SlowRuns,     \* TRUE iff an agent may run longer than the staleness window
  NoExecutor    \* nobody: the owner of a task no process runs

Tasks == 1..MaxTasks
Executors == Workers \cup Requests

ASSUME TaskAssumption ==
  /\ MaxTasks \in Nat
  /\ MaxAttempts \in Nat \ {0}
  /\ Backends \subseteq {"db", "celery"}
  /\ SlowRuns \in BOOLEAN
  /\ DOMAIN KeyOf = Requests
  /\ Workers \cap Requests = {}
  /\ NoExecutor \notin Executors

VARIABLES
  backend,     \* EXECUTION_BACKEND of this deployment
  \* the AsyncAgentTask table
  nextTask,    \* id of the next row
  key,         \* idempotency_key
  state,       \* state ("absent": no such row yet)
  attempts,    \* attempts
  ended,       \* completed_at IS NOT NULL
  fresh,       \* updated_at lies inside the staleness window
  \* the broker and the recovery job
  msgs,        \* tasks with an execute_agent_task message in the queue
  requeued,    \* tasks the recovery job has yet to redispatch
  \* processes inside run_agent_task_inline: idle or running, and the task
  epc, etask,
  \* submit calls
  rpc, rtask

row == <<backend, nextTask, key, state, attempts, ended, fresh>>
net == <<msgs, requeued>>
executors == <<epc, etask>>
requests == <<rpc, rtask>>
vars == <<row, net, executors, requests>>

Terminal == {"completed", "failed", "canceled", "dead_letter"}

Live(e, t) == epc[e] = "running" /\ etask[e] = t

Broker == backend = "celery"

TypeOK ==
  /\ backend \in Backends
  /\ nextTask \in 1..(MaxTasks + 1)
  /\ key \in [Tasks -> {KeyOf[q] : q \in Requests} \cup {NoKey}]
  /\ state \in [Tasks -> {"absent", "submitted", "working"} \cup Terminal]
  /\ attempts \in [Tasks -> Nat]
  /\ ended \in [Tasks -> BOOLEAN]
  /\ fresh \in [Tasks -> BOOLEAN]
  /\ msgs \subseteq Tasks
  /\ requeued \subseteq Tasks
  /\ epc \in [Executors -> {"idle", "running"}]
  /\ etask \in [Executors -> Tasks \cup {0}]
  /\ \A e \in Executors : epc[e] = "running" => etask[e] \in Tasks
  /\ rpc \in [Requests -> {"new", "creating", "dispatching", "waiting", "done", "aborted"}]
  /\ rtask \in [Requests -> Tasks \cup {0}]
  /\ \A q \in Requests : rpc[q] \in {"dispatching", "waiting", "done"} => rtask[q] \in Tasks

Init ==
  /\ backend \in Backends
  /\ nextTask = 1
  /\ key = [t \in Tasks |-> NoKey]
  /\ state = [t \in Tasks |-> "absent"]
  /\ attempts = [t \in Tasks |-> 0]
  /\ ended = [t \in Tasks |-> FALSE]
  /\ fresh = [t \in Tasks |-> TRUE]
  /\ msgs = {}
  /\ requeued = {}
  /\ epc = [e \in Executors |-> "idle"]
  /\ etask = [e \in Executors |-> 0]
  /\ rpc = [q \in Requests |-> "new"]
  /\ rtask = [q \in Requests |-> 0]

-----------------------------------------------------------------------------
(* submit(): look the key up, insert, hand over or run.                    *)

HasKey(t, q) == state[t] # "absent" /\ KeyOf[q] # NoKey /\ key[t] = KeyOf[q]

Answer(q, t) ==
  /\ rtask' = [rtask EXCEPT ![q] = t]
  /\ rpc' = [rpc EXCEPT ![q] = "done"]
  /\ UNCHANGED <<row, net, executors>>

FindExisting(q) == rpc[q] = "new" /\ \E t \in Tasks : HasKey(t, q) /\ Answer(q, t)

FindNone(q) ==
  /\ rpc[q] = "new"
  /\ \A t \in Tasks : ~HasKey(t, q)
  /\ rpc' = [rpc EXCEPT ![q] = "creating"]
  /\ UNCHANGED <<row, net, executors, rtask>>

Insert(q) ==
  /\ rpc[q] = "creating"
  /\ nextTask <= MaxTasks
  /\ nextTask' = nextTask + 1
  /\ key' = [key EXCEPT ![nextTask] = KeyOf[q]]
  /\ state' = [state EXCEPT ![nextTask] = "submitted"]
  /\ rtask' = [rtask EXCEPT ![q] = nextTask]
  /\ rpc' = [rpc EXCEPT ![q] = "dispatching"]
  /\ UNCHANGED <<backend, attempts, ended, fresh, net, executors>>

(* Variants named Faulty... are bugs these lines could have; no            *)
(* specification uses them.                                                *)

(* The pre-check is all that keeps two tasks of one key apart.             *)
FaultyCreate(q) == Insert(q)

(* The unique constraint lets the insert through.                          *)
Create(q) == Insert(q) /\ \A t \in Tasks : ~HasKey(t, q)

(* IntegrityError: the winner's task is returned.                          *)
LoseInsertRace(q) == rpc[q] = "creating" /\ \E t \in Tasks : HasKey(t, q) /\ Answer(q, t)

(* With a broker: execute_agent_task.delay().                              *)
Dispatch(q) ==
  /\ rpc[q] = "dispatching"
  /\ Broker
  /\ msgs' = msgs \cup {rtask[q]}
  /\ rpc' = [rpc EXCEPT ![q] = "done"]
  /\ UNCHANGED <<row, requeued, executors, rtask>>

(* The request dies before it hands the task over.                         *)
AbortRequest(q) ==
  /\ rpc[q] \in {"creating", "dispatching"}
  /\ rpc' = [rpc EXCEPT ![q] = "aborted"]
  /\ UNCHANGED <<row, net, executors, rtask>>

-----------------------------------------------------------------------------
(* run_agent_task_inline()                                                 *)

ClaimIn(states, e, t) ==
  /\ epc[e] = "idle"
  /\ state[t] \in states
  /\ state' = [state EXCEPT ![t] = "working"]
  /\ attempts' = [attempts EXCEPT ![t] = @ + 1]
  /\ fresh' = [fresh EXCEPT ![t] = TRUE]
  /\ epc' = [epc EXCEPT ![e] = "running"]
  /\ etask' = [etask EXCEPT ![e] = t]
  /\ UNCHANGED <<backend, nextTask, key, ended>>

(* The gate this claim replaced: any task that is not terminal is run.     *)
FaultyClaim(e, t) == ClaimIn({"submitted", "working"}, e, t)

(* SUBMITTED -> WORKING and attempts + 1, in one transaction.              *)
Claim(e, t) == ClaimIn({"submitted"}, e, t)

(* The message may stay in the queue (acks_late).                          *)
ClaimFromMessage(w) ==
  /\ \E t \in msgs : Claim(w, t) /\ msgs' \in {msgs, msgs \ {t}}
  /\ UNCHANGED <<requeued, requests>>

SkipDuplicate(w) ==
  /\ epc[w] = "idle"
  /\ \E t \in msgs : state[t] # "submitted" /\ msgs' = msgs \ {t}
  /\ UNCHANGED <<row, requeued, executors, requests>>

(* Without a broker the request runs its own task.                         *)
RunInline(q) ==
  /\ rpc[q] = "dispatching"
  /\ ~Broker
  /\ Claim(q, rtask[q])
  /\ rpc' = [rpc EXCEPT ![q] = "waiting"]
  /\ UNCHANGED <<net, rtask>>

Release(e) ==
  /\ epc' = [epc EXCEPT ![e] = "idle"]
  /\ etask' = [etask EXCEPT ![e] = 0]

(* mark_completed or mark_failed, whatever the row holds by now.           *)
Record(e, outcome) ==
  /\ epc[e] = "running"
  /\ state' = [state EXCEPT ![etask[e]] = outcome]
  /\ ended' = [ended EXCEPT ![etask[e]] = TRUE]
  /\ fresh' = [fresh EXCEPT ![etask[e]] = TRUE]
  /\ Release(e)
  /\ rpc' = [q \in Requests |-> IF q = e THEN "done" ELSE rpc[q]]
  /\ UNCHANGED <<backend, nextTask, key, attempts, net, rtask>>

MarkFailed(e) == Record(e, "failed")

MarkCompleted(e) == Record(e, "completed")

(* SIGKILL, out of memory, hard time limit, or a database error in mark_*. *)
Crash(e) ==
  /\ epc[e] = "running"
  /\ Release(e)
  /\ rpc' = [q \in Requests |-> IF q = e THEN "aborted" ELSE rpc[q]]
  /\ UNCHANGED <<row, net, rtask>>

-----------------------------------------------------------------------------
(* recover_stale_working_tasks()                                           *)

(* The staleness window passes without a write to the row.                 *)
GoStale(t) ==
  /\ state[t] = "working"
  /\ fresh[t]
  /\ SlowRuns \/ \A e \in Executors : ~Live(e, t)
  /\ fresh' = [fresh EXCEPT ![t] = FALSE]
  /\ UNCHANGED <<backend, nextTask, key, state, attempts, ended, net, executors, requests>>

(* Recovery that ignores updated_at.                                       *)
FaultyStale(t) == state[t] = "working"

(* Recovery that leaves the tasks it ought to park alone.                  *)
FaultyStaleSkipsExhausted(t) == state[t] = "working" /\ ~fresh[t] /\ attempts[t] < MaxAttempts

Stale(t) == state[t] = "working" /\ ~fresh[t]

Exhausted(t) == attempts[t] >= MaxAttempts

RecoverStale ==
  /\ \E t \in Tasks : Stale(t)
  /\ state' = [t \in Tasks |->
                 IF ~Stale(t) THEN state[t]
                 ELSE IF Exhausted(t) THEN "dead_letter" ELSE "submitted"]
  /\ ended' = [t \in Tasks |-> ended[t] \/ (Stale(t) /\ Exhausted(t))]
  /\ fresh' = [t \in Tasks |-> fresh[t] \/ Stale(t)]
  /\ requeued' =
       IF Broker THEN requeued \cup {t \in Tasks : Stale(t) /\ ~Exhausted(t)} ELSE requeued
  /\ UNCHANGED <<backend, nextTask, key, attempts, msgs, executors, requests>>

Redispatch ==
  /\ \E t \in requeued : msgs' = msgs \cup {t} /\ requeued' = requeued \ {t}
  /\ UNCHANGED <<row, executors, requests>>

CrashRecovery ==
  /\ requeued # {}
  /\ requeued' = {}
  /\ UNCHANGED <<row, msgs, executors, requests>>

-----------------------------------------------------------------------------
Submit(q) ==
  \/ FindExisting(q) \/ FindNone(q) \/ Create(q) \/ LoseInsertRace(q)
  \/ Dispatch(q) \/ RunInline(q) \/ AbortRequest(q)

Execute(e) == MarkCompleted(e) \/ MarkFailed(e) \/ Crash(e)

Deliver(w) == ClaimFromMessage(w) \/ SkipDuplicate(w)

Recovery == RecoverStale \/ Redispatch \/ CrashRecovery

Next ==
  \/ \E q \in Requests : Submit(q)
  \/ \E w \in Workers : Deliver(w)
  \/ \E e \in Executors : Execute(e)
  \/ \E t \in Tasks : GoStale(t)
  \/ Recovery

Spec == Init /\ [][Next]_vars

(* Workers consume the queue, every agent run ends or its process is       *)
(* killed, time passes, and the recovery job runs every five minutes.      *)
Fairness ==
  /\ \A w \in Workers : WF_vars(Deliver(w))
  /\ \A e \in Executors : WF_vars(Execute(e))
  /\ \A t \in Tasks : WF_vars(GoStale(t))
  /\ WF_vars(Recovery)

FairSpec == Spec /\ Fairness

-----------------------------------------------------------------------------
(* Properties                                                              *)

(* An agent never runs longer than the recovery window without an answer.  *)
Timely == ~SlowRuns

(* However often workers die, a task is claimed at most                    *)
(* ASYNC_TASK_MAX_ATTEMPTS times, a queued task always has an attempt left,*)
(* and completed_at says exactly whether the task is settled               *)
(* (recover_stale_working_tasks).                                          *)
AttemptsBounded ==
  \A t \in Tasks :
    /\ attempts[t] <= MaxAttempts
    /\ state[t] = "submitted" => attempts[t] < MaxAttempts
    /\ state[t] = "dead_letter" => attempts[t] = MaxAttempts
    /\ ended[t] <=> state[t] \in Terminal

(* Every submit that carried an idempotency key and was answered got the   *)
(* one task of that key, also when the submits raced.                      *)
OneTaskPerKey ==
  \A p, q \in Requests :
    (rpc[p] = "done" /\ rpc[q] = "done" /\ KeyOf[p] = KeyOf[q] /\ KeyOf[p] # NoKey)
      => rtask[p] = rtask[q]

(* One agent run at a time per task, and only for a task that is WORKING:  *)
(* what the claim is for ("two workers ... run the agent twice",           *)
(* agent_tasks.py:60).                                                     *)
OneExecutor ==
  \A d, e \in Executors, t \in Tasks :
    /\ Live(d, t) /\ Live(e, t) => d = e
    /\ Live(e, t) => state[t] = "working"

(* What a poller was told about a settled task stays true.                 *)
AnswersStand ==
  [][\A t \in Tasks : state[t] \in Terminal => state'[t] = state[t]]_vars

(* Nobody will run it any more: queued, but no message and no process that *)
(* is about to send one.                                                   *)
Stranded(t) ==
  state[t] = "submitted" /\ t \notin msgs /\ t \notin requeued

(* A task a worker took up never stays WORKING ("a crashed worker left     *)
(* tasks WORKING forever", recover_stale_working_tasks): it is settled in  *)
(* the end, or stranded where no broker redelivers it.                     *)
SettledOrStranded ==
  \A t \in Tasks : state[t] = "working" ~> (state[t] \in Terminal \/ Stranded(t))

(* A task moves through the lifecycle of a workflow run.                   *)
Owner(t) ==
  IF \E e \in Executors : Live(e, t) THEN CHOOSE e \in Executors : Live(e, t) ELSE NoExecutor
RunState(t) ==
  CASE state[t] = "submitted" -> "pending"
    [] state[t] = "working"   -> "running"
    [] OTHER                  -> state[t]
Lifecycle ==
  INSTANCE RunLifecycle WITH
    Runs <- Tasks, Workers <- Executors, NoWorker <- NoExecutor,
    state <- [t \in Tasks |-> RunState(t)],
    owner <- [t \in Tasks |-> Owner(t)],
    tries <- attempts

(* In a timely deployment a task obeys RunLifecycle: exclusive ownership,  *)
(* bounded retries, only its owner settles it.                             *)
ImplementsLifecycle == Lifecycle!Spec
=============================================================================
