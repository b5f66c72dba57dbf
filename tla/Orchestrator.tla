---------------------------- MODULE Orchestrator ----------------------------
(***************************************************************************)
(* OrchestratorService.execute (services/orchestrator.py): one WorkflowRun *)
(* walked over its DAG of WorkflowTasks.                                   *)
(*                                                                         *)
(* The coordinator repeatedly forms a wave of ready tasks, runs it in a    *)
(* thread pool, merges the results and skips what a failure left without   *)
(* its inputs.  A task is retried in its own thread.  The graph is chosen  *)
(* in Init and never changes; depends_on is free JSON, so cycles and names *)
(* of steps that do not exist are graphs like any other.                   *)
(***************************************************************************)
EXTENDS Integers, Sequences, FiniteSets, SequencesExt

CONSTANTS
  Tasks,        \* the step names of the workflow
  Graphs,       \* the depends_on functions to consider
  Agentless,    \* the steps with agent = NULL
  RetryLimit,   \* RetryLimit[t]: retry_limit of step t
  MaxParallel   \* ORCHESTRATOR_MAX_PARALLEL

ASSUME OrchestratorAssumption ==
  /\ IsFiniteSet(Tasks) /\ Tasks # {}
  /\ Agentless \subseteq Tasks
  /\ RetryLimit \in [Tasks -> Nat]
  /\ MaxParallel \in Nat

VARIABLES
  deps,        \* deps[t]: depends_on of step t
  phase,       \* the coordinator: "loop", "wave" or "finished"
  iterations,  \* iterations of the for loop used up
  pending, completedSteps, failedSteps,   \* its local sets
  wave,        \* the ready tasks handed to _run_wave
  result,      \* result[t]: what the thread of t returned, "none" before that
  records,     \* records[t]: status of each WorkflowTaskRun of t, in order
  outputs,     \* the steps with an entry in workflow_run.outputs
  verdict,     \* status of the run: "running", "completed" or "failed"
  error        \* why it failed: "", "steps", "stalled" or "unexpected"

vars == <<deps, phase, iterations, pending, completedSteps, failedSteps, wave,
          result, records, outputs, verdict, error>>

(* What only the coordinator writes.                                       *)
coordinator == <<deps, phase, iterations, pending, completedSteps, failedSteps, wave,
                 outputs, verdict, error>>

TypeOK ==
  /\ deps \in Graphs
  /\ phase \in {"loop", "wave", "finished"}
  /\ iterations \in 0..(Cardinality(Tasks) + 1)
  /\ pending \subseteq Tasks
  /\ completedSteps \subseteq Tasks
  /\ failedSteps \subseteq Tasks
  /\ wave \subseteq Tasks
  /\ result \in [Tasks -> {"none", "output", "nothing", "failure"}]
  /\ records \in [Tasks -> Seq({"running", "completed", "failed", "skipped"})]
  /\ \A t \in Tasks : Len(records[t]) <= RetryLimit[t] + 1
  /\ outputs \subseteq Tasks
  /\ verdict \in {"running", "completed", "failed"}
  /\ error \in {"", "steps", "stalled", "unexpected"}

Init ==
  /\ deps \in Graphs
  /\ phase = "loop"
  /\ iterations = 0
  /\ pending = Tasks
  /\ completedSteps = {}
  /\ failedSteps = {}
  /\ wave = {}
  /\ result = [t \in Tasks |-> "none"]
  /\ records = [t \in Tasks |-> <<>>]
  /\ outputs = {}
  /\ verdict = "running"
  /\ error = ""

-----------------------------------------------------------------------------
(* The coordinator                                                         *)

(* Faulty variants are named Faulty...; no specification uses them.  They  *)
(* show that the properties below notice the bug each one describes.       *)

(* A task is ready once any of its dependencies is complete.               *)
FaultyReady ==
  {t \in pending : (deps[t] = {} \/ deps[t] \cap completedSteps # {})
                   /\ deps[t] \cap failedSteps = {}}

Ready ==
  {t \in pending : deps[t] \subseteq completedSteps /\ deps[t] \cap failedSteps = {}}

Skippable == {t \in pending : deps[t] \cap failedSteps # {}}

(* One iteration short: range(len(tasks) - 1).                             *)
FaultyLooping ==
  phase = "loop" /\ pending # {} /\ iterations < Cardinality(Tasks) - 1

(* for _ in range(len(tasks) + 1): if not pending: break                   *)
Looping == phase = "loop" /\ pending # {} /\ iterations < Cardinality(Tasks) + 1

StartWave ==
  /\ Looping
  /\ Ready # {}
  /\ iterations' = iterations + 1
  /\ pending' = pending \ Ready
  /\ wave' = Ready
  /\ phase' = "wave"
  /\ UNCHANGED <<deps, completedSteps, failedSteps, result, records, outputs, verdict, error>>

(* Nothing is ready: the tasks of the set are skipped.                     *)
Skip(skippable) ==
  /\ Looping
  /\ Ready = {}
  /\ Skippable # {}
  /\ iterations' = iterations + 1
  /\ pending' = pending \ skippable
  /\ records' = [t \in Tasks |->
                   IF t \in skippable THEN Append(records[t], "skipped") ELSE records[t]]
  /\ UNCHANGED <<deps, phase, completedSteps, failedSteps, wave, result, outputs,
                 verdict, error>>

(* Skips whatever still waits once a step has failed.                      *)
FaultySkipFailed == Skip(pending)

SkipFailed == Skip(Skippable)

(* The finally clause: the run is settled with what is in memory.          *)
Finish(status, why) ==
  /\ phase' = "finished"
  /\ verdict' = status
  /\ error' = why
  /\ UNCHANGED <<deps, iterations, pending, completedSteps, failedSteps, wave, result, outputs>>

Stall ==
  /\ Looping
  /\ Ready = {}
  /\ Skippable = {}
  /\ Finish("failed", "stalled")
  /\ UNCHANGED records

Conclude ==
  /\ phase = "loop"
  /\ ~Looping
  /\ IF failedSteps # {} THEN Finish("failed", "steps") ELSE Finish("completed", "")
  /\ UNCHANGED records

(* A database error while the coordinator saves what it merged, or between *)
(* the records of two skipped tasks.                                       *)
CoordinatorError ==
  /\ phase = "loop"
  /\ Finish("failed", "unexpected")
  /\ \E done \in SUBSET (IF Looping /\ Ready = {} THEN Skippable ELSE {}) :
       records' = [t \in Tasks |->
                     IF t \in done THEN Append(records[t], "skipped") ELSE records[t]]

-----------------------------------------------------------------------------
(* Waves and threads                                                       *)

(* One task at a time in the coordinator's own thread, or a pool.          *)
Sequential == MaxParallel <= 1 \/ Cardinality(wave) <= 1
Slots == IF Sequential THEN 1 ELSE MaxParallel

(* The thread of t holds a slot from its first record to its result.       *)
Busy == {t \in wave : records[t] # <<>> /\ result[t] = "none"}
Running(t) == t \in Busy /\ Last(records[t]) = "running"
MayStart(t) == t \in wave /\ records[t] = <<>> /\ result[t] = "none" /\ Cardinality(Busy) < Slots

SetLast(t, s) == [records EXCEPT ![t] = Append(Front(@), s)]

(* A retry is queued behind its own thread for a slot of the pool.         *)
FaultyStartAttempt(t) ==
  /\ phase = "wave" /\ t \in wave /\ result[t] = "none"
  /\ records[t] # <<>> => Last(records[t]) = "failed"
  /\ Cardinality(Busy) < Slots
  /\ records' = [records EXCEPT ![t] = Append(@, "running")]
  /\ UNCHANGED <<coordinator, result>>

(* _execute_task creates the WorkflowTaskRun of its attempt: the first one *)
(* when the thread starts, a retry by calling itself.                      *)
StartAttempt(t) ==
  /\ phase = "wave"
  /\ MayStart(t) \/ (t \in Busy /\ Last(records[t]) = "failed")
  /\ records' = [records EXCEPT ![t] = Append(@, "running")]
  /\ UNCHANGED <<coordinator, result>>

TaskEnds(t, status, outcome) ==
  /\ records' = SetLast(t, status)
  /\ result' = [result EXCEPT ![t] = outcome]
  /\ UNCHANGED coordinator

(* No agent: SKIPPED, which does not block the tasks below.                *)
SkipAgentless(t) ==
  phase = "wave" /\ Running(t) /\ t \in Agentless /\ TaskEnds(t, "skipped", "nothing")

Succeed(t) ==
  phase = "wave" /\ Running(t) /\ t \notin Agentless /\ TaskEnds(t, "completed", "output")

(* The attempt failed but its number, the count of records, allows another.*)
AttemptFails(t, limit) ==
  /\ phase = "wave"
  /\ Running(t) /\ t \notin Agentless
  /\ Len(records[t]) <= limit
  /\ records' = SetLast(t, "failed")
  /\ UNCHANGED <<coordinator, result>>

Retry(t) == AttemptFails(t, RetryLimit[t])

LastAttempt(t) ==
  phase = "wave" /\ Running(t) /\ t \notin Agentless /\ Len(records[t]) > RetryLimit[t]

(* The last failure is returned as if it did not block.                    *)
FaultyGiveUp(t) == LastAttempt(t) /\ TaskEnds(t, "failed", "nothing")

GiveUp(t) == LastAttempt(t) /\ TaskEnds(t, "failed", "failure")

(* An exception outside the guard of _execute_task (creating or saving a   *)
(* task record, routing the model).  The pool turns it into a failure; in  *)
(* sequential mode it ends the run, and the wave's results with it.        *)
CrashInPool(t) ==
  /\ phase = "wave"
  /\ ~Sequential
  /\ MayStart(t) \/ t \in Busy
  /\ result' = [result EXCEPT ![t] = "failure"]
  /\ UNCHANGED <<coordinator, records>>

CrashSequential(t) ==
  /\ phase = "wave"
  /\ Sequential
  /\ MayStart(t) \/ t \in Busy
  /\ Finish("failed", "unexpected")
  /\ UNCHANGED records

(* Single writer: the results of a wave are merged once all threads ended. *)
Merge(complete, kept) ==
  /\ phase = "wave"
  /\ \A t \in wave : result[t] # "none"
  /\ completedSteps' = completedSteps \cup {t \in wave : result[t] \in complete}
  /\ failedSteps' = failedSteps \cup {t \in wave : result[t] = "failure"}
  /\ outputs' = kept \cup {t \in wave : result[t] = "output"}
  /\ wave' = {}
  /\ phase' = "loop"
  /\ UNCHANGED <<deps, iterations, pending, result, records, verdict, error>>

(* Only a step that produced an output counts as complete.                 *)
FaultyMergeOutputsOnly == Merge({"output"}, outputs)

(* The merge forgets the outputs of earlier waves.                         *)
FaultyMergeWave == Merge({"output", "nothing"}, {})

MergeWave == Merge({"output", "nothing"}, outputs)

-----------------------------------------------------------------------------
Work(t) == StartAttempt(t) \/ SkipAgentless(t) \/ Succeed(t) \/ Retry(t) \/ GiveUp(t)

Coordinate == StartWave \/ SkipFailed \/ Stall \/ Conclude \/ MergeWave

Failures == CoordinatorError \/ \E t \in Tasks : CrashInPool(t) \/ CrashSequential(t)

Next == Coordinate \/ (\E t \in Tasks : Work(t)) \/ Failures

Spec == Init /\ [][Next]_vars

(* The coordinator is a loop that keeps running, and every agent call is   *)
(* answered or raises: no step counts on an internal error to go on.       *)
FairSpec == Spec /\ WF_vars(Coordinate) /\ \A t \in Tasks : WF_vars(Work(t))

-----------------------------------------------------------------------------
(* Properties                                                              *)

Started(t) == t \in wave \/ result[t] # "none"
Succeeded(t) == result[t] \in {"output", "nothing"}

(* A task is dispatched only after every task it depends on succeeded, and *)
(* its template can read the output of each of them that has one.          *)
DependenciesFirst ==
  \A t \in Tasks : Started(t) =>
    /\ deps[t] \subseteq completedSteps
    /\ deps[t] \ Agentless \subseteq outputs

(* Steps that no cycle and no unknown name keeps from ever being ready:    *)
(* the least set that holds every step whose dependencies are all in it.   *)
Closed(S) == \A t \in Tasks : deps[t] \subseteq S => t \in S

Reachable == {t \in Tasks : \A S \in SUBSET Tasks : Closed(S) => t \in S}

(* A run is reported completed only if every step really succeeded, so the *)
(* graph had no cycle and the iteration bound of the loop cut nothing off. *)
CompletedIsComplete ==
  verdict = "completed" =>
    /\ Reachable = Tasks
    /\ \A t \in Tasks : Succeeded(t)
    /\ outputs = Tasks \ Agentless

(* A run that reports failed steps has dealt with every step: it succeeded,*)
(* failed for good, or was skipped below a step that failed.               *)
FailureAccountsForAll ==
  (verdict = "failed" /\ error = "steps") =>
    \A t \in Tasks :
      \/ Succeeded(t)
      \/ result[t] = "failure"
      \/ records[t] = <<"skipped">> /\ \E d \in deps[t] \cap Tasks : result[d] = "failure"

(* A healthy workflow cannot stall: if the graph is well founded and no    *)
(* step failed, the loop never reports "possible circular dependency".     *)
StallHasCause ==
  error = "stalled" => Reachable # Tasks \/ failedSteps # {}

(* The task records a user reads agree with what the run was settled from: *)
(* attempts that failed, then at most one final outcome, which is the one  *)
(* the coordinator merged.                                                 *)
RecordsConsistent ==
  \A t \in Tasks :
    /\ \A i \in 1..(Len(records[t]) - 1) : records[t][i] = "failed"
    /\ result[t] = "output" <=> (records[t] # <<>> /\ Last(records[t]) = "completed")
    /\ result[t] = "nothing" => records[t] = <<"skipped">>

(* Whatever the graph, every execution ends.                               *)
Ends == <>(phase = "finished")

(* "test_downstream_task_skipped_on_upstream_failure": when a step fails,  *)
(* every step below it in a well-founded graph is recorded as skipped.     *)
Below(t) ==
  LET below[n \in Nat] ==
        IF n = 0 THEN {t} ELSE {u \in Tasks : u \in below[n - 1] \/ deps[u] \cap below[n - 1] # {}}
  IN  below[Cardinality(Tasks)] \ {t}

DownstreamSkipped ==
  (phase = "finished" /\ error # "unexpected" /\ Reachable = Tasks) =>
    \A t \in failedSteps : \A u \in Below(t) : records[u] = <<"skipped">>
=============================================================================
