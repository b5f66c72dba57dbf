---------------------------- MODULE RunLifecycle ----------------------------
(***************************************************************************)
(* What the workflow queue promises about a WorkflowRun: a run is owned by *)
(* at most one worker, only the owner settles it, a run whose owner died   *)
(* goes back to the queue until its attempts are used up and is then       *)
(* parked, and a settled run never moves again unless an operator requeues *)
(* a parked one.  The queue itself is specified in WorkflowQueue, which    *)
(* implements this module when no worker outlives the staleness window.    *)
(***************************************************************************)
EXTENDS Integers

CONSTANTS Runs,         \* the runs that may ever be created
          Workers,      \* the processes that may own a run
          NoWorker,     \* "nobody owns the run"
          MaxAttempts   \* WORKFLOW_RUN_MAX_ATTEMPTS

VARIABLES state,        \* state[r]: the lifecycle state of run r
          owner,        \* owner[r]: the worker executing r, or NoWorker
          tries         \* tries[r]: claims of r since it last became fresh work

vars == <<state, owner, tries>>

Init ==
  /\ state = [r \in Runs |-> "absent"]
  /\ owner = [r \in Runs |-> NoWorker]
  /\ tries = [r \in Runs |-> 0]

Submit(r) ==
  /\ state[r] = "absent"
  /\ state' = [state EXCEPT ![r] = "pending"]
  /\ UNCHANGED <<owner, tries>>

Claim(r, w) ==
  /\ state[r] = "pending"
  /\ owner[r] = NoWorker
  /\ tries[r] < MaxAttempts
  /\ state' = [state EXCEPT ![r] = "running"]
  /\ owner' = [owner EXCEPT ![r] = w]
  /\ tries' = [tries EXCEPT ![r] = @ + 1]

Settle(r, w) ==
  /\ state[r] = "running"
  /\ owner[r] = w
  /\ \E verdict \in {"completed", "failed"} : state' = [state EXCEPT ![r] = verdict]
  /\ owner' = [owner EXCEPT ![r] = NoWorker]
  /\ UNCHANGED tries

(* The owner dies; the run keeps its state until somebody notices.         *)
Orphan(r) ==
  /\ state[r] = "running"
  /\ owner[r] # NoWorker
  /\ owner' = [owner EXCEPT ![r] = NoWorker]
  /\ UNCHANGED <<state, tries>>

(* One sweep deals with any set of ownerless running runs at once.         *)
Recover(S) ==
  /\ \A r \in S : state[r] = "running" /\ owner[r] = NoWorker
  /\ state' = [r \in Runs |->
                 IF r \notin S THEN state[r]
                 ELSE IF tries[r] < MaxAttempts THEN "pending" ELSE "dead_letter"]
  /\ UNCHANGED <<owner, tries>>

Requeue(r) ==
  /\ state[r] = "dead_letter"
  /\ state' = [state EXCEPT ![r] = "pending"]
  /\ tries' = [tries EXCEPT ![r] = 0]
  /\ UNCHANGED owner

Next ==
  \/ \E r \in Runs : Submit(r) \/ Orphan(r) \/ Requeue(r)
  \/ \E r \in Runs, w \in Workers : Claim(r, w) \/ Settle(r, w)
  \/ \E S \in SUBSET Runs : Recover(S)

Spec == Init /\ [][Next]_vars
=============================================================================
