------------------------- MODULE WorkflowQueueProofs -------------------------
(* Theorems about WorkflowQueue, for every number of runs, workers,        *)
(* requests and operators.                                                 *)
EXTENDS WorkflowQueue, TLAPS

(* The tuples of variables, opened in every step below.                    *)
USE DEF vars, row, net, workers, clients

(***************************************************************************)
(* Type correctness                                                        *)
(***************************************************************************)

LEMMA InitType == Init => TypeOK
BY QueueAssumption DEF Init, TypeOK, Runs, Status, Terminal

LEMMA RequestType ==
  ASSUME TypeOK, NEW q \in Requests, Request(q)
  PROVE  TypeOK'
<1> USE QueueAssumption DEF TypeOK, Runs
<1>1. CASE FindExisting(q)  BY <1>1 DEF FindExisting
<1>2. CASE FindNone(q)      BY <1>2 DEF FindNone
<1>3. CASE CreateRun(q)     BY <1>3 DEF CreateRun, Start, Status
<1>4. CASE LoseInsertRace(q) BY <1>4 DEF LoseInsertRace
<1>5. CASE DispatchNew(q)   BY <1>5 DEF DispatchNew, DispatchRun
<1>6. CASE AbortRequest(q)  BY <1>6 DEF AbortRequest
<1> QED BY <1>1, <1>2, <1>3, <1>4, <1>5, <1>6 DEF Request

LEMMA ClaimType ==
  ASSUME TypeOK, NEW w \in Workers, NEW r \in Runs, Claim(w, r),
         msgs' \subseteq Runs, redispatch' = redispatch, UNCHANGED clients
  PROVE  TypeOK'
BY QueueAssumption DEF TypeOK, Claim, Status

LEMMA ExecuteType ==
  ASSUME TypeOK, NEW w \in Workers, Execute(w)
  PROVE  TypeOK'
<1> USE QueueAssumption DEF TypeOK
<1>1. CASE BeginExecute(w)  BY <1>1 DEF BeginExecute, Status
<1>2. CASE Wave(w)
  <2>1. PICK S \in SUBSET Left(w), F \in SUBSET Left(w) :
          /\ done' = [done EXCEPT ![w] = @ \cup S]
          /\ lost' = [lost EXCEPT ![w] = @ \cup F]
          /\ IF S \cap AgentSteps # {} THEN MergeWave(w, S \cap AgentSteps)
             ELSE UNCHANGED <<mem, outputs, fresh>>
    BY <1>2 DEF Wave
  <2>2. S \subseteq Steps /\ F \subseteq Steps  BY DEF Left
  <2>3. done' \in [Workers -> SUBSET Steps] /\ lost' \in [Workers -> SUBSET Steps]
    BY <2>1, <2>2
  <2>4. /\ mem' \in [Workers -> SUBSET Steps]
        /\ outputs' \in [Runs -> SUBSET Steps]
        /\ fresh' \in [Runs -> BOOLEAN]
    <3> DEFINE P == S \cap AgentSteps
    <3>1. CASE P = {}  BY <2>1, <3>1
    <3>2. CASE P # {}
      <4>1. mem[w] \cup P \in SUBSET Steps  BY <2>2
      <4>2. /\ mem' = [mem EXCEPT ![w] = mem[w] \cup P]
            /\ outputs' = [outputs EXCEPT ![wrun[w]] = mem[w] \cup P]
            /\ fresh' = [fresh EXCEPT ![wrun[w]] = TRUE]
        BY <2>1, <3>2 DEF MergeWave
      <4> QED BY <4>1, <4>2
    <3> QED BY <3>1, <3>2
  <2>5. UNCHANGED <<nextRun, key, status, attempts, completed, wpc, wrun, net, clients>>
    BY <1>2 DEF Wave
  <2> QED BY <2>3, <2>4, <2>5
<1>3. ASSUME NEW verdict \in {"completed", "failed"}, wpc[w] = "executing",
             Settle(w, verdict)
      PROVE  TypeOK'
  BY <1>3 DEF Settle, Release, Status, Terminal
<1>4. CASE Succeed(w)       BY <1>4, <1>3 DEF Succeed
<1>5. CASE Fail(w)          BY <1>5, <1>3 DEF Fail
<1>6. CASE CrashWorker(w)   BY <1>6 DEF CrashWorker, Release
<1> QED BY <1>1, <1>2, <1>4, <1>5, <1>6 DEF Execute

LEMMA RecoveryType ==
  ASSUME TypeOK, Recovery
  PROVE  TypeOK'
<1> USE QueueAssumption DEF TypeOK
<1>1. CASE RecoverStale     BY <1>1 DEF RecoverStale, Stale, Status, Terminal
<1>2. CASE Redispatch       BY <1>2 DEF Redispatch, DispatchRun
<1>3. CASE CrashRecovery    BY <1>3 DEF CrashRecovery
<1> QED BY <1>1, <1>2, <1>3 DEF Recovery

LEMMA RequeueType ==
  ASSUME TypeOK, NEW o \in Operators, Requeue(o)
  PROVE  TypeOK'
<1> USE QueueAssumption DEF TypeOK
<1>1. CASE ReadDeadLetter(o)   BY <1>1 DEF ReadDeadLetter
<1>2. CASE SaveRequeue(o)      BY <1>2 DEF SaveRequeue, Status
<1>3. CASE DispatchRequeue(o)  BY <1>3 DEF DispatchRequeue, DispatchRun
<1>4. CASE AbortRequeue(o)     BY <1>4 DEF AbortRequeue
<1> QED BY <1>1, <1>2, <1>3, <1>4 DEF Requeue

LEMMA StepType == TypeOK /\ [Next]_vars => TypeOK'
<1> SUFFICES ASSUME TypeOK, [Next]_vars PROVE TypeOK'
  OBVIOUS
<1>1. CASE \E q \in Requests : Request(q)  BY <1>1, RequestType
<1>2. ASSUME NEW w \in TaskWorkers, ClaimFromMessage(w) PROVE TypeOK'
  <2>1. w \in Workers  BY DEF Workers
  <2>2. PICK r \in msgs : Claim(w, r) /\ msgs' \in {msgs, msgs \ {r}}
    BY <1>2 DEF ClaimFromMessage
  <2>3. r \in Runs /\ msgs' \subseteq Runs  BY <2>2 DEF TypeOK
  <2> QED BY <1>2, <2>1, <2>2, <2>3, ClaimType DEF ClaimFromMessage
<1>3. ASSUME NEW w \in TaskWorkers, SkipMessage(w) PROVE TypeOK'
  BY <1>3 DEF SkipMessage, TypeOK
<1>4. ASSUME NEW w \in DbWorkers, ClaimNext(w) PROVE TypeOK'
  <2>1. w \in Workers  BY DEF Workers
  <2>2. PICK r \in Runs : Claim(w, r)  BY <1>4 DEF ClaimNext
  <2>3. msgs' \subseteq Runs  BY <1>4 DEF ClaimNext, TypeOK
  <2> QED BY <1>4, <2>1, <2>2, <2>3, ClaimType DEF ClaimNext
<1>5. ASSUME NEW w \in InlineRunners, StartInline(w) PROVE TypeOK'
  <2>1. w \in Workers  BY DEF Workers
  <2> QED BY <1>5, <2>1, QueueAssumption DEF StartInline, Start, TypeOK, Runs, Status
<1>6. CASE \E w \in Workers : Execute(w)  BY <1>6, ExecuteType
<1>7. ASSUME NEW r \in Runs, GoStale(r) PROVE TypeOK'
  BY <1>7 DEF GoStale, TypeOK
<1>8. CASE Recovery  BY <1>8, RecoveryType
<1>9. CASE \E o \in Operators : Requeue(o)  BY <1>9, RequeueType
<1>10. CASE UNCHANGED vars  BY <1>10 DEF TypeOK
<1> QED
  BY <1>1, <1>2, <1>3, <1>4, <1>5, <1>6, <1>7, <1>8, <1>9, <1>10 DEF Next

(* Every reachable state of the queue is well typed: in particular a       *)
(* worker that is not idle and an answered request always refer to a run.  *)
THEOREM TypeCorrect == Spec => []TypeOK
BY InitType, StepType, PTL DEF Spec

(***************************************************************************)
(* Bounded retries.  PoisonBounded is inductive given the types: a claim   *)
(* needs status "pending", which guarantees an attempt is left; recovery   *)
(* re-queues only while one is left; a requeue starts again from zero.     *)
(***************************************************************************)


LEMMA InitBookkeeping == Init => Bookkeeping
<1> SUFFICES ASSUME Init PROVE NoGhostRows /\ PoisonBounded /\ CompletionStamped
  BY InitType DEF Bookkeeping
<1> QED
  BY QueueAssumption DEF Init, NoGhostRows, PoisonBounded, CompletionStamped, Terminal

(* The insert of a row: the new id was blank until now.                    *)
LEMMA StartBookkeeping ==
  ASSUME Bookkeeping, TypeOK', NEW k, Start(k),
         \A w \in Workers : wpc'[w] # "idle" =>
            \/ wpc[w] # "idle" /\ wrun'[w] = wrun[w]
            \/ wrun'[w] = nextRun,
         \A o \in Operators : opc'[o] # "idle" => opc[o] # "idle" /\ target'[o] = target[o]
  PROVE  Bookkeeping'
<1>1. nextRun \in Runs /\ status[nextRun] = "absent" /\ attempts[nextRun] = 0
      /\ ~completed[nextRun]
  BY QueueAssumption DEF Start, Bookkeeping, TypeOK, NoGhostRows, Runs
<1>2. NoGhostRows'
  BY <1>1 DEF Start, Bookkeeping, TypeOK, NoGhostRows, Runs
<1>3. PoisonBounded' /\ CompletionStamped'
  BY <1>1, QueueAssumption
  DEF Start, Bookkeeping, TypeOK, PoisonBounded, CompletionStamped, Terminal
<1> QED BY <1>2, <1>3 DEF Bookkeeping

LEMMA RequestBookkeeping ==
  ASSUME Bookkeeping, TypeOK', NEW q \in Requests, Request(q)
  PROVE  Bookkeeping'
<1>1. CASE CreateRun(q)
  BY <1>1, StartBookkeeping DEF CreateRun
<1>2. CASE ~CreateRun(q)
  <2>1. UNCHANGED <<nextRun, status, attempts, completed, wpc, wrun, opc, target>>
    BY <1>2 DEF Request, FindExisting, FindNone, LoseInsertRace, DispatchNew, AbortRequest
  <2> QED
    BY <2>1 DEF Bookkeeping, NoGhostRows, PoisonBounded, CompletionStamped
<1> QED BY <1>1, <1>2

LEMMA ClaimBookkeeping ==
  ASSUME Bookkeeping, TypeOK', NEW w \in Workers, NEW r \in Runs, Claim(w, r),
         UNCHANGED clients
  PROVE  Bookkeeping'
<1>1. attempts[r] < MaxAttempts /\ status[r] = "pending"
  BY DEF Bookkeeping, PoisonBounded, Claim
<1>2. NoGhostRows'
  BY <1>1 DEF Claim, Bookkeeping, TypeOK, NoGhostRows
<1>3. PoisonBounded'
  BY <1>1, QueueAssumption DEF Claim, Bookkeeping, TypeOK, PoisonBounded
<1>4. CompletionStamped'
  BY <1>1 DEF Claim, Bookkeeping, TypeOK, CompletionStamped, Terminal
<1> QED BY <1>2, <1>3, <1>4 DEF Bookkeeping

LEMMA ExecuteBookkeeping ==
  ASSUME Bookkeeping, TypeOK', NEW w \in Workers, Execute(w)
  PROVE  Bookkeeping'
<1>1. CASE BeginExecute(w)
  <2>1. wrun[w] \in Runs /\ status[wrun[w]] # "absent"
    BY <1>1 DEF BeginExecute, Bookkeeping, TypeOK, NoGhostRows
  <2>2. NoGhostRows'
    BY <1>1, <2>1 DEF BeginExecute, Bookkeeping, TypeOK, NoGhostRows
  <2>3. PoisonBounded' /\ CompletionStamped'
    BY <1>1, <2>1
    DEF BeginExecute, Bookkeeping, TypeOK, PoisonBounded, CompletionStamped, Terminal
  <2> QED BY <2>2, <2>3 DEF Bookkeeping
<1>2. CASE Wave(w)
  BY <1>2 DEF Wave, Bookkeeping, NoGhostRows, PoisonBounded, CompletionStamped
<1>3. ASSUME NEW verdict \in {"completed", "failed"}, wpc[w] = "executing",
             Settle(w, verdict)
      PROVE  Bookkeeping'
  <2>1. wrun[w] \in Runs /\ status[wrun[w]] # "absent"
    BY <1>3 DEF Bookkeeping, TypeOK, NoGhostRows
  <2>2. NoGhostRows'
    BY <1>3, <2>1 DEF Settle, Release, Bookkeeping, TypeOK, NoGhostRows
  <2>3. PoisonBounded' /\ CompletionStamped'
    BY <1>3, <2>1
    DEF Settle, Bookkeeping, TypeOK, PoisonBounded, CompletionStamped, Terminal
  <2> QED BY <2>2, <2>3 DEF Bookkeeping
<1>4. CASE Succeed(w) \/ Fail(w)
  BY <1>4, <1>3 DEF Succeed, Fail
<1>5. CASE CrashWorker(w)
  BY <1>5 DEF CrashWorker, Release, Bookkeeping, TypeOK, NoGhostRows, PoisonBounded,
              CompletionStamped
<1> QED BY <1>1, <1>2, <1>4, <1>5 DEF Execute

(* Recovery queues a run only while an attempt is left and parks it, with  *)
(* completed_at, when none is.                                             *)
LEMMA RecoveryBookkeeping ==
  ASSUME Bookkeeping, TypeOK', Recovery
  PROVE  Bookkeeping'
<1>1. CASE RecoverStale
  <2>1. NoGhostRows'
    BY <1>1 DEF RecoverStale, Stale, Bookkeeping, TypeOK, NoGhostRows
  <2>2. PoisonBounded'
    <3> SUFFICES ASSUME NEW r \in Runs
                 PROVE  /\ attempts'[r] <= MaxAttempts
                        /\ status'[r] = "pending" => attempts'[r] < MaxAttempts
                        /\ status'[r] = "dead_letter" => attempts'[r] = MaxAttempts
      BY DEF PoisonBounded
    <3>1. MaxAttempts \in Nat /\ attempts[r] \in Nat /\ attempts' = attempts
      BY <1>1, QueueAssumption DEF RecoverStale, Bookkeeping, TypeOK
    <3>2. /\ attempts[r] <= MaxAttempts
          /\ status[r] = "pending" => attempts[r] < MaxAttempts
          /\ status[r] = "dead_letter" => attempts[r] = MaxAttempts
      BY DEF Bookkeeping, PoisonBounded
    <3>3. status'[r] = IF ~Stale(r) THEN status[r]
                       ELSE IF attempts[r] >= MaxAttempts THEN "dead_letter" ELSE "pending"
      BY <1>1 DEF RecoverStale, Exhausted
    <3> QED BY <3>1, <3>2, <3>3
  <2>3. CompletionStamped'
    BY <1>1 DEF RecoverStale, Stale, Bookkeeping, TypeOK, CompletionStamped, Terminal
  <2> QED BY <2>1, <2>2, <2>3 DEF Bookkeeping
<1>2. CASE Redispatch \/ CrashRecovery
  BY <1>2 DEF Redispatch, CrashRecovery, Bookkeeping, NoGhostRows, PoisonBounded,
              CompletionStamped
<1> QED BY <1>1, <1>2 DEF Recovery

LEMMA RequeueBookkeeping ==
  ASSUME Bookkeeping, TypeOK', NEW o \in Operators, Requeue(o)
  PROVE  Bookkeeping'
<1>1. CASE ReadDeadLetter(o)
  BY <1>1 DEF ReadDeadLetter, Bookkeeping, TypeOK, NoGhostRows, PoisonBounded,
              CompletionStamped
<1>2. CASE SaveRequeue(o)
  <2>1. target[o] \in Runs /\ status[target[o]] # "absent"
    BY <1>2 DEF SaveRequeue, Bookkeeping, TypeOK, NoGhostRows
  <2>2. NoGhostRows'
    BY <1>2, <2>1 DEF SaveRequeue, Bookkeeping, TypeOK, NoGhostRows
  <2>3. PoisonBounded' /\ CompletionStamped'
    BY <1>2, <2>1, QueueAssumption
    DEF SaveRequeue, Bookkeeping, TypeOK, PoisonBounded, CompletionStamped, Terminal
  <2> QED BY <2>2, <2>3 DEF Bookkeeping
<1>3. CASE DispatchRequeue(o) \/ AbortRequeue(o)
  BY <1>3 DEF DispatchRequeue, AbortRequeue, Bookkeeping, TypeOK, NoGhostRows,
              PoisonBounded, CompletionStamped
<1> QED BY <1>1, <1>2, <1>3 DEF Requeue

LEMMA StepBookkeeping == Bookkeeping /\ [Next]_vars => Bookkeeping'
<1> SUFFICES ASSUME Bookkeeping, [Next]_vars PROVE Bookkeeping'
  OBVIOUS
<1>0. TypeOK'  BY StepType DEF Bookkeeping
<1>1. CASE \E q \in Requests : Request(q)  BY <1>0, <1>1, RequestBookkeeping
<1>2. ASSUME NEW w \in TaskWorkers, ClaimFromMessage(w) PROVE Bookkeeping'
  <2>1. PICK r \in msgs : Claim(w, r)  BY <1>2 DEF ClaimFromMessage
  <2>2. w \in Workers /\ r \in Runs  BY <2>1 DEF Workers, Bookkeeping, TypeOK
  <2> QED BY <1>0, <1>2, <2>1, <2>2, ClaimBookkeeping DEF ClaimFromMessage
<1>3. ASSUME NEW w \in TaskWorkers, SkipMessage(w) PROVE Bookkeeping'
  BY <1>0, <1>3 DEF SkipMessage, Bookkeeping, NoGhostRows, PoisonBounded, CompletionStamped
<1>4. ASSUME NEW w \in DbWorkers, ClaimNext(w) PROVE Bookkeeping'
  <2>1. PICK r \in Runs : Claim(w, r)  BY <1>4 DEF ClaimNext
  <2> QED BY <1>0, <1>4, <2>1, ClaimBookkeeping DEF ClaimNext, Workers
<1>5. ASSUME NEW w \in InlineRunners, StartInline(w) PROVE Bookkeeping'
  <2>1. \A v \in Workers : wpc'[v] # "idle" =>
            \/ wpc[v] # "idle" /\ wrun'[v] = wrun[v]
            \/ wrun'[v] = nextRun
    BY <1>5 DEF StartInline, Bookkeeping, TypeOK, Workers
  <2> QED BY <1>0, <1>5, <2>1, StartBookkeeping DEF StartInline
<1>6. CASE \E w \in Workers : Execute(w)  BY <1>0, <1>6, ExecuteBookkeeping
<1>7. ASSUME NEW r \in Runs, GoStale(r) PROVE Bookkeeping'
  BY <1>0, <1>7 DEF GoStale, Bookkeeping, NoGhostRows, PoisonBounded, CompletionStamped
<1>8. CASE Recovery  BY <1>0, <1>8, RecoveryBookkeeping
<1>9. CASE \E o \in Operators : Requeue(o)  BY <1>0, <1>9, RequeueBookkeeping
<1>10. CASE UNCHANGED vars
  BY <1>0, <1>10 DEF Bookkeeping, NoGhostRows, PoisonBounded, CompletionStamped
<1> QED
  BY <1>1, <1>2, <1>3, <1>4, <1>5, <1>6, <1>7, <1>8, <1>9, <1>10 DEF Next

(* Whatever the workers do, also when they outlive the staleness window, a *)
(* run is claimed at most WORKFLOW_RUN_MAX_ATTEMPTS times between requeues *)
(* and is parked only once those are used up.                              *)
THEOREM PoisonIsBounded == Spec => []PoisonBounded
<1>1. Spec => []Bookkeeping
  BY InitBookkeeping, StepBookkeeping, PTL DEF Spec
<1>2. Bookkeeping => PoisonBounded
  BY DEF Bookkeeping
<1> QED BY <1>1, <1>2, PTL

(* completed_at is set on every settled run and on no queued one.          *)
THEOREM CompletionIsStamped == Spec => []CompletionStamped
<1>1. Spec => []Bookkeeping
  BY InitBookkeeping, StepBookkeeping, PTL DEF Spec
<1>2. Bookkeeping => CompletionStamped
  BY DEF Bookkeeping
<1> QED BY <1>1, <1>2, PTL

(***************************************************************************)
(* Exclusive execution in a timely deployment.  OneExecutor alone is not   *)
(* inductive: recovery could hand a live worker's run to a second worker,  *)
(* and an operator could save an out-of-date copy over a running run.      *)
(* Exclusive rules both out.                                               *)
(***************************************************************************)

LEMMA InitExclusive == Init => Exclusive
BY DEF Init, Exclusive, OneExecutor, Live

LEMMA RequestExclusive ==
  ASSUME Bookkeeping, Exclusive, NEW q \in Requests, Request(q)
  PROVE  Exclusive'
<1>1. CASE CreateRun(q)
  <2>1. status[nextRun] = "absent" /\ nextRun \in Runs /\ ~completed[nextRun]
    BY <1>1, QueueAssumption DEF CreateRun, Start, Bookkeeping, TypeOK, NoGhostRows, Runs
  <2> QED
    BY <1>1, <2>1 DEF CreateRun, Start, Bookkeeping, TypeOK, NoGhostRows, Exclusive,
                      OneExecutor, Live
<1>2. CASE ~CreateRun(q)
  <2>1. UNCHANGED <<status, completed, fresh, wpc, wrun, opc, target>>
    BY <1>2 DEF Request, FindExisting, FindNone, LoseInsertRace, DispatchNew, AbortRequest
  <2> QED BY <2>1 DEF Exclusive, OneExecutor, Live
<1> QED BY <1>1, <1>2

(* Nobody executes a pending run, so its claim makes exactly one executor. *)
LEMMA ClaimExclusive ==
  ASSUME Bookkeeping, Exclusive, NEW w \in Workers, NEW r \in Runs, Claim(w, r),
         UNCHANGED clients
  PROVE  Exclusive'
<1>1. status[r] = "pending" /\ ~completed[r] /\ \A v \in Workers : ~Live(v, r)
  BY DEF Claim, Bookkeeping, CompletionStamped, Exclusive, OneExecutor
<1>2. OneExecutor'
  BY <1>1 DEF Claim, Bookkeeping, TypeOK, Exclusive, OneExecutor, Live
<1>3. \A v \in Workers : wpc'[v] # "idle" => fresh'[wrun'[v]]
  BY <1>1 DEF Claim, Bookkeeping, TypeOK, Exclusive
<1>4. \A o \in Operators : opc'[o] = "read" => status'[target'[o]] = "dead_letter"
  BY <1>1 DEF Claim, Bookkeeping, TypeOK, Exclusive
<1>5. \A s \in Runs : status'[s] = "running" => ~completed'[s]
  BY <1>1 DEF Claim, Bookkeeping, TypeOK, Exclusive
<1> QED BY <1>2, <1>3, <1>4, <1>5 DEF Exclusive

(* What a worker writes, it writes to a run nobody else executes.          *)
LEMMA ExecuteExclusive ==
  ASSUME Bookkeeping, Exclusive, NEW w \in Workers, Execute(w)
  PROVE  Exclusive'
<1>1. wpc[w] # "idle" /\ wrun[w] \in Runs /\ status[wrun[w]] = "running"
      /\ \A v \in Workers : Live(v, wrun[w]) => v = w
  BY DEF Execute, BeginExecute, Wave, Succeed, Fail, CrashWorker, Bookkeeping, TypeOK,
         Exclusive, OneExecutor, Live
<1>2. CASE BeginExecute(w)
  BY <1>1, <1>2 DEF BeginExecute, Bookkeeping, TypeOK, Exclusive, OneExecutor, Live
<1>3. CASE Wave(w)
  <2>1. \A r \in Runs : fresh[r] => fresh'[r]
    BY <1>1, <1>3 DEF Wave, MergeWave, Bookkeeping, TypeOK
  <2>2. UNCHANGED <<status, completed, wpc, wrun, opc, target>>
    BY <1>3 DEF Wave
  <2> QED BY <2>1, <2>2 DEF Bookkeeping, TypeOK, Exclusive, OneExecutor, Live
<1>4. ASSUME NEW verdict \in {"completed", "failed"}, Settle(w, verdict)
      PROVE  Exclusive'
  <2>1. OneExecutor'
    BY <1>1, <1>4 DEF Settle, Release, Bookkeeping, TypeOK, Exclusive, OneExecutor, Live
  <2>2. \A v \in Workers : wpc'[v] # "idle" => fresh'[wrun'[v]]
    BY <1>1, <1>4 DEF Settle, Release, Bookkeeping, TypeOK, Exclusive
  <2>3. \A o \in Operators : opc'[o] = "read" => status'[target'[o]] = "dead_letter"
    BY <1>1, <1>4 DEF Settle, Bookkeeping, TypeOK, Exclusive
  <2>4. \A r \in Runs : status'[r] = "running" => ~completed'[r]
    BY <1>1, <1>4 DEF Settle, Bookkeeping, TypeOK, Exclusive
  <2> QED BY <2>1, <2>2, <2>3, <2>4 DEF Exclusive
<1>5. CASE Succeed(w) \/ Fail(w)
  BY <1>5, <1>4 DEF Succeed, Fail
<1>6. CASE CrashWorker(w)
  BY <1>1, <1>6 DEF CrashWorker, Release, Bookkeeping, TypeOK, Exclusive, OneExecutor, Live
<1> QED BY <1>2, <1>3, <1>5, <1>6 DEF Execute

(* A stale run has no live worker, so recovery takes it from nobody.       *)
LEMMA RecoveryExclusive ==
  ASSUME Bookkeeping, Exclusive, Recovery
  PROVE  Exclusive'
<1>1. CASE RecoverStale
  <2>1. \A w \in Workers, r \in Runs : Live(w, r) => ~Stale(r)
    BY DEF Live, Stale, Exclusive
  <2> QED
    BY <1>1, <2>1 DEF RecoverStale, Stale, Bookkeeping, TypeOK, Exclusive, OneExecutor, Live
<1>2. CASE Redispatch \/ CrashRecovery
  BY <1>2 DEF Redispatch, CrashRecovery, Exclusive, OneExecutor, Live
<1> QED BY <1>1, <1>2 DEF Recovery

(* A dead letter has no live worker, and the only operator's copy of it is *)
(* the row.                                                                *)
LEMMA RequeueExclusive ==
  ASSUME Timely, Bookkeeping, Exclusive, NEW o \in Operators, Requeue(o)
  PROVE  Exclusive'
<1>1. CASE ReadDeadLetter(o)
  BY <1>1 DEF ReadDeadLetter, Bookkeeping, TypeOK, Exclusive, OneExecutor, Live
<1>2. CASE SaveRequeue(o)
  <2>1. target[o] \in Runs /\ status[target[o]] = "dead_letter"
    BY <1>2 DEF SaveRequeue, Bookkeeping, TypeOK, Exclusive
  <2>2. \A p \in Operators : opc'[p] # "read"
    BY <1>2 DEF SaveRequeue, Bookkeeping, TypeOK, Timely
  <2> QED
    BY <1>2, <2>1, <2>2 DEF SaveRequeue, Bookkeeping, TypeOK, Exclusive, OneExecutor, Live
<1>3. CASE DispatchRequeue(o) \/ AbortRequeue(o)
  BY <1>3 DEF DispatchRequeue, AbortRequeue, Bookkeeping, TypeOK, Exclusive, OneExecutor,
              Live
<1> QED BY <1>1, <1>2, <1>3 DEF Requeue

LEMMA StepExclusive ==
  ASSUME Timely PROVE Bookkeeping /\ Exclusive /\ [Next]_vars => Exclusive'
<1> SUFFICES ASSUME Bookkeeping, Exclusive, [Next]_vars PROVE Exclusive'
  OBVIOUS
<1>1. CASE \E q \in Requests : Request(q)  BY <1>1, RequestExclusive
<1>2. ASSUME NEW w \in TaskWorkers, ClaimFromMessage(w) PROVE Exclusive'
  <2>1. PICK r \in msgs : Claim(w, r)  BY <1>2 DEF ClaimFromMessage
  <2>2. w \in Workers /\ r \in Runs  BY <2>1 DEF Workers, Bookkeeping, TypeOK
  <2> QED BY <1>2, <2>1, <2>2, ClaimExclusive DEF ClaimFromMessage
<1>3. ASSUME NEW w \in TaskWorkers, SkipMessage(w) PROVE Exclusive'
  BY <1>3 DEF SkipMessage, Exclusive, OneExecutor, Live
<1>4. ASSUME NEW w \in DbWorkers, ClaimNext(w) PROVE Exclusive'
  <2>1. PICK r \in Runs : Claim(w, r)  BY <1>4 DEF ClaimNext
  <2> QED BY <1>4, <2>1, ClaimExclusive DEF ClaimNext, Workers
<1>5. ASSUME NEW w \in InlineRunners, StartInline(w) PROVE Exclusive'
  BY <1>5 DEF Timely
<1>6. CASE \E w \in Workers : Execute(w)  BY <1>6, ExecuteExclusive
<1>7. ASSUME NEW r \in Runs, GoStale(r) PROVE Exclusive'
  <2>1. \A w \in Workers : ~Live(w, r)  BY <1>7 DEF GoStale, Timely
  <2> QED BY <1>7, <2>1 DEF GoStale, Bookkeeping, TypeOK, Exclusive, OneExecutor, Live
<1>8. CASE Recovery  BY <1>8, RecoveryExclusive
<1>9. CASE \E o \in Operators : Requeue(o)  BY <1>9, RequeueExclusive
<1>10. CASE UNCHANGED vars
  BY <1>10 DEF Exclusive, OneExecutor, Live
<1> QED
  BY <1>1, <1>2, <1>3, <1>4, <1>5, <1>6, <1>7, <1>8, <1>9, <1>10 DEF Next

(* In a timely deployment Exclusive holds in every reachable state.        *)
LEMMA ExclusiveAlways ==
  ASSUME Timely PROVE Spec => [](Bookkeeping /\ Exclusive)
<1>1. Init => Bookkeeping /\ Exclusive
  BY InitBookkeeping, InitExclusive
<1>2. (Bookkeeping /\ Exclusive) /\ [Next]_vars => (Bookkeeping /\ Exclusive)'
  BY StepBookkeeping, StepExclusive
<1> QED BY <1>1, <1>2, PTL DEF Spec

(* A run has one executor at a time when a worker that is silent for the   *)
(* whole window is dead, runs are executed only after a claim and one      *)
(* operator requeues dead letters.                                         *)
THEOREM OneExecutorAtATime == Timely => (Spec => []OneExecutor)
<1> SUFFICES ASSUME Timely PROVE Spec => []OneExecutor
  OBVIOUS
<1>1. Exclusive => OneExecutor  BY DEF Exclusive
<1> QED BY <1>1, ExclusiveAlways, PTL

(* Under the same conditions the recovery job finds every RUNNING run.     *)
THEOREM RunningStaysRecoverable == Timely => (Spec => []RunningIsRecoverable)
<1> SUFFICES ASSUME Timely PROVE Spec => []RunningIsRecoverable
  OBVIOUS
<1>1. Exclusive => RunningIsRecoverable  BY DEF Exclusive, RunningIsRecoverable
<1> QED BY <1>1, ExclusiveAlways, PTL

(***************************************************************************)
(* Settled runs.  By Exclusive a worker only writes to a RUNNING run and   *)
(* an operator only saves over a dead letter.                              *)
(***************************************************************************)

SettledStep ==
  \A r \in Runs :
    status[r] \in Terminal =>
      \/ status'[r] = status[r] /\ outputs'[r] = outputs[r]
      \/ status[r] = "dead_letter" /\ status'[r] = "pending"

LEMMA ExecuteSettled ==
  ASSUME Bookkeeping, Exclusive, NEW w \in Workers, Execute(w)
  PROVE  SettledStep
<1>1. wrun[w] \in Runs /\ status[wrun[w]] = "running"
  BY DEF Execute, BeginExecute, Wave, Succeed, Fail, CrashWorker, Bookkeeping, TypeOK,
         Exclusive, OneExecutor, Live
<1>2. \A r \in Runs : r # wrun[w] => status'[r] = status[r] /\ outputs'[r] = outputs[r]
  <2>1. CASE BeginExecute(w)  BY <1>1, <2>1 DEF BeginExecute, Bookkeeping, TypeOK
  <2>2. CASE Wave(w)  BY <1>1, <2>2 DEF Wave, MergeWave, Bookkeeping, TypeOK
  <2>3. CASE Succeed(w)  BY <1>1, <2>3 DEF Succeed, Settle, Bookkeeping, TypeOK
  <2>4. CASE Fail(w)  BY <1>1, <2>4 DEF Fail, Settle, Bookkeeping, TypeOK
  <2>5. CASE CrashWorker(w)  BY <2>5 DEF CrashWorker
  <2> QED BY <2>1, <2>2, <2>3, <2>4, <2>5 DEF Execute
<1> QED BY <1>1, <1>2 DEF SettledStep, Terminal

LEMMA StepSettled ==
  ASSUME Timely, Bookkeeping, Exclusive, [Next]_vars PROVE SettledStep
<1>1. ASSUME NEW q \in Requests, Request(q) PROVE SettledStep
  <2>1. CASE CreateRun(q)
    <3>1. status[nextRun] = "absent" /\ nextRun \in Runs
      BY <2>1, QueueAssumption DEF CreateRun, Start, Bookkeeping, TypeOK, NoGhostRows, Runs
    <3> QED
      BY <2>1, <3>1 DEF CreateRun, Start, SettledStep, Terminal, Bookkeeping, TypeOK
  <2>2. CASE ~CreateRun(q)
    <3>1. UNCHANGED <<status, outputs>>
      BY <1>1, <2>2
      DEF Request, FindExisting, FindNone, LoseInsertRace, DispatchNew, AbortRequest
    <3> QED BY <3>1 DEF SettledStep
  <2> QED BY <2>1, <2>2
<1>2. ASSUME NEW w \in Workers, NEW r \in Runs, Claim(w, r) PROVE SettledStep
  BY <1>2 DEF Claim, SettledStep, Terminal, Bookkeeping, TypeOK
<1>3. ASSUME NEW w \in TaskWorkers, ClaimFromMessage(w) PROVE SettledStep
  <2>1. PICK r \in msgs : Claim(w, r)  BY <1>3 DEF ClaimFromMessage
  <2>2. w \in Workers /\ r \in Runs  BY <2>1 DEF Workers, Bookkeeping, TypeOK
  <2> QED BY <1>2, <2>1, <2>2
<1>4. ASSUME NEW w \in TaskWorkers, SkipMessage(w) PROVE SettledStep
  BY <1>4 DEF SkipMessage, SettledStep
<1>5. ASSUME NEW w \in DbWorkers, ClaimNext(w) PROVE SettledStep
  BY <1>2, <1>5 DEF ClaimNext, Workers
<1>6. ASSUME NEW w \in InlineRunners, StartInline(w) PROVE SettledStep
  BY <1>6 DEF Timely
<1>7. CASE \E w \in Workers : Execute(w)  BY <1>7, ExecuteSettled
<1>8. ASSUME NEW r \in Runs, GoStale(r) PROVE SettledStep
  BY <1>8 DEF GoStale, SettledStep
<1>9. CASE Recovery
  BY <1>9 DEF Recovery, RecoverStale, Redispatch, CrashRecovery, Stale, SettledStep, Terminal
<1>10. ASSUME NEW o \in Operators, Requeue(o) PROVE SettledStep
  <2>1. CASE SaveRequeue(o)
    BY <2>1 DEF SaveRequeue, SettledStep, Bookkeeping, TypeOK, Exclusive
  <2>2. CASE ~SaveRequeue(o)
    BY <1>10, <2>2 DEF Requeue, ReadDeadLetter, DispatchRequeue, AbortRequeue, SettledStep
  <2> QED BY <2>1, <2>2
<1>11. CASE UNCHANGED vars  BY <1>11 DEF SettledStep
<1> QED
  BY <1>1, <1>3, <1>4, <1>5, <1>6, <1>7, <1>8, <1>9, <1>10, <1>11 DEF Next

(* In a timely deployment a settled run is never written again, except     *)
(* that an operator may put a dead letter back into the queue.             *)
THEOREM SettledRunsStay == Timely => (Spec => SettledStays)
<1> SUFFICES ASSUME Timely PROVE Spec => SettledStays
  OBVIOUS
<1>1. (Bookkeeping /\ Exclusive) /\ [Next]_vars => [SettledStep]_vars
  BY StepSettled
<1>2. Spec => [][SettledStep]_vars
  BY <1>1, ExclusiveAlways, PTL DEF Spec
<1> QED BY <1>2 DEF SettledStays, SettledStep

(***************************************************************************)
(* Idempotency keys, in every deployment.                                  *)
(***************************************************************************)

(* An answered request holds a run of its own key, and no two rows share a *)
(* key.                                                                    *)
Keys ==
  /\ \A q \in Requests :
       rpc[q] \in {"dispatching", "done"} =>
         status[rrun[q]] # "absent" /\ key[rrun[q]] = KeyOf[q]
  /\ \A s, r \in Runs :
       (status[s] # "absent" /\ status[r] # "absent" /\ key[s] = key[r] /\ key[s] # NoKey)
         => s = r

LEMMA CreateKeys ==
  ASSUME Bookkeeping, Keys, NEW q \in Requests, CreateRun(q)
  PROVE  Keys'
<1>1. nextRun \in Runs /\ status[nextRun] = "absent" /\ rpc[q] = "creating"
  BY QueueAssumption DEF CreateRun, Start, Bookkeeping, TypeOK, NoGhostRows, Runs
<1>2. /\ \A r \in Runs : ~HasKey(r, q)
      /\ key' = [key EXCEPT ![nextRun] = KeyOf[q]]
      /\ status' = [status EXCEPT ![nextRun] = "pending"]
      /\ rrun' = [rrun EXCEPT ![q] = nextRun]
      /\ rpc' = [rpc EXCEPT ![q] = "dispatching"]
  BY DEF CreateRun, Start
<1>3. /\ status'[nextRun] = "pending" /\ key'[nextRun] = KeyOf[q]
      /\ \A r \in Runs : r # nextRun => status'[r] = status[r] /\ key'[r] = key[r]
  BY <1>1, <1>2 DEF Bookkeeping, TypeOK
<1>4. ASSUME NEW p \in Requests, rpc'[p] \in {"dispatching", "done"}
      PROVE  status'[rrun'[p]] # "absent" /\ key'[rrun'[p]] = KeyOf[p]
  <2>1. CASE p = q  BY <1>1, <1>2, <1>3, <2>1 DEF Bookkeeping, TypeOK
  <2>2. CASE p # q
    BY <1>1, <1>2, <1>3, <1>4, <2>2 DEF Bookkeeping, TypeOK, Keys
  <2> QED BY <2>1, <2>2
<1>5. ASSUME NEW s \in Runs, NEW r \in Runs, status'[s] # "absent", status'[r] # "absent",
             key'[s] = key'[r], key'[s] # NoKey
      PROVE  s = r
  BY <1>2, <1>3, <1>5 DEF HasKey, Keys
<1> QED BY <1>4, <1>5 DEF Keys

(* Steps that create no row and answer no request.                         *)
LEMMA OtherKeys ==
  ASSUME Bookkeeping, Keys, UNCHANGED <<key, rrun>>,
         \A r \in Runs : status'[r] = "absent" <=> status[r] = "absent",
         \A q \in Requests : rpc'[q] \in {"dispatching", "done"}
                               => rpc[q] \in {"dispatching", "done"}
  PROVE  Keys'
BY DEF Bookkeeping, TypeOK, Keys

(* The step creates no row.                                                *)
StartsNoRow == \A r \in Runs : status'[r] = "absent" <=> status[r] = "absent"

LEMMA RequestKeys ==
  ASSUME Bookkeeping, Keys, NEW q \in Requests, Request(q)
  PROVE  Keys'
<1>1. CASE CreateRun(q)  BY <1>1, CreateKeys
<1>2. CASE FindExisting(q) \/ LoseInsertRace(q)
  <2>1. PICK r \in Runs : HasKey(r, q) /\ rrun' = [rrun EXCEPT ![q] = r]
    BY <1>2 DEF FindExisting, LoseInsertRace
  <2>2. UNCHANGED <<key, status>> /\ rpc' = [rpc EXCEPT ![q] = "done"]
    BY <1>2 DEF FindExisting, LoseInsertRace
  <2> QED BY <2>1, <2>2 DEF HasKey, Bookkeeping, TypeOK, Keys
<1>3. CASE FindNone(q) \/ DispatchNew(q) \/ AbortRequest(q)
  <2>1. UNCHANGED <<key, rrun, status>>
        /\ \A p \in Requests : rpc'[p] \in {"dispatching", "done"}
                                 => rpc[p] \in {"dispatching", "done"}
    BY <1>3 DEF FindNone, DispatchNew, AbortRequest, Bookkeeping, TypeOK
  <2> QED BY <2>1, OtherKeys
<1> QED BY <1>1, <1>2, <1>3 DEF Request

LEMMA ExecuteStartsNoRow ==
  ASSUME Bookkeeping, NEW w \in Workers, Execute(w)
  PROVE  StartsNoRow /\ UNCHANGED <<key, rrun, rpc>>
<1>1. wpc[w] # "idle" /\ wrun[w] \in Runs /\ status[wrun[w]] # "absent"
  BY DEF Execute, BeginExecute, Wave, Succeed, Fail, CrashWorker, Bookkeeping, TypeOK,
         NoGhostRows
<1> QED
  BY <1>1 DEF Execute, BeginExecute, Wave, Succeed, Fail, Settle, CrashWorker, Bookkeeping,
              TypeOK, StartsNoRow

LEMMA StepKeys == Bookkeeping /\ Keys /\ [Next]_vars => Keys'
<1> SUFFICES ASSUME Bookkeeping, Keys, [Next]_vars PROVE Keys'
  OBVIOUS
<1>0. StartsNoRow /\ UNCHANGED <<key, rrun, rpc>> => Keys'
  BY OtherKeys DEF StartsNoRow
<1>1. ASSUME NEW w \in Workers, NEW r \in Runs, Claim(w, r), UNCHANGED clients PROVE Keys'
  BY <1>0, <1>1 DEF Claim, Bookkeeping, TypeOK, StartsNoRow
<1>2. ASSUME NEW w \in TaskWorkers, ClaimFromMessage(w) \/ SkipMessage(w) PROVE Keys'
  <2>1. CASE ClaimFromMessage(w)
    <3>1. PICK r \in msgs : Claim(w, r)  BY <2>1 DEF ClaimFromMessage
    <3>2. w \in Workers /\ r \in Runs  BY <3>1 DEF Workers, Bookkeeping, TypeOK
    <3> QED BY <1>1, <2>1, <3>1, <3>2 DEF ClaimFromMessage
  <2>2. CASE SkipMessage(w)  BY <1>0, <2>2 DEF SkipMessage, StartsNoRow
  <2> QED BY <1>2, <2>1, <2>2
<1>3. ASSUME NEW w \in DbWorkers, ClaimNext(w) PROVE Keys'
  BY <1>1, <1>3 DEF ClaimNext, Workers
<1>4. ASSUME NEW w \in InlineRunners, StartInline(w) PROVE Keys'
  <2>1. nextRun \in Runs /\ status[nextRun] = "absent"
    BY <1>4, QueueAssumption DEF StartInline, Start, Bookkeeping, TypeOK, NoGhostRows, Runs
  <2>2. /\ key' = [key EXCEPT ![nextRun] = NoKey]
        /\ status' = [status EXCEPT ![nextRun] = "pending"]
        /\ UNCHANGED <<rpc, rrun>>
    BY <1>4 DEF StartInline, Start
  <2>3. key'[nextRun] = NoKey
        /\ \A r \in Runs : r # nextRun => status'[r] = status[r] /\ key'[r] = key[r]
    BY <2>1, <2>2 DEF Bookkeeping, TypeOK
  <2> QED BY <2>1, <2>2, <2>3 DEF Bookkeeping, TypeOK, Keys
<1>5. ASSUME NEW w \in Workers, Execute(w) PROVE Keys'
  BY <1>0, <1>5, ExecuteStartsNoRow
<1>6. ASSUME NEW r \in Runs, GoStale(r) PROVE Keys'
  BY <1>0, <1>6 DEF GoStale, StartsNoRow
<1>7. CASE Recovery
  BY <1>0, <1>7 DEF Recovery, RecoverStale, Stale, Redispatch, CrashRecovery, StartsNoRow
<1>8. ASSUME NEW o \in Operators, Requeue(o) PROVE Keys'
  <2>1. CASE SaveRequeue(o)
    <3>1. target[o] \in Runs /\ status[target[o]] # "absent"
      BY <2>1 DEF SaveRequeue, Bookkeeping, TypeOK, NoGhostRows
    <3> QED BY <1>0, <2>1, <3>1 DEF SaveRequeue, Bookkeeping, TypeOK, StartsNoRow
  <2>2. CASE ~SaveRequeue(o)
    BY <1>0, <1>8, <2>2
    DEF Requeue, ReadDeadLetter, DispatchRequeue, AbortRequeue, StartsNoRow
  <2> QED BY <2>1, <2>2
<1>9. CASE UNCHANGED vars  BY <1>0, <1>9 DEF StartsNoRow
<1> QED
  BY <1>2, <1>3, <1>4, <1>5, <1>6, <1>7, <1>8, <1>9, RequestKeys DEF Next

(* Any number of requests racing under one idempotency key get one run.    *)
THEOREM KeyMeansOneRun == Spec => []OneRunPerKey
<1>1. Init => Bookkeeping /\ Keys  BY InitBookkeeping DEF Init, Keys
<1>2. (Bookkeeping /\ Keys) /\ [Next]_vars => (Bookkeeping /\ Keys)'
  BY StepBookkeeping, StepKeys
<1>3. Bookkeeping /\ Keys => OneRunPerKey
  BY DEF Bookkeeping, TypeOK, Keys, OneRunPerKey
<1> QED BY <1>1, <1>2, <1>3, PTL DEF Spec

(***************************************************************************)
(* Outputs in a timely deployment.  Each save writes the worker's whole    *)
(* in-memory copy, so nothing is lost because that copy is the row's; a    *)
(* step that is done and missing from it has no agent.                     *)
(***************************************************************************)

Memory ==
  /\ \A r \in Runs : outputs[r] \subseteq AgentSteps
  /\ \A w \in Workers :
       /\ wpc[w] # "executing" => done[w] = {}
       /\ wpc[w] # "idle" => mem[w] = outputs[wrun[w]] /\ done[w] \cap AgentSteps \subseteq mem[w]
  /\ CompletedHasAllOutputs

OutputsKept == \A r \in Runs : outputs[r] \subseteq outputs'[r]

(* Steps that touch no output and no worker, and complete no run.          *)
LEMMA OtherMemory ==
  ASSUME Memory, UNCHANGED <<outputs, workers>>,
         \A r \in Runs : status'[r] = "completed" => status[r] = "completed"
  PROVE  Memory' /\ OutputsKept
BY DEF Memory, CompletedHasAllOutputs, OutputsKept

LEMMA ClaimMemory ==
  ASSUME Bookkeeping, Memory, NEW w \in Workers, NEW r \in Runs, Claim(w, r)
  PROVE  Memory' /\ OutputsKept
<1>1. /\ status' = [status EXCEPT ![r] = "running"]
      /\ wpc' = [wpc EXCEPT ![w] = "claimed"]
      /\ wrun' = [wrun EXCEPT ![w] = r]
      /\ mem' = [mem EXCEPT ![w] = outputs[r]]
      /\ UNCHANGED <<outputs, done>> /\ wpc[w] = "idle"
  BY DEF Claim
<1>2. done[w] = {}  BY <1>1 DEF Memory
<1>3. ASSUME NEW v \in Workers
      PROVE  /\ wpc'[v] # "executing" => done'[v] = {}
             /\ wpc'[v] # "idle" => mem'[v] = outputs'[wrun'[v]] /\ done'[v] \cap AgentSteps \subseteq mem'[v]
  <2>1. CASE v = w  BY <1>1, <1>2, <2>1 DEF Bookkeeping, TypeOK
  <2>2. CASE v # w
    <3>1. wpc'[v] = wpc[v] /\ wrun'[v] = wrun[v] /\ mem'[v] = mem[v] /\ done'[v] = done[v]
      BY <1>1, <2>2 DEF Bookkeeping, TypeOK
    <3> QED BY <1>1, <3>1 DEF Memory
  <2> QED BY <2>1, <2>2
<1>4. CompletedHasAllOutputs'
  BY <1>1 DEF Memory, CompletedHasAllOutputs, Bookkeeping, TypeOK
<1> QED BY <1>1, <1>3, <1>4 DEF Memory, OutputsKept

(* A save by w of the copy m, which contains all the row had.              *)
LEMMA SaveMemory ==
  ASSUME Bookkeeping, Exclusive, Memory, NEW w \in Workers, wpc[w] = "executing",
         NEW m \in SUBSET AgentSteps, mem[w] \subseteq m,
         outputs' = [outputs EXCEPT ![wrun[w]] = m],
         \A v \in Workers : v # w =>
           wpc'[v] = wpc[v] /\ wrun'[v] = wrun[v] /\ mem'[v] = mem[v] /\ done'[v] = done[v],
         \/ wpc'[w] = "idle" /\ done'[w] = {}
         \/ wpc'[w] = "executing" /\ wrun'[w] = wrun[w] /\ mem'[w] = m
            /\ done'[w] \cap AgentSteps \subseteq m,
         \A r \in Runs : status'[r] = "completed" =>
           status[r] = "completed" \/ (r = wrun[w] /\ m = AgentSteps)
  PROVE  Memory' /\ OutputsKept
<1>1. wrun[w] \in Runs /\ status[wrun[w]] = "running" /\ mem[w] = outputs[wrun[w]]
  BY DEF Bookkeeping, TypeOK, Exclusive, OneExecutor, Live, Memory
<1>2. outputs'[wrun[w]] = m /\ \A r \in Runs : r # wrun[w] => outputs'[r] = outputs[r]
  BY <1>1 DEF Bookkeeping, TypeOK
<1>3. \A v \in Workers : v # w /\ wpc[v] # "idle" => wrun[v] \in Runs /\ wrun[v] # wrun[w]
  BY <1>1 DEF Bookkeeping, TypeOK, Exclusive, OneExecutor, Live
<1>4. ASSUME NEW v \in Workers
      PROVE  /\ wpc'[v] # "executing" => done'[v] = {}
             /\ wpc'[v] # "idle" => mem'[v] = outputs'[wrun'[v]] /\ done'[v] \cap AgentSteps \subseteq mem'[v]
  <2>1. CASE v = w  BY <1>2, <2>1
  <2>2. CASE v # w  BY <1>2, <1>3, <2>2 DEF Memory
  <2> QED BY <2>1, <2>2
<1>5. CompletedHasAllOutputs'
  BY <1>1, <1>2 DEF Memory, CompletedHasAllOutputs
<1>6. OutputsKept  BY <1>1, <1>2 DEF OutputsKept
<1> QED BY <1>4, <1>5, <1>6 DEF Memory

LEMMA SettleMemory ==
  ASSUME Bookkeeping, Exclusive, Memory, NEW w \in Workers, wpc[w] = "executing",
         NEW verdict \in {"completed", "failed"}, Settle(w, verdict),
         verdict = "completed" => mem[w] = AgentSteps
  PROVE  Memory' /\ OutputsKept
<1> DEFINE m == mem[w]
<1>1. /\ m \in SUBSET AgentSteps /\ mem[w] \subseteq m
      /\ outputs' = [outputs EXCEPT ![wrun[w]] = m]
  BY DEF Settle, Bookkeeping, TypeOK, Memory
<1>2. wpc'[w] = "idle" /\ done'[w] = {}
  BY DEF Settle, Release, Bookkeeping, TypeOK
<1>3. \A v \in Workers : v # w =>
        wpc'[v] = wpc[v] /\ wrun'[v] = wrun[v] /\ mem'[v] = mem[v] /\ done'[v] = done[v]
  BY DEF Settle, Release, Bookkeeping, TypeOK
<1>4. \A r \in Runs : status'[r] = "completed" =>
        status[r] = "completed" \/ (r = wrun[w] /\ m = AgentSteps)
  BY DEF Settle, Bookkeeping, TypeOK
<1> HIDE DEF m
<1> QED BY <1>1, <1>2, <1>3, <1>4, SaveMemory

LEMMA ExecuteMemory ==
  ASSUME Bookkeeping, Exclusive, Memory, NEW w \in Workers, Execute(w)
  PROVE  Memory' /\ OutputsKept
<1> USE DEF Bookkeeping, TypeOK
<1>1. CASE BeginExecute(w)
  <2>1. /\ wpc[w] = "claimed" /\ wpc' = [wpc EXCEPT ![w] = "executing"]
        /\ status' = [status EXCEPT ![wrun[w]] = "running"]
        /\ UNCHANGED <<outputs, wrun, mem, done>>
    BY <1>1 DEF BeginExecute
  <2>2. \A r \in Runs : status'[r] = "completed" => status[r] = "completed"  BY <2>1
  <2>3. \A v \in Workers : /\ wpc'[v] # "executing" => wpc[v] # "executing"
                           /\ wpc'[v] # "idle" => wpc[v] # "idle"
    BY <2>1
  <2> QED BY <2>1, <2>2, <2>3 DEF Memory, CompletedHasAllOutputs, OutputsKept
<1>2. CASE Wave(w)
  <2>1. PICK S \in SUBSET Left(w) :
          /\ done' = [done EXCEPT ![w] = @ \cup S]
          /\ IF S \cap AgentSteps # {} THEN MergeWave(w, S \cap AgentSteps)
             ELSE UNCHANGED <<mem, outputs, fresh>>
    BY <1>2 DEF Wave
  <2>2. wpc[w] = "executing" /\ UNCHANGED <<status, wpc, wrun>>  BY <1>2 DEF Wave
  <2> DEFINE P == S \cap AgentSteps
  <2>3. /\ S \subseteq Steps /\ P \subseteq AgentSteps
        /\ done[w] \cap AgentSteps \subseteq mem[w] /\ mem[w] \subseteq AgentSteps
    BY <2>2 DEF Left, Memory
  <2>4. CASE P # {}
    <3>1. /\ mem' = [mem EXCEPT ![w] = mem[w] \cup P]
          /\ outputs' = [outputs EXCEPT ![wrun[w]] = mem[w] \cup P]
      BY <2>1, <2>4 DEF MergeWave
    <3> DEFINE m == mem[w] \cup P
    <3>2. m \in SUBSET AgentSteps /\ mem[w] \subseteq m  BY <2>3
    <3>3. mem'[w] = m /\ done'[w] \cap AgentSteps \subseteq m  BY <2>1, <2>3, <3>1
    <3>4. \A v \in Workers : v # w =>
            wpc'[v] = wpc[v] /\ wrun'[v] = wrun[v] /\ mem'[v] = mem[v] /\ done'[v] = done[v]
      BY <2>1, <2>2, <3>1
    <3>5. outputs' = [outputs EXCEPT ![wrun[w]] = m]  BY <3>1
    <3> HIDE DEF m
    <3> QED BY <2>2, <3>2, <3>3, <3>4, <3>5, SaveMemory
  <2>5. CASE P = {}
    <3>1. mem' = mem /\ outputs' = outputs  BY <2>1, <2>5
    <3>2. /\ done'[w] \cap AgentSteps = done[w] \cap AgentSteps
          /\ \A v \in Workers : v # w => done'[v] = done[v]
      BY <2>1, <2>5
    <3> QED BY <2>2, <3>1, <3>2 DEF Memory, CompletedHasAllOutputs, OutputsKept
  <2> QED BY <2>4, <2>5
<1>3. ASSUME NEW verdict \in {"completed", "failed"}, wpc[w] = "executing", Settle(w, verdict),
             verdict = "completed" => mem[w] = AgentSteps
      PROVE  Memory' /\ OutputsKept
  BY <1>3, SettleMemory
<1>4. CASE Succeed(w)
  <2>1. done[w] \cap AgentSteps \subseteq mem[w] /\ mem[w] \subseteq AgentSteps
    BY <1>4 DEF Succeed, Memory
  <2>2. mem[w] = AgentSteps  BY <1>4, <2>1 DEF Succeed, Left, AgentSteps
  <2> QED BY <1>3, <1>4, <2>2 DEF Succeed
<1>5. CASE Fail(w)  BY <1>3, <1>5 DEF Fail
<1>6. CASE CrashWorker(w)
  <2>1. /\ wpc'[w] = "idle" /\ done'[w] = {} /\ UNCHANGED <<outputs, status>>
        /\ \A v \in Workers : v # w =>
             wpc'[v] = wpc[v] /\ wrun'[v] = wrun[v] /\ mem'[v] = mem[v] /\ done'[v] = done[v]
    BY <1>6 DEF CrashWorker, Release
  <2>2. ASSUME NEW v \in Workers
        PROVE  /\ wpc'[v] # "executing" => done'[v] = {}
               /\ wpc'[v] # "idle" => mem'[v] = outputs'[wrun'[v]] /\ done'[v] \cap AgentSteps \subseteq mem'[v]
    BY <2>1 DEF Memory
  <2> QED BY <2>1, <2>2 DEF Memory, CompletedHasAllOutputs, OutputsKept
<1> QED BY <1>1, <1>2, <1>4, <1>5, <1>6 DEF Execute

LEMMA StepMemory ==
  ASSUME Timely, Bookkeeping, Exclusive, Memory, [Next]_vars
  PROVE  Memory' /\ OutputsKept
<1>1. ASSUME NEW q \in Requests, Request(q) PROVE Memory' /\ OutputsKept
  <2>1. CASE CreateRun(q)
    BY <2>1, OtherMemory DEF CreateRun, Start, Bookkeeping, TypeOK
  <2>2. CASE ~CreateRun(q)
    BY <1>1, <2>2, OtherMemory
    DEF Request, FindExisting, FindNone, LoseInsertRace, DispatchNew, AbortRequest
  <2> QED BY <2>1, <2>2
<1>2. ASSUME NEW w \in TaskWorkers, ClaimFromMessage(w) PROVE Memory' /\ OutputsKept
  <2>1. PICK r \in msgs : Claim(w, r)  BY <1>2 DEF ClaimFromMessage
  <2>2. w \in Workers /\ r \in Runs  BY <2>1 DEF Workers, Bookkeeping, TypeOK
  <2> QED BY <2>1, <2>2, ClaimMemory
<1>3. ASSUME NEW w \in TaskWorkers, SkipMessage(w) PROVE Memory' /\ OutputsKept
  BY <1>3, OtherMemory DEF SkipMessage
<1>4. ASSUME NEW w \in DbWorkers, ClaimNext(w) PROVE Memory' /\ OutputsKept
  BY <1>4, ClaimMemory DEF ClaimNext, Workers
<1>5. ASSUME NEW w \in InlineRunners, StartInline(w) PROVE Memory' /\ OutputsKept
  BY <1>5 DEF Timely
<1>6. ASSUME NEW r \in Runs, GoStale(r) PROVE Memory' /\ OutputsKept
  BY <1>6, OtherMemory DEF GoStale
<1>7. CASE Recovery
  BY <1>7, OtherMemory DEF Recovery, RecoverStale, Redispatch, CrashRecovery
<1>8. ASSUME NEW o \in Operators, Requeue(o) PROVE Memory' /\ OutputsKept
  <2>1. CASE SaveRequeue(o)
    BY <2>1, OtherMemory DEF SaveRequeue, Bookkeeping, TypeOK
  <2>2. CASE ~SaveRequeue(o)
    BY <1>8, <2>2, OtherMemory DEF Requeue, ReadDeadLetter, DispatchRequeue, AbortRequeue
  <2> QED BY <2>1, <2>2
<1>9. CASE UNCHANGED vars  BY <1>9, OtherMemory
<1> QED
  BY <1>1, <1>2, <1>3, <1>4, <1>5, <1>6, <1>7, <1>8, <1>9, ExecuteMemory DEF Next

LEMMA MemoryAlways ==
  ASSUME Timely PROVE Spec => [](Bookkeeping /\ Exclusive /\ Memory)
<1>1. Init => Memory  BY DEF Init, Memory, CompletedHasAllOutputs
<1>2. (Bookkeeping /\ Exclusive) /\ Memory /\ [Next]_vars => Memory'
  BY StepMemory
<1> QED BY <1>1, <1>2, ExclusiveAlways, PTL DEF Spec

(* In a timely deployment a completed run has the output of every step     *)
(* with an agent and of no other, however many attempts it took and        *)
(* whichever of its waves had nothing to save.                             *)
THEOREM CompletedRunsAreWhole == Timely => (Spec => []CompletedHasAllOutputs)
<1> SUFFICES ASSUME Timely PROVE Spec => []CompletedHasAllOutputs
  OBVIOUS
<1>1. Memory => CompletedHasAllOutputs  BY DEF Memory
<1> QED BY <1>1, MemoryAlways, PTL

(* In a timely deployment no crash, second attempt or requeue loses an     *)
(* output that was saved.                                                  *)
THEOREM OutputsAreKept == Timely => (Spec => OutputsSurvive)
<1> SUFFICES ASSUME Timely PROVE Spec => OutputsSurvive
  OBVIOUS
<1>1. (Bookkeeping /\ Exclusive /\ Memory) /\ [Next]_vars => [OutputsKept]_vars
  BY StepMemory
<1>2. Spec => [][OutputsKept]_vars
  BY <1>1, MemoryAlways, PTL DEF Spec
<1> QED BY <1>2 DEF OutputsSurvive, OutputsKept

(***************************************************************************)
(* Refinement of RunLifecycle in a timely deployment.  The owner of a run  *)
(* is its live worker; OneExecutor makes the choice in Owner unique, so    *)
(* the owner follows from who is live.                                     *)
(***************************************************************************)

OwnerFact ==
  \A r \in Runs :
    /\ \A w \in Workers : Live(w, r) => Owner(r) = w
    /\ (\A w \in Workers : ~Live(w, r)) => Owner(r) = NoWorker

LEMMA OwnerIs == OneExecutor => OwnerFact
<1> SUFFICES ASSUME OneExecutor, NEW r \in Runs
             PROVE  /\ \A w \in Workers : Live(w, r) => Owner(r) = w
                    /\ (\A w \in Workers : ~Live(w, r)) => Owner(r) = NoWorker
  BY DEF OwnerFact
<1>1. ASSUME NEW w \in Workers, Live(w, r) PROVE Owner(r) = w
  <2>1. Owner(r) = CHOOSE v \in Workers : Live(v, r)  BY <1>1 DEF Owner
  <2>2. Owner(r) \in Workers /\ Live(Owner(r), r)  BY <1>1, <2>1
  <2> QED BY <1>1, <2>2 DEF OneExecutor
<1>2. ASSUME \A w \in Workers : ~Live(w, r) PROVE Owner(r) = NoWorker
  BY <1>2 DEF Owner
<1> QED BY <1>1, <1>2

LEMMA InitRefines == Init => Lifecycle!Init
<1> SUFFICES ASSUME Init PROVE Lifecycle!Init
  OBVIOUS
<1>1. \A r \in Runs : Owner(r) = NoWorker  BY DEF Init, Owner, Live
<1> QED BY <1>1 DEF Init, Lifecycle!Init

(* Nobody becomes live or dies, so no run changes its owner.               *)
LEMMA SameOwners ==
  ASSUME OwnerFact, OwnerFact', \A w \in Workers, r \in Runs : Live(w, r)' <=> Live(w, r)
  PROVE  \A r \in Runs : Owner(r)' = Owner(r)
BY DEF OwnerFact

LEMMA RefineQuiet ==
  ASSUME OwnerFact, OwnerFact', UNCHANGED <<status, attempts>>,
         \A w \in Workers, r \in Runs : Live(w, r)' <=> Live(w, r)
  PROVE  UNCHANGED Lifecycle!vars
BY SameOwners DEF Lifecycle!vars

LEMMA RefineRequest ==
  ASSUME Bookkeeping, OwnerFact, OwnerFact', NEW q \in Requests, Request(q)
  PROVE  (\E r \in Runs : Lifecycle!Submit(r)) \/ UNCHANGED Lifecycle!vars
<1>1. UNCHANGED <<wpc, wrun, attempts>>
  BY DEF Request, FindExisting, FindNone, CreateRun, Start, LoseInsertRace, DispatchNew,
         AbortRequest
<1>2. \A w \in Workers, r \in Runs : Live(w, r)' <=> Live(w, r)  BY <1>1 DEF Live
<1>3. CASE CreateRun(q)
  <2>1. nextRun \in Runs /\ status[nextRun] = "absent"
        /\ status' = [status EXCEPT ![nextRun] = "pending"]
    BY <1>3, QueueAssumption DEF CreateRun, Start, Bookkeeping, TypeOK, NoGhostRows, Runs
  <2>2. \A r \in Runs : Owner(r)' = Owner(r)  BY <1>2, SameOwners
  <2>3. Lifecycle!Submit(nextRun)  BY <1>1, <2>1, <2>2 DEF Lifecycle!Submit
  <2> QED BY <2>1, <2>3
<1>4. CASE ~CreateRun(q)
  <2>1. UNCHANGED status
    BY <1>4 DEF Request, FindExisting, FindNone, LoseInsertRace, DispatchNew, AbortRequest
  <2> QED BY <1>1, <1>2, <2>1, RefineQuiet
<1> QED BY <1>3, <1>4

LEMMA RefineClaim ==
  ASSUME Bookkeeping, Exclusive, OwnerFact, OwnerFact',
         NEW w \in Workers, NEW r \in Runs, Claim(w, r)
  PROVE  Lifecycle!Claim(r, w)
<1>1. /\ status[r] = "pending" /\ attempts[r] < MaxAttempts
      /\ status' = [status EXCEPT ![r] = "running"]
      /\ attempts' = [attempts EXCEPT ![r] = @ + 1]
  BY DEF Claim, Bookkeeping, PoisonBounded
<1>2. \A v \in Workers : ~Live(v, r)  BY <1>1 DEF Exclusive, OneExecutor
<1>3. Owner(r) = NoWorker  BY <1>2 DEF OwnerFact
<1>4. Live(w, r)'  BY DEF Claim, Bookkeeping, TypeOK, Live
<1>5. \A v \in Workers, s \in Runs : s # r => (Live(v, s)' <=> Live(v, s))
  BY DEF Claim, Bookkeeping, TypeOK, Live
<1>6. \A s \in Runs : Owner(s)' = IF s = r THEN w ELSE Owner(s)
  BY <1>4, <1>5 DEF OwnerFact
<1> QED BY <1>1, <1>3, <1>6 DEF Lifecycle!Claim

LEMMA RefineExecute ==
  ASSUME Bookkeeping, Exclusive, OwnerFact, OwnerFact', NEW w \in Workers, Execute(w)
  PROVE  \/ \E r \in Runs : Lifecycle!Settle(r, w) \/ Lifecycle!Orphan(r)
         \/ UNCHANGED Lifecycle!vars
<1> DEFINE r == wrun[w]
<1>1. wpc[w] # "idle" /\ r \in Runs /\ status[r] = "running" /\ Live(w, r) /\ w # NoWorker
  BY QueueAssumption
  DEF Execute, BeginExecute, Wave, Succeed, Fail, CrashWorker, Bookkeeping, TypeOK,
      Exclusive, OneExecutor, Live
<1>2. Owner(r) = w /\ \A v \in Workers : Live(v, r) => v = w
  BY <1>1 DEF OwnerFact, Exclusive, OneExecutor
<1>3. \A s \in Runs : s # r => ~Live(w, s)  BY <1>1 DEF Live
<1>4. CASE BeginExecute(w) \/ Wave(w)
  <2>1. UNCHANGED <<status, attempts>>
    BY <1>1, <1>4 DEF BeginExecute, Wave, Bookkeeping, TypeOK
  <2>2. \A v \in Workers, s \in Runs : Live(v, s)' <=> Live(v, s)
    BY <1>1, <1>4 DEF BeginExecute, Wave, Bookkeeping, TypeOK, Live
  <2> QED BY <2>1, <2>2, RefineQuiet
<1>5. ASSUME Release(w) PROVE \A s \in Runs : Owner(s)' = IF s = r THEN NoWorker ELSE Owner(s)
  <2>1. \A v \in Workers, s \in Runs : Live(v, s)' <=> Live(v, s) /\ v # w
    BY <1>5 DEF Release, Bookkeeping, TypeOK, Live
  <2> HIDE DEF r
  <2> QED BY <1>1, <1>2, <1>3, <2>1 DEF OwnerFact
<1>6. ASSUME NEW verdict \in {"completed", "failed"}, Settle(w, verdict)
      PROVE  Lifecycle!Settle(r, w)
  <2>1. status' = [status EXCEPT ![r] = verdict] /\ UNCHANGED attempts /\ Release(w)
    BY <1>6 DEF Settle
  <2>2. \A s \in Runs : Owner(s)' = IF s = r THEN NoWorker ELSE Owner(s)  BY <1>5, <2>1
  <2> HIDE DEF r
  <2> QED BY <1>1, <1>2, <2>1, <2>2 DEF Lifecycle!Settle
<1>7. CASE CrashWorker(w)
  <2>1. UNCHANGED <<status, attempts>> /\ Release(w)  BY <1>7 DEF CrashWorker
  <2>2. \A s \in Runs : Owner(s)' = IF s = r THEN NoWorker ELSE Owner(s)  BY <1>5, <2>1
  <2>3. Lifecycle!Orphan(r)
    <3> HIDE DEF r
    <3> QED BY <1>1, <1>2, <2>1, <2>2 DEF Lifecycle!Orphan
  <2> QED BY <1>1, <2>3
<1> QED BY <1>1, <1>4, <1>6, <1>7 DEF Execute, Succeed, Fail

LEMMA RefineRecovery ==
  ASSUME Bookkeeping, Exclusive, OwnerFact, OwnerFact', Recovery
  PROVE  (\E S \in SUBSET Runs : Lifecycle!Recover(S)) \/ UNCHANGED Lifecycle!vars
<1>1. UNCHANGED <<wpc, wrun, attempts>>
  BY DEF Recovery, RecoverStale, Redispatch, CrashRecovery
<1>2. \A w \in Workers, r \in Runs : Live(w, r)' <=> Live(w, r)  BY <1>1 DEF Live
<1>3. CASE RecoverStale
  <2> DEFINE S == {r \in Runs : Stale(r)}
  <2>1. \A r \in S : status[r] = "running" /\ \A w \in Workers : ~Live(w, r)
    BY DEF Stale, Exclusive, Live
  <2>2. \A r \in S : Owner(r) = NoWorker  BY <2>1 DEF OwnerFact
  <2>3. \A r \in Runs : Owner(r)' = Owner(r)  BY <1>2, SameOwners
  <2>4. ASSUME NEW r \in Runs
        PROVE  status'[r] = IF r \notin S THEN status[r]
                            ELSE IF attempts[r] < MaxAttempts THEN "pending" ELSE "dead_letter"
    <3>1. status'[r] = IF ~Stale(r) THEN status[r]
                       ELSE IF Exhausted(r) THEN "dead_letter" ELSE "pending"
      BY <1>3 DEF RecoverStale
    <3>2. Exhausted(r) <=> ~(attempts[r] < MaxAttempts)
      BY QueueAssumption DEF Exhausted, Bookkeeping, TypeOK
    <3> QED BY <3>1, <3>2
  <2>5. status' = [r \in Runs |->
                     IF r \notin S THEN status[r]
                     ELSE IF attempts[r] < MaxAttempts THEN "pending" ELSE "dead_letter"]
    <3>1. status' = [r \in Runs |-> status'[r]]  BY <1>3 DEF RecoverStale
    <3> HIDE DEF S
    <3> QED BY <2>4, <3>1
  <2>6. Lifecycle!Recover(S)
    <3>1. \A r \in S : r \in Runs  OBVIOUS
    <3> HIDE DEF S
    <3> QED BY <1>1, <2>1, <2>2, <2>3, <2>5, <3>1 DEF Lifecycle!Recover
  <2> QED BY <2>6
<1>4. CASE Redispatch \/ CrashRecovery
  <2>1. UNCHANGED status  BY <1>4 DEF Redispatch, CrashRecovery
  <2> QED BY <1>1, <1>2, <2>1, RefineQuiet
<1> QED BY <1>3, <1>4 DEF Recovery

LEMMA RefineRequeue ==
  ASSUME Bookkeeping, Exclusive, OwnerFact, OwnerFact', NEW o \in Operators, Requeue(o)
  PROVE  (\E r \in Runs : Lifecycle!Requeue(r)) \/ UNCHANGED Lifecycle!vars
<1>1. UNCHANGED <<wpc, wrun>>
  BY DEF Requeue, ReadDeadLetter, SaveRequeue, DispatchRequeue, AbortRequeue
<1>2. \A w \in Workers, r \in Runs : Live(w, r)' <=> Live(w, r)  BY <1>1 DEF Live
<1>3. CASE SaveRequeue(o)
  <2>1. /\ target[o] \in Runs /\ status[target[o]] = "dead_letter"
        /\ status' = [status EXCEPT ![target[o]] = "pending"]
        /\ attempts' = [attempts EXCEPT ![target[o]] = 0]
    BY <1>3 DEF SaveRequeue, Bookkeeping, TypeOK, Exclusive
  <2>2. \A r \in Runs : Owner(r)' = Owner(r)  BY <1>2, SameOwners
  <2>3. Lifecycle!Requeue(target[o])  BY <2>1, <2>2 DEF Lifecycle!Requeue
  <2> QED BY <2>1, <2>3
<1>4. CASE ~SaveRequeue(o)
  <2>1. UNCHANGED <<status, attempts>>
    BY <1>4 DEF Requeue, ReadDeadLetter, DispatchRequeue, AbortRequeue
  <2> QED BY <1>2, <2>1, RefineQuiet
<1> QED BY <1>3, <1>4

LEMMA StepRefines ==
  ASSUME Timely, Bookkeeping, Exclusive, OwnerFact, OwnerFact', [Next]_vars
  PROVE  [Lifecycle!Next]_(Lifecycle!vars)
<1>1. ASSUME NEW q \in Requests, Request(q) PROVE [Lifecycle!Next]_(Lifecycle!vars)
  BY <1>1, RefineRequest DEF Lifecycle!Next
<1>2. ASSUME NEW w \in Workers, NEW r \in Runs, Claim(w, r)
      PROVE  [Lifecycle!Next]_(Lifecycle!vars)
  BY <1>2, RefineClaim DEF Lifecycle!Next
<1>3. ASSUME NEW w \in TaskWorkers, ClaimFromMessage(w) PROVE [Lifecycle!Next]_(Lifecycle!vars)
  <2>1. PICK r \in msgs : Claim(w, r)  BY <1>3 DEF ClaimFromMessage
  <2>2. w \in Workers /\ r \in Runs  BY <2>1 DEF Workers, Bookkeeping, TypeOK
  <2> QED BY <1>2, <2>1, <2>2
<1>4. ASSUME NEW w \in TaskWorkers, SkipMessage(w) PROVE [Lifecycle!Next]_(Lifecycle!vars)
  BY <1>4, RefineQuiet DEF SkipMessage, Live
<1>5. ASSUME NEW w \in DbWorkers, ClaimNext(w) PROVE [Lifecycle!Next]_(Lifecycle!vars)
  BY <1>2, <1>5 DEF ClaimNext, Workers
<1>6. ASSUME NEW w \in InlineRunners, StartInline(w) PROVE [Lifecycle!Next]_(Lifecycle!vars)
  BY <1>6 DEF Timely
<1>7. ASSUME NEW w \in Workers, Execute(w) PROVE [Lifecycle!Next]_(Lifecycle!vars)
  BY <1>7, RefineExecute DEF Lifecycle!Next
<1>8. ASSUME NEW r \in Runs, GoStale(r) PROVE [Lifecycle!Next]_(Lifecycle!vars)
  BY <1>8, RefineQuiet DEF GoStale, Live
<1>9. CASE Recovery  BY <1>9, RefineRecovery DEF Lifecycle!Next
<1>10. ASSUME NEW o \in Operators, Requeue(o) PROVE [Lifecycle!Next]_(Lifecycle!vars)
  BY <1>10, RefineRequeue DEF Lifecycle!Next
<1>11. CASE UNCHANGED vars  BY <1>11, RefineQuiet DEF Live
<1> QED
  BY <1>1, <1>3, <1>4, <1>5, <1>6, <1>7, <1>8, <1>9, <1>10, <1>11 DEF Next

(* In a timely deployment the queue implements the lifecycle RunLifecycle  *)
(* promises: exclusive ownership, bounded retries, no way out of a settled *)
(* state but an operator's requeue of a dead letter.                       *)
THEOREM ImplementsRunLifecycle == Timely => (Spec => ImplementsLifecycle)
<1> SUFFICES ASSUME Timely PROVE Spec => ImplementsLifecycle
  OBVIOUS
<1>1. Exclusive => OwnerFact  BY OwnerIs DEF Exclusive
<1>2. (Bookkeeping /\ Exclusive) /\ OwnerFact /\ OwnerFact' /\ [Next]_vars
        => [Lifecycle!Next]_(Lifecycle!vars)
  BY StepRefines
<1> QED
  BY <1>1, <1>2, ExclusiveAlways, InitRefines, PTL
  DEF Spec, ImplementsLifecycle, Lifecycle!Spec
=============================================================================
