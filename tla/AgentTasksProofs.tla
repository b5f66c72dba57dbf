-------------------------- MODULE AgentTasksProofs --------------------------
(* Theorems about AgentTasks, for every number of tasks, workers and       *)
(* submit calls, with and without a broker.                                *)
EXTENDS AgentTasks, TLAPS

(* The tuples of variables, opened in every step below.                    *)
USE DEF vars, row, net, executors, requests

-----------------------------------------------------------------------------
(* The inductive invariant that holds in every deployment                  *)

(* Ids are handed out in order; a row that was not created yet is blank,   *)
(* and everybody who holds an id holds that of a row.                      *)
Rows ==
  /\ \A t \in Tasks : t >= nextTask <=> state[t] = "absent"
  /\ \A t \in Tasks : state[t] = "absent" => attempts[t] = 0 /\ ~ended[t]
  /\ \A e \in Executors : epc[e] = "running" => state[etask[e]] # "absent"

(* A request runs an agent only while its caller waits for the answer.     *)
InlineWaits == \A q \in Requests : epc[q] = "running" => rpc[q] = "waiting"

(* A request that holds a task holds one of its own key, and no two rows   *)
(* share a key.                                                            *)
Keys ==
  /\ \A q \in Requests :
       rpc[q] \in {"dispatching", "waiting", "done"} =>
         state[rtask[q]] # "absent" /\ key[rtask[q]] = KeyOf[q]
  /\ \A s, t \in Tasks :
       (state[s] # "absent" /\ state[t] # "absent" /\ key[s] = key[t] /\ key[s] # NoKey)
         => s = t

Inv == TypeOK /\ Rows /\ AttemptsBounded /\ InlineWaits /\ Keys

LEMMA InitInv == Init => Inv
<1> SUFFICES ASSUME Init PROVE Inv
  OBVIOUS
<1> USE TaskAssumption DEF Init, Tasks
<1>1. TypeOK  BY DEF TypeOK, Terminal
<1>2. \A t \in Tasks : t >= nextTask /\ state[t] = "absent" /\ attempts[t] = 0 /\ ~ended[t]
  OBVIOUS
<1>3. Rows  BY <1>2 DEF Rows
<1>4. InlineWaits /\ Keys  BY <1>2 DEF InlineWaits, Keys, Executors
<1>5. AttemptsBounded  BY <1>2 DEF AttemptsBounded, Terminal
<1> QED BY <1>1, <1>3, <1>4, <1>5 DEF Inv

-----------------------------------------------------------------------------
(* Submit calls                                                            *)

LEMMA AnswerInv ==
  ASSUME Inv, NEW q \in Requests, rpc[q] \in {"new", "creating"}, NEW t \in Tasks,
         HasKey(t, q), Answer(q, t)
  PROVE  Inv'
<1>1. TypeOK'  BY DEF Answer, Inv, TypeOK
<1>2. Rows' /\ AttemptsBounded'  BY DEF Answer, Inv, Rows, AttemptsBounded
<1>3. InlineWaits'  BY DEF Answer, Inv, TypeOK, InlineWaits
<1>4. Keys'  BY DEF Answer, HasKey, Inv, TypeOK, Keys
<1> QED BY <1>1, <1>2, <1>3, <1>4 DEF Inv

LEMMA CreateInv ==
  ASSUME Inv, NEW q \in Requests, Create(q)
  PROVE  Inv'
<1> USE TaskAssumption DEF Inv
<1>1. /\ rpc[q] = "creating" /\ nextTask \in Tasks
      /\ state[nextTask] = "absent" /\ attempts[nextTask] = 0 /\ ~ended[nextTask]
  BY DEF Create, Insert, TypeOK, Rows, Tasks
<1>2. \A t \in Tasks : ~HasKey(t, q)  BY DEF Create
<1>3. /\ nextTask' = nextTask + 1
      /\ key' = [key EXCEPT ![nextTask] = KeyOf[q]]
      /\ state' = [state EXCEPT ![nextTask] = "submitted"]
      /\ rtask' = [rtask EXCEPT ![q] = nextTask]
      /\ rpc' = [rpc EXCEPT ![q] = "dispatching"]
      /\ UNCHANGED <<backend, attempts, ended, fresh, net, executors>>
  BY DEF Create, Insert
<1>4. TypeOK'  BY <1>1, <1>3, SMTT(20) DEF TypeOK, Tasks
<1>5. Rows'  BY <1>1, <1>3 DEF TypeOK, Rows, Tasks
<1>6. AttemptsBounded'  BY <1>1, <1>3 DEF TypeOK, AttemptsBounded, Terminal
<1>7. InlineWaits'  BY <1>1, <1>3 DEF TypeOK, InlineWaits
<1>8. Keys'
  <2>1. ASSUME NEW p \in Requests, rpc'[p] \in {"dispatching", "waiting", "done"}
        PROVE  state'[rtask'[p]] # "absent" /\ key'[rtask'[p]] = KeyOf[p]
    <3>1. CASE p = q  BY <1>1, <1>3, <3>1 DEF TypeOK
    <3>2. CASE p # q  BY <1>1, <1>3, <2>1, <3>2 DEF TypeOK, Keys
    <3> QED BY <3>1, <3>2
  <2>2. ASSUME NEW s \in Tasks, NEW t \in Tasks, state'[s] # "absent", state'[t] # "absent",
               key'[s] = key'[t], key'[s] # NoKey
        PROVE  s = t
    <3>1. \A u \in Tasks : u # nextTask => state'[u] = state[u] /\ key'[u] = key[u]
      BY <1>1, <1>3 DEF TypeOK
    <3>2. key'[nextTask] = KeyOf[q]  BY <1>1, <1>3 DEF TypeOK
    <3> QED BY <1>2, <2>2, <3>1, <3>2 DEF HasKey, Keys
  <2> QED BY <2>1, <2>2 DEF Keys
<1> QED BY <1>4, <1>5, <1>6, <1>7, <1>8

-----------------------------------------------------------------------------
(* Agent runs                                                              *)

(* A claim by e, which may move the request that made it on to "waiting".  *)
LEMMA ClaimInv ==
  ASSUME Inv, NEW e \in Executors, NEW t \in Tasks, Claim(e, t),
         msgs' \subseteq Tasks, requeued' = requeued, rtask' = rtask,
         \/ e \in Workers /\ rpc' = rpc
         \/ e \in Requests /\ rpc[e] = "dispatching" /\ rpc' = [rpc EXCEPT ![e] = "waiting"]
  PROVE  Inv'
<1> USE TaskAssumption DEF Inv
<1>1. /\ epc[e] = "idle" /\ state[t] = "submitted" /\ attempts[t] < MaxAttempts /\ ~ended[t]
      /\ state' = [state EXCEPT ![t] = "working"]
      /\ attempts' = [attempts EXCEPT ![t] = @ + 1]
      /\ fresh' = [fresh EXCEPT ![t] = TRUE]
      /\ epc' = [epc EXCEPT ![e] = "running"]
      /\ etask' = [etask EXCEPT ![e] = t]
      /\ UNCHANGED <<backend, nextTask, key, ended>>
  BY DEF Claim, ClaimIn, AttemptsBounded, Terminal
<1>2. TypeOK'  BY <1>1 DEF TypeOK
<1>3. Rows'  BY <1>1 DEF TypeOK, Rows
<1>4. AttemptsBounded'  BY <1>1 DEF TypeOK, AttemptsBounded, Terminal
<1>5. InlineWaits'  BY <1>1 DEF TypeOK, InlineWaits, Executors
<1>6. Keys'
  <2>1. /\ \A s \in Tasks : state'[s] = "absent" <=> state[s] = "absent"
        /\ \A q \in Requests : rpc'[q] \in {"dispatching", "waiting", "done"}
             => rpc[q] \in {"dispatching", "waiting", "done"}
    BY <1>1 DEF TypeOK
  <2> QED BY <1>1, <2>1 DEF TypeOK, Keys
<1> QED BY <1>2, <1>3, <1>4, <1>5, <1>6

LEMMA RecordInv ==
  ASSUME Inv, NEW e \in Executors, NEW outcome \in {"completed", "failed"}, Record(e, outcome)
  PROVE  Inv'
<1> USE TaskAssumption DEF Inv
<1> DEFINE t == etask[e]
<1>1. t \in Tasks /\ state[t] # "absent" /\ epc[e] = "running"
  BY DEF Record, TypeOK, Rows
<1>2. /\ state' = [state EXCEPT ![t] = outcome]
      /\ ended' = [ended EXCEPT ![t] = TRUE]
      /\ fresh' = [fresh EXCEPT ![t] = TRUE]
      /\ epc' = [epc EXCEPT ![e] = "idle"]
      /\ etask' = [etask EXCEPT ![e] = 0]
      /\ rpc' = [q \in Requests |-> IF q = e THEN "done" ELSE rpc[q]]
      /\ UNCHANGED <<backend, nextTask, key, attempts, net, rtask>>
  BY DEF Record, Release
<1> HIDE DEF t
<1>3. e \in Requests => rpc[e] = "waiting"  BY <1>1 DEF InlineWaits
<1>4. TypeOK'  BY <1>1, <1>2, <1>3 DEF TypeOK, Terminal
<1>5. Rows'  BY <1>1, <1>2 DEF TypeOK, Rows
<1>6. AttemptsBounded'  BY <1>1, <1>2 DEF TypeOK, AttemptsBounded, Terminal
<1>7. InlineWaits'  BY <1>1, <1>2 DEF TypeOK, InlineWaits, Executors
<1>8. Keys'
  <2>1. /\ \A s \in Tasks : state'[s] = "absent" <=> state[s] = "absent"
        /\ \A q \in Requests : rpc'[q] \in {"dispatching", "waiting", "done"}
             => rpc[q] \in {"dispatching", "waiting", "done"}
    BY <1>1, <1>2, <1>3 DEF TypeOK
  <2> QED BY <1>2, <2>1 DEF TypeOK, Keys
<1> QED BY <1>4, <1>5, <1>6, <1>7, <1>8

LEMMA ExecuteInv ==
  ASSUME Inv, NEW e \in Executors, Execute(e)
  PROVE  Inv'
<1>1. CASE MarkCompleted(e) \/ MarkFailed(e)
  BY <1>1, RecordInv DEF MarkCompleted, MarkFailed
<1>2. CASE Crash(e)
  <2> USE DEF Inv, Crash, Release
  <2>1. TypeOK'  BY <1>2 DEF TypeOK
  <2>2. Rows' /\ AttemptsBounded'  BY <1>2 DEF TypeOK, Rows, AttemptsBounded
  <2>3. InlineWaits'  BY <1>2 DEF TypeOK, InlineWaits, Executors
  <2>4. Keys'  BY <1>2 DEF TypeOK, Keys
  <2> QED BY <2>1, <2>2, <2>3, <2>4
<1> QED BY <1>1, <1>2 DEF Execute

LEMMA SubmitInv ==
  ASSUME Inv, NEW q \in Requests, Submit(q)
  PROVE  Inv'
<1>1. CASE FindExisting(q) \/ LoseInsertRace(q)
  BY <1>1, AnswerInv DEF FindExisting, LoseInsertRace
<1>2. CASE Create(q)  BY <1>2, CreateInv
<1>3. CASE FindNone(q) \/ AbortRequest(q)
  <2>1. TypeOK'  BY <1>3 DEF FindNone, AbortRequest, Inv, TypeOK
  <2>2. Rows' /\ AttemptsBounded'
    BY <1>3 DEF FindNone, AbortRequest, Inv, Rows, AttemptsBounded
  <2>3. InlineWaits' /\ Keys'
    BY <1>3 DEF FindNone, AbortRequest, Inv, TypeOK, InlineWaits, Keys
  <2> QED BY <2>1, <2>2, <2>3 DEF Inv
<1>4. CASE Dispatch(q)
  <2>1. TypeOK'  BY <1>4 DEF Dispatch, Inv, TypeOK
  <2>2. Rows' /\ AttemptsBounded'  BY <1>4 DEF Dispatch, Inv, Rows, AttemptsBounded
  <2>3. InlineWaits' /\ Keys'  BY <1>4 DEF Dispatch, Inv, TypeOK, InlineWaits, Keys
  <2> QED BY <2>1, <2>2, <2>3 DEF Inv
<1>5. CASE RunInline(q)
  <2>1. q \in Executors /\ rtask[q] \in Tasks /\ msgs \subseteq Tasks /\ UNCHANGED <<net, rtask>>
    BY <1>5 DEF RunInline, Executors, Inv, TypeOK
  <2> QED BY <1>5, <2>1, ClaimInv DEF RunInline
<1> QED BY <1>1, <1>2, <1>3, <1>4, <1>5 DEF Submit

LEMMA DeliverInv ==
  ASSUME Inv, NEW w \in Workers, Deliver(w)
  PROVE  Inv'
<1>1. CASE ClaimFromMessage(w)
  <2>1. PICK t \in msgs : Claim(w, t) /\ msgs' \in {msgs, msgs \ {t}}
    BY <1>1 DEF ClaimFromMessage
  <2>2. w \in Executors /\ t \in Tasks /\ msgs' \subseteq Tasks
    BY <2>1 DEF Executors, Inv, TypeOK
  <2> QED BY <1>1, <2>1, <2>2, ClaimInv DEF ClaimFromMessage
<1>2. CASE SkipDuplicate(w)
  BY <1>2 DEF SkipDuplicate, Inv, TypeOK, Rows, AttemptsBounded, InlineWaits, Keys
<1> QED BY <1>1, <1>2 DEF Deliver

-----------------------------------------------------------------------------
(* Recovery                                                                *)

(* A task goes back to the queue only while an attempt is left, and is     *)
(* parked, with completed_at, when none is.                                *)
LEMMA RecoveryInv ==
  ASSUME Inv, Recovery
  PROVE  Inv'
<1> USE TaskAssumption DEF Inv
<1>1. CASE RecoverStale
  <2> USE <1>1 DEF RecoverStale
  <2>1. TypeOK'  BY DEF TypeOK, Terminal, Stale
  <2>2. \A t \in Tasks : state'[t] = "absent" <=> state[t] = "absent"
    BY DEF TypeOK, Stale
  <2>3. Rows'
    <3>1. \A t \in Tasks : state[t] = "absent" => attempts'[t] = 0 /\ ~ended'[t]
      BY DEF Rows, Stale
    <3> QED BY <2>2, <3>1 DEF TypeOK, Rows
  <2>4. ASSUME NEW t \in Tasks
        PROVE  /\ attempts'[t] <= MaxAttempts
               /\ state'[t] = "submitted" => attempts'[t] < MaxAttempts
               /\ state'[t] = "dead_letter" => attempts'[t] = MaxAttempts
               /\ ended'[t] <=> state'[t] \in Terminal
    <3>1. attempts'[t] = attempts[t] /\ attempts[t] \in Nat /\ attempts[t] <= MaxAttempts
      BY DEF TypeOK, AttemptsBounded
    <3>2. CASE ~Stale(t)
      <4>1. state'[t] = state[t] /\ (ended'[t] <=> ended[t])  BY <3>2
      <4> QED BY <3>1, <4>1 DEF AttemptsBounded
    <3>3. CASE Stale(t) /\ Exhausted(t)
      <4>1. state'[t] = "dead_letter" /\ ended'[t]  BY <3>3
      <4>2. attempts[t] = MaxAttempts  BY <3>1, <3>3 DEF Exhausted
      <4> QED BY <3>1, <4>1, <4>2 DEF Terminal
    <3>4. CASE Stale(t) /\ ~Exhausted(t)
      <4>1. state'[t] = "submitted" /\ (ended'[t] <=> ended[t])  BY <3>4
      <4>2. attempts[t] < MaxAttempts  BY <3>1, <3>4 DEF Exhausted
      <4>3. ~ended[t]  BY <3>4 DEF Stale, AttemptsBounded, Terminal
      <4> QED BY <3>1, <4>1, <4>2, <4>3 DEF Terminal
    <3> QED BY <3>2, <3>3, <3>4
  <2>5. InlineWaits'  BY DEF InlineWaits
  <2>6. Keys'  BY <2>2 DEF TypeOK, Keys
  <2>7. AttemptsBounded'  BY <2>4 DEF AttemptsBounded
  <2> QED BY <2>1, <2>3, <2>5, <2>6, <2>7
<1>2. CASE Redispatch \/ CrashRecovery
  BY <1>2 DEF Redispatch, CrashRecovery, TypeOK, Rows, AttemptsBounded, InlineWaits, Keys
<1> QED BY <1>1, <1>2 DEF Recovery

LEMMA StepInv == Inv /\ [Next]_vars => Inv'
<1> SUFFICES ASSUME Inv, [Next]_vars PROVE Inv'
  OBVIOUS
<1>1. ASSUME NEW t \in Tasks, GoStale(t) PROVE Inv'
  BY <1>1 DEF GoStale, Inv, TypeOK, Rows, AttemptsBounded, InlineWaits, Keys
<1>2. CASE UNCHANGED vars
  BY <1>2 DEF Inv, TypeOK, Rows, AttemptsBounded, InlineWaits, Keys
<1> QED
  BY <1>1, <1>2, SubmitInv, DeliverInv, ExecuteInv, RecoveryInv DEF Next

LEMMA AlwaysInv == Spec => []Inv
BY InitInv, StepInv, PTL DEF Spec

(* Every reachable state is well typed: whoever is answered or runs an     *)
(* agent holds the id of a task.                                           *)
THEOREM TypeCorrect == Spec => []TypeOK
<1>1. Inv => TypeOK  BY DEF Inv
<1> QED BY <1>1, AlwaysInv, PTL

(* However often workers die and however slow agents are, a task is        *)
(* claimed at most ASYNC_TASK_MAX_ATTEMPTS times.                          *)
THEOREM AttemptsAreBounded == Spec => []AttemptsBounded
<1>1. Inv => AttemptsBounded  BY DEF Inv
<1> QED BY <1>1, AlwaysInv, PTL

(* Any number of submits racing under one idempotency key get one task.    *)
THEOREM KeyMeansOneTask == Spec => []OneTaskPerKey
<1>1. Inv => OneTaskPerKey  BY DEF Inv, TypeOK, Keys, OneTaskPerKey
<1> QED BY <1>1, AlwaysInv, PTL

-----------------------------------------------------------------------------
(* One executor at a time.  OneExecutor alone is not inductive: recovery   *)
(* could put a live executor's task back into the queue.  It cannot,       *)
(* because in a timely deployment such a task is never stale.              *)

Exclusive ==
  /\ OneExecutor
  /\ \A e \in Executors, t \in Tasks : Live(e, t) => fresh[t]

LEMMA InitExclusive == Init => Exclusive
BY DEF Init, Exclusive, OneExecutor, Live

LEMMA ClaimExclusive ==
  ASSUME Inv, Exclusive, NEW e \in Executors, NEW t \in Tasks, Claim(e, t)
  PROVE  Exclusive'
<1>1. state[t] = "submitted" /\ \A d \in Executors : ~Live(d, t)
  BY DEF Claim, ClaimIn, Exclusive, OneExecutor
<1>2. /\ state'[t] = "working" /\ fresh'[t] /\ Live(e, t)'
      /\ \A d \in Executors, u \in Tasks : Live(d, u)' => (d = e /\ u = t) \/ Live(d, u)
      /\ \A u \in Tasks : u # t => state'[u] = state[u] /\ fresh'[u] = fresh[u]
  BY DEF Claim, ClaimIn, Inv, TypeOK, Live
<1>3. \A d \in Executors : Live(d, t)' => d = e  BY <1>1, <1>2
<1>4. ASSUME NEW d \in Executors, NEW u \in Tasks, Live(d, u)'
      PROVE  state'[u] = "working" /\ fresh'[u]
             /\ \A c \in Executors : Live(c, u)' => c = d
  <2>1. CASE u = t  BY <1>2, <1>3, <1>4, <2>1
  <2>2. CASE u # t  BY <1>2, <1>4, <2>2 DEF Exclusive, OneExecutor
  <2> QED BY <2>1, <2>2
<1> QED BY <1>4 DEF Exclusive, OneExecutor

(* What an executor records, it records in a task nobody else runs.        *)
LEMMA ExecuteExclusive ==
  ASSUME Inv, Exclusive, NEW e \in Executors, Execute(e)
  PROVE  /\ Exclusive'
         /\ etask[e] \in Tasks /\ state[etask[e]] = "working" /\ Live(e, etask[e])
<1> DEFINE t == etask[e]
<1>1. epc[e] = "running" /\ t \in Tasks /\ Live(e, t)
  BY DEF Execute, MarkCompleted, MarkFailed, Record, Crash, Inv, TypeOK, Live
<1>2. state[t] = "working" /\ \A d \in Executors : Live(d, t) => d = e
  BY <1>1 DEF Exclusive, OneExecutor
<1>3. /\ epc' = [epc EXCEPT ![e] = "idle"] /\ etask' = [etask EXCEPT ![e] = 0]
      /\ \A u \in Tasks : u # t => state'[u] = state[u] /\ fresh'[u] = fresh[u]
  BY <1>1 DEF Execute, MarkCompleted, MarkFailed, Record, Crash, Release, Inv, TypeOK
<1> HIDE DEF t
<1>4. \A d \in Executors, u \in Tasks : Live(d, u)' => Live(d, u) /\ d # e
  BY <1>3 DEF Inv, TypeOK, Live
<1>5. Exclusive'
  BY <1>2, <1>3, <1>4 DEF Exclusive, OneExecutor
<1> QED BY <1>1, <1>2, <1>5 DEF t

LEMMA RecoveryExclusive ==
  ASSUME Inv, Exclusive, Recovery
  PROVE  Exclusive'
<1>1. CASE RecoverStale
  <2>1. \A e \in Executors, t \in Tasks : Live(e, t) => ~Stale(t)
    BY DEF Exclusive, Stale
  <2>2. \A t \in Tasks : ~Stale(t) => state'[t] = state[t] /\ fresh'[t] = fresh[t]
    BY <1>1 DEF RecoverStale, Inv, TypeOK
  <2>3. UNCHANGED <<epc, etask>>  BY <1>1 DEF RecoverStale
  <2> QED BY <2>1, <2>2, <2>3 DEF Exclusive, OneExecutor, Live
<1>2. CASE Redispatch \/ CrashRecovery
  BY <1>2 DEF Redispatch, CrashRecovery, Exclusive, OneExecutor, Live
<1> QED BY <1>1, <1>2 DEF Recovery

LEMMA CreateExclusive ==
  ASSUME Inv, Exclusive, NEW q \in Requests, Create(q)
  PROVE  Exclusive' /\ nextTask \in Tasks /\ state[nextTask] = "absent"
<1>1. nextTask \in Tasks /\ state[nextTask] = "absent"
  BY TaskAssumption DEF Create, Insert, Inv, TypeOK, Rows, Tasks
<1>2. \A e \in Executors : ~Live(e, nextTask)
  BY <1>1 DEF Exclusive, OneExecutor
<1>3. UNCHANGED <<fresh, epc, etask>>
      /\ \A t \in Tasks : t # nextTask => state'[t] = state[t]
  BY <1>1 DEF Create, Insert, Inv, TypeOK
<1> QED BY <1>1, <1>2, <1>3 DEF Exclusive, OneExecutor, Live

(* The steps that neither claim, settle, recover nor age a task.           *)
Quiet == UNCHANGED <<state, attempts, fresh, epc, etask>>

LEMMA SubmitCases ==
  ASSUME Inv, NEW q \in Requests, Submit(q)
  PROVE  \/ Create(q)
         \/ q \in Executors /\ rtask[q] \in Tasks /\ Claim(q, rtask[q])
         \/ Quiet
<1>1. CASE RunInline(q)  BY <1>1 DEF RunInline, Executors, Inv, TypeOK
<1>2. CASE ~RunInline(q)
  BY <1>2 DEF Submit, FindExisting, FindNone, LoseInsertRace, Answer, Dispatch, AbortRequest,
              Quiet
<1> QED BY <1>1, <1>2

LEMMA DeliverCases ==
  ASSUME Inv, NEW w \in Workers, Deliver(w)
  PROVE  (w \in Executors /\ \E t \in Tasks : Claim(w, t)) \/ Quiet
BY DEF Deliver, ClaimFromMessage, SkipDuplicate, Executors, Inv, TypeOK, Quiet

LEMMA GoStaleExclusive ==
  ASSUME Timely, Inv, Exclusive, NEW t \in Tasks, GoStale(t)
  PROVE  Exclusive'
<1>1. \A e \in Executors : ~Live(e, t)  BY DEF GoStale, Timely
<1>2. UNCHANGED <<state, epc, etask>> /\ \A u \in Tasks : u # t => fresh'[u] = fresh[u]
  BY DEF GoStale, Inv, TypeOK
<1> QED BY <1>1, <1>2 DEF Exclusive, OneExecutor, Live

LEMMA StepExclusive ==
  ASSUME Timely, Inv, Exclusive, [Next]_vars
  PROVE  Exclusive'
<1>1. CASE Quiet  BY <1>1 DEF Quiet, Exclusive, OneExecutor, Live
<1>2. ASSUME NEW q \in Requests, Submit(q) PROVE Exclusive'
  BY <1>1, <1>2, SubmitCases, CreateExclusive, ClaimExclusive
<1>3. ASSUME NEW w \in Workers, Deliver(w) PROVE Exclusive'
  BY <1>1, <1>3, DeliverCases, ClaimExclusive
<1>4. CASE UNCHANGED vars  BY <1>1, <1>4 DEF Quiet
<1> QED
  BY <1>2, <1>3, <1>4, ExecuteExclusive, RecoveryExclusive, GoStaleExclusive DEF Next

LEMMA ExclusiveAlways ==
  ASSUME Timely PROVE Spec => [](Inv /\ Exclusive)
<1>1. Init => Inv /\ Exclusive  BY InitInv, InitExclusive
<1>2. (Inv /\ Exclusive) /\ [Next]_vars => (Inv /\ Exclusive)'
  BY StepInv, StepExclusive
<1> QED BY <1>1, <1>2, PTL DEF Spec

(* While no agent outlives the staleness window, a task has one executor   *)
(* at a time and is WORKING as long as it has one.                         *)
THEOREM OneExecutorPerTask == Timely => (Spec => []OneExecutor)
<1> SUFFICES ASSUME Timely PROVE Spec => []OneExecutor
  OBVIOUS
<1>1. Exclusive => OneExecutor  BY DEF Exclusive
<1> QED BY <1>1, ExclusiveAlways, PTL

-----------------------------------------------------------------------------
(* Settled tasks                                                           *)

SettledStep == \A t \in Tasks : state[t] \in Terminal => state'[t] = state[t]

LEMMA StepSettled ==
  ASSUME Timely, Inv, Exclusive, [Next]_vars
  PROVE  SettledStep
<1>1. CASE Quiet  BY <1>1 DEF Quiet, SettledStep
<1>2. ASSUME NEW e \in Executors, NEW t \in Tasks, Claim(e, t) PROVE SettledStep
  BY <1>2 DEF Claim, ClaimIn, SettledStep, Terminal, Inv, TypeOK
<1>3. ASSUME NEW q \in Requests, Create(q) PROVE SettledStep
  BY <1>3, CreateExclusive DEF Create, Insert, SettledStep, Terminal, Inv, TypeOK
<1>4. ASSUME NEW e \in Executors, Execute(e) PROVE SettledStep
  <2>1. etask[e] \in Tasks /\ state[etask[e]] = "working"  BY <1>4, ExecuteExclusive
  <2>2. \A u \in Tasks : u # etask[e] => state'[u] = state[u]
    BY <1>4, <2>1 DEF Execute, MarkCompleted, MarkFailed, Record, Crash, Inv, TypeOK
  <2> QED BY <2>1, <2>2 DEF SettledStep, Terminal
<1>5. CASE Recovery
  BY <1>5 DEF Recovery, RecoverStale, Redispatch, CrashRecovery, Stale, SettledStep, Terminal
<1>6. ASSUME NEW t \in Tasks, GoStale(t) PROVE SettledStep
  BY <1>6 DEF GoStale, SettledStep
<1>7. CASE UNCHANGED vars  BY <1>1, <1>7 DEF Quiet
<1>8. ASSUME NEW q \in Requests, Submit(q) PROVE SettledStep
  BY <1>1, <1>2, <1>3, <1>8, SubmitCases
<1>9. ASSUME NEW w \in Workers, Deliver(w) PROVE SettledStep
  BY <1>1, <1>2, <1>9, DeliverCases
<1> QED BY <1>4, <1>5, <1>6, <1>7, <1>8, <1>9 DEF Next

(* While no agent outlives the staleness window, an outcome a poller was   *)
(* told is never replaced by another one.                                  *)
THEOREM AnswersAlwaysStand == Timely => (Spec => AnswersStand)
<1> SUFFICES ASSUME Timely PROVE Spec => AnswersStand
  OBVIOUS
<1>1. (Inv /\ Exclusive) /\ [Next]_vars => [SettledStep]_vars
  BY StepSettled
<1>2. Spec => [][SettledStep]_vars
  BY <1>1, ExclusiveAlways, PTL DEF Spec
<1> QED BY <1>2 DEF AnswersStand, SettledStep

-----------------------------------------------------------------------------
(* Refinement of RunLifecycle.  The owner of a task is the executor that   *)
(* runs it: OneExecutor makes the choice in Owner unique.                  *)

OwnerFact ==
  \A t \in Tasks :
    /\ \A e \in Executors : Live(e, t) => Owner(t) = e
    /\ (\A e \in Executors : ~Live(e, t)) => Owner(t) = NoExecutor

LEMMA OwnerIs == OneExecutor => OwnerFact
<1> SUFFICES ASSUME OneExecutor, NEW t \in Tasks
             PROVE  /\ \A e \in Executors : Live(e, t) => Owner(t) = e
                    /\ (\A e \in Executors : ~Live(e, t)) => Owner(t) = NoExecutor
  BY DEF OwnerFact
<1>1. ASSUME NEW e \in Executors, Live(e, t) PROVE Owner(t) = e
  <2>1. Owner(t) = CHOOSE d \in Executors : Live(d, t)  BY <1>1 DEF Owner
  <2>2. Owner(t) \in Executors /\ Live(Owner(t), t)  BY <1>1, <2>1
  <2> QED BY <1>1, <2>2 DEF OneExecutor
<1>2. ASSUME \A e \in Executors : ~Live(e, t) PROVE Owner(t) = NoExecutor
  BY <1>2 DEF Owner
<1> QED BY <1>1, <1>2

LEMMA InitRefines == Init => Lifecycle!Init
<1> SUFFICES ASSUME Init PROVE Lifecycle!Init
  OBVIOUS
<1>1. \A t \in Tasks : RunState(t) = "absent" /\ attempts[t] = 0
  BY DEF Init, RunState
<1>2. \A t \in Tasks : Owner(t) = NoExecutor  BY DEF Init, Owner, Live
<1>3. attempts = [t \in Tasks |-> 0]  BY DEF Init
<1> QED BY <1>1, <1>2, <1>3 DEF Lifecycle!Init

LEMMA RefineClaim ==
  ASSUME Inv, Exclusive, Exclusive', OwnerFact, OwnerFact',
         NEW e \in Executors, NEW r \in Tasks, Claim(e, r)
  PROVE  Lifecycle!Claim(r, e)
<1>1. /\ state[r] = "submitted" /\ attempts[r] < MaxAttempts
      /\ state' = [state EXCEPT ![r] = "working"]
      /\ attempts' = [attempts EXCEPT ![r] = @ + 1]
  BY DEF Claim, ClaimIn, Inv, AttemptsBounded
<1>2. \A d \in Executors : ~Live(d, r)  BY <1>1 DEF Exclusive, OneExecutor
<1>3. RunState(r) = "pending" /\ Owner(r) = NoExecutor
  BY <1>1, <1>2 DEF RunState, OwnerFact
<1>4. Live(e, r)'  BY DEF Claim, ClaimIn, Inv, TypeOK, Live
<1>5. \A d \in Executors, t \in Tasks : t # r => (Live(d, t)' <=> Live(d, t) /\ d # e)
  BY DEF Claim, ClaimIn, Inv, TypeOK, Live
<1>6. \A t \in Tasks : ~Live(e, t)  BY DEF Claim, ClaimIn, Live
<1>7. \A t \in Tasks : Owner(t)' = IF t = r THEN e ELSE Owner(t)
  BY <1>4, <1>5, <1>6 DEF OwnerFact
<1>8. \A t \in Tasks : RunState(t)' = IF t = r THEN "running" ELSE RunState(t)
  BY <1>1 DEF RunState, Inv, TypeOK
<1> QED BY <1>1, <1>3, <1>7, <1>8 DEF Lifecycle!Claim

LEMMA RefineCreate ==
  ASSUME Inv, Exclusive, Exclusive', OwnerFact, OwnerFact', NEW q \in Requests, Create(q)
  PROVE  \E r \in Tasks : Lifecycle!Submit(r)
<1>1. nextTask \in Tasks /\ state[nextTask] = "absent"  BY CreateExclusive
<1>2. state' = [state EXCEPT ![nextTask] = "submitted"] /\ UNCHANGED <<attempts, epc, etask>>
  BY DEF Create, Insert
<1>3. \A t \in Tasks : Owner(t)' = Owner(t)
  BY <1>2 DEF OwnerFact, Live
<1>4. RunState(nextTask) = "absent"
      /\ \A t \in Tasks : RunState(t)' = IF t = nextTask THEN "pending" ELSE RunState(t)
  BY <1>1, <1>2 DEF RunState, Inv, TypeOK
<1>5. Lifecycle!Submit(nextTask)  BY <1>1, <1>2, <1>3, <1>4 DEF Lifecycle!Submit
<1> QED BY <1>1, <1>5

LEMMA RefineExecute ==
  ASSUME Inv, Exclusive, Exclusive', OwnerFact, OwnerFact', NEW e \in Executors, Execute(e)
  PROVE  \E r \in Tasks : Lifecycle!Settle(r, e) \/ Lifecycle!Orphan(r)
<1> DEFINE r == etask[e]
<1>1. r \in Tasks /\ state[r] = "working" /\ Live(e, r) /\ e # NoExecutor
  BY ExecuteExclusive, TaskAssumption
<1>2. epc' = [epc EXCEPT ![e] = "idle"] /\ etask' = [etask EXCEPT ![e] = 0]
      /\ UNCHANGED attempts
  BY DEF Execute, MarkCompleted, MarkFailed, Record, Crash, Release
<1>3. \A outcome \in {"completed", "failed"} :
        Record(e, outcome) => state' = [state EXCEPT ![r] = outcome]
  BY DEF Record
<1>4. Crash(e) => state' = state  BY DEF Crash
<1> HIDE DEF r
<1>5. RunState(r) = "running" /\ Owner(r) = e  BY <1>1 DEF RunState, OwnerFact
<1>6. \A d \in Executors, t \in Tasks : Live(d, t)' <=> Live(d, t) /\ d # e
  BY <1>2 DEF Inv, TypeOK, Live
<1>7. \A d \in Executors : Live(d, r) => d = e  BY <1>1 DEF Exclusive, OneExecutor
<1>8. \A t \in Tasks : t # r => ~Live(e, t)  BY <1>1 DEF Live
<1>9. \A t \in Tasks : Owner(t)' = IF t = r THEN NoExecutor ELSE Owner(t)
  BY <1>1, <1>6, <1>7, <1>8 DEF OwnerFact
<1>10. ASSUME NEW outcome \in {"completed", "failed"}, Record(e, outcome)
       PROVE  Lifecycle!Settle(r, e)
  <2>1. \A t \in Tasks : RunState(t)' = IF t = r THEN outcome ELSE RunState(t)
    BY <1>1, <1>3, <1>10 DEF RunState, Inv, TypeOK
  <2> QED BY <1>1, <1>2, <1>5, <1>9, <2>1 DEF Lifecycle!Settle
<1>11. CASE Crash(e)
  <2>1. \A t \in Tasks : RunState(t)' = RunState(t)  BY <1>4, <1>11 DEF RunState
  <2> QED BY <1>1, <1>2, <1>5, <1>9, <2>1 DEF Lifecycle!Orphan
<1> QED BY <1>1, <1>10, <1>11 DEF Execute, MarkCompleted, MarkFailed

LEMMA RefineRecovery ==
  ASSUME Inv, Exclusive, Exclusive', OwnerFact, OwnerFact', RecoverStale
  PROVE  \E S \in SUBSET Tasks : Lifecycle!Recover(S)
<1> DEFINE S == {t \in Tasks : Stale(t)}
<1>1. \A t \in S : state[t] = "working" /\ \A e \in Executors : ~Live(e, t)
  BY DEF Stale, Exclusive
<1>2. \A t \in S : RunState(t) = "running" /\ Owner(t) = NoExecutor
  BY <1>1 DEF RunState, OwnerFact
<1>3. UNCHANGED <<attempts, epc, etask>>  BY DEF RecoverStale
<1>4. \A t \in Tasks : Owner(t)' = Owner(t)  BY <1>3 DEF OwnerFact, Live
<1>5. ASSUME NEW t \in Tasks
      PROVE  RunState(t)' = IF t \notin S THEN RunState(t)
                            ELSE IF attempts[t] < MaxAttempts THEN "pending" ELSE "dead_letter"
  <2>1. state'[t] = IF ~Stale(t) THEN state[t]
                    ELSE IF Exhausted(t) THEN "dead_letter" ELSE "submitted"
    BY DEF RecoverStale
  <2>2. Exhausted(t) <=> ~(attempts[t] < MaxAttempts)
    BY TaskAssumption DEF Exhausted, Inv, TypeOK
  <2> QED BY <2>1, <2>2 DEF RunState
<1>6. Lifecycle!Recover(S)  BY <1>2, <1>3, <1>4, <1>5 DEF Lifecycle!Recover
<1> QED BY <1>6

LEMMA RefineQuiet ==
  ASSUME Inv, Exclusive, OwnerFact, OwnerFact', UNCHANGED <<state, attempts, epc, etask>>
  PROVE  UNCHANGED Lifecycle!vars
<1>1. \A t \in Tasks : RunState(t)' = RunState(t)  BY DEF RunState
<1>2. \A t \in Tasks : Owner(t)' = Owner(t)  BY DEF OwnerFact, Live
<1> QED BY <1>1, <1>2 DEF Lifecycle!vars

LEMMA StepRefines ==
  ASSUME Inv, Exclusive, Exclusive', OwnerFact, OwnerFact', [Next]_vars
  PROVE  [Lifecycle!Next]_(Lifecycle!vars)
<1>1. CASE Quiet  BY <1>1, RefineQuiet DEF Quiet
<1>2. ASSUME NEW q \in Requests, Submit(q) PROVE [Lifecycle!Next]_(Lifecycle!vars)
  <2>1. CASE Create(q)  BY <2>1, RefineCreate DEF Lifecycle!Next
  <2>2. CASE q \in Executors /\ rtask[q] \in Tasks /\ Claim(q, rtask[q])
    BY <2>2, RefineClaim DEF Lifecycle!Next
  <2> QED BY <1>1, <1>2, <2>1, <2>2, SubmitCases
<1>3. ASSUME NEW w \in Workers, Deliver(w) PROVE [Lifecycle!Next]_(Lifecycle!vars)
  <2>1. CASE w \in Executors /\ \E t \in Tasks : Claim(w, t)
    BY <2>1, RefineClaim DEF Lifecycle!Next
  <2> QED BY <1>1, <1>3, <2>1, DeliverCases
<1>4. ASSUME NEW e \in Executors, Execute(e) PROVE [Lifecycle!Next]_(Lifecycle!vars)
  BY <1>4, RefineExecute DEF Lifecycle!Next
<1>5. CASE Recovery
  <2>1. CASE RecoverStale  BY <2>1, RefineRecovery DEF Lifecycle!Next
  <2>2. CASE Redispatch \/ CrashRecovery
    BY <2>2, RefineQuiet DEF Redispatch, CrashRecovery
  <2> QED BY <1>5, <2>1, <2>2 DEF Recovery
<1>6. ASSUME NEW t \in Tasks, GoStale(t) PROVE [Lifecycle!Next]_(Lifecycle!vars)
  BY <1>6, RefineQuiet DEF GoStale
<1>7. CASE UNCHANGED vars  BY <1>7, RefineQuiet
<1> QED BY <1>2, <1>3, <1>4, <1>5, <1>6, <1>7 DEF Next

(* While no agent outlives the staleness window, the tasks implement the   *)
(* lifecycle that RunLifecycle promises.                                   *)
THEOREM ImplementsRunLifecycle == Timely => (Spec => ImplementsLifecycle)
<1> SUFFICES ASSUME Timely PROVE Spec => ImplementsLifecycle
  OBVIOUS
<1>1. Exclusive => OwnerFact  BY OwnerIs DEF Exclusive
<1>2. (Inv /\ Exclusive) /\ (Inv /\ Exclusive)' /\ OwnerFact /\ OwnerFact' /\ [Next]_vars
        => [Lifecycle!Next]_(Lifecycle!vars)
  BY StepRefines
<1>3. Spec => [](Inv /\ Exclusive)  BY ExclusiveAlways
<1> QED
  BY <1>1, <1>2, <1>3, InitRefines, PTL DEF Spec, ImplementsLifecycle, Lifecycle!Spec
=============================================================================
