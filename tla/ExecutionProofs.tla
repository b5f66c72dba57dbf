-------------------------- MODULE ExecutionProofs --------------------------
(* Theorems about what executes agents: Orchestrator, for every graph,     *)
(* every retry limit and every width of the pool, and AgentRuntime, for    *)
(* any runs, agents, caps and months.                                      *)
EXTENDS Orchestrator, AgentRuntime, FiniteSetTheorems, SequenceTheorems, TLAPS

(* The tuples of variables, opened in every step below.                    *)
USE DEF vars, coordinator, runtimeVars

Outcomes == {"running", "completed", "failed", "skipped"}

-----------------------------------------------------------------------------
(* What the two ways of writing a record do to the sequence.               *)

LEMMA AppendFacts ==
  ASSUME NEW S, NEW s \in Seq(S), NEW x \in S
  PROVE  /\ Append(s, x) \in Seq(S)
         /\ Append(s, x) # <<>>
         /\ Len(Append(s, x)) = Len(s) + 1
         /\ Last(Append(s, x)) = x
         /\ \A i \in 1..Len(s) : Append(s, x)[i] = s[i]
BY AppendProperties DEF Last

LEMMA ReplaceLastFacts ==
  ASSUME NEW S, NEW s \in Seq(S), s # <<>>, NEW x \in S
  PROVE  /\ Append(Front(s), x) \in Seq(S)
         /\ Append(Front(s), x) # <<>>
         /\ Len(Append(Front(s), x)) = Len(s)
         /\ Last(Append(Front(s), x)) = x
         /\ \A i \in 1..(Len(s) - 1) : Append(Front(s), x)[i] = s[i]
<1>1. Len(s) \in Nat \ {0} /\ \A i \in 1..Len(s) : s[i] \in S
  BY EmptySeq, LenProperties, ElementOfSeq
<1>2. \A i \in 1..(Len(s) - 1) : s[i] \in S  BY <1>1
<1>3. Front(s) \in Seq(S) /\ Len(Front(s)) = Len(s) - 1
      /\ \A i \in 1..(Len(s) - 1) : Front(s)[i] = s[i]
  <2>1. PICK n \in Nat : n = Len(s) - 1  BY <1>1
  <2>2. n \in Int /\ 1 \in Int /\ \A i \in 1..n : s[i] \in S  BY <1>2, <2>1
  <2>3. /\ SubSeq(s, 1, n) \in Seq(S)
        /\ Len(SubSeq(s, 1, n)) = IF 1 <= n THEN n - 1 + 1 ELSE 0
        /\ \A i \in 1..(n - 1 + 1) : SubSeq(s, 1, n)[i] = s[1 + i - 1]
    BY ONLY <2>2, SubSeqProperties
  <2>4. Front(s) = SubSeq(s, 1, n)  BY <2>1 DEF Front
  <2>5. Len(SubSeq(s, 1, n)) = n  BY <2>1, <2>3
  <2>6. \A i \in 1..n : SubSeq(s, 1, n)[i] = s[i]  BY <2>1, <2>3
  <2> HIDE DEF Front
  <2> QED BY <2>1, <2>3, <2>4, <2>5, <2>6
<1> QED BY <1>1, <1>3, AppendFacts
LEMMA AppendIsRunning == Append(<<>>, "running") = <<"running">>
OBVIOUS

LEMMA SkippedAlone ==
  ASSUME NEW s \in Seq(Outcomes), Len(s) = 1, s[1] = "skipped"
  PROVE  s = <<"skipped">>
<1>1. <<"skipped">> \in Seq(Outcomes) /\ Len(<<"skipped">>) = 1 /\ <<"skipped">>[1] = "skipped"
  BY DEF Outcomes
<1>2. \A i \in 1..Len(s) : s[i] = <<"skipped">>[i]  BY <1>1
<1> HIDE DEF Outcomes
<1> QED BY <1>1, <1>2, SeqEqual

-----------------------------------------------------------------------------
(* The inductive invariant                                                 *)

(* Where a step stands: waiting, in the wave, answered, or skipped below a *)
(* failed one.  Every iteration takes a step out of pending, so the bound  *)
(* of the for loop is never what ends it.                                  *)
Stages ==
  /\ phase # "finished" => verdict = "running" /\ error = ""
  /\ phase = "loop" => wave = {}
  /\ pending \cap wave = {}
  /\ iterations + Cardinality(pending) <= Cardinality(Tasks)
  /\ \A t \in pending : result[t] = "none" /\ (phase # "finished" => records[t] = <<>>)
  /\ \A t \in Tasks :
       (t \notin pending /\ t \notin wave /\ result[t] = "none") =>
         records[t] = <<"skipped">> /\ \E u \in deps[t] : u \in failedSteps

(* The coordinator's sets are exactly what the merged threads returned.    *)
Merged ==
  /\ completedSteps = {t \in Tasks : t \notin wave /\ Succeeded(t)}
  /\ failedSteps = {t \in Tasks : t \notin wave /\ result[t] = "failure"}
  /\ outputs = {t \in Tasks : t \notin wave /\ result[t] = "output"}

(* What the records of a step can look like: RecordsConsistent for one     *)
(* step, and what its thread needs to keep it.                             *)
Recorded(t) ==
  /\ \A i \in 1..(Len(records[t]) - 1) : records[t][i] = "failed"
  /\ result[t] = "output" <=> (records[t] # <<>> /\ Last(records[t]) = "completed")
  /\ result[t] = "nothing" => records[t] = <<"skipped">> /\ t \in Agentless
  /\ t \in Agentless => records[t] \in {<<>>, <<"running">>, <<"skipped">>}
  /\ t \in Busy =>
       /\ Last(records[t]) \in {"running", "failed"}
       /\ Last(records[t]) = "failed" => Len(records[t]) <= RetryLimit[t]

DependenciesComplete == \A t \in Tasks : Started(t) => deps[t] \subseteq completedSteps

(* A run that was concluded had nothing left to do.                        *)
Concluded ==
  (verdict = "completed" \/ error = "steps") =>
    /\ pending = {} /\ wave = {}
    /\ verdict = "completed" => failedSteps = {}

Inv ==
  /\ TypeOK /\ Stages /\ Merged
  /\ \A t \in Tasks : Recorded(t)
  /\ DependenciesComplete /\ Concluded

LEMMA TaskCount == Cardinality(Tasks) \in Nat
BY OrchestratorAssumption, FS_CardinalityType

LEMMA InitInv == Init => Inv
<1> SUFFICES ASSUME Init PROVE Inv
  OBVIOUS
<1> DEFINE n == Cardinality(Tasks)
<1>n. n \in Nat  BY TaskCount
<1>1. TypeOK
  <2>1. iterations \in 0..(n + 1)
    <3>1. iterations = 0  BY DEF Init
    <3> HIDE DEF n
    <3> QED BY <1>n, <3>1
  <2>2. \A t \in Tasks : RetryLimit[t] \in Nat /\ records[t] = <<>>
    BY OrchestratorAssumption DEF Init
  <2>3. \A t \in Tasks : Len(records[t]) <= RetryLimit[t] + 1  BY <2>2
  <2>4. records \in [Tasks -> Seq({"running", "completed", "failed", "skipped"})]
    <3>1. <<>> \in Seq({"running", "completed", "failed", "skipped"})  OBVIOUS
    <3> QED BY <3>1 DEF Init
  <2>5. result \in [Tasks -> {"none", "output", "nothing", "failure"}]  BY DEF Init
  <2>6. /\ deps \in Graphs /\ phase = "loop" /\ pending = Tasks /\ completedSteps = {}
        /\ failedSteps = {} /\ wave = {} /\ outputs = {} /\ verdict = "running" /\ error = ""
    BY DEF Init
  <2> QED BY <2>1, <2>3, <2>4, <2>5, <2>6 DEF TypeOK
<1>2. Stages
  <2>1. iterations + Cardinality(pending) <= n
    <3>1. iterations = 0 /\ Cardinality(pending) = n  BY DEF Init
    <3> HIDE DEF n
    <3> QED BY <1>n, <3>1
  <2> QED BY <2>1 DEF Init, Stages
<1>3. Merged  BY DEF Init, Merged, Succeeded
<1>4. ASSUME NEW t \in Tasks PROVE Recorded(t)
  <2>1. records[t] = <<>> /\ Len(records[t]) = 0 /\ result[t] = "none" /\ t \notin Busy
    BY DEF Init, Busy
  <2> QED BY <2>1 DEF Recorded
<1>5. DependenciesComplete /\ Concluded
  BY DEF Init, DependenciesComplete, Started, Concluded
<1> QED BY <1>1, <1>2, <1>3, <1>4, <1>5 DEF Inv

-----------------------------------------------------------------------------
(* Steps of the threads                                                    *)

(* A step of the thread of t touches nothing the coordinator has merged.   *)
LEMMA ThreadStep ==
  ASSUME Inv, phase = "wave", NEW t \in wave, result[t] = "none",
         UNCHANGED coordinator,
         \A u \in Tasks \ {t} : result'[u] = result[u] /\ records'[u] = records[u],
         TypeOK', Recorded(t)'
  PROVE  Inv'
<1> USE DEF Inv
<1>1. t \in Tasks /\ t \notin pending  BY DEF TypeOK, Stages
<1>2. Stages'
  <2>1. \A u \in pending : u # t /\ u \in Tasks  BY <1>1 DEF TypeOK
  <2>2. \A u \in pending :
          result'[u] = "none" /\ (phase' # "finished" => records'[u] = <<>>)
    BY <2>1 DEF Stages
  <2>3. \A u \in Tasks :
          (u \notin pending /\ u \notin wave /\ result'[u] = "none") =>
            records'[u] = <<"skipped">> /\ \E v \in deps[u] : v \in failedSteps
    BY DEF Stages
  <2>4. UNCHANGED <<phase, pending, wave, verdict, error, iterations, deps, failedSteps>>
    OBVIOUS
  <2> QED BY <2>2, <2>3, <2>4 DEF Stages
<1>3. Merged'  BY <1>1 DEF TypeOK, Merged, Succeeded
<1>4. ASSUME NEW u \in Tasks PROVE Recorded(u)'
  <2>1. CASE u = t  BY <2>1
  <2>2. CASE u # t
    <3>1. Recorded(u) /\ result'[u] = result[u] /\ records'[u] = records[u]  BY <2>2
    <3> QED BY <3>1 DEF Recorded, Busy
  <2> QED BY <2>1, <2>2
<1>5. DependenciesComplete'  BY <1>1 DEF DependenciesComplete, Started
<1>6. Concluded'  BY DEF Concluded, Stages
<1> QED BY <1>2, <1>3, <1>4, <1>5, <1>6

LEMMA StartAttemptInv ==
  ASSUME Inv, NEW t \in Tasks, StartAttempt(t)
  PROVE  Inv'
<1> USE DEF Inv
<1>1. t \in wave /\ result[t] = "none" /\ phase = "wave"
      /\ (records[t] = <<>> \/ (t \in Busy /\ Last(records[t]) = "failed"))
  BY DEF StartAttempt, MayStart, Busy
<1> DEFINE r == Append(records[t], "running")
<1>2. records[t] \in Seq(Outcomes) /\ Len(records[t]) \in Nat /\ Len(records[t]) <= RetryLimit[t]
      /\ RetryLimit[t] \in Nat
  <2>1. records[t] \in Seq(Outcomes) /\ RetryLimit[t] \in Nat
    BY OrchestratorAssumption DEF TypeOK, Outcomes
  <2>2. Len(records[t]) \in Nat  BY <2>1
  <2>3. CASE records[t] = <<>>  BY <2>1, <2>3
  <2>4. CASE t \in Busy /\ Last(records[t]) = "failed"
    <3>1. Recorded(t)  OBVIOUS
    <3> QED BY <2>1, <2>2, <2>4, <3>1 DEF Recorded
  <2> QED BY <1>1, <2>1, <2>2, <2>3, <2>4
<1>3. /\ r \in Seq(Outcomes) /\ r # <<>> /\ Len(r) = Len(records[t]) + 1 /\ Last(r) = "running"
      /\ \A i \in 1..Len(records[t]) : r[i] = records[t][i]
  BY <1>2, AppendFacts DEF Outcomes
<1>4. \A i \in 1..Len(records[t]) : records[t][i] = "failed"
  <2>1. CASE records[t] = <<>>  BY <2>1
  <2>2. CASE Last(records[t]) = "failed"
    <3>1. \A i \in 1..Len(records[t]) : i \in 1..(Len(records[t]) - 1) \/ i = Len(records[t])
      BY <1>2
    <3> QED BY <2>2, <3>1 DEF Recorded, Last
  <2> QED BY <1>1, <2>1, <2>2
<1>5. records' = [records EXCEPT ![t] = r] /\ UNCHANGED <<coordinator, result>>
  BY DEF StartAttempt
<1>6. t \in Agentless => r = <<"running">>
  <2>1. SUFFICES ASSUME t \in Agentless PROVE r = <<"running">>
    OBVIOUS
  <2>2. records[t] = <<>>  BY <1>1, <2>1 DEF Recorded, Last
  <2> QED BY <2>2, AppendIsRunning
<1> HIDE DEF r
<1>7. records'[t] = r /\ \A u \in Tasks \ {t} : records'[u] = records[u]
  BY <1>5 DEF TypeOK
<1>8. TypeOK'
  <2>1. records' \in [Tasks -> Seq(Outcomes)]  BY <1>3, <1>5 DEF TypeOK, Outcomes
  <2>2. \A u \in Tasks : Len(records'[u]) <= RetryLimit[u] + 1
    <3>1. Len(r) <= RetryLimit[t] + 1  BY <1>2, <1>3
    <3> QED BY <1>7, <3>1 DEF TypeOK
  <2> QED BY <1>5, <2>1, <2>2 DEF TypeOK, Outcomes
<1>9. Recorded(t)'
  <2>1. \A i \in 1..(Len(r) - 1) : r[i] = "failed"  BY <1>2, <1>3, <1>4
  <2> QED BY <1>1, <1>3, <1>5, <1>6, <1>7, <2>1 DEF Recorded, Busy
<1> QED BY <1>1, <1>5, <1>7, <1>8, <1>9, ThreadStep

(* Every way an attempt ends rewrites the last record of the thread.       *)
LEMMA AttemptEndInv ==
  ASSUME Inv, phase = "wave", NEW t \in Tasks, Running(t),
         NEW status_ \in {"completed", "failed", "skipped"},
         NEW outcome \in {"none", "output", "nothing", "failure"},
         records' = SetLast(t, status_),
         result' = [result EXCEPT ![t] = outcome],
         UNCHANGED coordinator,
         outcome = "output" <=> status_ = "completed",
         outcome = "nothing" => status_ = "skipped",
         status_ = "skipped" <=> t \in Agentless,
         outcome = "none" => status_ = "failed" /\ Len(records[t]) <= RetryLimit[t]
  PROVE  Inv'
<1> USE DEF Inv
<1>1. t \in wave /\ result[t] = "none" /\ records[t] # <<>> /\ Last(records[t]) = "running"
  BY DEF Running, Busy
<1> DEFINE r == Append(Front(records[t]), status_)
<1>2. records[t] \in Seq(Outcomes) /\ Len(records[t]) <= RetryLimit[t] + 1
  BY DEF TypeOK, Outcomes
<1>3. /\ r \in Seq(Outcomes) /\ r # <<>> /\ Len(r) = Len(records[t]) /\ Last(r) = status_
      /\ \A i \in 1..(Len(records[t]) - 1) : r[i] = records[t][i]
  BY <1>1, <1>2, ReplaceLastFacts DEF Outcomes
<1>4. records' = [records EXCEPT ![t] = r]  BY DEF SetLast
<1>5. t \in Agentless => r = <<"skipped">>
  <2>1. SUFFICES ASSUME t \in Agentless PROVE r = <<"skipped">>
    OBVIOUS
  <2>2. records[t] \in {<<"running">>, <<"skipped">>}  BY <1>1, <2>1 DEF Recorded
  <2>3. Len(r) = 1 /\ r[1] = "skipped"  BY <1>3, <2>1, <2>2 DEF Last
  <2> QED BY <1>3, <2>3, SkippedAlone
<1> HIDE DEF r
<1>6. /\ records'[t] = r /\ result'[t] = outcome
      /\ \A u \in Tasks \ {t} : records'[u] = records[u] /\ result'[u] = result[u]
  BY <1>4 DEF TypeOK
<1>7. TypeOK'
  <2>1. records' \in [Tasks -> Seq(Outcomes)]  BY <1>3, <1>4 DEF TypeOK, Outcomes
  <2>2. \A u \in Tasks : Len(records'[u]) <= RetryLimit[u] + 1
    BY <1>2, <1>3, <1>6 DEF TypeOK
  <2>3. result' \in [Tasks -> {"none", "output", "nothing", "failure"}]  BY DEF TypeOK
  <2> QED BY <2>1, <2>2, <2>3 DEF TypeOK, Outcomes
<1>8. Recorded(t)'
  <2>1. \A i \in 1..(Len(r) - 1) : r[i] = "failed"  BY <1>3 DEF Recorded
  <2> QED BY <1>1, <1>3, <1>5, <1>6, <2>1 DEF Recorded, Busy
<1> QED BY <1>1, <1>6, <1>7, <1>8, ThreadStep

LEMMA WorkInv ==
  ASSUME Inv, NEW t \in Tasks, Work(t)
  PROVE  Inv'
<1>1. CASE StartAttempt(t)  BY <1>1, StartAttemptInv
<1>2. CASE SkipAgentless(t)
  <2>1. /\ phase = "wave" /\ Running(t) /\ t \in Agentless
        /\ records' = SetLast(t, "skipped") /\ UNCHANGED coordinator
        /\ result' = [result EXCEPT ![t] = "nothing"]
    BY <1>2 DEF SkipAgentless, TaskEnds
  <2> QED BY ONLY Inv, t \in Tasks, <2>1, AttemptEndInv
<1>3. CASE Succeed(t)
  <2>1. /\ phase = "wave" /\ Running(t) /\ t \notin Agentless
        /\ records' = SetLast(t, "completed") /\ UNCHANGED coordinator
        /\ result' = [result EXCEPT ![t] = "output"]
    BY <1>3 DEF Succeed, TaskEnds
  <2> QED BY ONLY Inv, t \in Tasks, <2>1, AttemptEndInv
<1>4. CASE Retry(t)
  <2>1. /\ phase = "wave" /\ Running(t) /\ t \notin Agentless
        /\ records' = SetLast(t, "failed") /\ UNCHANGED coordinator
        /\ Len(records[t]) <= RetryLimit[t]
        /\ result' = [result EXCEPT ![t] = "none"]
    BY <1>4 DEF Retry, AttemptFails, Running, Busy, Inv, TypeOK
  <2> QED BY ONLY Inv, t \in Tasks, <2>1, AttemptEndInv
<1>5. CASE GiveUp(t)
  <2>1. /\ phase = "wave" /\ Running(t) /\ t \notin Agentless
        /\ records' = SetLast(t, "failed") /\ UNCHANGED coordinator
        /\ result' = [result EXCEPT ![t] = "failure"]
    BY <1>5 DEF GiveUp, LastAttempt, TaskEnds
  <2> QED BY ONLY Inv, t \in Tasks, <2>1, AttemptEndInv
<1> QED BY <1>1, <1>2, <1>3, <1>4, <1>5 DEF Work

-----------------------------------------------------------------------------
(* Steps of the coordinator                                                *)

LEMMA Shrinks ==
  ASSUME NEW S \in SUBSET Tasks, NEW R \in SUBSET S, R # {}
  PROVE  /\ Cardinality(S) \in Nat /\ Cardinality(S \ R) \in Nat
         /\ Cardinality(S \ R) + 1 <= Cardinality(S)
<1>1. IsFiniteSet(S)  BY OrchestratorAssumption, FS_Subset
<1>2. IsFiniteSet(S \ R) /\ Cardinality(S \ R) <= Cardinality(S)
      /\ (Cardinality(S) = Cardinality(S \ R) => S = S \ R)
  <2>1. S \ R \in SUBSET S  OBVIOUS
  <2> QED BY <1>1, <2>1, FS_Subset
<1>3. Cardinality(S) \in Nat /\ Cardinality(S \ R) \in Nat
  BY <1>1, <1>2, FS_CardinalityType
<1>4. S # S \ R  OBVIOUS
<1> QED BY <1>2, <1>3, <1>4

(* One iteration of the for loop takes the set R out of pending.           *)
LEMMA IterationBound ==
  ASSUME Inv, NEW R \in SUBSET pending, R # {},
         iterations' = iterations + 1, pending' = pending \ R
  PROVE  /\ iterations' \in 0..(Cardinality(Tasks) + 1)
         /\ iterations' + Cardinality(pending') <= Cardinality(Tasks)
<1>1. pending \in SUBSET Tasks /\ iterations \in Nat
      /\ iterations + Cardinality(pending) <= Cardinality(Tasks)
  <2>1. iterations \in 0..(Cardinality(Tasks) + 1)  BY DEF Inv, TypeOK
  <2>2. iterations \in Nat  BY <2>1, TaskCount
  <2> QED BY <2>2 DEF Inv, TypeOK, Stages
<1>2. /\ Cardinality(pending) \in Nat /\ Cardinality(pending') \in Nat
      /\ Cardinality(pending') + 1 <= Cardinality(pending)
  <2>1. /\ Cardinality(pending) \in Nat /\ Cardinality(pending \ R) \in Nat
        /\ Cardinality(pending \ R) + 1 <= Cardinality(pending)
    BY <1>1, Shrinks
  <2> QED BY <2>1
<1> DEFINE p == Cardinality(pending)  q == Cardinality(pending')  n == Cardinality(Tasks)
<1>3. p \in Nat /\ q \in Nat /\ q + 1 <= p /\ n \in Nat /\ iterations + p <= n
  BY <1>1, <1>2, TaskCount
<1> HIDE DEF p, q, n
<1>4. iterations' \in 0..(n + 1) /\ iterations' + q <= n  BY <1>1, <1>3
<1> QED BY <1>4 DEF q, n

LEMMA StartWaveInv ==
  ASSUME Inv, StartWave
  PROVE  Inv'
<1> USE DEF Inv
<1>1. /\ Ready \subseteq pending /\ Ready # {} /\ phase = "loop" /\ wave = {}
      /\ \A t \in Ready : deps[t] \subseteq completedSteps
  BY DEF StartWave, Looping, Ready, Stages
<1>2. /\ phase' = "wave" /\ wave' = Ready /\ pending' = pending \ Ready
      /\ iterations' = iterations + 1
      /\ UNCHANGED <<deps, completedSteps, failedSteps, result, records, outputs, verdict, error>>
  BY DEF StartWave
<1>3. /\ iterations' \in 0..(Cardinality(Tasks) + 1)
      /\ iterations' + Cardinality(pending') <= Cardinality(Tasks)
  BY <1>1, <1>2, IterationBound
<1>4. TypeOK'  BY <1>1, <1>2, <1>3 DEF TypeOK
<1>5. \A t \in Ready : t \in Tasks /\ result[t] = "none" /\ records[t] = <<>>
  BY <1>1 DEF TypeOK, Stages
<1>6. Stages'  BY <1>1, <1>2, <1>3, <1>5 DEF Stages
<1>7. Merged'  BY <1>1, <1>2, <1>5 DEF Merged, Succeeded
<1>8. ASSUME NEW t \in Tasks PROVE Recorded(t)'
  <2>1. t \notin Busy'  BY <1>1, <1>2, <1>5 DEF Busy
  <2> QED BY <1>2, <2>1 DEF Recorded
<1>9. DependenciesComplete'  BY <1>1, <1>2 DEF DependenciesComplete, Started
<1>10. Concluded'  BY <1>1, <1>2 DEF Concluded, Stages
<1> QED BY <1>4, <1>6, <1>7, <1>8, <1>9, <1>10

(* A step whose records and result are left alone stays as it was recorded,*)
(* unless it becomes busy.                                                 *)
LEMMA SameRecorded ==
  ASSUME NEW t, Recorded(t), records'[t] = records[t], result'[t] = result[t],
         t \notin Busy'
  PROVE  Recorded(t)'
<1> DEFINE Final(rec, res) ==
             /\ \A i \in 1..(Len(rec) - 1) : rec[i] = "failed"
             /\ res = "output" <=> (rec # <<>> /\ Last(rec) = "completed")
             /\ res = "nothing" => rec = <<"skipped">> /\ t \in Agentless
             /\ t \in Agentless => rec \in {<<>>, <<"running">>, <<"skipped">>}
<1>1. Final(records[t], result[t])  BY DEF Recorded
<1>2. Final(records'[t], result'[t])
  <2> HIDE DEF Final
  <2> QED BY <1>1
<1> QED BY ONLY <1>2, t \notin Busy' DEF Recorded

(* What writing "skipped" records for blank steps of pending preserves.    *)
LEMMA SkipRecords ==
  ASSUME Inv, phase = "loop", NEW R \in SUBSET pending, UNCHANGED <<wave, result>>,
         records' = [t \in Tasks |->
                       IF t \in R THEN Append(records[t], "skipped") ELSE records[t]]
  PROVE  /\ records' \in [Tasks -> Seq(Outcomes)]
         /\ \A t \in Tasks : Len(records'[t]) <= RetryLimit[t] + 1
         /\ \A t \in R : records'[t] = <<"skipped">>
         /\ \A t \in Tasks \ R : records'[t] = records[t]
         /\ \A t \in Tasks : Recorded(t)'
<1> USE DEF Inv
<1>1. wave = {} /\ \A t \in R : t \in Tasks /\ records[t] = <<>> /\ result[t] = "none"
  BY DEF Stages, TypeOK
<1>2. Append(<<>>, "skipped") = <<"skipped">> /\ Len(<<"skipped">>) = 1
      /\ <<"skipped">> \in Seq(Outcomes) /\ <<"skipped">> # <<>> /\ Last(<<"skipped">>) = "skipped"
  BY DEF Outcomes, Last
<1>3. \A t \in R : records'[t] = <<"skipped">>  BY <1>1, <1>2
<1>4. \A t \in Tasks \ R : records'[t] = records[t]  OBVIOUS
<1>5. records' \in [Tasks -> Seq(Outcomes)]
  <2>1. \A t \in Tasks : records'[t] \in Seq(Outcomes)
    BY <1>2, <1>3, <1>4 DEF TypeOK, Outcomes
  <2> QED BY <2>1
<1>6. ASSUME NEW t \in Tasks PROVE Len(records'[t]) <= RetryLimit[t] + 1
  <2>1. RetryLimit[t] \in Nat  BY OrchestratorAssumption
  <2>2. CASE t \in R
    <3>1. Len(records'[t]) = 1  BY <1>2, <1>3, <2>2
    <3>2. \A n \in Nat : 1 <= n + 1  OBVIOUS
    <3>3. 1 <= RetryLimit[t] + 1  BY <2>1, <3>2
    <3> QED BY <3>1, <3>3
  <2>3. CASE t \notin R  BY <1>4, <2>3 DEF TypeOK
  <2> QED BY <2>2, <2>3
<1>7. ASSUME NEW t \in Tasks PROVE Recorded(t)'
  <2>1. t \notin Busy /\ t \notin Busy'  BY <1>1 DEF Busy
  <2>2. CASE t \in R
    <3>1. /\ records'[t] = <<"skipped">> /\ Len(records'[t]) = 1 /\ Last(records'[t]) = "skipped"
          /\ records'[t] # <<>> /\ result'[t] = "none"
      BY <1>1, <1>2, <1>3, <2>2
    <3>2. \A i \in 1..(Len(records'[t]) - 1) : records'[t][i] = "failed"  BY <3>1
    <3>3. result'[t] # "output" /\ Last(records'[t]) # "completed" /\ result'[t] # "nothing"
      BY <3>1
    <3>4. records'[t] \in {<<>>, <<"running">>, <<"skipped">>}  BY <3>1
    <3> QED BY <2>1, <3>2, <3>3, <3>4 DEF Recorded
  <2>3. CASE t \notin R
    <3>1. Recorded(t) /\ records'[t] = records[t] /\ result'[t] = result[t]  BY <1>4, <2>3
    <3> QED BY <2>1, <3>1, SameRecorded
  <2> QED BY <2>2, <2>3
<1> QED BY <1>3, <1>4, <1>5, <1>6, <1>7

LEMMA SkipFailedInv ==
  ASSUME Inv, SkipFailed
  PROVE  Inv'
<1> USE DEF Inv
<1>1. /\ Skippable \in SUBSET pending /\ Skippable # {} /\ phase = "loop" /\ wave = {}
      /\ \A t \in Skippable : \E u \in deps[t] : u \in failedSteps
  BY DEF SkipFailed, Skip, Looping, Skippable, Stages
<1>2. /\ pending' = pending \ Skippable /\ iterations' = iterations + 1
      /\ records' = [t \in Tasks |->
                       IF t \in Skippable THEN Append(records[t], "skipped") ELSE records[t]]
      /\ UNCHANGED <<deps, phase, completedSteps, failedSteps, wave, result, outputs,
                     verdict, error>>
  BY DEF SkipFailed, Skip
<1>3. /\ iterations' \in 0..(Cardinality(Tasks) + 1)
      /\ iterations' + Cardinality(pending') <= Cardinality(Tasks)
  BY <1>1, <1>2, IterationBound
<1>4. /\ records' \in [Tasks -> Seq(Outcomes)]
      /\ \A t \in Tasks : Len(records'[t]) <= RetryLimit[t] + 1
      /\ \A t \in Skippable : records'[t] = <<"skipped">>
      /\ \A t \in Tasks \ Skippable : records'[t] = records[t]
      /\ \A t \in Tasks : Recorded(t)'
  BY <1>1, <1>2, SkipRecords
<1>5. TypeOK'  BY <1>1, <1>2, <1>3, <1>4 DEF TypeOK, Outcomes
<1>6. Stages'
  <2>1. \A t \in pending' : result'[t] = "none" /\ records'[t] = <<>>
    BY <1>1, <1>2, <1>4 DEF Stages, TypeOK
  <2>2. ASSUME NEW t \in Tasks, t \notin pending', t \notin wave', result'[t] = "none"
        PROVE  records'[t] = <<"skipped">> /\ \E u \in deps'[t] : u \in failedSteps'
    <3>1. CASE t \in Skippable  BY <1>1, <1>2, <1>4, <3>1
    <3>2. CASE t \notin Skippable  BY <1>1, <1>2, <1>4, <2>2, <3>2 DEF Stages
    <3> QED BY <3>1, <3>2
  <2> QED BY <1>1, <1>2, <1>3, <2>1, <2>2 DEF Stages
<1>7. Merged'  BY <1>2 DEF Merged, Succeeded
<1>8. DependenciesComplete'  BY <1>2 DEF DependenciesComplete, Started
<1>9. Concluded'  BY <1>1, <1>2 DEF Concluded, Stages
<1> QED BY <1>4, <1>5, <1>6, <1>7, <1>8, <1>9

(* Settling the run leaves every fact about the steps as it was.           *)
LEMMA FinishInv ==
  ASSUME Inv, NEW s \in {"completed", "failed"}, NEW why \in {"", "steps", "stalled", "unexpected"},
         Finish(s, why),
         TypeOK', \A t \in Tasks : Recorded(t)',
         \A t \in Tasks : t \notin pending => records'[t] = records[t],
         (s = "completed" \/ why = "steps") =>
           /\ pending = {} /\ wave = {}
           /\ s = "completed" => failedSteps = {}
  PROVE  Inv'
<1> USE DEF Inv
<1>1. /\ phase' = "finished" /\ verdict' = s /\ error' = why
      /\ UNCHANGED <<deps, iterations, pending, completedSteps, failedSteps, wave, result, outputs>>
  BY DEF Finish
<1>2. Stages'
  <2>1. ASSUME NEW t \in Tasks, t \notin pending', t \notin wave', result'[t] = "none"
        PROVE  records'[t] = <<"skipped">> /\ \E u \in deps'[t] : u \in failedSteps'
    BY <1>1, <2>1 DEF Stages
  <2>2. \A t \in pending' : result'[t] = "none"  BY <1>1 DEF Stages
  <2>3. pending' \cap wave' = {} /\ iterations' + Cardinality(pending') <= Cardinality(Tasks)
    BY <1>1 DEF Stages
  <2> QED BY <1>1, <2>1, <2>2, <2>3 DEF Stages
<1>3. Merged'  BY <1>1 DEF Merged, Succeeded
<1>4. DependenciesComplete'  BY <1>1 DEF DependenciesComplete, Started
<1>5. Concluded'  BY <1>1 DEF Concluded
<1> QED BY <1>2, <1>3, <1>4, <1>5

(* The same when no record is written.                                     *)
LEMMA FinishQuietly ==
  ASSUME Inv, NEW s \in {"completed", "failed"}, NEW why \in {"", "steps", "stalled", "unexpected"},
         Finish(s, why), UNCHANGED records,
         (s = "completed" \/ why = "steps") =>
           /\ pending = {} /\ wave = {}
           /\ s = "completed" => failedSteps = {}
  PROVE  Inv'
<1>1. TypeOK'  BY DEF Inv, TypeOK, Finish
<1>2. ASSUME NEW t \in Tasks PROVE Recorded(t)'
  <2>1. Recorded(t) /\ Busy' = Busy  BY DEF Inv, Finish, Busy
  <2> QED BY <2>1 DEF Recorded, Finish
<1> QED BY <1>1, <1>2, FinishInv

LEMMA ConcludeInv ==
  ASSUME Inv, Conclude
  PROVE  Inv'
<1>1. phase = "loop" /\ ~Looping /\ wave = {} /\ UNCHANGED records
  BY DEF Conclude, Inv, Stages
<1>2. pending = {}
  <2>1. iterations + Cardinality(pending) <= Cardinality(Tasks)
        /\ pending \in SUBSET Tasks /\ iterations \in 0..(Cardinality(Tasks) + 1)
    BY DEF Inv, Stages, TypeOK
  <2>2. Cardinality(pending) \in Nat
    <3>1. IsFiniteSet(pending)  BY <2>1, OrchestratorAssumption, FS_Subset
    <3> QED BY <3>1, FS_CardinalityType
  <2> DEFINE p == Cardinality(pending)  n == Cardinality(Tasks)
  <2>3. p \in Nat /\ n \in Nat /\ iterations + p <= n /\ iterations \in 0..(n + 1)
    BY <2>1, <2>2, TaskCount
  <2>4. pending = {} \/ ~(iterations < n + 1)  BY <1>1 DEF Looping
  <2> HIDE DEF p, n
  <2> QED BY <2>3, <2>4
<1>3. CASE failedSteps # {}
  <2>1. Finish("failed", "steps")  BY <1>3 DEF Conclude
  <2> QED BY <1>1, <1>2, <2>1, FinishQuietly
<1>4. CASE failedSteps = {}
  <2>1. Finish("completed", "")  BY <1>4 DEF Conclude
  <2> QED BY <1>1, <1>2, <1>4, <2>1, FinishQuietly
<1> QED BY <1>3, <1>4

LEMMA CoordinatorErrorInv ==
  ASSUME Inv, CoordinatorError
  PROVE  Inv'
<1>1. phase = "loop" /\ Finish("failed", "unexpected")  BY DEF CoordinatorError
<1>2. PICK R \in SUBSET pending :
        records' = [t \in Tasks |->
                      IF t \in R THEN Append(records[t], "skipped") ELSE records[t]]
  <2>1. PICK R \in SUBSET (IF Looping /\ Ready = {} THEN Skippable ELSE {}) :
          records' = [t \in Tasks |->
                        IF t \in R THEN Append(records[t], "skipped") ELSE records[t]]
    BY DEF CoordinatorError
  <2>2. R \in SUBSET pending  BY DEF Skippable
  <2> QED BY <2>1, <2>2
<1>3. UNCHANGED <<wave, result>>  BY <1>1 DEF Finish
<1>4. /\ records' \in [Tasks -> Seq(Outcomes)]
      /\ \A t \in Tasks : Len(records'[t]) <= RetryLimit[t] + 1
      /\ \A t \in Tasks \ R : records'[t] = records[t]
      /\ \A t \in Tasks : Recorded(t)'
  BY <1>1, <1>2, <1>3, SkipRecords
<1>5. TypeOK'  BY <1>1, <1>4 DEF Inv, TypeOK, Finish, Outcomes
<1>6. \A t \in Tasks : t \notin pending => records'[t] = records[t]  BY <1>4
<1> QED BY <1>1, <1>4, <1>5, <1>6, FinishInv

LEMMA MergeWaveInv ==
  ASSUME Inv, MergeWave
  PROVE  Inv'
<1> USE DEF Inv
<1>1. /\ phase = "wave" /\ \A t \in wave : result[t] # "none"
      /\ completedSteps' = completedSteps \cup {t \in wave : result[t] \in {"output", "nothing"}}
      /\ failedSteps' = failedSteps \cup {t \in wave : result[t] = "failure"}
      /\ outputs' = outputs \cup {t \in wave : result[t] = "output"}
      /\ wave' = {} /\ phase' = "loop"
      /\ UNCHANGED <<deps, iterations, pending, result, records, verdict, error>>
  BY DEF MergeWave, Merge
<1>2. wave \subseteq Tasks  BY DEF TypeOK
<1>3. TypeOK'  BY <1>1, <1>2 DEF TypeOK
<1>4. Stages'
  <2>1. ASSUME NEW t \in Tasks, t \notin pending', result'[t] = "none"
        PROVE  records'[t] = <<"skipped">> /\ \E u \in deps'[t] : u \in failedSteps'
    BY <1>1, <2>1 DEF Stages
  <2> QED BY <1>1, <2>1 DEF Stages
<1>5. Merged'  BY <1>1, <1>2 DEF Merged, Succeeded
<1>6. ASSUME NEW t \in Tasks PROVE Recorded(t)'
  <2>1. t \notin Busy'  BY <1>1 DEF Busy
  <2> QED BY <1>1, <2>1 DEF Recorded
<1>7. DependenciesComplete'  BY <1>1 DEF DependenciesComplete, Started
<1>8. Concluded'  BY <1>1 DEF Concluded, Stages
<1> QED BY <1>3, <1>4, <1>5, <1>6, <1>7, <1>8

LEMMA CoordinateInv ==
  ASSUME Inv, Coordinate
  PROVE  Inv'
<1>1. CASE Stall
  <2>1. Finish("failed", "stalled") /\ UNCHANGED records  BY <1>1 DEF Stall
  <2> QED BY <2>1, FinishQuietly
<1> QED
  BY <1>1, StartWaveInv, SkipFailedInv, ConcludeInv, MergeWaveInv DEF Coordinate

LEMMA FailuresInv ==
  ASSUME Inv, Failures
  PROVE  Inv'
<1>1. ASSUME NEW t \in Tasks, CrashInPool(t) PROVE Inv'
  <2>1. /\ phase = "wave" /\ t \in wave /\ result[t] = "none"
        /\ result' = [result EXCEPT ![t] = "failure"] /\ UNCHANGED <<coordinator, records>>
    BY <1>1 DEF CrashInPool, MayStart, Busy
  <2>2. result'[t] = "failure" /\ \A u \in Tasks \ {t} : result'[u] = result[u]
    BY <2>1 DEF Inv, TypeOK
  <2>3. TypeOK'  BY <2>1 DEF Inv, TypeOK
  <2>4. Recorded(t)'
    <3>1. Recorded(t) /\ t \notin Busy'  BY <2>2 DEF Inv, Busy
    <3> QED BY <2>1, <2>2, <3>1 DEF Recorded
  <2> QED BY <2>1, <2>2, <2>3, <2>4, ThreadStep
<1>2. ASSUME NEW t \in Tasks, CrashSequential(t) PROVE Inv'
  <2>1. Finish("failed", "unexpected") /\ UNCHANGED records  BY <1>2 DEF CrashSequential
  <2> QED BY <2>1, FinishQuietly
<1> QED BY <1>1, <1>2, CoordinatorErrorInv DEF Failures

LEMMA StepInv == Inv /\ [Next]_vars => Inv'
<1> SUFFICES ASSUME Inv, [Next]_vars PROVE Inv'
  OBVIOUS
<1>1. CASE UNCHANGED vars
  <2>1. TypeOK' /\ Stages' /\ Merged'
    BY <1>1 DEF Inv, TypeOK, Stages, Merged, Succeeded
  <2>2. ASSUME NEW t \in Tasks PROVE Recorded(t)'
    BY <1>1 DEF Inv, Recorded, Busy
  <2>3. DependenciesComplete' /\ Concluded'
    BY <1>1 DEF Inv, DependenciesComplete, Started, Concluded
  <2> QED BY <2>1, <2>2, <2>3 DEF Inv
<1> QED BY <1>1, CoordinateInv, WorkInv, FailuresInv DEF Next

LEMMA AlwaysInv == Spec => []Inv
BY InitInv, StepInv, PTL DEF Spec

-----------------------------------------------------------------------------
(* Theorems                                                                *)

(* Type correctness: in particular no step ever has more than              *)
(* retry_limit + 1 task records, whatever interrupts its attempts.         *)
THEOREM TypeCorrect == Spec => []TypeOK
<1>1. Inv => TypeOK  BY DEF Inv
<1> QED BY <1>1, AlwaysInv, PTL

(* In every graph a step is dispatched only after all it depends on        *)
(* succeeded, and the outputs its template reads are there.                *)
THEOREM DependenciesAlwaysFirst == Spec => []DependenciesFirst
<1>1. Inv => DependenciesFirst
  <2> SUFFICES ASSUME Inv, NEW t \in Tasks, Started(t)
               PROVE  deps[t] \subseteq completedSteps /\ deps[t] \ Agentless \subseteq outputs
    BY DEF DependenciesFirst
  <2>1. deps[t] \subseteq completedSteps  BY DEF Inv, DependenciesComplete
  <2>2. completedSteps \ Agentless \subseteq outputs
    BY DEF Inv, Merged, Succeeded, Recorded
  <2> QED BY <2>1, <2>2
<1> QED BY <1>1, AlwaysInv, PTL

(* The records a user reads agree with what the run was settled from.      *)
THEOREM RecordsAgree == Spec => []RecordsConsistent
<1>1. Inv => RecordsConsistent  BY DEF Inv, Recorded, RecordsConsistent
<1> QED BY <1>1, AlwaysInv, PTL

(* A run that reports failed steps has dealt with every step: the bound of *)
(* the for loop never leaves one behind.                                   *)
THEOREM NothingLeftBehind == Spec => []FailureAccountsForAll
<1>1. Inv => FailureAccountsForAll
  <2> SUFFICES ASSUME Inv, error = "steps", NEW t \in Tasks, ~Succeeded(t), result[t] # "failure"
               PROVE  records[t] = <<"skipped">>
                      /\ \E d \in deps[t] \cap Tasks : result[d] = "failure"
    BY DEF FailureAccountsForAll
  <2>1. result[t] = "none" /\ t \notin pending /\ t \notin wave
    BY DEF Inv, TypeOK, Succeeded, Concluded
  <2>2. records[t] = <<"skipped">> /\ \E d \in deps[t] : d \in failedSteps
    BY <2>1 DEF Inv, Stages
  <2> QED BY <2>2 DEF Inv, Merged
<1> QED BY <1>1, AlwaysInv, PTL

(* A run reported completed really is: every step succeeded and every step *)
(* with an agent has its output.                                           *)
CompletedAll ==
  verdict = "completed" => (\A t \in Tasks : Succeeded(t)) /\ outputs = Tasks \ Agentless

THEOREM CompletedMeansAll == Spec => []CompletedAll
<1>1. Inv => CompletedAll
  <2> SUFFICES ASSUME Inv, verdict = "completed"
               PROVE  (\A t \in Tasks : Succeeded(t)) /\ outputs = Tasks \ Agentless
    BY DEF CompletedAll
  <2>1. pending = {} /\ wave = {} /\ failedSteps = {}  BY DEF Inv, Concluded
  <2>2. \A t \in Tasks : Succeeded(t)
    BY <2>1 DEF Inv, Stages, Merged, TypeOK, Succeeded
  <2>3. ASSUME NEW t \in Tasks PROVE t \in outputs <=> t \notin Agentless
    <3>1. t \in outputs <=> result[t] = "output"  BY <2>1 DEF Inv, Merged
    <3>2. t \in Agentless => ~(records[t] # <<>> /\ Last(records[t]) = "completed")
      BY DEF Inv, Recorded, Last
    <3> QED BY <2>2, <3>1, <3>2 DEF Inv, Recorded, Succeeded
  <2>4. outputs \subseteq Tasks  BY DEF Inv, TypeOK
  <2> QED BY <2>2, <2>3, <2>4
<1> QED BY <1>1, AlwaysInv, PTL

-----------------------------------------------------------------------------
(* The graph.  What completed or was dispatched lies in every closed set,  *)
(* so only steps that can ever be ready are dispatched.                    *)

Grounded == completedSteps \union wave \subseteq Reachable

LEMMA SameGraph == deps' = deps => Reachable' = Reachable
  BY DEF Reachable, Closed

LEMMA GroundedInit == Init => Grounded
  BY DEF Init, Grounded

LEMMA GroundedStep ==
  ASSUME Inv, Grounded, [Next]_vars
  PROVE  Grounded'
<1>1. deps' = deps
  BY DEF Next, Coordinate, StartWave, SkipFailed, Skip, Stall, Conclude, Finish, MergeWave, Merge,
         Work, StartAttempt, SkipAgentless, Succeed, Retry, AttemptFails, GiveUp, LastAttempt,
         TaskEnds, Failures, CoordinatorError, CrashInPool, CrashSequential
<1>2. CASE StartWave
  <2>1. completedSteps' = completedSteps /\ wave' = Ready  BY <1>2 DEF StartWave
  <2>2. ASSUME NEW t \in Ready PROVE t \in Reachable
    <3>1. t \in Tasks /\ deps[t] \subseteq completedSteps  BY DEF Ready, Inv, TypeOK
    <3>2. ASSUME NEW S \in SUBSET Tasks, Closed(S) PROVE t \in S
      <4>1. completedSteps \subseteq S  BY <3>2 DEF Grounded, Reachable
      <4> QED BY <3>1, <3>2, <4>1 DEF Closed
    <3> QED BY <3>1, <3>2 DEF Reachable
  <2> QED BY <1>1, <2>1, <2>2, SameGraph DEF Grounded
<1>3. CASE MergeWave
  <2>1. completedSteps' \subseteq completedSteps \union wave /\ wave' = {}
    BY <1>3 DEF MergeWave, Merge
  <2> QED BY <1>1, <2>1, SameGraph DEF Grounded
<1>4. CASE ~StartWave /\ ~MergeWave
  <2>1. UNCHANGED <<completedSteps, wave>>
    BY <1>4 DEF Next, Coordinate, SkipFailed, Skip, Stall, Conclude, Finish, Work, StartAttempt,
         SkipAgentless, Succeed, Retry, AttemptFails, GiveUp, LastAttempt,
         TaskEnds, Failures, CoordinatorError, CrashInPool, CrashSequential
  <2> QED BY <1>1, <2>1, SameGraph DEF Grounded
<1> QED BY <1>2, <1>3, <1>4

LEMMA AlwaysGrounded == Spec => []Grounded
<1>1. Inv /\ Grounded /\ [Next]_vars => Grounded'  BY GroundedStep
<1> QED BY <1>1, GroundedInit, AlwaysInv, PTL DEF Spec

(* A run is reported completed only if every step succeeded, and then the  *)
(* graph has no cycle and no unknown name, whatever graph was given.       *)
THEOREM CompletedAlwaysComplete == Spec => []CompletedIsComplete
<1>1. Inv /\ Grounded /\ CompletedAll => CompletedIsComplete
  <2> SUFFICES ASSUME Inv, Grounded, CompletedAll, verdict = "completed"
               PROVE  Reachable = Tasks
    BY DEF CompletedIsComplete, CompletedAll
  <2>1. \A t \in Tasks : Succeeded(t)  BY DEF CompletedAll
  <2>2. \A t \in Tasks : t \in completedSteps \/ t \in wave  BY <2>1 DEF Inv, Merged
  <2> QED BY <2>2 DEF Grounded, Reachable
<1> QED BY <1>1, AlwaysInv, AlwaysGrounded, CompletedMeansAll, PTL

(* The completed steps of a stall without a failure are closed and leave   *)
(* out a step that waits.                                                  *)
LEMMA StallStep ==
  ASSUME Inv, StallHasCause, [Next]_vars
  PROVE  StallHasCause'
<1>1. CASE Stall
  <2>1. /\ phase = "loop" /\ pending # {} /\ Ready = {}
        /\ UNCHANGED <<deps, completedSteps, failedSteps>>
    BY <1>1 DEF Stall, Looping, Finish
  <2>2. ASSUME failedSteps = {} PROVE Reachable # Tasks
    <3>1. ASSUME NEW t \in Tasks, deps[t] \subseteq completedSteps PROVE t \in completedSteps
      <4>1. t \notin pending  BY <2>1, <2>2, <3>1 DEF Ready
      <4>2. wave = {}  BY <2>1 DEF Inv, Stages
      <4>3. result[t] # "none"  BY <2>2, <4>1, <4>2 DEF Inv, Stages
      <4>4. result[t] # "failure"  BY <2>2, <4>2 DEF Inv, Merged
      <4> QED BY <4>2, <4>3, <4>4 DEF Inv, TypeOK, Merged, Succeeded
    <3>2. completedSteps \in SUBSET Tasks /\ Closed(completedSteps)
      BY <3>1 DEF Inv, TypeOK, Closed
    <3>3. PICK t \in pending : t \in Tasks  BY <2>1 DEF Inv, TypeOK
    <3>4. t \notin completedSteps  BY <3>3 DEF Inv, Stages, Merged, Succeeded
    <3> QED BY <3>2, <3>3, <3>4 DEF Reachable
  <2> QED BY <2>1, <2>2, SameGraph DEF StallHasCause
<1>2. CASE ~Stall /\ phase # "finished"
  <2>1. error = ""  BY <1>2 DEF Inv, Stages
  <2>2. error' # "stalled"
    BY <1>2, <2>1 DEF Next, Coordinate, StartWave, SkipFailed, Skip, Conclude, Finish, MergeWave,
       Merge, Work, StartAttempt, SkipAgentless, Succeed, Retry, AttemptFails, GiveUp, LastAttempt,
       TaskEnds, Failures, CoordinatorError, CrashInPool, CrashSequential
  <2> QED BY <2>2 DEF StallHasCause
<1>3. CASE ~Stall /\ phase = "finished"
  <2>1. UNCHANGED vars
    BY <1>3 DEF Next, Coordinate, StartWave, SkipFailed, Skip, Conclude, MergeWave, Looping,
       Merge, Work, StartAttempt, SkipAgentless, Succeed, Retry, AttemptFails, GiveUp, LastAttempt,
       Failures, CoordinatorError, CrashInPool, CrashSequential
  <2> QED BY <2>1, SameGraph DEF StallHasCause
<1> QED BY <1>1, <1>2, <1>3

(* A stall is always explained: a step failed, or the graph is not well    *)
(* founded.                                                                *)
THEOREM StallsHaveCause == Spec => []StallHasCause
<1>1. Init => StallHasCause  BY DEF Init, StallHasCause
<1>2. Inv /\ StallHasCause /\ [Next]_vars => StallHasCause'  BY StallStep
<1> QED BY <1>1, <1>2, AlwaysInv, PTL DEF Spec

-----------------------------------------------------------------------------
(* Below a failure                                                         *)

(* What a step that failed blocks: the least set with every step that      *)
(* depends on it or on a step of the set.                                  *)
Downstream(t) ==
  {u \in Tasks : \A S \in SUBSET Tasks :
     (\A v \in Tasks : deps[v] \cap (S \union {t}) # {} => v \in S) => u \in S}

(* The part of DownstreamSkipped the code does guarantee.                  *)
NothingRunsBelow ==
  \A t \in Tasks : result[t] = "failure" => \A u \in Downstream(t) : ~Started(u)

(* The steps that wait for one that failed never reach a wave: the set of  *)
(* steps not started holds every step that depends on it.                  *)
THEOREM FailureBlocksDownstream == Spec => []NothingRunsBelow
<1>1. Inv => NothingRunsBelow
  <2> SUFFICES ASSUME Inv, NEW t \in Tasks, result[t] = "failure", NEW u \in Downstream(t)
               PROVE  ~Started(u)
    BY DEF NothingRunsBelow
  <2> DEFINE Idlers == {v \in Tasks : ~Started(v)}
  <2>1. ASSUME NEW v \in Tasks, deps[v] \cap (Idlers \union {t}) # {} PROVE v \in Idlers
    <3>1. PICK d \in deps[v] : d \in Idlers \/ d = t  BY <2>1
    <3>2. d \notin completedSteps
      <4>1. CASE d = t  BY <4>1 DEF Inv, Merged, Succeeded
      <4>2. CASE d \in Idlers  BY <4>2 DEF Inv, Merged, Succeeded, Started
      <4> QED BY <3>1, <4>1, <4>2
    <3> QED BY <2>1, <3>1, <3>2 DEF Inv, DependenciesComplete
  <2>2. Idlers \in SUBSET Tasks  OBVIOUS
  <2> HIDE DEF Idlers
  <2>3. u \in Idlers  BY <2>1, <2>2 DEF Downstream
  <2> QED BY <2>3 DEF Idlers
<1> QED BY <1>1, AlwaysInv, PTL

-----------------------------------------------------------------------------
(* Termination, as far as steps go: progress that every step makes and     *)
(* that has a limit.                                                       *)

(* How far the coordinator has come, and the thread of a step.             *)
Position ==
  IF phase = "finished" THEN 2 * Cardinality(Tasks) + 4
  ELSE 2 * iterations + (IF phase = "loop" THEN 1 ELSE 0)

EffortOf(attempts, answer) ==
  2 * Len(attempts)
    - (IF attempts # <<>> /\ Last(attempts) = "running" THEN 1 ELSE 0)
    + (IF answer # "none" THEN 1 ELSE 0)

Effort(t) == EffortOf(records[t], result[t])

(* Neither can go further than this.                                      *)
Limited ==
  /\ Position \in 0..(2 * Cardinality(Tasks) + 4)
  /\ \A t \in Tasks : Effort(t) \in 0..(2 * RetryLimit[t] + 3)

(* A step takes one of them further and none back.                         *)
Advances ==
  /\ Position' >= Position
  /\ \A t \in Tasks : Effort(t)' >= Effort(t)
  /\ Position' > Position \/ \E t \in Tasks : Effort(t)' > Effort(t)

LEMMA EffortAppend ==
  ASSUME NEW s \in Seq(Outcomes), NEW x \in Outcomes, NEW answer
  PROVE  /\ EffortOf(s, answer) \in Int /\ EffortOf(Append(s, x), answer) \in Int
         /\ EffortOf(Append(s, x), answer) > EffortOf(s, answer)
<1>1. Len(s) \in Nat  OBVIOUS
<1>2. Append(s, x) # <<>> /\ Len(Append(s, x)) = Len(s) + 1  BY AppendFacts
<1> DEFINE n == Len(s)  m == Len(Append(s, x))
           a == IF s # <<>> /\ Last(s) = "running" THEN 1 ELSE 0
           b == IF Append(s, x) # <<>> /\ Last(Append(s, x)) = "running" THEN 1 ELSE 0
           k == IF answer # "none" THEN 1 ELSE 0
<1>3. n \in Nat /\ m = n + 1 /\ a \in {0, 1} /\ b \in {0, 1} /\ k \in {0, 1}
  BY <1>1, <1>2
<1>4. EffortOf(s, answer) = 2 * n - a + k /\ EffortOf(Append(s, x), answer) = 2 * m - b + k
  BY DEF EffortOf
<1> HIDE DEF n, m, a, b, k
<1>5. 2 * n - a + k \in Int /\ 2 * m - b + k \in Int /\ 2 * m - b + k > 2 * n - a + k  BY <1>3
<1> QED BY <1>4, <1>5

LEMMA EffortReplace ==
  ASSUME NEW s \in Seq(Outcomes), s # <<>>, Last(s) = "running",
         NEW x \in Outcomes, x # "running", NEW answer
  PROVE  /\ EffortOf(s, "none") \in Int /\ EffortOf(Append(Front(s), x), answer) \in Int
         /\ EffortOf(Append(Front(s), x), answer) > EffortOf(s, "none")
<1>1. PICK r \in Seq(Outcomes) : /\ r = Append(Front(s), x) /\ r # <<>>
                                 /\ Len(r) = Len(s) /\ Last(r) = x
  BY ReplaceLastFacts
<1>2. PICK n \in Nat : n = Len(s)  OBVIOUS
<1> DEFINE k == IF answer # "none" THEN 1 ELSE 0
<1>3. EffortOf(s, "none") = 2 * n - 1  BY <1>2 DEF EffortOf
<1>4. EffortOf(r, answer) = 2 * n - 0 + k  BY <1>1, <1>2 DEF EffortOf
<1>5. k \in {0, 1}  OBVIOUS
<1> HIDE DEF k
<1> QED BY <1>1, <1>2, <1>3, <1>4, <1>5

LEMMA EffortAnswer ==
  ASSUME NEW s \in Seq(Outcomes), NEW answer, answer # "none"
  PROVE  /\ EffortOf(s, "none") \in Int /\ EffortOf(s, answer) = EffortOf(s, "none") + 1
<1> DEFINE a == IF s # <<>> /\ Last(s) = "running" THEN 1 ELSE 0
<1>1. a \in {0, 1} /\ Len(s) \in Nat  OBVIOUS
<1>2. EffortOf(s, "none") = 2 * Len(s) - a + 0 /\ EffortOf(s, answer) = 2 * Len(s) - a + 1
  BY DEF EffortOf
<1> HIDE DEF a
<1> QED BY <1>1, <1>2

LEMMA EffortBound ==
  ASSUME NEW s \in Seq(Outcomes), NEW limit \in Nat, Len(s) <= limit + 1, NEW answer
  PROVE  EffortOf(s, answer) \in 0..(2 * limit + 3)
<1> DEFINE a == IF s # <<>> /\ Last(s) = "running" THEN 1 ELSE 0
           k == IF answer # "none" THEN 1 ELSE 0
<1>1. PICK n \in Nat : n = Len(s)  OBVIOUS
<1>2. a \in {0, 1} /\ k \in {0, 1} /\ (n = 0 => a = 0)
  BY <1>1, EmptySeq
<1>3. EffortOf(s, answer) = 2 * n - a + k  BY <1>1 DEF EffortOf
<1> HIDE DEF a, k
<1>4. n <= limit + 1  BY <1>1
<1> QED BY <1>2, <1>3, <1>4

LEMMA WithinLimits == Inv => Limited
<1> SUFFICES ASSUME Inv PROVE Limited
  OBVIOUS
<1>1. PICK n \in Nat : n = Cardinality(Tasks)  BY TaskCount
<1>2. iterations \in 0..(n + 1)  BY <1>1 DEF Inv, TypeOK
<1>3. Position \in 0..(2 * n + 4)
  <2>1. Position = 2 * n + 4 \/ Position = 2 * iterations + 1 \/ Position = 2 * iterations + 0
    BY <1>1 DEF Position
  <2> QED BY <1>2, <2>1
<1>4. ASSUME NEW t \in Tasks PROVE Effort(t) \in 0..(2 * RetryLimit[t] + 3)
  <2>1. records[t] \in Seq(Outcomes) /\ Len(records[t]) <= RetryLimit[t] + 1
    BY DEF Inv, TypeOK, Outcomes
  <2>2. RetryLimit[t] \in Nat  BY OrchestratorAssumption
  <2> QED BY <2>1, <2>2, EffortBound DEF Effort
<1> QED BY <1>1, <1>3, <1>4 DEF Limited

(* A step of the coordinator goes on, and takes back no record.            *)
LEMMA Onward ==
  ASSUME Inv, phase # "finished", result' = result,
         \/ phase' = "finished"
         \/ phase' # "finished" /\ iterations' = iterations + 1
         \/ phase = "wave" /\ phase' = "loop" /\ iterations' = iterations,
         \A t \in Tasks :
           records'[t] = records[t] \/ \E x \in Outcomes : records'[t] = Append(records[t], x)
  PROVE  Advances
<1>1. PICK n \in Nat : n = Cardinality(Tasks)  BY TaskCount
<1>2. iterations \in 0..(n + 1)  BY <1>1 DEF Inv, TypeOK
<1>3. Position' > Position /\ Position' >= Position
  <2>1. Position = 2 * iterations + (IF phase = "loop" THEN 1 ELSE 0)  BY DEF Position
  <2>2. CASE phase' = "finished"
    <3>1. Position' = 2 * n + 4  BY <1>1, <2>2 DEF Position
    <3> QED BY <1>2, <2>1, <3>1
  <2>3. CASE phase' # "finished" /\ iterations' = iterations + 1
    <3>1. Position' = 2 * (iterations + 1) + (IF phase' = "loop" THEN 1 ELSE 0)
      BY <2>3 DEF Position
    <3> QED BY <1>2, <2>1, <3>1
  <2>4. CASE phase = "wave" /\ phase' = "loop" /\ iterations' = iterations
    <3>1. Position' = 2 * iterations + 1 /\ Position = 2 * iterations + 0
      BY <2>1, <2>4 DEF Position
    <3> QED BY <1>2, <3>1
  <2> QED BY <2>2, <2>3, <2>4
<1>4. ASSUME NEW t \in Tasks PROVE Effort(t)' >= Effort(t)
  <2>1. records[t] \in Seq(Outcomes)  BY DEF Inv, TypeOK, Outcomes
  <2>2. Effort(t) = EffortOf(records[t], result[t]) /\ Effort(t)' = EffortOf(records'[t], result[t])
    BY DEF Effort, EffortOf
  <2>3. \A x \in Outcomes : /\ EffortOf(records[t], result[t]) \in Int
                            /\ EffortOf(Append(records[t], x), result[t]) \in Int
                            /\ EffortOf(Append(records[t], x), result[t]) > EffortOf(records[t], result[t])
    BY <2>1, EffortAppend
  <2>4. "running" \in Outcomes  BY DEF Outcomes
  <2>5. EffortOf(records[t], result[t]) \in Int  BY <2>3, <2>4
  <2>6. CASE records'[t] = records[t]  BY <2>2, <2>5, <2>6
  <2>7. CASE \E x \in Outcomes : records'[t] = Append(records[t], x)
    <3>1. PICK x \in Outcomes : records'[t] = Append(records[t], x)  BY <2>7
    <3> QED BY <2>2, <2>3, <3>1
  <2> QED BY <2>6, <2>7
<1> QED BY <1>3, <1>4 DEF Advances

(* A step of one thread does, and the others and the coordinator wait.     *)
LEMMA ThreadOnward ==
  ASSUME Inv, UNCHANGED coordinator, NEW t \in Tasks,
         Effort(t)' > Effort(t), Effort(t) \in Int, Effort(t)' \in Int,
         \A u \in Tasks \ {t} : result'[u] = result[u] /\ records'[u] = records[u]
  PROVE  Advances
<1>1. Position' = Position /\ Position \in Int
  <2>1. Position' = Position  BY DEF Position
  <2>2. PICK n \in Nat : n = Cardinality(Tasks)  BY TaskCount
  <2> QED BY <2>1, <2>2, WithinLimits DEF Limited
<1>2. ASSUME NEW u \in Tasks \ {t} PROVE Effort(u)' = Effort(u) /\ Effort(u) \in Int
  <2>1. Effort(u)' = Effort(u)  BY DEF Effort
  <2>2. RetryLimit[u] \in Nat  BY OrchestratorAssumption
  <2> QED BY <2>1, <2>2, WithinLimits DEF Limited
<1> QED BY <1>1, <1>2 DEF Advances

LEMMA WorkAdvances ==
  ASSUME Inv, NEW t \in Tasks, Work(t) \/ CrashInPool(t)
  PROVE  Advances
<1>1. records[t] \in Seq(Outcomes) /\ "running" \in Outcomes  BY DEF Inv, TypeOK, Outcomes
<1>2. CASE StartAttempt(t)
  <2>1. UNCHANGED <<coordinator, result>> /\ records' = [records EXCEPT ![t] = Append(@, "running")]
    BY <1>2 DEF StartAttempt
  <2>2. records'[t] = Append(records[t], "running") /\ \A u \in Tasks \ {t} : records'[u] = records[u]
    BY <2>1 DEF Inv, TypeOK
  <2>3. Effort(t)' = EffortOf(Append(records[t], "running"), result[t])
    BY <2>1, <2>2 DEF Effort
  <2>4. Effort(t)' > Effort(t) /\ Effort(t) \in Int /\ Effort(t)' \in Int
    BY <1>1, <2>3, EffortAppend DEF Effort
  <2> QED BY <2>1, <2>2, <2>4, ThreadOnward
<1>3. CASE CrashInPool(t)
  <2>1. /\ result[t] = "none" /\ UNCHANGED <<coordinator, records>>
        /\ result' = [result EXCEPT ![t] = "failure"]
    BY <1>3 DEF CrashInPool, MayStart, Busy
  <2>2. result'[t] = "failure" /\ \A u \in Tasks \ {t} : result'[u] = result[u]
    BY <2>1 DEF Inv, TypeOK
  <2>3. Effort(t) = EffortOf(records[t], "none") /\ Effort(t)' = EffortOf(records[t], "failure")
    BY <2>1, <2>2 DEF Effort
  <2>4. EffortOf(records[t], "none") \in Int
        /\ EffortOf(records[t], "failure") = EffortOf(records[t], "none") + 1
    BY <1>1, EffortAnswer
  <2>5. Effort(t)' > Effort(t) /\ Effort(t) \in Int /\ Effort(t)' \in Int  BY <2>3, <2>4
  <2> QED BY <2>1, <2>2, <2>5, ThreadOnward
<1>4. CASE SkipAgentless(t) \/ Succeed(t) \/ Retry(t) \/ GiveUp(t)
  <2>1. Running(t) /\ UNCHANGED coordinator
    BY <1>4 DEF SkipAgentless, Succeed, Retry, GiveUp, LastAttempt, AttemptFails, TaskEnds
  <2>2. records[t] # <<>> /\ Last(records[t]) = "running" /\ result[t] = "none"
    BY <2>1 DEF Running, Busy
  <2>3. PICK x \in {"completed", "failed", "skipped"} : records' = SetLast(t, x)
    BY <1>4 DEF SkipAgentless, Succeed, Retry, GiveUp, LastAttempt, AttemptFails, TaskEnds
  <2>4. records'[t] = Append(Front(records[t]), x) /\ \A u \in Tasks \ {t} : records'[u] = records[u]
    BY <2>3 DEF SetLast, Inv, TypeOK
  <2>5. \A u \in Tasks \ {t} : result'[u] = result[u]
    BY <1>4 DEF SkipAgentless, Succeed, Retry, GiveUp, LastAttempt, AttemptFails, TaskEnds, Inv, TypeOK
  <2>6. x \in Outcomes /\ x # "running"  BY DEF Outcomes
  <2>7. Effort(t) = EffortOf(records[t], "none")
        /\ Effort(t)' = EffortOf(Append(Front(records[t]), x), result'[t])
    BY <2>2, <2>4 DEF Effort
  <2>8. Effort(t)' > Effort(t) /\ Effort(t) \in Int /\ Effort(t)' \in Int
    BY <1>1, <2>2, <2>6, <2>7, EffortReplace
  <2> QED BY <2>1, <2>4, <2>5, <2>8, ThreadOnward
<1> QED BY <1>2, <1>3, <1>4 DEF Work

LEMMA NextAdvances ==
  ASSUME Inv, Next
  PROVE  Advances
<1>1. CASE StartWave
  BY <1>1, Onward DEF StartWave, Looping
<1>2. CASE SkipFailed
  <2>1. /\ phase = "loop" /\ UNCHANGED <<phase, result>> /\ iterations' = iterations + 1
        /\ records' = [t \in Tasks |->
                         IF t \in Skippable THEN Append(records[t], "skipped") ELSE records[t]]
    BY <1>2 DEF SkipFailed, Skip, Looping
  <2>2. "skipped" \in Outcomes  BY DEF Outcomes
  <2> QED BY <2>1, <2>2, Onward
<1>3. CASE Stall \/ Conclude
  BY <1>3, Onward DEF Stall, Conclude, Looping, Finish
<1>4. CASE MergeWave
  BY <1>4, Onward DEF MergeWave, Merge
<1>5. CASE CoordinatorError
  <2>1. phase = "loop" /\ phase' = "finished" /\ result' = result  BY <1>5 DEF CoordinatorError, Finish
  <2>2. PICK done : records' = [t \in Tasks |->
                       IF t \in done THEN Append(records[t], "skipped") ELSE records[t]]
    BY <1>5 DEF CoordinatorError
  <2>3. "skipped" \in Outcomes  BY DEF Outcomes
  <2> QED BY <2>1, <2>2, <2>3, Onward
<1>6. ASSUME NEW t \in Tasks, Work(t) \/ CrashInPool(t) PROVE Advances
  BY <1>6, WorkAdvances
<1>7. ASSUME NEW t \in Tasks, CrashSequential(t) PROVE Advances
  BY <1>7, Onward DEF CrashSequential, Finish
<1> QED BY <1>1, <1>2, <1>3, <1>4, <1>5, <1>6, <1>7 DEF Next, Coordinate, Failures

(* Every step of an execution takes the coordinator or a thread further,   *)
(* none takes one back, and both have an end: whatever the graph, the      *)
(* failures and the retries, no execution goes round for ever.             *)
THEOREM StepsRunOut == Spec => []Limited /\ [][Advances]_vars
<1>1. Inv => Limited  BY WithinLimits
<1>2. Inv /\ [Next]_vars => [Advances]_vars  BY NextAdvances
<1> QED BY <1>1, <1>2, AlwaysInv, PTL DEF Spec

-----------------------------------------------------------------------------
(* The runs of an agent.  What a run, the session it holds and the agent   *)
(* say of each other, whatever the other runs and the hourly job do.       *)

(* The rows and what a generator holds in memory.                          *)
Exchange == [by : Runs, text : {"", "clean", "leaky", "withheld", "blocked", "error"}]

Meta == [text : {"", "clean", "leaky", "withheld"}, cost : {0, 1}]

Row == [pc : {"idle", "asked", "opened", "scanned", "answered", "completed", "appended",
              "told", "done", "handling", "ended", "gone"},
        status : {"none", "started", "completed", "failed"},
        text : {"", "clean", "leaky", "withheld", "blocked", "error"},
        cost : {0, 1}, month : Months,
        told : SUBSET {"agent_invoked", "task_completed", "task_failed"},
        span : {"none", "UNSET", "OK", "ERROR"},
        session : Runs \union {"none"},
        messages : Seq(Exchange), meta : Meta, flag : BOOLEAN]

AgentTypes ==
  /\ agent \in [platform : Platforms, level : Levels, telemetry : Telemetry,
                cap : Caps, flag : BOOLEAN]
  /\ alert \in {"none", "open", "resolved"}
  /\ month \in Months
  /\ job \in [pc : {"idle", "loaded"}, flag : BOOLEAN, month : Months]

RunTypes ==
  /\ run \in [Runs -> Row]
  /\ convo \in [Runs -> Seq(Exchange)]
  /\ contended \subseteq Runs

Holding(row) == row.pc \in {"asked", "opened", "scanned", "answered", "completed"}

Saved(row) == row.status = "completed" /\ row.pc \in {"appended", "told", "done", "ended"}

(* What a run has written when its generator is at a step.                 *)
Story(row, telemetry) ==
  /\ row.pc \in {"completed", "appended", "told", "done"} => row.status = "completed"
  /\ row.pc \notin {"handling", "ended", "gone"} =>
       "task_failed" \notin row.told /\ row.span # "ERROR"
  /\ row.pc \in {"told", "done"} /\ telemetry => "task_completed" \in row.told
  /\ row.pc = "ended" =>
       /\ row.status \in {"completed", "failed"}
       /\ row.status = "completed" =>
            /\ "task_failed" \notin row.told
            /\ row.span # "ERROR"
            /\ (telemetry => "task_completed" \in row.told)
       /\ row.status = "failed" /\ row.text # "blocked" /\ telemetry =>
            "task_failed" \in row.told

Unleaked(messages) == \A i \in DOMAIN messages : messages[i].text # "leaky"

(* What a run of a blocking agent stores and will store.                   *)
Withheld(row) ==
  /\ row.status = "completed" => row.text # "leaky"
  /\ row.pc = "answered" => row.meta.text # "leaky"
  /\ Unleaked(row.messages)

Begins(messages, said) ==
  Len(messages) <= Len(said) /\ \A i \in 1..Len(messages) : said[i] = messages[i]

(* A run and the session it was given.                                     *)
Attached(row) ==
  /\ row.pc = "idle" => row.status = "none" /\ row.messages = <<>>
  /\ row.pc # "idle" => row.session \in Runs

InSession(r, row, said) ==
  /\ Holding(row) => row.messages = said
  /\ Begins(row.messages, said)
  /\ Saved(row) => \E i \in DOMAIN said : said[i].by = r

Stories == \A r \in Runs : Story(run[r], agent.telemetry)

Leakproof ==
  agent.level = "block" =>
    (\A r \in Runs : Withheld(run[r])) /\ (\A c \in Runs : Unleaked(convo[c]))

Alone ==
  \A r, q \in Runs : r # q /\ Holding(run[r]) /\ Holding(run[q]) /\ run[r].session = run[q].session
                     => run[r].session \in contended

Serial ==
  \A r \in Runs : run[r].session \in Runs \ contended =>
    InSession(r, run[r], convo[run[r].session])

(* A run whose exchange may be in a conversation.                          *)
Entered(row) ==
  /\ row.pc \in {"appended", "told", "done", "handling", "ended", "gone"}
  /\ row.status \in {"completed", "failed"}

(* What a list of messages says of the runs of session c: each exchange is *)
(* of a run of that session, is there once, and is the answer in the row   *)
(* unless the run was reported failed after all.                           *)
TrueOf(said, c) ==
  \A i \in DOMAIN said :
    /\ run[said[i].by].session = c /\ Entered(run[said[i].by])
    /\ run[said[i].by].status = "completed" => said[i].text = run[said[i].by].text
    /\ \A j \in DOMAIN said : said[j].by = said[i].by => j = i

ConversationsTrue ==
  /\ \A c \in Runs : TrueOf(convo[c], c)
  /\ \A r \in Runs : TrueOf(run[r].messages, run[r].session)

(* What a step that does not append must leave to a row.                   *)
Keeps(old, new) ==
  Entered(old) =>
    /\ Entered(new)
    /\ new.status = "completed" => old.status = "completed" /\ new.text = old.text

RunInv ==
  /\ RunTypes
  /\ \A r \in Runs : Attached(run[r])
  /\ Stories
  /\ Leakproof
  /\ Alone
  /\ Serial
  /\ ConversationsTrue

(* Sequences of exchanges                                                  *)

LEMMA AppendExchangeFacts ==
  ASSUME NEW s \in Seq(Exchange), NEW x \in Exchange
  PROVE  /\ Append(s, x) \in Seq(Exchange)
         /\ Len(s) \in Nat
         /\ Len(Append(s, x)) = Len(s) + 1
         /\ \A i \in 1..Len(s) : Append(s, x)[i] = s[i]
         /\ Append(s, x)[Len(s) + 1] = x
         /\ DOMAIN s = 1..Len(s) /\ DOMAIN Append(s, x) = 1..(Len(s) + 1)
<1>1. Append(s, x) \in Seq(Exchange) /\ Len(Append(s, x)) = Len(s) + 1  BY AppendProperties
<1>2. Append(s, x)[Len(s) + 1] = x /\ \A i \in 1..Len(s) : Append(s, x)[i] = s[i]
  BY AppendProperties
<1>3. Len(s) \in Nat /\ DOMAIN s = 1..Len(s) /\ DOMAIN Append(s, x) = 1..(Len(s) + 1)
  BY <1>1, LenProperties
<1> QED BY <1>1, <1>2, <1>3

LEMMA BeginsAppend ==
  ASSUME NEW m \in Seq(Exchange), NEW s \in Seq(Exchange), NEW x \in Exchange, Begins(m, s)
  PROVE  Begins(m, Append(s, x))
<1>1. Len(m) \in Nat /\ Len(s) \in Nat  BY LenProperties
<1> QED BY <1>1, AppendExchangeFacts DEF Begins

LEMMA BeginsSubSeq ==
  ASSUME NEW m \in Seq(Exchange), NEW s \in Seq(Exchange), Begins(m, s)
  PROVE  SubSeq(s, 1, Len(m)) = m
<1>1. PICK n \in Nat : n = Len(m)  BY LenProperties
<1>2. Len(s) \in Nat /\ \A i \in 1..Len(s) : s[i] \in Exchange  BY LenProperties, ElementOfSeq
<1>3. n <= Len(s) /\ \A i \in 1..n : s[i] = m[i]  BY <1>1 DEF Begins
<1>4. n \in Int /\ 1 \in Int /\ \A i \in 1..n : s[i] \in Exchange  BY <1>2, <1>3
<1>5. /\ SubSeq(s, 1, n) \in Seq(Exchange)
      /\ Len(SubSeq(s, 1, n)) = IF 1 <= n THEN n - 1 + 1 ELSE 0
      /\ \A i \in 1..(n - 1 + 1) : SubSeq(s, 1, n)[i] = s[1 + i - 1]
  BY ONLY <1>4, SubSeqProperties
<1>6. Len(SubSeq(s, 1, n)) = n  BY <1>5
<1>7. \A i \in 1..n : SubSeq(s, 1, n)[i] = m[i]  BY <1>3, <1>5
<1> QED BY <1>1, <1>5, <1>6, <1>7, SeqEqual

LEMMA EmptyBegins ==
  ASSUME NEW s \in Seq(Exchange)
  PROVE  <<>> \in Seq(Exchange) /\ Begins(<<>>, s) /\ Begins(s, s) /\ Unleaked(<<>>)
<1>1. Len(s) \in Nat  BY LenProperties
<1>2. <<>> \in Seq(Exchange) /\ Len(<<>>) = 0 /\ DOMAIN <<>> = {}  OBVIOUS
<1> QED BY <1>1, <1>2 DEF Begins, Unleaked

LEMMA Answers ==
  ASSUME NEW p
  PROVE  SelectAdapter(p) \subseteq [text : {"clean", "leaky"}, cost : {0, 1}]
<1>1. \A S, T, U : S \subseteq T /\ U \subseteq {0, 1} => Said(S, U) \subseteq [text : T, cost : {0, 1}]
  BY DEF Said
<1>2. PriceRun(TRUE) \subseteq {0, 1} /\ PriceRun(FALSE) \subseteq {0, 1}  BY DEF PriceRun
<1> DEFINE A == [text : {"clean", "leaky"}, cost : {0, 1}]
<1>3. Said({"clean", "leaky"}, PriceRun(TRUE)) \subseteq A  BY <1>1, <1>2
<1>4. Said({"clean", "leaky"}, PriceRun(FALSE)) \subseteq A  BY <1>1, <1>2
<1>5. Said({"clean"}, PriceRun(FALSE)) \subseteq A  BY <1>1, <1>2
<1> HIDE DEF A
<1>6. /\ DjangoRuntimeAdapter \subseteq A /\ OpenAIAdapter \subseteq A /\ BedrockAdapter \subseteq A
      /\ HttpApiAdapter \subseteq A /\ EchoAdapter \subseteq A
  BY <1>3, <1>4, <1>5 DEF DjangoRuntimeAdapter, OpenAIAdapter, BedrockAdapter, HttpApiAdapter, EchoAdapter
<1>7. SelectAdapter(p) \subseteq A
  BY <1>6 DEF SelectAdapter
<1> QED BY <1>7 DEF A

-----------------------------------------------------------------------------
(* The agent: only its flag ever changes.                                  *)

SameAgent == agent'.level = agent.level /\ agent'.telemetry = agent.telemetry

LEMMA AgentInit == RuntimeInit => AgentTypes
<1>1. 1 \in Months  BY MonthAssumption DEF Months
<1>2. NoJob \in [pc : {"idle", "loaded"}, flag : BOOLEAN, month : Months]  BY <1>1 DEF NoJob
<1> QED BY <1>1, <1>2 DEF RuntimeInit, AgentTypes

LEMMA FlagChange ==
  ASSUME AgentTypes, NEW f \in BOOLEAN
  PROVE  LET a == [agent EXCEPT !.flag = f] IN
         /\ a \in [platform : Platforms, level : Levels, telemetry : Telemetry,
                   cap : Caps, flag : BOOLEAN]
         /\ a.level = agent.level /\ a.telemetry = agent.telemetry
BY DEF AgentTypes

LEMMA OverBoolean == ASSUME NEW m, NEW cap PROVE Over(m, cap) \in BOOLEAN
BY DEF Over

LEMMA AgentStep ==
  ASSUME AgentTypes, run \in [Runs -> Row], [RuntimeNext]_runtimeVars
  PROVE  AgentTypes' /\ SameAgent
<1>1. CASE \E r \in Runs : CheckBudget(r)
  <2>1. PICK r \in Runs : CheckBudget(r)  BY <1>1
  <2>2. UNCHANGED <<month, job>>  BY <2>1 DEF CheckBudget
  <2>3. alert' \in {"none", "open", "resolved"}
    BY <2>1 DEF CheckBudget, AgentTypes, Breached, Resolved
  <2>4. agent' = agent \/ \E f \in BOOLEAN : agent' = [agent EXCEPT !.flag = f]
    BY <2>1, OverBoolean DEF CheckBudget
  <2> QED BY <2>2, <2>3, <2>4, FlagChange DEF AgentTypes, SameAgent
<1>2. CASE ComputeBudgets
  <2>1. month' = month /\ job' = NoJob  BY <1>2 DEF ComputeBudgets
  <2>2. job' \in [pc : {"idle", "loaded"}, flag : BOOLEAN, month : Months]
    BY <2>1, MonthAssumption DEF NoJob, Months
  <2>3. alert' \in {"none", "open", "resolved"}
    BY <1>2 DEF ComputeBudgets, AgentTypes, JobAlert, Breached, Resolved
  <2>4. agent' = agent \/ \E f \in BOOLEAN : agent' = [agent EXCEPT !.flag = f]
    BY <1>2 DEF ComputeBudgets
  <2> QED BY <2>1, <2>2, <2>3, <2>4, FlagChange DEF AgentTypes, SameAgent
<1>3. CASE JobDies
  <2>1. UNCHANGED <<agent, month>> /\ job' = NoJob  BY <1>3 DEF JobDies
  <2>2. job' \in [pc : {"idle", "loaded"}, flag : BOOLEAN, month : Months]
    BY <2>1, MonthAssumption DEF NoJob, Months
  <2>3. alert' \in {"none", "open", "resolved"}
    BY <1>3 DEF JobDies, AgentTypes, JobAlert, Breached, Resolved
  <2> QED BY <2>1, <2>2, <2>3 DEF AgentTypes, SameAgent
<1>4. CASE JobLoad
  BY <1>4 DEF JobLoad, AgentTypes, SameAgent
<1>5. CASE NextMonth
  <2>1. month' \in Months  BY <1>5, MonthAssumption DEF NextMonth, AgentTypes, Months
  <2> QED BY <1>5, <2>1 DEF NextMonth, AgentTypes, SameAgent
<1>6. CASE ~ComputeBudgets /\ ~JobDies /\ ~JobLoad /\ ~NextMonth /\ ~\E r \in Runs : CheckBudget(r)
  <2>1. UNCHANGED <<agent, alert, month, job>>
    BY <1>6 DEF RuntimeNext, Step, RunAgent, Start, StartFails, Scan, Execute, Complete,
         AppendExchange, Report, Done, Raise, Fail, FailFails, Disconnect, Crash
  <2> QED BY <2>1 DEF AgentTypes, SameAgent
<1> QED BY <1>1, <1>2, <1>3, <1>4, <1>5, <1>6

-----------------------------------------------------------------------------
(* What the conversations say                                              *)

(* A step that leaves the conversations alone and settles no answer twice. *)
LEMMA TrueKept ==
  ASSUME RunInv, convo' = convo,
         NEW r \in Runs, NEW new \in Row, run' = [run EXCEPT ![r] = new],
         new.session = run[r].session, new.messages \in {<<>>, run[r].messages},
         Keeps(run[r], new)
  PROVE  ConversationsTrue'
<1>1. run'[r] = new /\ \A q \in Runs : q # r => run'[q] = run[q]
  BY DEF RunInv, RunTypes
<1>2. ASSUME NEW s \in Seq(Exchange), NEW c, TrueOf(s, c) PROVE TrueOf(s, c)'
  <2> SUFFICES ASSUME NEW i \in DOMAIN s
               PROVE  /\ run'[s[i].by].session = c /\ Entered(run'[s[i].by])
                      /\ run'[s[i].by].status = "completed" => s[i].text = run'[s[i].by].text
                      /\ \A j \in DOMAIN s : s[j].by = s[i].by => j = i
    BY DEF TrueOf, Entered
  <2>1. s[i] \in Exchange  BY ElementOfSeq, LenProperties
  <2>2. PICK q \in Runs : q = s[i].by  BY <2>1 DEF Exchange
  <2>3. /\ run[q].session = c /\ Entered(run[q])
        /\ run[q].status = "completed" => s[i].text = run[q].text
        /\ \A j \in DOMAIN s : s[j].by = s[i].by => j = i
    BY <1>2, <2>2 DEF TrueOf
  <2>4. CASE q # r  BY <1>1, <2>2, <2>3, <2>4
  <2>5. CASE q = r  BY <1>1, <2>2, <2>3, <2>5 DEF Keeps
  <2> QED BY <2>4, <2>5
<1>3. ASSUME NEW c \in Runs PROVE TrueOf(convo[c], c)'
  <2>1. PICK s \in Seq(Exchange) : s = convo[c]  BY DEF RunInv, RunTypes
  <2>2. TrueOf(s, c)  BY <2>1 DEF RunInv, ConversationsTrue
  <2>3. TrueOf(s, c)'  BY <1>2, <2>2
  <2> QED BY <2>1, <2>3 DEF TrueOf
<1>4. ASSUME NEW q \in Runs PROVE TrueOf(run[q].messages, run[q].session)'
  <2>1. run[q] \in Row  BY DEF RunInv, RunTypes
  <2>2. PICK s \in Seq(Exchange) : s = run[q].messages  BY <2>1 DEF Row
  <2>3. PICK c : c = run[q].session  OBVIOUS
  <2>4. TrueOf(s, c)'  BY <1>2, <2>2, <2>3 DEF RunInv, ConversationsTrue
  <2>5. run'[q].session = c /\ run'[q].messages \in {<<>>, s}  BY <1>1, <2>2, <2>3
  <2>6. CASE run'[q].messages = <<>>  BY <2>6 DEF TrueOf
  <2>7. CASE run'[q].messages = s  BY <2>4, <2>5, <2>7 DEF TrueOf
  <2> QED BY <2>5, <2>6, <2>7
<1> QED BY <1>3, <1>4 DEF RunInv, ConversationsTrue

(* A run that takes up a session reads what is true.                       *)
LEMMA TrueRunAgent ==
  ASSUME RunInv, NEW r \in Runs, RunAgent(r)
  PROVE  ConversationsTrue'
<1>1. run[r].pc = "idle" /\ convo' = convo  BY DEF RunAgent
<1>2. PICK c \in {r} \union {run[q].session : q \in {p \in Runs : run[p].pc # "idle"}} :
        run' = [run EXCEPT ![r] = [@ EXCEPT !.pc = "asked", !.session = c,
                     !.messages = convo[c], !.flag = agent.flag]]
  BY DEF RunAgent
<1>3. c \in Runs  BY DEF RunInv, Attached
<1>4. run[r] \in Row  BY DEF RunInv, RunTypes
<1>5. /\ run'[r].session = c /\ run'[r].messages = convo[c]
      /\ \A q \in Runs : q # r => run'[q] = run[q]
  BY <1>2, <1>4 DEF RunInv, RunTypes, Row
<1>6. ASSUME NEW s \in Seq(Exchange), NEW d, TrueOf(s, d) PROVE TrueOf(s, d)'
  <2>1. ASSUME NEW i \in DOMAIN s PROVE s[i].by \in Runs /\ s[i].by # r
    <3>1. s[i] \in Exchange  BY ElementOfSeq, LenProperties
    <3>2. run[s[i].by].pc # "idle"  BY <1>6 DEF TrueOf, Entered
    <3> QED BY <1>1, <3>1, <3>2 DEF Exchange
  <2> QED BY <1>5, <1>6, <2>1 DEF TrueOf, Entered
<1>7. ASSUME NEW d \in Runs PROVE TrueOf(convo[d], d)'
  <2>1. PICK s \in Seq(Exchange) : s = convo[d]  BY DEF RunInv, RunTypes
  <2>2. TrueOf(s, d)'  BY <1>6, <2>1 DEF RunInv, ConversationsTrue
  <2> QED BY <1>1, <2>1, <2>2 DEF TrueOf
<1>8. ASSUME NEW q \in Runs PROVE TrueOf(run[q].messages, run[q].session)'
  <2>1. CASE q = r
    <3>1. TrueOf(convo[c], c)'  BY <1>3, <1>7
    <3> QED BY <1>1, <1>5, <2>1, <3>1 DEF TrueOf
  <2>2. CASE q # r
    <3>1. run[q] \in Row  BY DEF RunInv, RunTypes
    <3>2. PICK s \in Seq(Exchange) : s = run[q].messages  BY <3>1 DEF Row
    <3>3. PICK d : d = run[q].session  OBVIOUS
    <3>4. TrueOf(s, d)'  BY <1>6, <3>2, <3>3 DEF RunInv, ConversationsTrue
    <3> QED BY <1>5, <2>2, <3>2, <3>3, <3>4 DEF TrueOf
  <2> QED BY <2>1, <2>2
<1> QED BY <1>7, <1>8 DEF RunInv, ConversationsTrue

(* A completed run is in no list yet, so it is recorded once.              *)
LEMMA TrueAppendExchange ==
  ASSUME RunInv, NEW r \in Runs, AppendExchange(r)
  PROVE  ConversationsTrue'
<1>1. run[r].pc = "completed" /\ run[r].status = "completed" /\ run[r] \in Row
      /\ run[r].session \in Runs
  BY DEF AppendExchange, RunInv, RunTypes, Attached, Stories, Story
<1>2. PICK c \in Runs : c = run[r].session  BY <1>1
<1>3. PICK x \in Exchange : x = [by |-> r, text |-> run[r].text]  BY <1>1 DEF Row, Exchange
<1>4. PICK m \in Seq(Exchange) : m = run[r].messages  BY <1>1 DEF Row
<1>5. convo'[c] = Append(m, x) /\ \A d \in Runs : d # c => convo'[d] = convo[d]
  BY <1>2, <1>3, <1>4 DEF AppendExchange, RunInv, RunTypes
<1>6. /\ run'[r].pc = "appended" /\ run'[r].status = "completed" /\ run'[r].text = run[r].text
      /\ run'[r].session = c /\ run'[r].messages = m
      /\ \A q \in Runs : q # r => run'[q] = run[q]
  BY <1>1, <1>2, <1>4 DEF AppendExchange, RunInv, RunTypes, Row
<1>7. ASSUME NEW s \in Seq(Exchange), NEW d, TrueOf(s, d)
      PROVE  TrueOf(s, d)' /\ \A i \in DOMAIN s : s[i].by # r
  <2>1. ASSUME NEW i \in DOMAIN s PROVE s[i].by \in Runs /\ s[i].by # r
    <3>1. s[i] \in Exchange  BY ElementOfSeq, LenProperties
    <3>2. run[s[i].by].pc # "completed"  BY <1>7 DEF TrueOf, Entered
    <3> QED BY <1>1, <3>1, <3>2 DEF Exchange
  <2> QED BY <1>6, <1>7, <2>1 DEF TrueOf, Entered
<1>8. TrueOf(Append(m, x), c)'
  <2>1. TrueOf(m, c)' /\ \A i \in DOMAIN m : m[i].by # r
    BY <1>2, <1>4, <1>7 DEF RunInv, ConversationsTrue
  <2>2. /\ Len(m) \in Nat /\ DOMAIN m = 1..Len(m) /\ DOMAIN Append(m, x) = 1..(Len(m) + 1)
        /\ Append(m, x)[Len(m) + 1] = x /\ \A i \in 1..Len(m) : Append(m, x)[i] = m[i]
    BY AppendExchangeFacts
  <2>3. x.by = r /\ x.text = run'[r].text  BY <1>3, <1>6
  <2>4. run'[r].session = c /\ Entered(run'[r])  BY <1>6 DEF Entered
  <2>5. ASSUME NEW i \in 1..(Len(m) + 1)
        PROVE  /\ run'[Append(m, x)[i].by].session = c /\ Entered(run'[Append(m, x)[i].by])
               /\ run'[Append(m, x)[i].by].status = "completed" =>
                    Append(m, x)[i].text = run'[Append(m, x)[i].by].text
               /\ \A j \in 1..(Len(m) + 1) : Append(m, x)[j].by = Append(m, x)[i].by => j = i
    <3>1. \A j \in 1..(Len(m) + 1) : j = Len(m) + 1 \/ j \in 1..Len(m)  BY <2>2
    <3>2. CASE i = Len(m) + 1  BY <2>1, <2>2, <2>3, <2>4, <3>1, <3>2
    <3>3. CASE i \in 1..Len(m)
      <4>1. Append(m, x)[i] = m[i] /\ m[i].by # r  BY <2>1, <2>2, <3>3
      <4>2. /\ run'[m[i].by].session = c /\ Entered(run'[m[i].by])
            /\ run'[m[i].by].status = "completed" => m[i].text = run'[m[i].by].text
            /\ \A j \in DOMAIN m : m[j].by = m[i].by => j = i
        BY <2>1, <2>2, <3>3 DEF TrueOf, Entered
      <4> QED BY <2>2, <2>3, <3>1, <4>1, <4>2
    <3> QED BY <3>1, <3>2, <3>3
  <2> QED BY <2>2, <2>5 DEF TrueOf, Entered
<1>9. ASSUME NEW d \in Runs PROVE TrueOf(convo[d], d)'
  <2>1. CASE d = c  BY <1>5, <1>8, <2>1 DEF TrueOf
  <2>2. CASE d # c
    <3>1. PICK s \in Seq(Exchange) : s = convo[d]  BY DEF RunInv, RunTypes
    <3>2. TrueOf(s, d)'  BY <1>7, <3>1 DEF RunInv, ConversationsTrue
    <3> QED BY <1>5, <2>2, <3>1, <3>2 DEF TrueOf
  <2> QED BY <2>1, <2>2
<1>10. ASSUME NEW q \in Runs PROVE TrueOf(run[q].messages, run[q].session)'
  <2>1. run[q] \in Row  BY DEF RunInv, RunTypes
  <2>2. PICK s \in Seq(Exchange) : s = run[q].messages  BY <2>1 DEF Row
  <2>3. PICK d : d = run[q].session  OBVIOUS
  <2>4. TrueOf(s, d)'  BY <1>7, <2>2, <2>3 DEF RunInv, ConversationsTrue
  <2>5. run'[q].messages = s /\ run'[q].session = d  BY <1>2, <1>4, <1>6, <2>2, <2>3
  <2> QED BY <2>4, <2>5 DEF TrueOf
<1> QED BY <1>9, <1>10 DEF RunInv, ConversationsTrue

-----------------------------------------------------------------------------
(* A step that changes one row and no conversation.                        *)

LEMMA RowChange ==
  ASSUME RunInv, SameAgent, UNCHANGED <<convo, contended>>,
         NEW r \in Runs, NEW new \in Row, run' = [run EXCEPT ![r] = new],
         new.pc # "idle", new.session = run[r].session, new.session \in Runs,
         Story(new, agent.telemetry),
         agent.level = "block" => Withheld(new),
         new.messages \in {<<>>, run[r].messages},
         Holding(new) => Holding(run[r]) /\ new.messages = run[r].messages,
         Saved(new) => Saved(run[r]),
         Keeps(run[r], new)
  PROVE  RunInv'
<1>1. run'[r] = new /\ \A q \in Runs : q # r => run'[q] = run[q]
  BY DEF RunInv, RunTypes
<1>2. RunTypes'  BY DEF RunInv, RunTypes
<1>3. (\A q \in Runs : Attached(run[q]))'
  BY <1>1 DEF RunInv, Attached
<1>4. Stories'
  BY <1>1 DEF RunInv, Stories, Story, SameAgent
<1>5. Leakproof'
  BY <1>1 DEF RunInv, Leakproof, Withheld, Unleaked, SameAgent
<1>6. Alone'
  BY <1>1 DEF RunInv, Alone, Holding
<1>7. Serial'
  <2> SUFFICES ASSUME NEW q \in Runs, run'[q].session \in Runs \ contended
               PROVE  InSession(q, run'[q], convo[run'[q].session])
    BY DEF Serial, InSession, Holding, Begins, Saved
  <2>1. CASE q # r  BY <1>1, <2>1 DEF RunInv, Serial
  <2>2. CASE q = r
    <3>1. InSession(r, run[r], convo[new.session])  BY <1>1, <2>2 DEF RunInv, Serial
    <3>2. convo[new.session] \in Seq(Exchange)  BY DEF RunInv, RunTypes
    <3>3. Begins(new.messages, convo[new.session])  BY <3>1, <3>2, EmptyBegins DEF InSession
    <3> QED BY <1>1, <2>2, <3>1, <3>3 DEF InSession
  <2> QED BY <2>1, <2>2
<1>8. ConversationsTrue'  BY TrueKept
<1> QED BY <1>2, <1>3, <1>4, <1>5, <1>6, <1>7, <1>8 DEF RunInv

(* The fields of a row that failed.                                        *)
LEMMA FailedRow ==
  ASSUME NEW row \in Row, NEW text \in {"blocked", "error"}
  PROVE  LET new == [row EXCEPT !.status = "failed", !.text = text] IN
         /\ new \in Row /\ new.status = "failed" /\ new.text = text
         /\ new.pc = row.pc /\ new.session = row.session /\ new.messages = row.messages
BY DEF Row

LEMMA ToldRow ==
  ASSUME NEW row \in Row, NEW told \in SUBSET {"agent_invoked", "task_completed", "task_failed"}
  PROVE  LET new == [row EXCEPT !.told = told, !.span = "ERROR"] IN
         /\ new \in Row /\ new.told = told /\ new.status = row.status /\ new.text = row.text
         /\ new.pc = row.pc /\ new.session = row.session /\ new.messages = row.messages
BY DEF Row

(* What a run that leaves keeps.                                           *)
LEMMA Leaves ==
  ASSUME RunInv, NEW r \in Runs, run[r].pc # "idle",
         NEW pc \in {"ended", "gone"}
  PROVE  /\ Left(r, pc) \in Row
         /\ Left(r, pc).pc = pc /\ Left(r, pc).messages = <<>>
         /\ Left(r, pc).status = run[r].status /\ Left(r, pc).text = run[r].text
         /\ Left(r, pc).told = run[r].told /\ Left(r, pc).span = run[r].span
         /\ Left(r, pc).session = run[r].session /\ run[r].session \in Runs
<1>1. run[r] \in Row /\ run[r].session \in Runs  BY DEF RunInv, RunTypes, Attached
<1>2. NoMeta \in Meta  BY DEF NoMeta, Meta
<1>3. <<>> \in Seq(Exchange)  OBVIOUS
<1> QED BY <1>1, <1>2, <1>3 DEF Left, Row

LEMMA ToldType ==
  ASSUME RunInv, NEW r \in Runs,
         NEW event \in {"agent_invoked", "task_completed", "task_failed"}
  PROVE  /\ Told(r, event) \in SUBSET {"agent_invoked", "task_completed", "task_failed"}
         /\ run[r].told \subseteq Told(r, event)
         /\ Told(r, event) \subseteq run[r].told \union {event}
         /\ agent.telemetry => event \in Told(r, event)
<1>1. run[r] \in Row  BY DEF RunInv, RunTypes
<1> QED BY <1>1 DEF Told, Row

LEMMA GoneStep ==
  ASSUME RunInv, SameAgent, UNCHANGED <<convo, contended>>, NEW r \in Runs, run[r].pc # "idle",
         run' = [run EXCEPT ![r] = Left(r, "gone")]
  PROVE  RunInv'
<1> DEFINE new == Left(r, "gone")
<1>1. /\ new \in Row /\ new.pc = "gone" /\ new.messages = <<>>
      /\ new.status = run[r].status /\ new.text = run[r].text
      /\ new.session = run[r].session /\ new.session \in Runs
  BY Leaves
<1>2. run' = [run EXCEPT ![r] = new]  OBVIOUS
<1> HIDE DEF new
<1>3. Story(new, agent.telemetry)  BY <1>1 DEF Story
<1>4. agent.level = "block" => Withheld(new)
  BY <1>1, EmptyBegins DEF RunInv, Leakproof, Withheld, Unleaked
<1>5. ~Holding(new) /\ ~Saved(new) /\ Keeps(run[r], new)
  BY <1>1 DEF Holding, Saved, Keeps, Entered
<1> QED BY <1>1, <1>2, <1>3, <1>4, <1>5, RowChange

LEMMA StartStep ==
  ASSUME RunInv, AgentTypes, NEW r \in Runs, Start(r)
  PROVE  RunInv'
<1> DEFINE new == [run[r] EXCEPT !.pc = "opened", !.status = "started",
                     !.month = month, !.told = Told(r, "agent_invoked"), !.span = "UNSET"]
<1>1. run[r].pc = "asked" /\ run' = [run EXCEPT ![r] = new] /\ UNCHANGED <<agent, convo, contended>>
  BY DEF Start
<1>2. run[r] \in Row /\ run[r].session \in Runs  BY <1>1 DEF RunInv, RunTypes, Attached
<1>3. /\ new \in Row /\ new.pc = "opened" /\ new.status = "started"
      /\ new.told = Told(r, "agent_invoked") /\ new.span = "UNSET"
      /\ new.session = run[r].session /\ new.messages = run[r].messages
  BY <1>2, ToldType DEF Row, AgentTypes
<1> HIDE DEF new
<1>4. Story(new, agent.telemetry)  BY <1>1, <1>3, ToldType DEF RunInv, Stories, Story
<1>5. agent.level = "block" => Withheld(new)  BY <1>3 DEF RunInv, Leakproof, Withheld
<1>6. Holding(run[r]) /\ ~Saved(new) /\ Keeps(run[r], new)
  BY <1>1, <1>3 DEF Holding, Saved, Keeps, Entered
<1> QED BY <1>1, <1>2, <1>3, <1>4, <1>5, <1>6, RowChange DEF SameAgent

LEMMA StartFailsStep ==
  ASSUME RunInv, AgentTypes, NEW r \in Runs, StartFails(r)
  PROVE  RunInv'
<1> DEFINE new == [Left(r, "gone") EXCEPT !.status = "started", !.month = month]
<1>1. run[r].pc = "asked" /\ run' = [run EXCEPT ![r] = new] /\ UNCHANGED <<agent, convo, contended>>
  BY DEF StartFails
<1>2. run[r].session \in Runs  BY <1>1, Leaves
<1>0. PICK left \in Row : /\ left = Left(r, "gone") /\ left.pc = "gone" /\ left.messages = <<>>
                          /\ left.session = run[r].session
  BY <1>1, Leaves
<1>3. /\ new \in Row /\ new.pc = "gone" /\ new.status = "started"
      /\ new.session = run[r].session /\ new.messages = <<>>
  BY <1>0 DEF Row, AgentTypes
<1> HIDE DEF new
<1>4. Story(new, agent.telemetry)  BY <1>3 DEF Story
<1>5. Withheld(new)  BY <1>3 DEF Withheld, Unleaked
<1>6. ~Holding(new) /\ ~Saved(new) /\ Keeps(run[r], new)
  BY <1>1, <1>3 DEF Holding, Saved, Keeps, Entered
<1> QED BY <1>1, <1>2, <1>3, <1>4, <1>5, <1>6, RowChange DEF SameAgent

LEMMA ScanStep ==
  ASSUME RunInv, NEW r \in Runs, Scan(r)
  PROVE  RunInv'
<1> DEFINE blocked == [Left(r, "ended") EXCEPT !.status = "failed", !.text = "blocked"]
           passed == [run[r] EXCEPT !.pc = "scanned"]
<1>1. run[r].pc = "opened" /\ UNCHANGED <<agent, convo, contended>>
  BY DEF Scan
<1>2. run[r] \in Row /\ run[r].session \in Runs  BY <1>1 DEF RunInv, RunTypes, Attached
<1>3. PICK new \in {blocked, passed} : run' = [run EXCEPT ![r] = new]
  BY DEF Scan
<1>4. CASE new = blocked
  <2>0. PICK left \in Row : /\ left = Left(r, "ended") /\ left.pc = "ended" /\ left.messages = <<>>
                            /\ left.session = run[r].session
    BY <1>1, Leaves
  <2>1. /\ new \in Row /\ new.pc = "ended" /\ new.status = "failed" /\ new.text = "blocked"
        /\ new.session = run[r].session /\ new.messages = <<>>
    <3>1. new = [left EXCEPT !.status = "failed", !.text = "blocked"]  BY <1>4, <2>0
    <3> QED BY <2>0, <3>1, FailedRow
  <2> HIDE DEF blocked, passed
  <2>2. Story(new, agent.telemetry)  BY <2>1 DEF Story
  <2>3. Withheld(new)  BY <2>1 DEF Withheld, Unleaked
  <2>4. ~Holding(new) /\ ~Saved(new) /\ Keeps(run[r], new)
    BY <1>1, <2>1 DEF Holding, Saved, Keeps, Entered
  <2> QED BY <1>1, <1>2, <1>3, <2>1, <2>2, <2>3, <2>4, RowChange DEF SameAgent
<1>5. CASE new = passed
  <2>1. /\ new \in Row /\ new.pc = "scanned" /\ new.status = run[r].status
        /\ new.text = run[r].text /\ new.told = run[r].told /\ new.span = run[r].span
        /\ new.session = run[r].session /\ new.messages = run[r].messages
    BY <1>2, <1>5 DEF Row
  <2> HIDE DEF blocked, passed
  <2>2. Story(new, agent.telemetry)  BY <1>1, <2>1 DEF RunInv, Stories, Story
  <2>3. agent.level = "block" => Withheld(new)  BY <2>1 DEF RunInv, Leakproof, Withheld
  <2>4. Holding(run[r]) /\ ~Saved(new) /\ Keeps(run[r], new)
    BY <1>1, <2>1 DEF Holding, Saved, Keeps, Entered
  <2> QED BY <1>1, <1>2, <1>3, <2>1, <2>2, <2>3, <2>4, RowChange DEF SameAgent
<1> QED BY <1>3, <1>4, <1>5

LEMMA ExecuteStep ==
  ASSUME RunInv, NEW r \in Runs, Execute(r)
  PROVE  RunInv'
<1>1. run[r].pc = "scanned" /\ UNCHANGED <<agent, convo, contended>>
  BY DEF Execute
<1>2. run[r] \in Row /\ run[r].session \in Runs  BY <1>1 DEF RunInv, RunTypes, Attached
<1>3. PICK meta \in SelectAdapter(agent.platform) :
        run' = [run EXCEPT ![r] = [@ EXCEPT !.pc = "answered",
                 !.meta = [meta EXCEPT !.text = ScanOutput(agent.level, @)]]]
  BY DEF Execute
<1> DEFINE stored == [meta EXCEPT !.text = ScanOutput(agent.level, @)]
           new == [run[r] EXCEPT !.pc = "answered", !.meta = stored]
<1>4. meta \in [text : {"clean", "leaky"}, cost : {0, 1}]  BY Answers
<1>5. stored \in Meta /\ (agent.level = "block" => stored.text # "leaky")
  BY <1>4 DEF Meta, ScanOutput
<1> HIDE DEF stored
<1>6. /\ new \in Row /\ new.pc = "answered" /\ new.meta = stored /\ new.status = run[r].status
      /\ new.text = run[r].text /\ new.told = run[r].told /\ new.span = run[r].span
      /\ new.session = run[r].session /\ new.messages = run[r].messages
  BY <1>2, <1>5 DEF Row
<1>7. run' = [run EXCEPT ![r] = new]  BY <1>3 DEF stored
<1> HIDE DEF new
<1>8. Story(new, agent.telemetry)  BY <1>1, <1>6 DEF RunInv, Stories, Story
<1>9. agent.level = "block" => Withheld(new)  BY <1>5, <1>6 DEF RunInv, Leakproof, Withheld
<1>10. Holding(run[r]) /\ ~Saved(new) /\ Keeps(run[r], new)
  BY <1>1, <1>6 DEF Holding, Saved, Keeps, Entered
<1> QED BY <1>1, <1>2, <1>6, <1>7, <1>8, <1>9, <1>10, RowChange DEF SameAgent

LEMMA CompleteStep ==
  ASSUME RunInv, NEW r \in Runs, Complete(r)
  PROVE  RunInv'
<1>1. run[r].pc = "answered" /\ UNCHANGED <<agent, convo, contended>>  BY DEF Complete
<1>2. run[r] \in Row /\ run[r].session \in Runs  BY <1>1 DEF RunInv, RunTypes, Attached
<1>3. run[r].meta \in Meta  BY <1>2 DEF Row
<1>4. PICK text \in {"", "clean", "leaky", "withheld"}, cost \in {0, 1} :
        text = run[r].meta.text /\ cost = run[r].meta.cost
  BY <1>3 DEF Meta
<1>5. PICK none \in Meta : none = NoMeta  BY DEF Meta, NoMeta
<1> DEFINE new == [run[r] EXCEPT !.pc = "completed", !.status = "completed",
                     !.text = text, !.cost = cost, !.meta = none]
<1>6. run' = [run EXCEPT ![r] = new]  BY <1>4, <1>5 DEF Complete
<1>7. /\ new \in Row /\ new.pc = "completed" /\ new.status = "completed"
      /\ new.text = text /\ new.told = run[r].told /\ new.span = run[r].span
      /\ new.session = run[r].session /\ new.messages = run[r].messages
  BY <1>2 DEF Row
<1> HIDE DEF new
<1>8. Story(new, agent.telemetry)  BY <1>1, <1>7 DEF RunInv, Stories, Story
<1>9. agent.level = "block" => Withheld(new)
  BY <1>1, <1>4, <1>7 DEF RunInv, Leakproof, Withheld
<1>10. Holding(run[r]) /\ ~Saved(new) /\ Keeps(run[r], new)
  BY <1>1, <1>7 DEF Holding, Saved, Keeps, Entered
<1> QED BY <1>1, <1>2, <1>6, <1>7, <1>8, <1>9, <1>10, RowChange DEF SameAgent

LEMMA ReportStep ==
  ASSUME RunInv, NEW r \in Runs, Report(r)
  PROVE  RunInv'
<1> DEFINE new == [run[r] EXCEPT !.pc = "told", !.span = "OK", !.told = Told(r, "task_completed")]
<1>1. run[r].pc = "appended" /\ run' = [run EXCEPT ![r] = new] /\ UNCHANGED <<agent, convo, contended>>
  BY DEF Report
<1>2. run[r] \in Row /\ run[r].session \in Runs  BY <1>1 DEF RunInv, RunTypes, Attached
<1>3. /\ new \in Row /\ new.pc = "told" /\ new.status = run[r].status /\ new.text = run[r].text
      /\ new.told = Told(r, "task_completed") /\ new.span = "OK"
      /\ new.session = run[r].session /\ new.messages = run[r].messages
  BY <1>2, ToldType DEF Row
<1> HIDE DEF new
<1>4. Story(new, agent.telemetry)  BY <1>1, <1>3, ToldType DEF RunInv, Stories, Story
<1>5. agent.level = "block" => Withheld(new)  BY <1>3 DEF RunInv, Leakproof, Withheld
<1>6. ~Holding(new) /\ (Saved(new) => Saved(run[r])) /\ Keeps(run[r], new)
  BY <1>1, <1>3 DEF Holding, Saved, Keeps, Entered
<1> QED BY <1>1, <1>2, <1>3, <1>4, <1>5, <1>6, RowChange DEF SameAgent

LEMMA CheckBudgetStep ==
  ASSUME RunInv, SameAgent, NEW r \in Runs, CheckBudget(r)
  PROVE  RunInv'
<1> DEFINE new == [run[r] EXCEPT !.pc = "done"]
<1>1. run[r].pc = "told" /\ run' = [run EXCEPT ![r] = new] /\ UNCHANGED <<convo, contended>>
  BY DEF CheckBudget
<1>2. run[r] \in Row /\ run[r].session \in Runs  BY <1>1 DEF RunInv, RunTypes, Attached
<1>3. /\ new \in Row /\ new.pc = "done" /\ new.status = run[r].status /\ new.text = run[r].text
      /\ new.told = run[r].told /\ new.span = run[r].span
      /\ new.session = run[r].session /\ new.messages = run[r].messages
  BY <1>2 DEF Row
<1> HIDE DEF new
<1>4. Story(new, agent.telemetry)  BY <1>1, <1>3 DEF RunInv, Stories, Story
<1>5. agent.level = "block" => Withheld(new)  BY <1>3 DEF RunInv, Leakproof, Withheld
<1>6. ~Holding(new) /\ (Saved(new) => Saved(run[r])) /\ Keeps(run[r], new)
  BY <1>1, <1>3 DEF Holding, Saved, Keeps, Entered
<1> QED BY <1>1, <1>2, <1>3, <1>4, <1>5, <1>6, RowChange

LEMMA DoneStep ==
  ASSUME RunInv, NEW r \in Runs, Done(r)
  PROVE  RunInv'
<1>1. /\ run[r].pc = "done" /\ UNCHANGED <<agent, convo, contended>>
      /\ run' = [run EXCEPT ![r] = Left(r, "ended")]
  BY DEF Done
<1>2. PICK new \in Row : /\ new = Left(r, "ended") /\ new.pc = "ended" /\ new.messages = <<>>
                         /\ new.status = run[r].status /\ new.text = run[r].text
                         /\ new.told = run[r].told /\ new.span = run[r].span
                         /\ new.session = run[r].session /\ new.session \in Runs
  BY <1>1, Leaves
<1>3. run' = [run EXCEPT ![r] = new]  BY <1>1, <1>2
<1>4. Story(new, agent.telemetry)  BY <1>1, <1>2 DEF RunInv, Stories, Story
<1>5. agent.level = "block" => Withheld(new)
  BY <1>2 DEF RunInv, Leakproof, Withheld, Unleaked
<1>6. ~Holding(new) /\ (Saved(new) => Saved(run[r])) /\ Keeps(run[r], new)
  BY <1>1, <1>2 DEF Holding, Saved, Keeps, Entered
<1> QED BY <1>1, <1>2, <1>3, <1>4, <1>5, <1>6, RowChange DEF SameAgent

LEMMA RaiseStep ==
  ASSUME RunInv, NEW r \in Runs, Raise(r)
  PROVE  RunInv'
<1> DEFINE new == [run[r] EXCEPT !.pc = "handling"]
<1>1. run[r].pc # "idle" /\ run' = [run EXCEPT ![r] = new] /\ UNCHANGED <<agent, convo, contended>>
  BY DEF Raise
<1>2. run[r] \in Row /\ run[r].session \in Runs  BY <1>1 DEF RunInv, RunTypes, Attached
<1>3. /\ new \in Row /\ new.pc = "handling" /\ new.status = run[r].status /\ new.text = run[r].text
      /\ new.session = run[r].session /\ new.messages = run[r].messages
  BY <1>2 DEF Row
<1> HIDE DEF new
<1>4. Story(new, agent.telemetry)  BY <1>3 DEF Story
<1>5. agent.level = "block" => Withheld(new)  BY <1>3 DEF RunInv, Leakproof, Withheld
<1>6. ~Holding(new) /\ ~Saved(new) /\ Keeps(run[r], new)
  BY <1>1, <1>3 DEF Holding, Saved, Keeps, Entered
<1> QED BY <1>1, <1>2, <1>3, <1>4, <1>5, <1>6, RowChange DEF SameAgent

LEMMA FailStep ==
  ASSUME RunInv, NEW r \in Runs, Fail(r)
  PROVE  RunInv'
<1>1. run[r].pc = "handling" /\ UNCHANGED <<agent, convo, contended>>  BY DEF Fail
<1>2. PICK left \in Row : /\ left = Left(r, "ended") /\ left.pc = "ended" /\ left.messages = <<>>
                          /\ left.session = run[r].session /\ left.session \in Runs
  BY <1>1, Leaves
<1>0. PICK told \in SUBSET {"agent_invoked", "task_completed", "task_failed"} :
        told = Told(r, "task_failed")
  BY ToldType
<1> DEFINE new == [left EXCEPT !.status = "failed", !.text = "error", !.told = told, !.span = "ERROR"]
<1>3. run' = [run EXCEPT ![r] = new]  BY <1>0, <1>2 DEF Fail
<1>4. /\ new \in Row /\ new.pc = "ended" /\ new.status = "failed" /\ new.text = "error"
      /\ new.told = told /\ new.session = run[r].session /\ new.messages = <<>>
  <2>1. PICK row \in Row : /\ row = [left EXCEPT !.status = "failed", !.text = "error"]
                           /\ row.status = "failed" /\ row.text = "error" /\ row.pc = left.pc
                           /\ row.session = left.session /\ row.messages = left.messages
    BY FailedRow
  <2>2. new = [row EXCEPT !.told = told, !.span = "ERROR"]  BY <2>1
  <2> HIDE DEF new
  <2> QED BY <1>2, <2>1, <2>2, ToldRow
<1> HIDE DEF new
<1>5. Story(new, agent.telemetry)  BY <1>0, <1>4, ToldType DEF Story
<1>6. Withheld(new)  BY <1>4 DEF Withheld, Unleaked
<1>7. ~Holding(new) /\ ~Saved(new) /\ Keeps(run[r], new)
  BY <1>1, <1>4 DEF Holding, Saved, Keeps, Entered
<1> QED BY <1>1, <1>2, <1>3, <1>4, <1>5, <1>6, <1>7, RowChange DEF SameAgent

LEMMA FailFailsStep ==
  ASSUME RunInv, NEW r \in Runs, FailFails(r)
  PROVE  RunInv'
<1>1. run[r].pc = "handling" /\ UNCHANGED <<agent, convo, contended>>  BY DEF FailFails
<1>2. CASE run' = [run EXCEPT ![r] = Left(r, "gone")]
  BY <1>1, <1>2, GoneStep DEF SameAgent
<1>3. CASE run' = [run EXCEPT ![r] = [Left(r, "gone") EXCEPT !.status = "failed", !.text = "error"]]
  <2>1. PICK left \in Row : /\ left = Left(r, "gone") /\ left.pc = "gone" /\ left.messages = <<>>
                            /\ left.session = run[r].session /\ left.session \in Runs
    BY <1>1, Leaves
  <2> DEFINE new == [left EXCEPT !.status = "failed", !.text = "error"]
  <2>2. run' = [run EXCEPT ![r] = new]  BY <1>3, <2>1
  <2>3. /\ new \in Row /\ new.pc = "gone" /\ new.status = "failed"
        /\ new.session = run[r].session /\ new.messages = <<>>
    BY <2>1 DEF Row
  <2> HIDE DEF new
  <2>4. Story(new, agent.telemetry)  BY <2>3 DEF Story
  <2>5. Withheld(new)  BY <2>3 DEF Withheld, Unleaked
  <2>6. ~Holding(new) /\ ~Saved(new) /\ Keeps(run[r], new)
    BY <1>1, <2>3 DEF Holding, Saved, Keeps, Entered
  <2> QED BY <1>1, <2>1, <2>2, <2>3, <2>4, <2>5, <2>6, RowChange DEF SameAgent
<1> QED BY <1>2, <1>3 DEF FailFails

-----------------------------------------------------------------------------
(* The two steps that concern a session.                                   *)

(* A run takes up a session: nobody holds it, or it is contended now.      *)
LEMMA RunAgentStep ==
  ASSUME RunInv, AgentTypes, NEW r \in Runs, RunAgent(r)
  PROVE  RunInv'
<1>1. run[r].pc = "idle" /\ UNCHANGED <<agent, convo>>  BY DEF RunAgent
<1>2. run[r] \in Row /\ run[r].status = "none" /\ run[r].messages = <<>>
  BY <1>1 DEF RunInv, RunTypes, Attached
<1>3. PICK c \in {r} \union {run[q].session : q \in {p \in Runs : run[p].pc # "idle"}} :
        /\ run' = [run EXCEPT ![r] = [@ EXCEPT !.pc = "asked", !.session = c,
                     !.messages = convo[c], !.flag = agent.flag]]
        /\ contended' = IF \E q \in Runs : HoldsSession(q) /\ run[q].session = c
                        THEN contended \union {c} ELSE contended
  BY DEF RunAgent
<1>4. c \in Runs  BY DEF RunInv, Attached
<1>5. convo[c] \in Seq(Exchange) /\ agent.flag \in BOOLEAN
  BY <1>4 DEF RunInv, RunTypes, AgentTypes
<1> DEFINE new == [run[r] EXCEPT !.pc = "asked", !.session = c,
                     !.messages = convo[c], !.flag = agent.flag]
<1>6. /\ new \in Row /\ new.pc = "asked" /\ new.status = "none" /\ new.told = run[r].told
      /\ new.span = run[r].span /\ new.session = c /\ new.messages = convo[c]
  BY <1>2, <1>4, <1>5 DEF Row
<1>7. run' = [run EXCEPT ![r] = new]  BY <1>3
<1> HIDE DEF new
<1>8. run'[r] = new /\ \A q \in Runs : q # r => run'[q] = run[q]
  BY <1>7 DEF RunInv, RunTypes
<1>9. contended \subseteq contended' /\ contended' \subseteq Runs
      /\ (c \notin contended' => \A q \in Runs : Holding(run[q]) => run[q].session # c)
  BY <1>3, <1>4 DEF RunInv, RunTypes, HoldsSession, Holding
<1>10. RunTypes'  BY <1>1, <1>6, <1>7, <1>9 DEF RunInv, RunTypes
<1>11. (\A q \in Runs : Attached(run[q]))'
  BY <1>4, <1>6, <1>8 DEF RunInv, Attached
<1>12. Stories'
  <2>1. Story(new, agent.telemetry)  BY <1>1, <1>6 DEF RunInv, Stories, Story
  <2> QED BY <1>1, <1>8, <2>1 DEF RunInv, Stories, Story
<1>13. Leakproof'
  <2>1. agent.level = "block" => Withheld(new)
    BY <1>4, <1>6 DEF RunInv, Leakproof, Withheld
  <2> QED BY <1>1, <1>8, <2>1 DEF RunInv, Leakproof, Withheld, Unleaked
<1>14. Alone'
  <2> SUFFICES ASSUME NEW p \in Runs, NEW q \in Runs, p # q, Holding(run'[p]), Holding(run'[q]),
                      run'[p].session = run'[q].session
               PROVE  run'[p].session \in contended'
    BY DEF Alone, Holding
  <2>1. CASE p # r /\ q # r  BY <1>8, <1>9, <2>1 DEF RunInv, Alone
  <2>2. CASE p = r  BY <1>6, <1>8, <1>9, <2>2
  <2>3. CASE q = r  BY <1>6, <1>8, <1>9, <2>3
  <2> QED BY <2>1, <2>2, <2>3
<1>15. Serial'
  <2> SUFFICES ASSUME NEW q \in Runs, run'[q].session \in Runs \ contended'
               PROVE  InSession(q, run'[q], convo[run'[q].session])
    BY <1>1 DEF Serial, InSession, Holding, Begins, Saved
  <2>1. CASE q # r  BY <1>8, <1>9, <2>1 DEF RunInv, Serial
  <2>2. CASE q = r
    <3>1. Begins(convo[c], convo[c])  BY <1>5, EmptyBegins
    <3>2. ~Saved(new)  BY <1>6 DEF Saved
    <3> QED BY <1>6, <1>8, <2>2, <3>1, <3>2 DEF InSession
  <2> QED BY <2>1, <2>2
<1>16. ConversationsTrue'  BY TrueRunAgent
<1> QED BY <1>10, <1>11, <1>12, <1>13, <1>14, <1>15, <1>16 DEF RunInv

(* The list a run read at its start, with its exchange, replaces the       *)
(* session's: unless the session is contended, it is the same list.        *)
LEMMA AppendExchangeStep ==
  ASSUME RunInv, NEW r \in Runs, AppendExchange(r)
  PROVE  RunInv'
<1>1. run[r].pc = "completed" /\ UNCHANGED <<agent, contended>>  BY DEF AppendExchange
<1>2. run[r] \in Row /\ run[r].session \in Runs  BY <1>1 DEF RunInv, RunTypes, Attached
<1>3. PICK c \in Runs : c = run[r].session  BY <1>2
<1>4. PICK x \in Exchange : x = [by |-> r, text |-> run[r].text]
  BY <1>2 DEF Row, Exchange
<1>5. PICK m \in Seq(Exchange) : m = run[r].messages  BY <1>2 DEF Row
<1>6. convo' = [convo EXCEPT ![c] = Append(m, x)]
  BY <1>3, <1>4, <1>5 DEF AppendExchange
<1>7. Append(m, x) \in Seq(Exchange)  BY AppendExchangeFacts
<1>8. convo'[c] = Append(m, x) /\ \A d \in Runs : d # c => convo'[d] = convo[d]
  BY <1>6 DEF RunInv, RunTypes
<1> DEFINE new == [run[r] EXCEPT !.pc = "appended"]
<1>9. run' = [run EXCEPT ![r] = new]  BY DEF AppendExchange
<1>10. /\ new \in Row /\ new.pc = "appended" /\ new.status = run[r].status /\ new.text = run[r].text
       /\ new.told = run[r].told /\ new.span = run[r].span
       /\ new.session = c /\ new.messages = m
  BY <1>2, <1>3, <1>5 DEF Row
<1> HIDE DEF new
<1>11. run'[r] = new /\ \A q \in Runs : q # r => run'[q] = run[q]
  BY <1>9 DEF RunInv, RunTypes
<1>12. RunTypes'  BY <1>1, <1>6, <1>7, <1>9, <1>10 DEF RunInv, RunTypes
<1>13. (\A q \in Runs : Attached(run[q]))'
  BY <1>10, <1>11 DEF RunInv, Attached
<1>14. Stories'
  <2>1. Story(new, agent.telemetry)  BY <1>1, <1>10 DEF RunInv, Stories, Story
  <2> QED BY <1>1, <1>11, <2>1 DEF RunInv, Stories, Story
<1>15. Leakproof'
  <2> SUFFICES ASSUME agent.level = "block"
               PROVE  /\ \A q \in Runs : Withheld(run'[q])
                      /\ \A d \in Runs : Unleaked(convo'[d])
    BY <1>1 DEF Leakproof, Withheld, Unleaked
  <2>1. Withheld(new)  BY <1>5, <1>10 DEF RunInv, Leakproof, Withheld
  <2>2. run[r].status = "completed"  BY <1>1 DEF RunInv, Stories, Story
  <2>3. x.text # "leaky"  BY <1>4, <2>2 DEF RunInv, Leakproof, Withheld
  <2>4. Unleaked(m)  BY <1>5 DEF RunInv, Leakproof, Withheld
  <2>5. Unleaked(Append(m, x))
    <3>1. ASSUME NEW i \in 1..(Len(m) + 1) PROVE Append(m, x)[i].text # "leaky"
      <4>1. CASE i = Len(m) + 1  BY <2>3, <4>1, AppendExchangeFacts
      <4>2. CASE i # Len(m) + 1
        <5>1. i \in 1..Len(m)  BY <4>2, AppendExchangeFacts
        <5> QED BY <2>4, <5>1, AppendExchangeFacts DEF Unleaked
      <4> QED BY <4>1, <4>2
    <3> QED BY <3>1, AppendExchangeFacts DEF Unleaked
  <2> QED BY <1>8, <1>11, <2>1, <2>5 DEF RunInv, Leakproof
<1>16. Alone'
  BY <1>1, <1>3, <1>10, <1>11 DEF RunInv, Alone, Holding
<1>17. Serial'
  <2> SUFFICES ASSUME NEW q \in Runs, run'[q].session \in Runs \ contended
               PROVE  InSession(q, run'[q], convo'[run'[q].session])
    BY <1>1 DEF Serial, InSession, Holding, Begins, Saved
  <2>0. run'[q].session = run[q].session  BY <1>3, <1>10, <1>11
  <2>1. InSession(q, run[q], convo[run[q].session])  BY <2>0 DEF RunInv, Serial
  <2>2. CASE run[q].session # c
    BY <1>3, <1>8, <1>11, <2>0, <2>1, <2>2
  <2>3. CASE run[q].session = c
    <3>1. InSession(r, run[r], convo[c])  BY <1>3, <2>0, <2>3 DEF RunInv, Serial
    <3>2. Holding(run[r]) /\ m = convo[c]  BY <1>1, <1>5, <3>1 DEF InSession, Holding
    <3>3. CASE q # r
      <4>1. ~Holding(run[q])  BY <1>3, <2>0, <2>3, <3>2, <3>3 DEF RunInv, Alone
      <4>2. run[q] \in Row  BY DEF RunInv, RunTypes
      <4>3. PICK k \in Seq(Exchange) : k = run[q].messages  BY <4>2 DEF Row
      <4>4. Begins(k, m)  BY <2>1, <2>3, <3>2, <4>3 DEF InSession
      <4>5. Begins(k, Append(m, x))  BY <4>4, BeginsAppend
      <4>6. ASSUME Saved(run[q]) PROVE \E i \in DOMAIN Append(m, x) : Append(m, x)[i].by = q
        <5>1. PICK i \in DOMAIN m : m[i].by = q  BY <2>1, <2>3, <3>2, <4>6 DEF InSession
        <5>2. i \in 1..Len(m) /\ i \in DOMAIN Append(m, x)  BY AppendExchangeFacts
        <5> QED BY <5>1, <5>2, AppendExchangeFacts
      <4> QED BY <1>8, <1>11, <2>3, <3>3, <4>1, <4>3, <4>5, <4>6 DEF InSession
    <3>4. CASE q = r
      <4>1. ~Holding(new)  BY <1>10 DEF Holding
      <4>2. Begins(m, Append(m, x))  BY EmptyBegins, BeginsAppend
      <4>3. \E i \in DOMAIN Append(m, x) : Append(m, x)[i].by = r
        <5>1. Len(m) + 1 \in DOMAIN Append(m, x) /\ Append(m, x)[Len(m) + 1] = x
          BY AppendExchangeFacts
        <5> QED BY <1>4, <5>1
      <4> QED BY <1>8, <1>10, <1>11, <3>4, <4>1, <4>2, <4>3 DEF InSession
    <3> QED BY <3>3, <3>4
  <2> QED BY <2>2, <2>3
<1>18. ConversationsTrue'  BY TrueAppendExchange
<1> QED BY <1>12, <1>13, <1>14, <1>15, <1>16, <1>17, <1>18 DEF RunInv

-----------------------------------------------------------------------------
(* Together                                                                *)

LEMMA RunInit == RuntimeInit => RunInv
<1> SUFFICES ASSUME RuntimeInit PROVE RunInv
  OBVIOUS
<1>1. /\ run = [r \in Runs |-> Idle] /\ convo = [r \in Runs |-> <<>>] /\ contended = {}
  BY DEF RuntimeInit
<1>2. <<>> \in Seq(Exchange)  OBVIOUS
<1>3. 1 \in Months  BY MonthAssumption DEF Months
<1>4. NoMeta \in Meta  BY DEF NoMeta, Meta
<1>5. Idle \in Row  BY <1>2, <1>3, <1>4 DEF Idle, Row
<1>6. RunTypes  BY <1>1, <1>2, <1>5 DEF RunTypes
<1>7. /\ \A r \in Runs : run[r] = Idle
      /\ Idle.pc = "idle" /\ Idle.status = "none" /\ Idle.messages = <<>>
      /\ Idle.told = {} /\ Idle.span = "none"
  BY <1>1 DEF Idle
<1>8. \A r \in Runs : Attached(run[r])  BY <1>7 DEF Attached
<1>9. Stories  BY <1>7 DEF Stories, Story
<1>10. Leakproof
  BY <1>1, <1>2, <1>7, EmptyBegins DEF Leakproof, Withheld
<1>11. Alone  BY <1>7 DEF Alone, Holding
<1>12. Serial
  BY <1>1, <1>2, <1>7, EmptyBegins DEF Serial, InSession, Holding, Saved
<1>13. ConversationsTrue  BY <1>1, <1>7 DEF ConversationsTrue, TrueOf
<1> QED BY <1>6, <1>8, <1>9, <1>10, <1>11, <1>12, <1>13 DEF RunInv

LEMMA RunStep ==
  ASSUME AgentTypes, RunInv, [RuntimeNext]_runtimeVars
  PROVE  RunInv'
<1>1. SameAgent  BY AgentStep DEF RunInv, RunTypes
<1>2. CASE UNCHANGED <<run, convo, contended>>
  BY <1>1, <1>2 DEF SameAgent, RunInv, RunTypes, Attached, Stories, Story, Leakproof, Withheld,
     Unleaked, Alone, Holding, Serial, InSession, Begins, Saved, ConversationsTrue, TrueOf, Entered
<1>3. ASSUME NEW r \in Runs, RunAgent(r) PROVE RunInv'  BY <1>3, RunAgentStep
<1>4. ASSUME NEW r \in Runs, Step(r) PROVE RunInv'
  BY <1>1, <1>4, StartStep, ScanStep, ExecuteStep, CompleteStep, AppendExchangeStep, ReportStep,
     CheckBudgetStep, DoneStep, FailStep DEF Step
<1>5. ASSUME NEW r \in Runs, Raise(r) \/ StartFails(r) \/ FailFails(r) PROVE RunInv'
  BY <1>5, RaiseStep, StartFailsStep, FailFailsStep
<1>6. ASSUME NEW r \in Runs, Disconnect(r) \/ Crash(r) PROVE RunInv'
  <2>1. /\ run[r].pc # "idle" /\ UNCHANGED <<convo, contended>>
        /\ run' = [run EXCEPT ![r] = Left(r, "gone")]
    BY <1>6 DEF Disconnect, Crash, Live
  <2> QED BY <1>1, <2>1, GoneStep
<1>7. JobLoad \/ ComputeBudgets \/ JobDies \/ NextMonth => UNCHANGED <<run, convo, contended>>
  BY DEF JobLoad, ComputeBudgets, JobDies, NextMonth
<1> QED BY <1>2, <1>3, <1>4, <1>5, <1>6, <1>7 DEF RuntimeNext

LEMMA AlwaysRunInv == RuntimeSpec => [](AgentTypes /\ RunInv)
<1>1. AgentTypes /\ RunInv /\ [RuntimeNext]_runtimeVars => (AgentTypes /\ RunInv)'
  BY AgentStep, RunStep DEF RunInv, RunTypes
<1> QED BY <1>1, AgentInit, RunInit, PTL DEF RuntimeSpec

(* Types, for every number of runs and months.                             *)
THEOREM RuntimeTyped == RuntimeSpec => []RuntimeTypeOK
<1>1. AgentTypes /\ RunInv => RuntimeTypeOK
  BY DEF AgentTypes, RunInv, RunTypes, Row, RuntimeTypeOK
<1> QED BY <1>1, AlwaysRunInv, PTL

(* Whatever fails between them, the row of a run that ended by itself, its *)
(* telemetry and its span tell one story.                                  *)
THEOREM StoriesAlwaysAgree == RuntimeSpec => []StoriesAgree
<1>1. RunInv => StoriesAgree  BY DEF RunInv, Stories, Story, StoriesAgree
<1> QED BY <1>1, AlwaysRunInv, PTL

(* A conversation no two runs hold at once loses no saved exchange, and    *)
(* what a run showed the model stays its beginning.                        *)
THEOREM ConversationsSerial == RuntimeSpec => []SerialConversation
<1>1. RunInv => SerialConversation
  <2> SUFFICES ASSUME RunInv, NEW r \in Runs, run[r].session \in Runs \ contended
               PROVE  LET said == convo[run[r].session] IN
                      /\ SubSeq(said, 1, Len(run[r].messages)) = run[r].messages
                      /\ run[r].status = "completed" /\ run[r].pc \in {"appended", "told", "done", "ended"} =>
                           \E i \in DOMAIN said : said[i].by = r
    BY DEF SerialConversation
  <2>1. InSession(r, run[r], convo[run[r].session])  BY DEF RunInv, Serial
  <2>2. run[r] \in Row /\ convo[run[r].session] \in Seq(Exchange)  BY DEF RunInv, RunTypes
  <2>3. run[r].messages \in Seq(Exchange)  BY <2>2 DEF Row
  <2> QED BY <2>1, <2>2, <2>3, BeginsSubSeq DEF InSession, Saved
<1> QED BY <1>1, AlwaysRunInv, PTL

(* A blocking agent stores no text the output rules flag, so its next      *)
(* message never hands one to the model.                                   *)
THEOREM LeaksNeverStored == RuntimeSpec => []NoLeakStored
<1>1. RunInv => NoLeakStored
  BY DEF RunInv, Leakproof, Withheld, Unleaked, NoLeakStored
<1> QED BY <1>1, AlwaysRunInv, PTL

(* Whatever overlaps, fails or is abandoned: a conversation, and what a    *)
(* run shows the model of it, holds only exchanges of its own runs, each   *)
(* once and with the answer in its row, unless that run failed afterwards. *)
THEOREM ConversationsAlwaysTrue == RuntimeSpec => []ConversationsTrue
<1>1. RunInv => ConversationsTrue  BY DEF RunInv
<1> QED BY <1>1, AlwaysRunInv, PTL

(* Nothing said in a conversation is lost or changed later, as long as no  *)
(* two runs have held it at once.                                          *)
ConversationsGrow == \A c \in Runs \ contended : Begins(convo[c], convo'[c])

(* What was said in a conversation stays: only two runs that hold it at    *)
(* once can make the list read at the start older than the one replaced.   *)
THEOREM ConversationsOnlyGrow == RuntimeSpec => [][ConversationsGrow]_runtimeVars
<1>1. ASSUME RunInv, RuntimeNext PROVE ConversationsGrow
  <2> SUFFICES ASSUME NEW c \in Runs \ contended PROVE Begins(convo[c], convo'[c])
    BY DEF ConversationsGrow
  <2>1. PICK s \in Seq(Exchange) : s = convo[c]  BY <1>1 DEF RunInv, RunTypes
  <2>2. CASE UNCHANGED convo  BY <2>1, <2>2, EmptyBegins
  <2>3. ASSUME NEW r \in Runs, AppendExchange(r) PROVE Begins(convo[c], convo'[c])
    <3>1. run[r].pc = "completed" /\ run[r] \in Row /\ run[r].session \in Runs
      BY <1>1, <2>3 DEF AppendExchange, RunInv, RunTypes, Attached
    <3>2. convo' = [convo EXCEPT ![run[r].session] =
                      Append(run[r].messages, [by |-> r, text |-> run[r].text])]
      BY <2>3 DEF AppendExchange
    <3>3. CASE run[r].session # c
      <4>1. convo'[c] = convo[c]  BY <1>1, <3>2, <3>3 DEF RunInv, RunTypes
      <4> QED BY <2>1, <4>1, EmptyBegins
    <3>4. CASE run[r].session = c
      <4>1. InSession(r, run[r], convo[c])  BY <1>1, <3>4 DEF RunInv, Serial
      <4>2. run[r].messages = s  BY <2>1, <3>1, <4>1 DEF InSession, Holding
      <4>3. PICK x \in Exchange : x = [by |-> r, text |-> run[r].text]
        BY <3>1 DEF Row, Exchange
      <4>4. convo'[c] = Append(s, x)  BY <1>1, <3>2, <3>4, <4>2, <4>3 DEF RunInv, RunTypes
      <4> QED BY <2>1, <4>4, EmptyBegins, BeginsAppend
    <3> QED BY <3>3, <3>4
  <2>4. CASE \A r \in Runs : ~AppendExchange(r)
    <3>1. UNCHANGED convo
      BY <1>1, <2>4 DEF RuntimeNext, Step, RunAgent, Start, StartFails, Scan, Execute, Complete,
         Report, CheckBudget, Done, Raise, Fail, FailFails, Disconnect, Crash, JobLoad,
         ComputeBudgets, JobDies, NextMonth
    <3> QED BY <2>2, <3>1
  <2> QED BY <2>3, <2>4
<1>2. RunInv /\ [RuntimeNext]_runtimeVars => [ConversationsGrow]_runtimeVars  BY <1>1
<1> QED BY <1>2, AlwaysRunInv, PTL DEF RuntimeSpec
=============================================================================
