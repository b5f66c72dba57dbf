-------------------------- MODULE OperationsProofs --------------------------
(* Theorems about Operations, for every number of processes and spans, and *)
(* every interval, limit, window and lifetime.                             *)
EXTENDS Operations, TLAPS

USE DEF vars, schedule, limits, memory, telemetry

-----------------------------------------------------------------------------
(* Types, and which operation each step belongs to.                        *)

Ops == {"dispatch", "request", "memory_write", "export"}

DispatchSteps == {"enqueue", "advance"}
RequestSteps == {"count", "reseed", "view", "set"}
WriteSteps == {"create", "update"}
ExportSteps == {"post", "mark"}
Steps == DispatchSteps \union RequestSteps \union WriteSteps \union ExportSteps

Process == [op : Ops \union {"none"}, at : Steps \union {"idle"}, slot : Nat, time : Nat, count : Nat,
            scope : Scopes, ids : SUBSET Spans]

Shaped(s) ==
  /\ s.op = "dispatch" <=> s.at \in DispatchSteps
  /\ s.op = "request" <=> s.at \in RequestSteps
  /\ s.op = "memory_write" <=> s.at \in WriteSteps
  /\ s.op = "export" <=> s.at \in ExportSteps

Row == [scope : Scopes, value : Nat, until : Nat]

TimesType == now \in Nat /\ starts \in Nat /\ overlapped \subseteq Ops
ScheduleType == next \in Nat /\ keys \subseteq Nat /\ last \in Nat
LimitsType == global \in Counter /\ trigger \in Counter
MemoryType == rows \subseteq Row /\ latest \in [Scopes -> SUBSET Row]
SpanType == span \in [Spans -> {"none", "recorded", "exported", "purged"}] /\ collector \subseteq Spans
ProcType == /\ proc \in [Processes -> Process]
            /\ \A p \in Processes : Shaped(proc[p])

(* While no two processes were at one operation, one at most is.           *)
Solo ==
  \A op \in Ops \ overlapped : \A p, q \in Processes :
    proc[p].op = op /\ proc[q].op = op => p = q

Typed == TimesType /\ ScheduleType /\ LimitsType /\ MemoryType /\ SpanType /\ ProcType

LEMMA Numbers ==
  /\ Interval \in Nat \ {0} /\ Window \in Nat \ {0} /\ Limit \in Nat \ {0}
  /\ TriggerLimit \in Nat \ {0} /\ MaxTime \in Nat /\ Forever \in Nat /\ Lifetimes \subseteq Nat
<1>1. MaxTime \in Nat /\ Forever \in Nat  BY NumberAssumption DEF Forever
<1>2. \A n \in 1 .. Forever : n \in Nat  BY <1>1
<1> QED BY <1>1, <1>2, NumberAssumption

LEMMA FreeType == Free \in Process /\ Shaped(Free) /\ Free.op = "none" /\ Free.at = "idle"
  BY DEF Free, Process, Shaped, Scopes, DispatchSteps, RequestSteps, WriteSteps, ExportSteps

(* One process moves on.                                                   *)
Others(p) == \A q \in Processes \ {p} : proc'[q] = proc[q]

LEMMA OneMoves ==
  ASSUME ProcType, NEW p \in Processes, NEW state \in Process, Shaped(state),
         proc' = [proc EXCEPT ![p] = state]
  PROVE  ProcType' /\ Others(p) /\ proc'[p] = state
<1>1. proc' \in [Processes -> Process] /\ proc'[p] = state  BY DEF ProcType
<1>2. Others(p)  BY DEF ProcType, Others
<1> QED BY <1>1, <1>2 DEF ProcType, Shaped, Others

LEMMA FinishStep ==
  ASSUME ProcType, NEW p \in Processes, Finish(p)
  PROVE  ProcType' /\ Others(p) /\ proc'[p] = Free
  BY FreeType, OneMoves DEF Finish

(* A step within an operation.                                             *)
LEMMA GotoStep ==
  ASSUME ProcType, NEW p \in Processes, NEW step, Goto(p, step),
         \/ proc[p].at \in DispatchSteps /\ step \in DispatchSteps
         \/ proc[p].at \in RequestSteps /\ step \in RequestSteps
         \/ proc[p].at \in WriteSteps /\ step \in WriteSteps
         \/ proc[p].at \in ExportSteps /\ step \in ExportSteps
  PROVE  /\ ProcType' /\ Others(p) /\ proc'[p] = [proc[p] EXCEPT !.at = step]
         /\ proc'[p].at = step /\ proc'[p].op = proc[p].op /\ proc'[p].slot = proc[p].slot
         /\ proc'[p].time = proc[p].time /\ proc'[p].count = proc[p].count
         /\ proc'[p].scope = proc[p].scope /\ proc'[p].ids = proc[p].ids
<1> DEFINE state == [proc[p] EXCEPT !.at = step]
<1>1. proc[p] \in Process /\ Shaped(proc[p])  BY DEF ProcType
<1>2. step \in Steps  BY DEF Steps
<1>3. /\ state \in Process
      /\ state.at = step /\ state.op = proc[p].op /\ state.slot = proc[p].slot
      /\ state.time = proc[p].time /\ state.count = proc[p].count
      /\ state.scope = proc[p].scope /\ state.ids = proc[p].ids
  BY <1>1, <1>2 DEF Process
<1>4. proc' = [proc EXCEPT ![p] = state]  BY DEF Goto
<1> HIDE DEF state
<1>5. Shaped(state)
  BY <1>1, <1>3 DEF Shaped, DispatchSteps, RequestSteps, WriteSteps, ExportSteps
<1>6. ProcType' /\ Others(p) /\ proc'[p] = state  BY <1>3, <1>4, <1>5, OneMoves
<1> QED BY <1>3, <1>6 DEF state

(* A job or a request starts; two of a kind are noted.                     *)
LEMMA StartStep ==
  ASSUME Typed, Solo, NEW p \in Processes, NEW state \in Process, Shaped(state), state.op \in Ops,
         Start(p, state)
  PROVE  /\ ProcType' /\ Others(p) /\ proc'[p] = state /\ proc[p] = Free
         /\ Solo' /\ overlapped \subseteq overlapped' /\ overlapped' \subseteq Ops
         /\ starts' = starts + 1
         /\ state.op \notin overlapped' => \A q \in Processes : proc[q].op # state.op
<1>1. ProcType' /\ Others(p) /\ proc'[p] = state  BY OneMoves DEF Start, Typed
<1>2. overlapped \subseteq overlapped' /\ overlapped' \subseteq Ops
  BY DEF Start, Typed, TimesType
<1>3. state.op \notin overlapped' => \A q \in Processes : proc[q].op # state.op
  BY DEF Start, Running
<1>4. Solo'
  <2> SUFFICES ASSUME NEW op \in Ops, op \notin overlapped', NEW q \in Processes, NEW r \in Processes,
                      proc'[q].op = op, proc'[r].op = op
               PROVE  q = r
    BY DEF Solo
  <2>1. CASE op = state.op  BY <1>1, <1>3, <2>1 DEF Others
  <2>2. CASE op # state.op  BY <1>1, <1>2, <2>2 DEF Others, Solo
  <2> QED BY <2>1, <2>2
<1> QED BY <1>1, <1>2, <1>3, <1>4 DEF Start

(* Nobody starts.                                                          *)
LEMMA SoloKept ==
  ASSUME Solo, UNCHANGED overlapped,
         \A p \in Processes : proc'[p].op \in {proc[p].op, "none"}
  PROVE  Solo'
  BY DEF Solo, Ops

-----------------------------------------------------------------------------
(* The invariant, one part for each of the four services.                  *)

(* The schedule: the slot the row names was enqueued, or is an interval    *)
(* away from the last run; the job under way read the row as it is.        *)
ScheduleInv ==
  "dispatch" \notin overlapped =>
    /\ last <= now
    /\ last # 0 => next \in keys \/ next >= last + Interval
    /\ \A p \in Processes : proc[p].op = "dispatch" =>
         /\ proc[p].slot = next /\ next <= proc[p].time
         /\ last <= proc[p].time /\ proc[p].time <= now

(* The window: each request admitted was counted, or missed the window.    *)
WindowInv ==
  /\ global.admitted <= global.count + global.missed
  /\ global.admitted <= Limit + global.missed

TriggerInv ==
  "request" \notin overlapped =>
    /\ trigger.admitted <= trigger.count /\ trigger.count <= TriggerLimit
    /\ \A p \in Processes : proc[p].at = "set" =>
         /\ proc[p].count < TriggerLimit
         /\ Alive(trigger) => proc[p].count = trigger.count

(* The memory: a scope has the row last written, or that row has expired.  *)
MemoryInv ==
  "memory_write" \notin overlapped =>
    /\ \A scope \in Scopes :
         /\ RowsOf(scope) \subseteq latest[scope]
         /\ \A r, q \in latest[scope] : r = q
         /\ \A r \in latest[scope] : r.scope = scope /\ (r \notin rows => r.until <= now)
    /\ \A p \in Processes : proc[p].at = "create" => RowsOf(proc[p].scope) = {}

(* The spans: what a job is to mark did arrive.                            *)
SpanInv ==
  /\ \A s \in Spans : span[s] = "exported" => s \in collector
  /\ \A p \in Processes : proc[p].at = "mark" => proc[p].ids \subseteq collector

Inv == Typed /\ Solo /\ ScheduleInv /\ WindowInv /\ TriggerInv /\ MemoryInv /\ SpanInv

(* What leaves each part alone.                                            *)
Still(steps) == \A p \in Processes : proc'[p].at \in steps => proc'[p] = proc[p]

LEMMA ScheduleKept ==
  ASSUME Typed, ScheduleInv, UNCHANGED schedule, now' \in {now, now + 1},
         overlapped \subseteq overlapped', ProcType', Still(DispatchSteps)
  PROVE  ScheduleInv'
<1>1. now \in Nat /\ last \in Nat /\ \A p \in Processes : proc[p].time \in Nat
  BY DEF Typed, TimesType, ScheduleType, ProcType, Process
<1>2. \A p \in Processes : proc'[p].op = "dispatch" => proc'[p] = proc[p]
  BY DEF ProcType, Shaped, Still
<1> QED BY <1>1, <1>2 DEF ScheduleInv

LEMMA TriggerKept ==
  ASSUME Typed, TriggerInv, UNCHANGED trigger, now' \in {now, now + 1},
         overlapped \subseteq overlapped', Still({"set"})
  PROVE  TriggerInv'
<1>1. now \in Nat /\ trigger.until \in Nat
  BY DEF Typed, TimesType, LimitsType, Counter
<1> QED BY <1>1 DEF TriggerInv, Alive, Still

LEMMA MemoryKept ==
  ASSUME Typed, MemoryInv, UNCHANGED memory, now' \in {now, now + 1},
         overlapped \subseteq overlapped', Still({"create"})
  PROVE  MemoryInv'
<1>1. now \in Nat /\ \A scope \in Scopes : \A r \in latest[scope] : r.until \in Nat
  BY DEF Typed, TimesType, MemoryType, Row
<1> QED BY <1>1 DEF MemoryInv, RowsOf, Still

LEMMA SpanKept ==
  ASSUME SpanInv, UNCHANGED telemetry, Still({"mark"})
  PROVE  SpanInv'
  BY DEF SpanInv, Still

LEMMA OtherSteps ==
  ASSUME NEW p \in Processes, Others(p), NEW steps, proc'[p].at \notin steps
  PROVE  Still(steps)
  BY DEF Others, Still

(* A step of one operation, by one process, at one of its services.        *)
LEMMA WindowKept == ASSUME WindowInv, UNCHANGED global PROVE WindowInv'
  BY DEF WindowInv

-----------------------------------------------------------------------------
(* The scheduler.                                                          *)

LEMMA DispatchStep ==
  ASSUME Inv, NEW p \in Processes, DispatchScheduled(p) \/ EnqueueScheduled(p) \/ AdvanceSchedule(p)
  PROVE  Inv'
<1>0. Typed /\ Solo /\ ScheduleInv /\ WindowInv /\ TriggerInv /\ MemoryInv /\ SpanInv  BY DEF Inv
<1>a. /\ now \in Nat /\ next \in Nat /\ last \in Nat /\ keys \subseteq Nat /\ starts \in Nat
      /\ Interval \in Nat
  BY <1>0, Numbers DEF Typed, TimesType, ScheduleType
<1>1. UNCHANGED <<now, limits, memory, telemetry>>
  BY DEF DispatchScheduled, EnqueueScheduled, AdvanceSchedule, Continue
(* Whatever the step, the other services are left alone.                   *)
<1>2. ASSUME ProcType', Others(p), proc'[p].at \in DispatchSteps \union {"idle"},
             overlapped \subseteq overlapped', overlapped' \subseteq Ops, starts' \in Nat, Solo',
             ScheduleType', ScheduleInv'
      PROVE  Inv'
  <2>1. Still({"set"}) /\ Still({"create"}) /\ Still({"mark"})
    BY <1>2, OtherSteps DEF DispatchSteps
  <2>2. Typed'
    BY <1>0, <1>1, <1>2 DEF Typed, TimesType, LimitsType, MemoryType, SpanType
  <2>3. WindowInv' /\ TriggerInv' /\ MemoryInv' /\ SpanInv'
    BY <1>0, <1>1, <1>2, <2>1, WindowKept, TriggerKept, MemoryKept, SpanKept
  <2> QED BY <1>2, <2>2, <2>3 DEF Inv
<1>3. CASE DispatchScheduled(p)
  <2> DEFINE step == IF next = 0 THEN "advance" ELSE "enqueue"
             state == [Free EXCEPT !.op = "dispatch", !.slot = next, !.time = now, !.at = step]
  <2>0. step \in {"advance", "enqueue"}  OBVIOUS
  <2>a. step \in Steps  BY <2>0 DEF Steps, DispatchSteps
  <2> HIDE DEF step
  <2>1. /\ state \in Process /\ state.op = "dispatch" /\ state.at = step
        /\ state.slot = next /\ state.time = now
    BY <1>a, <2>a, FreeType DEF Process, Ops
  <2>2. Start(p, state)  BY <1>3 DEF DispatchScheduled, step
  <2> HIDE DEF state
  <2>3. Shaped(state)
    BY <2>0, <2>1 DEF Shaped, DispatchSteps, RequestSteps, WriteSteps, ExportSteps
  <2>4. /\ ProcType' /\ Others(p) /\ proc'[p] = state
        /\ Solo' /\ overlapped \subseteq overlapped' /\ overlapped' \subseteq Ops
        /\ starts' = starts + 1
        /\ "dispatch" \notin overlapped' => \A q \in Processes : proc[q].op # "dispatch"
    <3>1. state.op \in Ops  BY <2>1 DEF Ops
    <3> QED BY <1>0, <2>1, <2>2, <2>3, <3>1, StartStep
  <2>5. next <= now /\ UNCHANGED schedule  BY <1>3 DEF DispatchScheduled
  <2>6. ScheduleInv'
    BY <1>0, <1>1, <1>a, <2>1, <2>4, <2>5 DEF ScheduleInv, Others
  <2>7. ScheduleType' /\ starts' \in Nat  BY <1>a, <2>4, <2>5 DEF ScheduleType
  <2>8. proc'[p].at \in DispatchSteps \union {"idle"}  BY <2>0, <2>1, <2>4 DEF DispatchSteps
  <2> QED BY <1>2, <2>4, <2>6, <2>7, <2>8
<1>4. CASE EnqueueScheduled(p)
  <2>1. proc[p].at = "enqueue" /\ Goto(p, "advance") /\ UNCHANGED <<starts, overlapped, next>>
    BY <1>4 DEF EnqueueScheduled, At, Continue
  <2>2. /\ ProcType' /\ Others(p) /\ proc'[p].at = "advance" /\ proc'[p].op = proc[p].op
        /\ proc'[p].slot = proc[p].slot /\ proc'[p].time = proc[p].time
    BY <1>0, <2>1, GotoStep DEF DispatchSteps, Typed
  <2>3. proc[p].op = "dispatch" /\ proc[p].slot \in Nat /\ proc[p].time \in Nat
    BY <1>0, <2>1 DEF Typed, ProcType, Process, Shaped, DispatchSteps
  <2>4. /\ keys' = keys \union {proc[p].slot}
        /\ last' = IF proc[p].slot \in keys THEN last ELSE proc[p].time
    BY <1>4 DEF EnqueueScheduled, IdempotencyKey
  <2>5. Solo'
    <3>1. \A q \in Processes : proc'[q].op = proc[q].op  BY <2>2 DEF Others
    <3> QED BY <1>0, <2>1, <3>1, SoloKept
  <2>6. ASSUME "dispatch" \notin overlapped PROVE ScheduleInv'
    <3>1. \A q \in Processes : proc'[q].op = "dispatch" => q = p
      BY <1>0, <2>2, <2>3, <2>6 DEF Solo, Others, Ops
    <3>2. /\ proc[p].slot = next /\ next <= proc[p].time
          /\ last <= proc[p].time /\ proc[p].time <= now
      BY <1>0, <2>3, <2>6 DEF ScheduleInv
    <3>3. last <= last' /\ last' <= proc[p].time  BY <1>a, <2>3, <2>4, <3>2
    <3>4. next \in keys'  BY <2>4, <3>2
    <3>5. last' \in Nat /\ last' <= now  BY <1>a, <2>3, <2>4, <3>2
    <3> QED BY <1>1, <2>1, <2>2, <3>1, <3>2, <3>3, <3>4, <3>5 DEF ScheduleInv
  <2>7. "dispatch" \in overlapped => ScheduleInv'  BY <2>1 DEF ScheduleInv
  <2>8. ScheduleType'  BY <1>a, <2>1, <2>3, <2>4 DEF ScheduleType
  <2>9. overlapped' \subseteq Ops /\ starts' \in Nat /\ overlapped \subseteq overlapped'
    BY <1>0, <1>a, <2>1 DEF Typed, TimesType
  <2>10. proc'[p].at \in DispatchSteps \union {"idle"}  BY <2>2 DEF DispatchSteps
  <2> QED BY <1>2, <2>2, <2>5, <2>6, <2>7, <2>8, <2>9, <2>10
<1>5. CASE AdvanceSchedule(p)
  <2>1. /\ proc[p].at = "advance" /\ Finish(p) /\ UNCHANGED <<starts, overlapped, keys, last>>
        /\ next' = proc[p].time + Interval
    BY <1>5 DEF AdvanceSchedule, At, Continue
  <2>2. ProcType' /\ Others(p) /\ proc'[p] = Free  BY <1>0, <2>1, FinishStep DEF Typed
  <2>3. proc[p].op = "dispatch" /\ proc[p].time \in Nat
    BY <1>0, <2>1 DEF Typed, ProcType, Process, Shaped, DispatchSteps
  <2>4. Solo'
    <3>1. \A q \in Processes : proc'[q].op \in {proc[q].op, "none"}  BY <2>2, FreeType DEF Others
    <3> QED BY <1>0, <2>1, <3>1, SoloKept
  <2>5. ASSUME "dispatch" \notin overlapped PROVE ScheduleInv'
    <3>1. \A q \in Processes : proc'[q].op # "dispatch"
      BY <1>0, <2>2, <2>3, <2>5, FreeType DEF Solo, Others, Ops
    <3>2. last <= proc[p].time /\ last <= now  BY <1>0, <2>3, <2>5 DEF ScheduleInv
    <3>3. next' >= last + Interval  BY <1>a, <2>1, <2>3, <3>2
    <3> QED BY <1>1, <2>1, <3>1, <3>2, <3>3 DEF ScheduleInv
  <2>6. "dispatch" \in overlapped => ScheduleInv'  BY <2>1 DEF ScheduleInv
  <2>7. ScheduleType'  BY <1>a, <2>1, <2>3 DEF ScheduleType
  <2>8. overlapped' \subseteq Ops /\ starts' \in Nat /\ overlapped \subseteq overlapped'
    BY <1>0, <1>a, <2>1 DEF Typed, TimesType
  <2>9. proc'[p].at \in DispatchSteps \union {"idle"}  BY <2>2, FreeType
  <2> QED BY <1>2, <2>2, <2>4, <2>5, <2>6, <2>7, <2>8, <2>9
<1> QED BY <1>3, <1>4, <1>5

-----------------------------------------------------------------------------
(* Requests.                                                               *)

LEMMA FreshType == now \in Nat => Fresh \in Counter /\ Fresh.count = 1 /\ Fresh.admitted = 1
                                  /\ Fresh.missed = 0
  BY Numbers DEF Fresh, Counter

LEMMA AdmitStep ==
  ASSUME NEW c \in Counter, c.admitted <= c.count + c.missed, c.admitted <= Limit + c.missed
  PROVE  LET d == Admit(c).counter IN
         /\ d \in Counter
         /\ d.admitted <= d.count + d.missed /\ d.admitted <= Limit + d.missed
<1> DEFINE passed == [c EXCEPT !.count = @ + 1, !.admitted = @ + 1]
           refused == [c EXCEPT !.count = @ + 1]
<1>0. /\ Limit \in Nat
      /\ c.count \in Nat /\ c.until \in Nat /\ c.admitted \in Nat /\ c.missed \in Nat
  BY Numbers DEF Counter
<1>1. /\ passed \in Counter /\ passed.count = c.count + 1 /\ passed.admitted = c.admitted + 1
      /\ passed.missed = c.missed
  <2> DEFINE n == c.count + 1
             m == c.admitted + 1
  <2>1. n \in Nat /\ m \in Nat  BY <1>0
  <2>2. passed = [c EXCEPT !.count = n, !.admitted = m]  OBVIOUS
  <2> HIDE DEF n, m, passed
  <2>3. passed \in Counter /\ passed.count = n /\ passed.admitted = m /\ passed.missed = c.missed
    BY <2>1, <2>2 DEF Counter
  <2> QED BY <2>3 DEF n, m
<1>2. /\ refused \in Counter /\ refused.count = c.count + 1 /\ refused.admitted = c.admitted
      /\ refused.missed = c.missed
  BY <1>0 DEF Counter
<1> HIDE DEF passed, refused
<1>3. CASE c.count >= Limit
  <2>1. Admit(c).counter = refused  BY <1>3 DEF Admit, refused
  <2> QED BY <1>0, <1>2, <2>1
<1>4. CASE ~(c.count >= Limit)
  <2>1. Admit(c).counter = passed  BY <1>4 DEF Admit, passed
  <2>2. c.admitted + 1 <= c.count + 1 + c.missed /\ c.admitted + 1 <= Limit + c.missed
    BY <1>0, <1>4
  <2> QED BY <1>1, <2>1, <2>2
<1> QED BY <1>3, <1>4

(* Whatever the step of a request, the other services are left alone.      *)
LEMMA RequestFrame ==
  ASSUME Inv, NEW p \in Processes, UNCHANGED <<now, schedule, memory, telemetry>>,
         ProcType', Others(p), proc'[p].at \in RequestSteps \union {"idle"}, Solo',
         overlapped \subseteq overlapped', overlapped' \subseteq Ops, starts' \in Nat,
         global' \in Counter, trigger' \in Counter, WindowInv', TriggerInv'
  PROVE  Inv'
<1>0. Typed /\ ScheduleInv /\ MemoryInv /\ SpanInv  BY DEF Inv
<1>1. Still(DispatchSteps) /\ Still({"create"}) /\ Still({"mark"})
  BY OtherSteps DEF RequestSteps, DispatchSteps
<1>2. Typed'
  BY <1>0 DEF Typed, TimesType, ScheduleType, LimitsType, MemoryType, SpanType
<1>3. ScheduleInv' /\ MemoryInv' /\ SpanInv'
  BY <1>0, <1>1, ScheduleKept, MemoryKept, SpanKept
<1> QED BY <1>2, <1>3 DEF Inv

LEMMA ApiRequestStep ==
  ASSUME Inv, NEW p \in Processes, ApiRequest(p)
  PROVE  Inv'
<1>0. Typed /\ Solo /\ WindowInv /\ TriggerInv  BY DEF Inv
<1>a. now \in Nat /\ starts \in Nat /\ global \in Counter /\ trigger \in Counter
  BY <1>0 DEF Typed, TimesType, LimitsType
<1>1. UNCHANGED <<now, schedule, trigger, memory, telemetry>>  BY DEF ApiRequest
<1>2. PICK step \in {"count", "view"} : Start(p, [Free EXCEPT !.op = "request", !.at = step])
  BY DEF ApiRequest
<1> DEFINE state == [Free EXCEPT !.op = "request", !.at = step]
<1>3. state \in Process /\ state.op = "request" /\ state.at = step
  <2>1. step \in Steps  BY <1>2 DEF Steps, RequestSteps
  <2> QED BY <2>1, FreeType DEF Process, Ops
<1>4. Start(p, state)  BY <1>2
<1> HIDE DEF state
<1>5. Shaped(state)
  BY <1>2, <1>3 DEF Shaped, DispatchSteps, RequestSteps, WriteSteps, ExportSteps
<1>6. /\ ProcType' /\ Others(p) /\ proc'[p] = state
      /\ Solo' /\ overlapped \subseteq overlapped' /\ overlapped' \subseteq Ops /\ starts' = starts + 1
  <2>1. state.op \in Ops  BY <1>3 DEF Ops
  <2> QED BY <1>0, <1>3, <1>4, <1>5, <2>1, StartStep
<1>7. global' \in Counter /\ WindowInv'
  <2>1. CASE global' = global  BY <1>0, <1>a, <2>1 DEF WindowInv
  <2>2. CASE global' = Fresh
    <3>1. Limit \in Nat \ {0}  BY Numbers
    <3> QED BY <1>a, <2>2, <3>1, FreshType DEF WindowInv
  <2> QED BY <2>1, <2>2 DEF ApiRequest
<1>8. TriggerInv'
  <2>1. Still({"set"})  BY <1>2, <1>3, <1>6, OtherSteps
  <2> QED BY <1>0, <1>1, <1>6, <2>1, TriggerKept
<1>9. proc'[p].at \in RequestSteps \union {"idle"}  BY <1>2, <1>3, <1>6 DEF RequestSteps
<1>10. starts' \in Nat  BY <1>a, <1>6
<1> QED BY <1>1, <1>a, <1>6, <1>7, <1>8, <1>9, <1>10, RequestFrame

LEMMA WindowStep ==
  ASSUME Inv, NEW p \in Processes, CountRequest(p) \/ ReseedWindow(p)
  PROVE  Inv'
<1>0. Typed /\ Solo /\ WindowInv /\ TriggerInv  BY DEF Inv
<1>a. now \in Nat /\ starts \in Nat /\ global \in Counter /\ trigger \in Counter
  BY <1>0 DEF Typed, TimesType, LimitsType
<1>1. UNCHANGED <<now, starts, overlapped, schedule, trigger, memory, telemetry>>
  BY DEF CountRequest, ReseedWindow, Continue
<1>2. proc[p].at \in {"count", "reseed"}  BY DEF CountRequest, ReseedWindow, At
<1>3. /\ ProcType' /\ Others(p) /\ proc'[p].at \in {"idle", "view", "reseed"}
      /\ proc'[p].op \in {proc[p].op, "none"}
  <2>1. Finish(p) \/ \E step \in {"view", "reseed"} : Goto(p, step)
    BY DEF CountRequest, ReseedWindow
  <2>2. CASE Finish(p)  BY <1>0, <2>2, FinishStep, FreeType DEF Typed
  <2>3. ASSUME NEW step \in {"view", "reseed"}, Goto(p, step)
        PROVE  ProcType' /\ Others(p) /\ proc'[p].at = step /\ proc'[p].op = proc[p].op
    <3>1. proc[p].at \in RequestSteps /\ step \in RequestSteps  BY <1>2 DEF RequestSteps
    <3> QED BY <1>0, <2>3, <3>1, GotoStep DEF Typed
  <2> QED BY <2>1, <2>2, <2>3
<1>4. global' \in Counter /\ WindowInv'
  <2>1. CASE global' = global  BY <1>0, <1>a, <2>1 DEF WindowInv
  <2>2. CASE global' = Fresh
    <3>1. Limit \in Nat \ {0}  BY Numbers
    <3> QED BY <1>a, <2>2, <3>1, FreshType DEF WindowInv
  <2>3. CASE global' = Admit(global).counter
    BY <1>0, <1>a, <2>3, AdmitStep DEF WindowInv
  <2>4. CASE global' = [global EXCEPT !.admitted = @ + 1, !.missed = @ + 1]
    <3>1. /\ global.count \in Nat /\ global.until \in Nat /\ global.admitted \in Nat
          /\ global.missed \in Nat /\ Limit \in Nat
      BY <1>a, Numbers DEF Counter
    <3>2. /\ global' \in Counter /\ global'.count = global.count
          /\ global'.admitted = global.admitted + 1 /\ global'.missed = global.missed + 1
      <4> DEFINE n == global.admitted + 1
                 m == global.missed + 1
      <4>1. n \in Nat /\ m \in Nat  BY <3>1
      <4>2. global' = [global EXCEPT !.admitted = n, !.missed = m]  BY <2>4
      <4> HIDE DEF n, m
      <4>3. /\ global' \in Counter /\ global'.count = global.count
            /\ global'.admitted = n /\ global'.missed = m
        BY <1>a, <4>1, <4>2 DEF Counter
      <4> QED BY <4>3 DEF n, m
    <3> QED BY <1>0, <3>1, <3>2 DEF WindowInv
  <2> QED BY <2>1, <2>2, <2>3, <2>4 DEF CountRequest, ReseedWindow
<1>5. TriggerInv'
  <2>1. Still({"set"})  BY <1>3, OtherSteps
  <2> QED BY <1>0, <1>1, <2>1, TriggerKept
<1>6. Solo'
  <2>1. \A q \in Processes : proc'[q].op \in {proc[q].op, "none"}  BY <1>3 DEF Others
  <2> QED BY <1>0, <1>1, <2>1, SoloKept
<1>7. proc'[p].at \in RequestSteps \union {"idle"}  BY <1>3 DEF RequestSteps
<1>8. overlapped' \subseteq Ops  BY <1>0, <1>1 DEF Typed, TimesType
<1> QED BY <1>1, <1>a, <1>3, <1>4, <1>5, <1>6, <1>7, <1>8, RequestFrame

LEMMA ReadTriggerStep ==
  ASSUME Inv, NEW p \in Processes, ReadTriggerCount(p)
  PROVE  Inv'
<1>0. Typed /\ Solo /\ WindowInv /\ TriggerInv  BY DEF Inv
<1>a. /\ now \in Nat /\ starts \in Nat /\ global \in Counter /\ trigger \in Counter
      /\ trigger.count \in Nat /\ TriggerLimit \in Nat
  BY <1>0, Numbers DEF Typed, TimesType, LimitsType, Counter
<1>1. UNCHANGED <<now, starts, overlapped, schedule, limits, memory, telemetry>>
  BY DEF ReadTriggerCount, Continue
<1>2. proc[p].at = "view"  BY DEF ReadTriggerCount, At
<1> DEFINE count == IF Alive(trigger) THEN trigger.count ELSE 0
<1>3. /\ ProcType' /\ Others(p) /\ proc'[p].op \in {proc[p].op, "none"}
      /\ \/ proc'[p].at = "idle"
         \/ proc'[p].at = "set" /\ proc'[p].count = count /\ count < TriggerLimit
  <2>1. CASE count >= TriggerLimit
    <3>1. Finish(p)  BY <2>1 DEF ReadTriggerCount
    <3> QED BY <1>0, <3>1, FinishStep, FreeType DEF Typed
  <2>2. CASE ~(count >= TriggerLimit)
    <3>1. proc \in [Processes -> Process] /\ proc[p] \in Process /\ Shaped(proc[p])
      BY <1>0 DEF Typed, ProcType
    <3>2. proc' = [proc EXCEPT ![p].at = "set", ![p].count = count]
      BY <2>2 DEF ReadTriggerCount
    <3>3. count \in Nat /\ "set" \in Steps  BY <1>a DEF Steps, RequestSteps
    <3> HIDE DEF count
    <3> DEFINE state == [proc[p] EXCEPT !.at = "set", !.count = count]
    <3>4. proc' = [proc EXCEPT ![p] = state]  BY <3>1, <3>2
    <3>5. state \in Process /\ state.at = "set" /\ state.count = count /\ state.op = proc[p].op
      BY <3>1, <3>3 DEF Process
    <3> HIDE DEF state
    <3>6. Shaped(state)
      BY <1>2, <3>1, <3>5 DEF Shaped, DispatchSteps, RequestSteps, WriteSteps, ExportSteps
    <3>7. ProcType' /\ Others(p) /\ proc'[p] = state  BY <1>0, <3>4, <3>5, <3>6, OneMoves DEF Typed
    <3>8. count < TriggerLimit  BY <1>a, <2>2, <3>3
    <3> QED BY <3>5, <3>7, <3>8
  <2> QED BY <2>1, <2>2
<1>4. ASSUME "request" \notin overlapped PROVE TriggerInv'
  <2>1. ASSUME NEW q \in Processes, proc'[q].at = "set"
        PROVE  /\ proc'[q].count < TriggerLimit
               /\ Alive(trigger) => proc'[q].count = trigger.count
    <3>1. CASE q = p  BY <1>3, <2>1, <3>1
    <3>2. CASE q # p  BY <1>0, <1>3, <1>4, <2>1, <3>2 DEF TriggerInv, Others
    <3> QED BY <3>1, <3>2
  <2>2. Alive(trigger)' => Alive(trigger)  BY <1>1 DEF Alive
  <2> QED BY <1>0, <1>1, <1>4, <2>1, <2>2 DEF TriggerInv
<1>5. "request" \in overlapped => TriggerInv'  BY <1>1 DEF TriggerInv
<1>6. Solo'
  <2>1. \A q \in Processes : proc'[q].op \in {proc[q].op, "none"}  BY <1>3 DEF Others
  <2> QED BY <1>0, <1>1, <2>1, SoloKept
<1>7. proc'[p].at \in RequestSteps \union {"idle"}  BY <1>3 DEF RequestSteps
<1>8. overlapped' \subseteq Ops /\ WindowInv'  BY <1>0, <1>1 DEF Typed, TimesType, WindowInv
<1> QED BY <1>1, <1>a, <1>3, <1>4, <1>5, <1>6, <1>7, <1>8, RequestFrame

LEMMA SetTriggerStep ==
  ASSUME Inv, NEW p \in Processes, SetTriggerCount(p)
  PROVE  Inv'
<1>0. Typed /\ Solo /\ WindowInv /\ TriggerInv  BY DEF Inv
<1>a. /\ now \in Nat /\ starts \in Nat /\ global \in Counter /\ trigger \in Counter
      /\ trigger.count \in Nat /\ trigger.admitted \in Nat
      /\ TriggerLimit \in Nat /\ Window \in Nat
  BY <1>0, Numbers DEF Typed, TimesType, LimitsType, Counter
<1>1. UNCHANGED <<now, starts, overlapped, schedule, global, memory, telemetry>>
  BY DEF SetTriggerCount, Continue
<1>2. proc[p].at = "set" /\ proc[p].op = "request" /\ proc[p].count \in Nat
  BY <1>0 DEF SetTriggerCount, At, Typed, ProcType, Process, Shaped, RequestSteps
<1>3. ProcType' /\ Others(p) /\ proc'[p] = Free
  BY <1>0, FinishStep DEF Typed, SetTriggerCount
<1> DEFINE admitted == IF Alive(trigger) THEN trigger.admitted ELSE 0
<1>4. /\ trigger' \in Counter /\ trigger'.count = proc[p].count + 1
      /\ trigger'.admitted = 1 + admitted
  <2>1. trigger' = [count |-> proc[p].count + 1, until |-> now + Window, admitted |-> 1 + admitted,
                    missed |-> 0]
    BY DEF SetTriggerCount
  <2>2. admitted \in Nat  BY <1>a
  <2> HIDE DEF admitted
  <2> QED BY <1>a, <1>2, <2>1, <2>2 DEF Counter
<1>5. ASSUME "request" \notin overlapped PROVE TriggerInv'
  <2>1. /\ trigger.admitted <= trigger.count /\ trigger.count <= TriggerLimit
        /\ proc[p].count < TriggerLimit
        /\ Alive(trigger) => proc[p].count = trigger.count
    BY <1>0, <1>2, <1>5 DEF TriggerInv
  <2>2. trigger'.admitted <= trigger'.count /\ trigger'.count <= TriggerLimit
    BY <1>a, <1>2, <1>4, <2>1
  <2>3. \A q \in Processes : proc'[q].at # "set"
    <3>1. ASSUME NEW q \in Processes, q # p PROVE proc[q].at # "set"
      <4>1. proc[q].op # "request"  BY <1>0, <1>2, <1>5, <3>1 DEF Solo, Ops
      <4>2. Shaped(proc[q])  BY <1>0 DEF Typed, ProcType
      <4> QED BY <4>1, <4>2 DEF Shaped, RequestSteps
    <3> QED BY <1>3, <3>1, FreeType DEF Others
  <2> QED BY <2>2, <2>3 DEF TriggerInv
<1>6. "request" \in overlapped => TriggerInv'  BY <1>1 DEF TriggerInv
<1>7. Solo'
  <2>1. \A q \in Processes : proc'[q].op \in {proc[q].op, "none"}  BY <1>3, FreeType DEF Others
  <2> QED BY <1>0, <1>1, <2>1, SoloKept
<1>8. proc'[p].at \in RequestSteps \union {"idle"}  BY <1>3, FreeType
<1>9. overlapped' \subseteq Ops /\ WindowInv'  BY <1>0, <1>1 DEF Typed, TimesType, WindowInv
<1> QED BY <1>1, <1>a, <1>3, <1>4, <1>5, <1>6, <1>7, <1>8, <1>9, RequestFrame

-----------------------------------------------------------------------------
(* Shared memory.                                                          *)

LEMMA WriteFrame ==
  ASSUME Inv, NEW p \in Processes, UNCHANGED <<now, schedule, limits, telemetry>>,
         ProcType', Others(p), proc'[p].at \in WriteSteps \union {"idle"}, Solo',
         overlapped \subseteq overlapped', overlapped' \subseteq Ops, starts' \in Nat,
         MemoryType', MemoryInv'
  PROVE  Inv'
<1>0. Typed /\ ScheduleInv /\ WindowInv /\ TriggerInv /\ SpanInv  BY DEF Inv
<1>1. Still(DispatchSteps) /\ Still({"set"}) /\ Still({"mark"})
  BY OtherSteps DEF WriteSteps, DispatchSteps
<1>2. Typed'
  BY <1>0 DEF Typed, TimesType, ScheduleType, LimitsType, SpanType
<1>3. ScheduleInv' /\ WindowInv' /\ TriggerInv' /\ SpanInv'
  BY <1>0, <1>1, ScheduleKept, WindowKept, TriggerKept, SpanKept
<1> QED BY <1>2, <1>3 DEF Inv

LEMMA MemoryWriteStep ==
  ASSUME Inv, NEW p \in Processes, MemoryWrite(p)
  PROVE  Inv'
<1>0. Typed /\ Solo /\ MemoryInv  BY DEF Inv
<1>a. now \in Nat /\ starts \in Nat  BY <1>0 DEF Typed, TimesType
<1>1. UNCHANGED <<now, schedule, limits, memory, telemetry>>  BY DEF MemoryWrite
<1>2. PICK scope \in Scopes, lifetime \in Lifetimes :
        Start(p, [Free EXCEPT !.op = "memory_write", !.scope = scope, !.time = Until(lifetime),
                              !.slot = starts + 1,
                              !.at = IF RowsOf(scope) = {} THEN "create" ELSE "update"])
  BY DEF MemoryWrite
<1> DEFINE time == Until(lifetime)
           slot == starts + 1
           at == IF RowsOf(scope) = {} THEN "create" ELSE "update"
           state == [Free EXCEPT !.op = "memory_write", !.scope = scope, !.time = time,
                                 !.slot = slot, !.at = at]
<1>3. /\ time \in Nat /\ slot \in Nat /\ at \in WriteSteps /\ at \in Steps
      /\ at = "create" => RowsOf(scope) = {}
  BY <1>a, Numbers DEF Until, WriteSteps, Steps
<1>4. Start(p, state)  BY <1>2
<1> HIDE DEF time, slot, at
<1>5. /\ state \in Process /\ state.op = "memory_write" /\ state.at = at /\ state.scope = scope
  BY <1>3, FreeType DEF Process, Ops
<1> HIDE DEF state
<1>6. Shaped(state)
  BY <1>3, <1>5 DEF Shaped, DispatchSteps, RequestSteps, WriteSteps, ExportSteps
<1>7. /\ ProcType' /\ Others(p) /\ proc'[p] = state
      /\ Solo' /\ overlapped \subseteq overlapped' /\ overlapped' \subseteq Ops /\ starts' = starts + 1
  <2>1. state.op \in Ops  BY <1>5 DEF Ops
  <2> QED BY <1>0, <1>4, <1>5, <1>6, <2>1, StartStep
<1>8. ASSUME "memory_write" \notin overlapped' PROVE MemoryInv'
  <2>1. ASSUME NEW q \in Processes, proc'[q].at = "create" PROVE RowsOf(proc'[q].scope) = {}
    <3>1. CASE q = p  BY <1>3, <1>5, <1>7, <2>1, <3>1
    <3>2. CASE q # p  BY <1>0, <1>7, <1>8, <2>1, <3>2 DEF MemoryInv, Others
    <3> QED BY <3>1, <3>2
  <2> QED BY <1>0, <1>1, <1>7, <1>8, <2>1 DEF MemoryInv, RowsOf
<1>9. "memory_write" \in overlapped' => MemoryInv'  BY DEF MemoryInv
<1>10. MemoryType'  BY <1>0, <1>1 DEF Typed, MemoryType
<1>11. proc'[p].at \in WriteSteps \union {"idle"} /\ starts' \in Nat  BY <1>a, <1>3, <1>5, <1>7
<1> QED BY <1>1, <1>7, <1>8, <1>9, <1>10, <1>11, WriteFrame

LEMMA WriterFacts ==
  ASSUME Inv, NEW p \in Processes, proc[p].at \in WriteSteps
  PROVE  /\ proc[p].op = "memory_write" /\ proc[p].scope \in Scopes
         /\ Asked(proc[p]) \in Row /\ Asked(proc[p]).scope = proc[p].scope
         /\ "memory_write" \notin overlapped =>
              \A q \in Processes \ {p} : proc[q].at \notin WriteSteps
<1>1. proc[p] \in Process /\ Shaped(proc[p]) /\ \A q \in Processes : Shaped(proc[q])
  BY DEF Inv, Typed, ProcType
<1>2. proc[p].op = "memory_write" /\ proc[p].scope \in Scopes
  BY <1>1 DEF Process, Shaped
<1>3. Asked(proc[p]) \in Row /\ Asked(proc[p]).scope = proc[p].scope
  BY <1>1 DEF Asked, Row, Process
<1>4. ASSUME "memory_write" \notin overlapped, NEW q \in Processes \ {p}
      PROVE  proc[q].at \notin WriteSteps
  <2>1. proc[q].op # "memory_write"  BY <1>2, <1>4 DEF Inv, Solo, Ops
  <2> QED BY <1>1, <2>1 DEF Shaped
<1> QED BY <1>2, <1>3, <1>4

(* The write is done: its scope holds one row, the one that was asked for. *)
LEMMA Written ==
  ASSUME Inv, NEW p \in Processes, proc[p].at \in WriteSteps, NEW row \in Row, row = Asked(proc[p]),
         NEW gone \in SUBSET RowsOf(proc[p].scope), rows' = (rows \ gone) \union {row},
         RowsOf(proc[p].scope) \subseteq gone \/ "memory_write" \in overlapped,
         latest' = [latest EXCEPT ![proc[p].scope] = {row}],
         Finish(p), Continue, UNCHANGED <<schedule, limits, telemetry>>
  PROVE  Inv'
<1> DEFINE scope == proc[p].scope
<1>0. Typed /\ Solo /\ MemoryInv  BY DEF Inv
<1>1. /\ scope \in Scopes /\ row.scope = scope
      /\ "memory_write" \notin overlapped => \A q \in Processes \ {p} : proc[q].at \notin WriteSteps
  BY WriterFacts
<1>2. ProcType' /\ Others(p) /\ proc'[p] = Free  BY <1>0, FinishStep DEF Typed
<1>3. rows \subseteq Row /\ latest \in [Scopes -> SUBSET Row]  BY <1>0 DEF Typed, MemoryType
<1>4. MemoryType'  BY <1>1, <1>3 DEF MemoryType
<1>5. Solo'
  <2>1. \A q \in Processes : proc'[q].op \in {proc[q].op, "none"}  BY <1>2, FreeType DEF Others
  <2> QED BY <1>0, <2>1, SoloKept DEF Continue
<1> HIDE DEF scope
<1>6. ASSUME "memory_write" \notin overlapped PROVE MemoryInv'
  <2>1. \A q \in Processes : proc'[q].at # "create"
    BY <1>1, <1>2, <1>6, FreeType DEF Others, WriteSteps
  <2>2. ASSUME NEW s \in Scopes
        PROVE  /\ RowsOf(s)' \subseteq latest'[s]
               /\ \A r, q \in latest'[s] : r = q
               /\ \A r \in latest'[s] : r.scope = s /\ (r \notin rows' => r.until <= now)
    <3>1. CASE s = scope
      <4>1. latest'[s] = {row}  BY <1>1, <1>3, <3>1 DEF scope
      <4>2. RowsOf(s)' \subseteq {row}  BY <1>6, <3>1 DEF RowsOf, scope
      <4> QED BY <1>1, <3>1, <4>1, <4>2
    <3>2. CASE s # scope
      <4>1. latest'[s] = latest[s]  BY <1>3, <3>2 DEF scope
      <4>2. RowsOf(s)' = RowsOf(s)  BY <1>1, <3>2 DEF RowsOf, scope
      <4>3. \A r \in latest[s] : r.scope = s /\ (r \notin rows => r.until <= now)
        BY <1>0, <1>6 DEF MemoryInv
      <4>4. \A r \in latest[s] : r \in rows => r \in rows'
        BY <3>2, <4>3 DEF RowsOf, scope
      <4> QED BY <1>0, <1>6, <4>1, <4>2, <4>3, <4>4 DEF MemoryInv
    <3> QED BY <3>1, <3>2
  <2>3. UNCHANGED <<now, overlapped>>  BY DEF Continue
  <2> QED BY <2>1, <2>2, <2>3 DEF MemoryInv
<1>7. "memory_write" \in overlapped => MemoryInv'  BY DEF MemoryInv, Continue
<1>8. /\ overlapped \subseteq overlapped' /\ overlapped' \subseteq Ops /\ starts' \in Nat /\ now' = now
      /\ proc'[p].at \in WriteSteps \union {"idle"}
  BY <1>0, <1>2, FreeType DEF Continue, Typed, TimesType
<1> QED BY <1>2, <1>4, <1>5, <1>6, <1>7, <1>8, WriteFrame

LEMMA CreateStep == ASSUME Inv, NEW p \in Processes, CreateMemory(p) PROVE Inv'
<1>1. proc[p].at = "create" /\ proc[p].at \in WriteSteps  BY DEF CreateMemory, At, WriteSteps
<1>2. Asked(proc[p]) \in Row  BY <1>1, WriterFacts
<1>3. RowsOf(proc[p].scope) \subseteq {} \/ "memory_write" \in overlapped
  BY <1>1 DEF Inv, MemoryInv
<1>4. rows' = (rows \ {}) \union {Asked(proc[p])} /\ {} \in SUBSET RowsOf(proc[p].scope)
  BY DEF CreateMemory
<1> QED BY <1>1, <1>2, <1>3, <1>4, Written DEF CreateMemory

LEMMA UpdateStep == ASSUME Inv, NEW p \in Processes, UpdateMemory(p) PROVE Inv'
<1> DEFINE found == RowsOf(proc[p].scope)
<1>0. Typed /\ Solo /\ MemoryInv  BY DEF Inv
<1>1. proc[p].at = "update" /\ proc[p].at \in WriteSteps  BY DEF UpdateMemory, At, WriteSteps
<1>2. Asked(proc[p]) \in Row /\ proc[p].scope \in Scopes /\ proc[p].op = "memory_write"
  BY <1>1, WriterFacts
<1>3. ASSUME NEW old \in found, rows' = (rows \ {old}) \union {RowWritten(proc[p], old)},
             latest' = [latest EXCEPT ![proc[p].scope] = {Asked(proc[p])}], Finish(p)
      PROVE  Inv'
  <2>1. old \in Row /\ old.scope = proc[p].scope  BY <1>0, <1>3 DEF Typed, MemoryType, RowsOf
  <2>2. RowWritten(proc[p], old) = Asked(proc[p])
    <3> DEFINE slot == proc[p].slot
               time == proc[p].time
               new == [old EXCEPT !.value = slot, !.until = time]
    <3>1. slot \in Nat /\ time \in Nat  BY <1>0 DEF Typed, ProcType, Process
    <3> HIDE DEF slot, time
    <3>2. new \in Row /\ new.scope = old.scope /\ new.value = slot /\ new.until = time
      BY <2>1, <3>1 DEF Row
    <3> HIDE DEF new
    <3>3. new = [scope |-> old.scope, value |-> slot, until |-> time]  BY <3>2 DEF Row
    <3>4. new = RowWritten(proc[p], old)  BY DEF new, slot, time, RowWritten
    <3> QED BY <2>1, <3>3, <3>4 DEF Asked, slot, time
  <2>3. {old} \in SUBSET RowsOf(proc[p].scope)  BY <1>3
  <2>4. RowsOf(proc[p].scope) \subseteq {old} \/ "memory_write" \in overlapped
    BY <1>0, <1>2, <1>3 DEF MemoryInv
  <2>5. rows' = (rows \ {old}) \union {Asked(proc[p])}  BY <1>3, <2>2
  <2>6. Continue /\ UNCHANGED <<schedule, limits, telemetry>>  BY DEF UpdateMemory
  <2> QED BY <1>1, <1>2, <1>3, <2>3, <2>4, <2>5, <2>6, Written
<1>4. ASSUME UNCHANGED memory, Finish(p) \/ (found = {} /\ Goto(p, "create")) PROVE Inv'
  <2>1. /\ ProcType' /\ Others(p)
        /\ \/ proc'[p].at = "idle" /\ proc'[p].op = "none"
           \/ /\ proc'[p].at = "create" /\ proc'[p].op = proc[p].op /\ proc'[p].scope = proc[p].scope
              /\ found = {}
    <3>1. CASE Finish(p)  BY <1>0, <3>1, FinishStep, FreeType DEF Typed
    <3>2. CASE found = {} /\ Goto(p, "create")
      <4>1. "create" \in WriteSteps  BY DEF WriteSteps
      <4> QED BY <1>0, <1>1, <3>2, <4>1, GotoStep DEF Typed
    <3> QED BY <1>4, <3>1, <3>2
  <2>2. UNCHANGED <<now, starts, overlapped, schedule, limits, telemetry>>
    BY DEF UpdateMemory, Continue
  <2>3. Solo'
    <3>1. \A q \in Processes : proc'[q].op \in {proc[q].op, "none"}  BY <2>1 DEF Others
    <3> QED BY <1>0, <2>2, <3>1, SoloKept
  <2>4. ASSUME "memory_write" \notin overlapped PROVE MemoryInv'
    <3>1. ASSUME NEW q \in Processes, proc'[q].at = "create" PROVE RowsOf(proc'[q].scope) = {}
      <4>1. CASE q = p  BY <2>1, <3>1, <4>1
      <4>2. CASE q # p  BY <1>0, <2>1, <2>4, <3>1, <4>2 DEF MemoryInv, Others
      <4> QED BY <4>1, <4>2
    <3> QED BY <1>0, <1>4, <2>2, <2>4, <3>1 DEF MemoryInv, RowsOf
  <2>5. "memory_write" \in overlapped => MemoryInv'  BY <2>2 DEF MemoryInv
  <2>6. /\ MemoryType' /\ overlapped \subseteq overlapped' /\ overlapped' \subseteq Ops /\ starts' \in Nat
        /\ proc'[p].at \in WriteSteps \union {"idle"}
    BY <1>0, <1>4, <2>1, <2>2 DEF Typed, TimesType, MemoryType, WriteSteps
  <2> QED BY <2>1, <2>2, <2>3, <2>4, <2>5, <2>6, WriteFrame
<1> QED BY <1>3, <1>4 DEF UpdateMemory

(* Rows only go: by a deletion of a scope, or because they have expired.   *)
LEMMA RowsGo ==
  ASSUME Inv, UNCHANGED <<now, starts, schedule, limits, telemetry, proc, overlapped>>,
         rows' \subseteq rows, latest' \in [Scopes -> SUBSET Row],
         \A s \in Scopes :
           \/ latest'[s] = {} /\ RowsOf(s)' = {}
           \/ /\ latest'[s] = latest[s]
              /\ \A r \in RowsOf(s) : r \in rows' \/ r.until <= now
  PROVE  Inv'
<1>0. Typed /\ Solo /\ ScheduleInv /\ WindowInv /\ TriggerInv /\ MemoryInv /\ SpanInv  BY DEF Inv
<1>1. Typed'
  BY <1>0 DEF Typed, TimesType, ScheduleType, LimitsType, MemoryType, SpanType, ProcType, Shaped
<1>2. Solo'  BY <1>0 DEF Solo
<1>3. ScheduleInv' /\ WindowInv' /\ TriggerInv' /\ SpanInv'
  BY <1>0 DEF ScheduleInv, WindowInv, TriggerInv, SpanInv, Alive
<1>4. ASSUME "memory_write" \notin overlapped PROVE MemoryInv'
  <2>1. ASSUME NEW s \in Scopes
        PROVE  /\ RowsOf(s)' \subseteq latest'[s]
               /\ \A r, q \in latest'[s] : r = q
               /\ \A r \in latest'[s] : r.scope = s /\ (r \notin rows' => r.until <= now)
    <3>1. /\ RowsOf(s) \subseteq latest[s] /\ \A r, q \in latest[s] : r = q
          /\ \A r \in latest[s] : r.scope = s /\ (r \notin rows => r.until <= now)
      BY <1>0, <1>4 DEF MemoryInv
    <3>2. RowsOf(s)' \subseteq RowsOf(s)  BY DEF RowsOf
    <3>3. \A r \in latest[s] : r \in rows => r \in RowsOf(s)  BY <3>1 DEF RowsOf
    <3> QED BY <3>1, <3>2, <3>3
  <2>2. \A q \in Processes : proc[q].at = "create" => RowsOf(proc[q].scope)' = {}
    BY <1>0, <1>4 DEF MemoryInv, RowsOf
  <2>3. \A q \in Processes : proc'[q].at = "create" => RowsOf(proc[q].scope)' = {}
    BY <2>2
  <2> QED BY <2>1, <2>3 DEF MemoryInv, RowsOf
<1>5. "memory_write" \in overlapped => MemoryInv'  BY DEF MemoryInv
<1> QED BY <1>1, <1>2, <1>3, <1>4, <1>5 DEF Inv

LEMMA DeleteStep == ASSUME Inv, NEW scope \in Scopes, DeleteMemory(scope) PROVE Inv'
<1>1. latest \in [Scopes -> SUBSET Row] /\ latest' = [latest EXCEPT ![scope] = {}]
  BY DEF Inv, Typed, MemoryType, DeleteMemory
<1>2. rows' = rows \ RowsOf(scope)  BY DEF DeleteMemory
<1>3. \A s \in Scopes :
        \/ latest'[s] = {} /\ RowsOf(s)' = {}
        \/ latest'[s] = latest[s] /\ \A r \in RowsOf(s) : r \in rows' \/ r.until <= now
  BY <1>1, <1>2 DEF RowsOf
<1>4. latest' \in [Scopes -> SUBSET Row]  BY <1>1
<1> QED BY <1>2, <1>3, <1>4, RowsGo DEF DeleteMemory

LEMMA PurgeStep == ASSUME Inv, PurgeExpired PROVE Inv'
<1>1. latest \in [Scopes -> SUBSET Row] /\ rows \subseteq Row /\ now \in Nat
  BY DEF Inv, Typed, MemoryType, TimesType
<1>2. rows' = {r \in rows : r.until >= now} /\ latest' = latest  BY DEF PurgeExpired
<1>3. \A r \in rows : r \in rows' \/ r.until <= now  BY <1>1, <1>2 DEF Row
<1> QED BY <1>1, <1>2, <1>3, RowsGo DEF PurgeExpired, RowsOf

-----------------------------------------------------------------------------
(* Spans.                                                                  *)

LEMMA SpanFrame ==
  ASSUME Inv, UNCHANGED <<now, schedule, limits, memory>>,
         ProcType', Still(Steps \ ExportSteps), Solo',
         overlapped \subseteq overlapped', overlapped' \subseteq Ops, starts' \in Nat,
         SpanType', SpanInv'
  PROVE  Inv'
<1>0. Typed /\ ScheduleInv /\ WindowInv /\ TriggerInv /\ MemoryInv  BY DEF Inv
<1>1. Still(DispatchSteps) /\ Still({"set"}) /\ Still({"create"})
  BY DEF Still, Steps, DispatchSteps, RequestSteps, WriteSteps, ExportSteps
<1>2. Typed'
  BY <1>0 DEF Typed, TimesType, ScheduleType, LimitsType, MemoryType
<1>3. ScheduleInv' /\ WindowInv' /\ TriggerInv' /\ MemoryInv'
  BY <1>0, <1>1, ScheduleKept, WindowKept, TriggerKept, MemoryKept
<1> QED BY <1>2, <1>3 DEF Inv

LEMMA ExportStart == ASSUME Inv, NEW p \in Processes, ExportSpans(p) PROVE Inv'
<1>0. Typed /\ Solo /\ SpanInv  BY DEF Inv
<1> DEFINE state == [Free EXCEPT !.op = "export", !.at = "post", !.ids = Unexported]
<1>1. Unexported \in SUBSET Spans  BY DEF Unexported
<1>2. "post" \in Steps  BY DEF Steps, ExportSteps
<1>3. state \in Process /\ state.op = "export" /\ state.at = "post"
  BY <1>1, <1>2, FreeType DEF Process, Ops
<1>4. Start(p, state)  BY DEF ExportSpans
<1> HIDE DEF state
<1>5. Shaped(state)
  BY <1>3 DEF Shaped, DispatchSteps, RequestSteps, WriteSteps, ExportSteps
<1>6. /\ ProcType' /\ Others(p) /\ proc'[p] = state
      /\ Solo' /\ overlapped \subseteq overlapped' /\ overlapped' \subseteq Ops /\ starts' = starts + 1
  <2>1. state.op \in Ops  BY <1>3 DEF Ops
  <2> QED BY <1>0, <1>3, <1>4, <1>5, <2>1, StartStep
<1>7. UNCHANGED <<now, schedule, limits, memory, telemetry>>  BY DEF ExportSpans
<1>8. Still(Steps \ ExportSteps) /\ Still({"mark"})
  BY <1>3, <1>6, OtherSteps DEF ExportSteps
<1>9. SpanInv'  BY <1>0, <1>7, <1>8, SpanKept
<1>10. SpanType' /\ starts' \in Nat  BY <1>0, <1>6, <1>7 DEF Typed, TimesType, SpanType
<1> QED BY <1>6, <1>7, <1>8, <1>9, <1>10, SpanFrame

LEMMA PostStep == ASSUME Inv, NEW p \in Processes, PostSpans(p) PROVE Inv'
<1>0. Typed /\ Solo /\ SpanInv  BY DEF Inv
<1>1. proc[p].at = "post" /\ UNCHANGED <<now, starts, overlapped, schedule, limits, memory, span>>
  BY DEF PostSpans, At, Continue
<1>2. proc[p].ids \subseteq Spans /\ collector \subseteq Spans
  BY <1>0 DEF Typed, ProcType, Process, SpanType
<1>3. /\ ProcType' /\ Others(p) /\ proc'[p].at \in {"mark", "idle"}
      /\ proc'[p].op \in {proc[p].op, "none"}
      /\ collector \subseteq collector' /\ collector' \subseteq Spans
      /\ proc'[p].at = "mark" => proc'[p].ids \subseteq collector'
  <2>1. CASE Goto(p, "mark") /\ collector' = collector \union proc[p].ids
    <3>1. proc[p].at \in ExportSteps /\ "mark" \in ExportSteps  BY <1>1 DEF ExportSteps
    <3> QED BY <1>0, <1>2, <2>1, <3>1, GotoStep DEF Typed
  <2>2. CASE Finish(p) /\ collector' = collector
    BY <1>0, <1>2, <2>2, FinishStep, FreeType DEF Typed
  <2> QED BY <2>1, <2>2 DEF PostSpans
<1>4. Solo'
  <2>1. \A q \in Processes : proc'[q].op \in {proc[q].op, "none"}  BY <1>3 DEF Others
  <2> QED BY <1>0, <1>1, <2>1, SoloKept
<1>5. SpanInv'  BY <1>0, <1>1, <1>3 DEF SpanInv, Others
<1>6. SpanType' /\ starts' \in Nat /\ overlapped' \subseteq Ops
  BY <1>0, <1>1, <1>3 DEF Typed, TimesType, SpanType
<1>7. Still(Steps \ ExportSteps)
  <2>1. proc'[p].at \notin Steps \ ExportSteps
    BY <1>3 DEF Steps, DispatchSteps, RequestSteps, WriteSteps, ExportSteps
  <2> QED BY <1>3, <2>1, OtherSteps
<1> QED BY <1>1, <1>3, <1>4, <1>5, <1>6, <1>7, SpanFrame

LEMMA MarkStep == ASSUME Inv, NEW p \in Processes, MarkExported(p) PROVE Inv'
<1>0. Typed /\ Solo /\ SpanInv  BY DEF Inv
<1>1. /\ proc[p].at = "mark" /\ UNCHANGED <<now, starts, overlapped, schedule, limits, memory, collector>>
      /\ span' = [s \in Spans |-> IF s \in proc[p].ids /\ span[s] = "recorded"
                                  THEN "exported" ELSE span[s]]
  BY DEF MarkExported, Marked, At, Continue
<1>2. ProcType' /\ Others(p) /\ proc'[p] = Free  BY <1>0, FinishStep DEF Typed, MarkExported
<1>3. Solo'
  <2>1. \A q \in Processes : proc'[q].op \in {proc[q].op, "none"}  BY <1>2, FreeType DEF Others
  <2> QED BY <1>0, <1>1, <2>1, SoloKept
<1>4. proc[p].ids \subseteq collector  BY <1>0, <1>1 DEF SpanInv
<1>5. SpanInv'
  <2>1. \A s \in Spans : span'[s] = "exported" => s \in collector'
    BY <1>0, <1>1, <1>4 DEF SpanInv
  <2>2. \A q \in Processes : proc'[q].at = "mark" => proc'[q].ids \subseteq collector'
    BY <1>0, <1>1, <1>2, FreeType DEF SpanInv, Others
  <2> QED BY <2>1, <2>2 DEF SpanInv
<1>6. SpanType' /\ starts' \in Nat /\ overlapped' \subseteq Ops
  BY <1>0, <1>1 DEF Typed, TimesType, SpanType
<1>7. Still(Steps \ ExportSteps)
  <2>1. proc'[p].at \notin Steps \ ExportSteps
    BY <1>2, FreeType DEF Steps, DispatchSteps, RequestSteps, WriteSteps, ExportSteps
  <2> QED BY <1>2, <2>1, OtherSteps
<1> QED BY <1>1, <1>2, <1>3, <1>5, <1>6, <1>7, SpanFrame

LEMMA SpanRowStep == ASSUME Inv, NEW s \in Spans, RecordSpan(s) \/ EnforceRetention(s) PROVE Inv'
<1>0. Typed /\ Solo /\ SpanInv  BY DEF Inv
<1>1. UNCHANGED <<now, starts, schedule, limits, memory, collector, proc, overlapped>>
  BY DEF RecordSpan, EnforceRetention
<1>2. PICK new \in {"recorded", "purged"} : span' = [span EXCEPT ![s] = new]
  BY DEF RecordSpan, EnforceRetention
<1>3. SpanType'  BY <1>0, <1>1, <1>2 DEF Typed, SpanType
<1>4. \A t \in Spans : span'[t] = "exported" => span[t] = "exported"
  BY <1>0, <1>2 DEF Typed, SpanType
<1>5. SpanInv'  BY <1>0, <1>1, <1>4 DEF SpanInv
<1>6. Still(Steps \ ExportSteps) /\ Solo' /\ ProcType' /\ overlapped' \subseteq Ops /\ starts' \in Nat
  BY <1>0, <1>1 DEF Still, Solo, Typed, TimesType, ProcType, Shaped
<1> QED BY <1>1, <1>3, <1>5, <1>6, SpanFrame

-----------------------------------------------------------------------------
(* The clock, a death, and the whole.                                      *)

LEMMA ClockOrDeath ==
  ASSUME Inv, now' \in {now, now + 1}, UNCHANGED <<starts, schedule, limits, memory, telemetry, overlapped>>,
         ProcType', \A p \in Processes : proc'[p] = proc[p] \/ proc'[p] = Free
  PROVE  Inv'
<1>0. Typed /\ Solo /\ ScheduleInv /\ WindowInv /\ TriggerInv /\ MemoryInv /\ SpanInv  BY DEF Inv
<1>1. \A p \in Processes : proc'[p].op \in {proc[p].op, "none"}  BY FreeType
<1>2. Still(DispatchSteps) /\ Still({"set"}) /\ Still({"create"}) /\ Still({"mark"})
  BY FreeType DEF Still, DispatchSteps
<1>3. Typed'
  BY <1>0 DEF Typed, TimesType, ScheduleType, LimitsType, MemoryType, SpanType
<1>4. Solo'  BY <1>0, <1>1, SoloKept
<1>5. ScheduleInv' /\ WindowInv' /\ TriggerInv' /\ MemoryInv' /\ SpanInv'
  BY <1>0, <1>2, ScheduleKept, WindowKept, TriggerKept, MemoryKept, SpanKept
<1> QED BY <1>3, <1>4, <1>5 DEF Inv

LEMMA InitInv == ASSUME Init PROVE Inv
<1>1. Typed
  <2>1. ProcType  BY FreeType DEF Init, ProcType
  <2>2. global \in Counter /\ trigger \in Counter  BY DEF Init, NoCounter, Counter
  <2>3. latest \in [Scopes -> SUBSET Row]  BY DEF Init
  <2>4. span \in [Spans -> {"none", "recorded", "exported", "purged"}]  BY DEF Init
  <2> QED BY <2>1, <2>2, <2>3, <2>4
          DEF Init, Typed, TimesType, ScheduleType, LimitsType, MemoryType, SpanType
<1>2. \A p \in Processes : proc[p].op = "none" /\ proc[p].at = "idle"  BY FreeType DEF Init
<1>3. Solo /\ ScheduleInv /\ SpanInv
  BY <1>2 DEF Init, Solo, ScheduleInv, SpanInv, Ops
<1>4. WindowInv /\ TriggerInv
  BY <1>2, Numbers DEF Init, WindowInv, TriggerInv, NoCounter
<1>5. MemoryInv  BY <1>2 DEF Init, MemoryInv, RowsOf
<1> QED BY <1>1, <1>3, <1>4, <1>5 DEF Inv

LEMMA StepInv == ASSUME Inv, [Next]_vars PROVE Inv'
<1>0. ProcType  BY DEF Inv, Typed
<1>1. CASE Tick
  BY <1>0, <1>1, ClockOrDeath DEF Tick, ProcType, Shaped
<1>2. CASE UNCHANGED vars
  BY <1>0, <1>2, ClockOrDeath DEF ProcType, Shaped
<1>3. ASSUME NEW p \in Processes, Die(p) PROVE Inv'
  <2>1. ProcType' /\ Others(p) /\ proc'[p] = Free  BY <1>0, <1>3, FinishStep DEF Die
  <2> QED BY <1>3, <2>1, ClockOrDeath DEF Die, Others
<1>4. ASSUME NEW p \in Processes, DispatchScheduled(p) \/ EnqueueScheduled(p) \/ AdvanceSchedule(p)
      PROVE  Inv'
  BY <1>4, DispatchStep
<1>5. ASSUME NEW p \in Processes, ApiRequest(p) \/ CountRequest(p) \/ ReseedWindow(p) PROVE Inv'
  BY <1>5, ApiRequestStep, WindowStep
<1>6. ASSUME NEW p \in Processes, Trigger(p) PROVE Inv'
  BY <1>6, ReadTriggerStep, SetTriggerStep DEF Trigger
<1>7. ASSUME NEW p \in Processes, Write(p) PROVE Inv'
  BY <1>7, MemoryWriteStep, CreateStep, UpdateStep DEF Write
<1>8. ASSUME NEW p \in Processes, ExportSpans(p) \/ PostSpans(p) \/ MarkExported(p) PROVE Inv'
  BY <1>8, ExportStart, PostStep, MarkStep
<1>9. CASE \E scope \in Scopes : DeleteMemory(scope)  BY <1>9, DeleteStep
<1>10. CASE PurgeExpired  BY <1>10, PurgeStep
<1>11. CASE \E s \in Spans : RecordSpan(s) \/ EnforceRetention(s)  BY <1>11, SpanRowStep
<1> QED BY <1>1, <1>2, <1>3, <1>4, <1>5, <1>6, <1>7, <1>8, <1>9, <1>10, <1>11 DEF Next

LEMMA AlwaysInv == Spec => []Inv
<1>1. Init => Inv  BY InitInv
<1>2. Inv /\ [Next]_vars => Inv'  BY StepInv
<1> QED BY <1>1, <1>2, PTL DEF Spec

-----------------------------------------------------------------------------
(* Theorems                                                                *)

(* No window of the rate limiter admits more than its limit and one for    *)
(* each request that found it gone, however many requests race for it; and *)
(* the second limiter holds while requests come one by one.                *)
THEOREM QuotaAlways == Spec => []QuotaHolds
<1>1. ASSUME Inv PROVE QuotaHolds
  <2>1. trigger.admitted \in Nat /\ trigger.count \in Nat /\ TriggerLimit \in Nat
    BY <1>1, Numbers DEF Inv, Typed, LimitsType, Counter
  <2> QED BY <1>1, <2>1 DEF Inv, WindowInv, TriggerInv, QuotaHolds
<1>2. Inv => QuotaHolds  BY <1>1
<1> QED BY <1>2, AlwaysInv, PTL

(* A span is marked exported only after the collector had it, whatever     *)
(* jobs overlap, die or purge in between.                                  *)
THEOREM ExportedAlways == Spec => []ExportedArrived
<1>1. Inv => ExportedArrived  BY DEF Inv, SpanInv, ExportedArrived
<1> QED BY <1>1, AlwaysInv, PTL

(* A reader of the shared memory gets the last write that has not expired, *)
(* as long as no two writes ran at once.                                   *)
THEOREM MemoryAlways == Spec => []MemoryFresh
<1>1. ASSUME Inv, "memory_write" \notin overlapped, NEW scope \in Scopes
      PROVE  {r \in Newest(RowsOf(scope)) : Unexpired(r)} = {r \in latest[scope] : Unexpired(r)}
  <2>1. /\ RowsOf(scope) \subseteq latest[scope] /\ \A r, q \in latest[scope] : r = q
        /\ \A r \in latest[scope] : r.scope = scope /\ (r \notin rows => r.until <= now)
    BY <1>1 DEF Inv, MemoryInv
  <2>2. now \in Nat /\ rows \subseteq Row /\ latest[scope] \subseteq Row
    BY <1>1 DEF Inv, Typed, TimesType, MemoryType
  <2>3. Newest(RowsOf(scope)) = RowsOf(scope)
    BY <2>1, <2>2 DEF Newest, RowsOf, Row
  <2>4. ASSUME NEW r \in latest[scope], Unexpired(r) PROVE r \in RowsOf(scope)
    BY <2>1, <2>2, <2>4 DEF Unexpired, RowsOf, Row
  <2> QED BY <2>1, <2>3, <2>4
<1>2. Inv => MemoryFresh
  <2>1. "run" \in Scopes /\ "agent" \in Scopes  BY DEF Scopes
  <2> QED BY <1>1, <2>1 DEF MemoryFresh, ReadMemory
<1> QED BY <1>2, AlwaysInv, PTL

(* Two scheduled runs are an interval apart, though jobs die between the   *)
(* enqueue and the new slot, as long as no two of them ran at once.        *)
THEOREM RunsAlwaysSpaced == Spec => RunsSpaced
<1> DEFINE Apart == ("dispatch" \notin overlapped /\ last # 0 /\ last' # last)
                      => last' - last >= Interval
<1>1. ASSUME Inv, [Next]_vars, "dispatch" \notin overlapped, last # 0, last' # last
      PROVE  last' - last >= Interval
  <2>1. PICK p \in Processes : EnqueueScheduled(p)
    BY <1>1 DEF Next, Tick, Die, DispatchScheduled, AdvanceSchedule, ApiRequest, CountRequest,
                ReseedWindow, Trigger, ReadTriggerCount, SetTriggerCount, Write, MemoryWrite,
                CreateMemory, UpdateMemory, ExportSpans, PostSpans, MarkExported, DeleteMemory,
                PurgeExpired, RecordSpan, EnforceRetention
  <2>2. proc[p].at = "enqueue" /\ last' = IF proc[p].slot \in keys THEN last ELSE proc[p].time
    BY <2>1 DEF EnqueueScheduled, At, IdempotencyKey
  <2>3. proc[p].slot \notin keys /\ last' = proc[p].time  BY <1>1, <2>2
  <2>4. proc[p].op = "dispatch"
    BY <1>1, <2>2 DEF Inv, Typed, ProcType, Shaped, DispatchSteps
  <2>5. proc[p].slot = next /\ next <= proc[p].time /\ (next \in keys \/ next >= last + Interval)
    BY <1>1, <2>4 DEF Inv, ScheduleInv
  <2>6. next \in Nat /\ last \in Nat /\ Interval \in Nat /\ proc[p].time \in Nat
    BY <1>1, Numbers DEF Inv, Typed, ScheduleType, ProcType, Process
  <2> QED BY <2>3, <2>5, <2>6
<1>2. Inv /\ [Next]_vars => [Apart]_vars  BY <1>1
<1>3. Spec => [][Apart]_vars  BY <1>2, AlwaysInv, PTL DEF Spec
<1> QED BY <1>3 DEF RunsSpaced
=============================================================================
