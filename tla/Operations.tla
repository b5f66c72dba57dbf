----------------------------- MODULE Operations -----------------------------
(***************************************************************************)
(* What runs beside the agents: the maintenance jobs that Celery beat      *)
(* sends to the workers, the requests that start workflow runs through two *)
(* rate limiters, and the shared memory that agents write.  Jobs and       *)
(* requests hold no lock: a beat may come while the last one still runs,   *)
(* two requests read one counter, and a process may die between any two of *)
(* its statements.                                                         *)
(*                                                                         *)
(* One workflow with a schedule, one user, one memory key.  What becomes   *)
(* of a run that is enqueued is in WorkflowQueue.                          *)
(***************************************************************************)
EXTENDS Integers, FiniteSets

CONSTANTS Processes,    \* worker and web processes
          Spans,        \* OtelSpan rows
          Interval,     \* Workflow.run_interval_minutes
          Limit,        \* API_RATE_LIMIT_REQUESTS_PER_WINDOW
          TriggerLimit, \* _WORKFLOW_TRIGGER_LIMIT
          Window,       \* length of both rate-limit windows
          Lifetimes,    \* ttl_seconds of a memory write; Forever for none
          MaxTime,      \* bound: the clock
          MaxStarts     \* bound: jobs and requests started

Forever == MaxTime + 1

ASSUME NumberAssumption ==
  /\ Interval \in Nat \ {0} /\ Window \in Nat \ {0}
  /\ Limit \in Nat \ {0} /\ TriggerLimit \in Nat \ {0}
  /\ MaxTime \in Nat /\ MaxStarts \in Nat
  /\ Lifetimes \subseteq 1..Forever

VARIABLES now,     \* the clock
          starts,  \* jobs and requests started so far
          next,    \* Workflow.next_run_at, 0 for NULL
          keys,    \* idempotency keys of the workflow's runs
          last,    \* ghost: when the last scheduled run was due to start
          global,  \* the counter of ApiGlobalRateLimitMiddleware
          trigger, \* the counter of workflow_trigger
          rows,    \* the SharedMemory rows of the key
          latest,  \* ghost: per scope, the write that finished last
          span,    \* the OtelSpan rows
          collector, \* ghost: the spans that reached the OTLP collector
          proc,    \* what each process is doing
          overlapped \* ghost: jobs and requests that ran twice at once

vars == <<now, starts, next, keys, last, global, trigger, rows, latest, span,
          collector, proc, overlapped>>

schedule == <<next, keys, last>>
limits == <<global, trigger>>
memory == <<rows, latest>>
telemetry == <<span, collector>>

-----------------------------------------------------------------------------
(* Processes                                                               *)

Free == [op |-> "none", at |-> "idle", slot |-> 0, time |-> 0, count |-> 0,
         scope |-> "run", ids |-> {}]

Running(op) == {p \in Processes : proc[p].op = op}

At(p, step) == proc[p].at = step

Goto(p, step) == proc' = [proc EXCEPT ![p].at = step]

Finish(p) == proc' = [proc EXCEPT ![p] = Free]

Start(p, state) ==
  /\ proc[p] = Free
  /\ starts < MaxStarts
  /\ starts' = starts + 1
  /\ proc' = [proc EXCEPT ![p] = state]
  /\ overlapped' = IF Running(state.op) = {} THEN overlapped
                   ELSE overlapped \union {state.op}

Continue == UNCHANGED <<now, starts, overlapped>>

Tick ==
  /\ now < MaxTime
  /\ now' = now + 1
  /\ UNCHANGED <<starts, schedule, limits, memory, telemetry, proc, overlapped>>

(* A job that dies is not retried; beat sends the next one.                *)
Die(p) ==
  /\ proc[p] # Free
  /\ Finish(p)
  /\ UNCHANGED <<now, starts, schedule, limits, memory, telemetry, overlapped>>

-----------------------------------------------------------------------------
(* dispatch_scheduled_workflows: the clock is read first, then the row.    *)

DispatchScheduled(p) ==
  /\ next <= now
  /\ Start(p, [Free EXCEPT !.op = "dispatch", !.slot = next, !.time = now,
                           !.at = IF next = 0 THEN "advance" ELSE "enqueue"])
  /\ UNCHANGED <<now, schedule, limits, memory, telemetry>>

FaultyIdempotencyKey(job) == job.time

(* The key names the slot, not the moment it was found due.                *)
IdempotencyKey(job) == job.slot

(* A key that is already there returns the existing run.                   *)
EnqueueScheduled(p) ==
  /\ At(p, "enqueue")
  /\ LET key == IdempotencyKey(proc[p]) IN
       /\ keys' = keys \union {key}
       /\ last' = IF key \in keys THEN last ELSE proc[p].time
  /\ Goto(p, "advance")
  /\ Continue
  /\ UNCHANGED <<next, limits, memory, telemetry>>

(* The anchor of a first sighting, or the slot after this one.             *)
AdvanceSchedule(p) ==
  /\ At(p, "advance")
  /\ next' = proc[p].time + Interval
  /\ Finish(p)
  /\ Continue
  /\ UNCHANGED <<keys, last, limits, memory, telemetry>>

-----------------------------------------------------------------------------
(* Requests.  A counter lives in the cache until its time is up.           *)

Counter == [count : Nat, until : Nat, admitted : Nat, missed : Nat]

NoCounter == [count |-> 0, until |-> 0, admitted |-> 0, missed |-> 0]

Alive(c) == now < c.until

Fresh == [count |-> 1, until |-> now + Window, admitted |-> 1, missed |-> 0]

(* cache.add: seeds the window, or finds it there.                         *)
ApiRequest(p) ==
  /\ IF Alive(global)
     THEN /\ Start(p, [Free EXCEPT !.op = "request", !.at = "count"])
          /\ UNCHANGED global
     ELSE /\ Start(p, [Free EXCEPT !.op = "request", !.at = "view"])
          /\ global' = Fresh
  /\ UNCHANGED <<now, schedule, trigger, memory, telemetry>>

(* What the window holds after one more request, and whether it may pass.  *)
FaultyAdmit(c) ==
  IF c.count > Limit THEN [counter |-> c, passed |-> FALSE]
  ELSE [counter |-> [c EXCEPT !.count = @ + 1, !.admitted = @ + 1], passed |-> TRUE]

Admit(c) ==
  IF c.count >= Limit THEN [counter |-> [c EXCEPT !.count = @ + 1], passed |-> FALSE]
  ELSE [counter |-> [c EXCEPT !.count = @ + 1, !.admitted = @ + 1], passed |-> TRUE]

(* cache.incr: the window counts it, or has gone since cache.add.          *)
CountRequest(p) ==
  /\ At(p, "count")
  /\ LET answer == Admit(global) IN
       IF Alive(global)
       THEN /\ global' = answer.counter
            /\ IF answer.passed THEN Goto(p, "view") ELSE Finish(p)
       ELSE /\ UNCHANGED global
            /\ Goto(p, "reseed")
  /\ Continue
  /\ UNCHANGED <<schedule, trigger, memory, telemetry>>

(* cache.add once more, which another request may have done; it passes.    *)
ReseedWindow(p) ==
  /\ At(p, "reseed")
  /\ global' = IF Alive(global)
               THEN [global EXCEPT !.admitted = @ + 1, !.missed = @ + 1] ELSE Fresh
  /\ Goto(p, "view")
  /\ Continue
  /\ UNCHANGED <<schedule, trigger, memory, telemetry>>

(* workflow_trigger's own limiter: cache.get, then cache.set.              *)
ReadTriggerCount(p) ==
  /\ At(p, "view")
  /\ LET count == IF Alive(trigger) THEN trigger.count ELSE 0 IN
       IF count >= TriggerLimit THEN Finish(p)
       ELSE proc' = [proc EXCEPT ![p].at = "set", ![p].count = count]
  /\ Continue
  /\ UNCHANGED <<schedule, limits, memory, telemetry>>

(* Each set starts the window anew; then the run is enqueued, without key. *)
SetTriggerCount(p) ==
  /\ At(p, "set")
  /\ trigger' = [count |-> proc[p].count + 1, until |-> now + Window,
                 admitted |-> 1 + IF Alive(trigger) THEN trigger.admitted ELSE 0,
                 missed |-> 0]
  /\ Finish(p)
  /\ Continue
  /\ UNCHANGED <<schedule, global, memory, telemetry>>

Trigger(p) == ReadTriggerCount(p) \/ SetTriggerCount(p)

-----------------------------------------------------------------------------
(* Shared memory.  No constraint keeps a scope to one row.                 *)

Scopes == {"run", "agent"}

SharedMemory == [scope : Scopes, value : 1..MaxStarts, until : 1..(MaxTime + Forever)]

RowsOf(scope) == {r \in rows : r.scope = scope}

Unexpired(r) == now < r.until

Until(lifetime) == IF lifetime = Forever THEN MaxTime + Forever ELSE now + lifetime

MemoryWrite(p) ==
  /\ \E scope \in Scopes, lifetime \in Lifetimes :
       Start(p, [Free EXCEPT !.op = "memory_write", !.scope = scope,
                             !.time = Until(lifetime), !.slot = starts + 1,
                             !.at = IF RowsOf(scope) = {} THEN "create" ELSE "update"])
  /\ UNCHANGED <<now, schedule, limits, memory, telemetry>>

Asked(job) == [scope |-> job.scope, value |-> job.slot, until |-> job.time]

FaultyRowWritten(job, old) == [Asked(job) EXCEPT !.until = old.until]

(* expires_at is written with the value.                                   *)
RowWritten(job, old) == [old EXCEPT !.value = job.slot, !.until = job.time]

(* get() found no row: it is created, whoever else created one meanwhile.  *)
CreateMemory(p) ==
  /\ At(p, "create")
  /\ rows' = rows \union {Asked(proc[p])}
  /\ latest' = [latest EXCEPT ![proc[p].scope] = {Asked(proc[p])}]
  /\ Finish(p)
  /\ Continue
  /\ UNCHANGED <<schedule, limits, telemetry>>

(* get() locks the one row and updates it; of several rows it fails, and   *)
(* none left means it was deleted first, so that one is created.           *)
UpdateMemory(p) ==
  /\ At(p, "update")
  /\ LET found == RowsOf(proc[p].scope) IN
       \/ /\ Cardinality(found) > 1
          /\ UNCHANGED memory
          /\ Finish(p)
       \/ /\ Cardinality(found) = 1
          /\ \E old \in found : rows' = (rows \ {old}) \union {RowWritten(proc[p], old)}
          /\ latest' = [latest EXCEPT ![proc[p].scope] = {Asked(proc[p])}]
          /\ Finish(p)
       \/ /\ found = {}
          /\ UNCHANGED memory
          /\ Goto(p, "create")
  /\ Continue
  /\ UNCHANGED <<schedule, limits, telemetry>>

DeleteMemory(scope) ==
  /\ RowsOf(scope) # {}
  /\ rows' = rows \ RowsOf(scope)
  /\ latest' = [latest EXCEPT ![scope] = {}]
  /\ UNCHANGED <<now, starts, schedule, limits, telemetry, proc, overlapped>>

(* One DELETE statement of the purge job.                                  *)
PurgeExpired ==
  /\ \E r \in rows : r.until < now
  /\ rows' = {r \in rows : r.until >= now}
  /\ UNCHANGED <<now, starts, schedule, limits, latest, telemetry, proc, overlapped>>

(* One row, written by the agents' tool or by POST of the run's memory.    *)
Write(p) == MemoryWrite(p) \/ CreateMemory(p) \/ UpdateMemory(p)

Newest(set) == {r \in set : \A s \in set : s.value <= r.value}

(* The run's newest row, or else the agent's, unless it has expired.       *)
ReadMemory ==
  LET found(scope) == {r \in Newest(RowsOf(scope)) : Unexpired(r)} IN
    IF found("run") # {} THEN found("run") ELSE found("agent")

-----------------------------------------------------------------------------
(* Spans                                                                   *)

RecordSpan(s) ==
  /\ span[s] = "none"
  /\ span' = [span EXCEPT ![s] = "recorded"]
  /\ UNCHANGED <<now, starts, schedule, limits, memory, collector, proc, overlapped>>

Unexported == {s \in Spans : span[s] = "recorded"}

ExportSpans(p) ==
  /\ Unexported # {}
  /\ Start(p, [Free EXCEPT !.op = "export", !.at = "post", !.ids = Unexported])
  /\ UNCHANGED <<now, schedule, limits, memory, telemetry>>

(* The collector takes the batch, or it does not and the job ends.         *)
PostSpans(p) ==
  /\ At(p, "post")
  /\ \/ /\ collector' = collector \union proc[p].ids
        /\ Goto(p, "mark")
     \/ /\ UNCHANGED collector
        /\ Finish(p)
  /\ Continue
  /\ UNCHANGED <<schedule, limits, memory, span>>

FaultyMarked(job) == Unexported

(* The ids that were sent, not what is unexported now.                     *)
Marked(job) == job.ids

MarkExported(p) ==
  /\ At(p, "mark")
  /\ span' = [s \in Spans |-> IF s \in Marked(proc[p]) /\ span[s] = "recorded"
                              THEN "exported" ELSE span[s]]
  /\ Finish(p)
  /\ Continue
  /\ UNCHANGED <<schedule, limits, memory, collector>>

(* enforce_retention asks for the age of a span, not whether it was sent.  *)
EnforceRetention(s) ==
  /\ span[s] \in {"recorded", "exported"}
  /\ span' = [span EXCEPT ![s] = "purged"]
  /\ UNCHANGED <<now, starts, schedule, limits, memory, collector, proc, overlapped>>

-----------------------------------------------------------------------------
Init ==
  /\ now = 1
  /\ starts = 0
  /\ next = 0
  /\ keys = {}
  /\ last = 0
  /\ global = NoCounter
  /\ trigger = NoCounter
  /\ rows = {}
  /\ latest = [scope \in Scopes |-> {}]
  /\ span = [s \in Spans |-> "none"]
  /\ collector = {}
  /\ proc = [p \in Processes |-> Free]
  /\ overlapped = {}

Next ==
  \/ Tick
  \/ \E p \in Processes :
       \/ Die(p)
       \/ DispatchScheduled(p) \/ EnqueueScheduled(p) \/ AdvanceSchedule(p)
       \/ ApiRequest(p) \/ CountRequest(p) \/ ReseedWindow(p)
       \/ Trigger(p)
       \/ Write(p)
       \/ ExportSpans(p) \/ PostSpans(p) \/ MarkExported(p)
  \/ \E scope \in Scopes : DeleteMemory(scope)
  \/ PurgeExpired
  \/ \E s \in Spans : RecordSpan(s) \/ EnforceRetention(s)

Spec == Init /\ [][Next]_vars

-----------------------------------------------------------------------------
(* Properties                                                              *)

(* Two scheduled runs of a workflow are due at least its interval apart,   *)
(* whichever of the jobs that dispatched them died half way, as long as no *)
(* two of these jobs ran at once.                                          *)
RunsSpaced ==
  [][("dispatch" \notin overlapped /\ last # 0 /\ last' # last)
       => last' - last >= Interval]_vars

(* A window admits its limit and, of the requests that found it gone       *)
(* between their two cache calls, one that finds it reseeded; the second   *)
(* limiter, which reads and writes, holds only for requests one by one.    *)
QuotaHolds ==
  /\ global.admitted <= Limit + global.missed
  /\ "request" \notin overlapped => trigger.admitted <= TriggerLimit

(* What a reader gets is what was last written, for as long as it was to   *)
(* live, across overwrites, deletions and purges, unless two writes        *)
(* overlapped and left two rows.                                           *)
MemoryFresh ==
  "memory_write" \notin overlapped =>
    LET live(scope) == {r \in latest[scope] : Unexpired(r)} IN
      ReadMemory = IF live("run") # {} THEN live("run") ELSE live("agent")

(* A span marked exported did reach the collector, though spans go on      *)
(* being recorded and other exports and purges run.                        *)
ExportedArrived == \A s \in Spans : span[s] = "exported" => s \in collector

=============================================================================
