---------------------------- MODULE AgentRuntime ----------------------------
(***************************************************************************)
(* One agent and the runs users stream from it: the view that admits a     *)
(* message, the generator PlatformAgentRuntime.stream with its guardrails, *)
(* adapter, session, telemetry, trace span and budget check, and the       *)
(* hourly compute_budgets job.  Runs overlap statement by statement.  A    *)
(* client may disconnect wherever the generator yields; when Faults holds, *)
(* a database statement may also raise and the process may die.            *)
(*                                                                         *)
(* The limiter of the view is in Operations, its Tier-4 approval in        *)
(* Governance, and the tools an adapter calls in ToolAccess.               *)
(***************************************************************************)
EXTENDS Integers, Sequences, FiniteSets

CONSTANTS Runs,        \* the runs that may be requested
          Platforms,   \* the values of Agent.platform to consider
          Levels,      \* the values of Agent.guardrail_level to consider
          Telemetry,   \* the values of Agent.telemetry_enabled to consider
          Caps,        \* the values budget_usd_monthly may take
          NoCap,       \* budget_usd_monthly is NULL
          MaxMonth,    \* bound: calendar months that may begin
          Faults       \* database statements and processes may fail

ASSUME CapsAssumption == Caps \subseteq Int /\ NoCap \in Int /\ NoCap < 0
ASSUME MonthAssumption == MaxMonth \in Nat \ {0}

VARIABLES agent,   \* the Agent row: platform, level, telemetry, cap, flag
          run,     \* run[r]: the AgentRun row and the generator serving it
          convo,   \* convo[c]: messages of the session that run c created
          alert,   \* the BudgetAlert row of the current month
          month,   \* the current calendar month
          job,     \* the compute_budgets process: its step and agent copy
          contended \* ghost: sessions two runs have held at once

runtimeVars == <<agent, run, convo, alert, month, job, contended>>

Months == 1 .. MaxMonth

-----------------------------------------------------------------------------
(* Adapters: what a platform's execute() may leave in meta.  A text is     *)
(* "leaky" when the output rules find a HIGH match in it; cost 1 stands    *)
(* for any non-zero price.                                                 *)

(* price_run: a model id missing from the table costs nothing.             *)
PriceRun(billed) == IF billed THEN {0, 1} ELSE {0}

Said(texts, costs) == [text : texts, cost : costs]

(* The tool loop of Claude, or the canned advice without a key.            *)
DjangoRuntimeAdapter == Said({"clean", "leaky"}, PriceRun(TRUE))
            \union Said({"clean"}, PriceRun(FALSE))

OpenAIAdapter == Said({"clean", "leaky"}, PriceRun(TRUE))
            \union Said({"clean"}, PriceRun(FALSE))

BedrockAdapter == Said({"clean", "leaky"}, PriceRun(TRUE))
            \union Said({"clean"}, PriceRun(FALSE))

(* The model id of a REST endpoint is its URL, which has no price.         *)
HttpApiAdapter == Said({"clean", "leaky"}, PriceRun(FALSE))

(* The echo repeats the user's message, whatever that holds.               *)
EchoAdapter == Said({"clean", "leaky"}, PriceRun(FALSE))

SelectAdapter(platform) ==
  CASE platform = "django_runtime" -> DjangoRuntimeAdapter
    [] platform = "azure_ai_foundry" -> OpenAIAdapter
    [] platform \in {"copilot_studio", "custom_api", "vendor"} -> HttpApiAdapter
    [] platform = "bedrock" -> BedrockAdapter
    [] OTHER -> EchoAdapter

(* Guardrails on the message: the regular expressions and, when they see   *)
(* nothing and the level is not "off", a classifier that fails open.       *)
LlmClassify(level) == IF level = "off" THEN {"none"} ELSE {"none", "high"}

ScanFindings(level) == {"low", "medium", "high"} \union LlmClassify(level)

Blocks(level, finding) == finding = "high" /\ level = "block"

FaultyScanOutput(level, text) == IF level = "off" THEN "withheld" ELSE text

(* Guardrails on the answer: withhold what is stored, also when the scan   *)
(* itself raised (only its audit entry can, so only on a finding).         *)
ScanOutput(level, text) == IF level = "block" /\ text = "leaky" THEN "withheld" ELSE text

-----------------------------------------------------------------------------
(* Helpers                                                                 *)

(* The row (status, text, cost, month), its telemetry and span, and what   *)
(* the generator holds in memory: the session and its messages, the meta   *)
(* of the adapter and the budget flag of the agent, as loaded.             *)
NoMeta == [text |-> "", cost |-> 0]

Idle == [pc |-> "idle", status |-> "none", text |-> "", cost |-> 0, month |-> 1,
         told |-> {}, span |-> "none",
         session |-> "none", messages |-> <<>>, meta |-> NoMeta, flag |-> FALSE]

(* The generator still runs.                                               *)
Live(r) == run[r].pc \notin {"idle", "ended", "gone"}

(* Between the read of the session and its save.                           *)
HoldsSession(r) ==
  run[r].pc \in {"asked", "opened", "scanned", "answered", "completed"}

(* Completed runs started since the first of the month m.                  *)
Spent(m) == {r \in Runs : run[r].status = "completed" /\ run[r].month >= m /\ run[r].cost > 0}

(* Every run costs 0 or 1, so the sum is a count.                          *)
Over(m, cap) == Cardinality(Spent(m)) > cap

(* The generator stops at pc, and what it held in memory is gone.          *)
Left(r, pc) == [run[r] EXCEPT !.pc = pc, !.messages = <<>>, !.meta = NoMeta, !.flag = FALSE]

Told(r, event) == IF agent.telemetry THEN run[r].told \union {event} ELSE run[r].told

-----------------------------------------------------------------------------
(* The life of a run                                                       *)

(* _resolve_session: the session named by the request, or a new one; the   *)
(* generator keeps the instances loaded here until its end.                *)
RunAgent(r) ==
  /\ run[r].pc = "idle"
  /\ \E c \in {r} \union {run[q].session : q \in {p \in Runs : run[p].pc # "idle"}} :
       /\ run' = [run EXCEPT ![r] = [@ EXCEPT !.pc = "asked", !.session = c,
                    !.messages = convo[c], !.flag = agent.flag]]
       /\ contended' = IF \E q \in Runs : HoldsSession(q) /\ run[q].session = c
                       THEN contended \union {c} ELSE contended
  /\ UNCHANGED <<agent, convo, alert, month, job>>

(* The row, its first telemetry event and its root span, before the try.   *)
Start(r) ==
  /\ run[r].pc = "asked"
  /\ run' = [run EXCEPT ![r] = [@ EXCEPT !.pc = "opened", !.status = "started",
                !.month = month, !.told = Told(r, "agent_invoked"), !.span = "UNSET"]]
  /\ UNCHANGED <<agent, convo, alert, month, job, contended>>

(* The telemetry event cannot be written: nothing catches that.            *)
StartFails(r) ==
  /\ Faults
  /\ run[r].pc = "asked"
  /\ agent.telemetry
  /\ run' = [run EXCEPT ![r] = [Left(r, "gone") EXCEPT !.status = "started", !.month = month]]
  /\ UNCHANGED <<agent, convo, alert, month, job, contended>>

(* A blocked message ends the run without telemetry and leaves its span.   *)
Scan(r) ==
  /\ run[r].pc = "opened"
  /\ \E finding \in ScanFindings(agent.level) :
       run' = [run EXCEPT ![r] =
         IF Blocks(agent.level, finding)
         THEN [Left(r, "ended") EXCEPT !.status = "failed", !.text = "blocked"]
         ELSE [@ EXCEPT !.pc = "scanned"]]
  /\ UNCHANGED <<agent, convo, alert, month, job, contended>>

(* The adapter fills meta, whose text is then scanned.                     *)
Execute(r) ==
  /\ run[r].pc = "scanned"
  /\ \E meta \in SelectAdapter(agent.platform) :
       run' = [run EXCEPT ![r] = [@ EXCEPT !.pc = "answered",
                 !.meta = [meta EXCEPT !.text = ScanOutput(agent.level, @)]]]
  /\ UNCHANGED <<agent, convo, alert, month, job, contended>>

Complete(r) ==
  /\ run[r].pc = "answered"
  /\ run' = [run EXCEPT ![r] = [@ EXCEPT !.pc = "completed", !.status = "completed",
                !.text = run[r].meta.text, !.cost = run[r].meta.cost, !.meta = NoMeta]]
  /\ UNCHANGED <<agent, convo, alert, month, job, contended>>

FaultyAppendExchange(r) ==
  /\ run[r].pc = "completed"
  /\ convo' = [convo EXCEPT ![run[r].session] = <<[by |-> r, text |-> run[r].text]>>]
  /\ run' = [run EXCEPT ![r] = [@ EXCEPT !.pc = "appended"]]
  /\ UNCHANGED <<agent, alert, month, job, contended>>

(* The list read at the start plus this exchange replaces the session's.   *)
AppendExchange(r) ==
  /\ run[r].pc = "completed"
  /\ convo' = [convo EXCEPT ![run[r].session] =
                 Append(run[r].messages, [by |-> r, text |-> run[r].text])]
  /\ run' = [run EXCEPT ![r] = [@ EXCEPT !.pc = "appended"]]
  /\ UNCHANGED <<agent, alert, month, job, contended>>

Report(r) ==
  /\ run[r].pc = "appended"
  /\ run' = [run EXCEPT ![r] = [@ EXCEPT !.pc = "told", !.span = "OK",
                                         !.told = Told(r, "task_completed")]]
  /\ UNCHANGED <<agent, convo, alert, month, job, contended>>

(* The alert row of a breach or of its end; resolving touches only a row   *)
(* that is there.                                                          *)
Breached == "open"

Resolved == IF alert = "open" THEN "resolved" ELSE alert

(* check_budget: the sum is fresh, but the flag is the one loaded at       *)
(* admission; NULL and 0 both mean no cap here, and an alert that cannot   *)
(* be written does not stop the flag.                                      *)
CheckBudget(r) ==
  LET over == Over(month, agent.cap)
      flag == run[r].flag
      lost == IF Faults THEN {alert} ELSE {}
  IN
  /\ run[r].pc = "told"
  /\ \/ /\ agent.cap \notin {NoCap, 0}
        /\ over # flag
        /\ alert' \in {IF over THEN Breached ELSE Resolved} \union lost
        /\ agent' = [agent EXCEPT !.flag = over]
     \/ /\ agent.cap \in {NoCap, 0} \/ over = flag
        /\ UNCHANGED <<agent, alert>>
  /\ run' = [run EXCEPT ![r] = [@ EXCEPT !.pc = "done"]]
  /\ UNCHANGED <<convo, month, job, contended>>

Done(r) ==
  /\ run[r].pc = "done"
  /\ run' = [run EXCEPT ![r] = Left(r, "ended")]
  /\ UNCHANGED <<agent, convo, alert, month, job, contended>>

(* An exception inside the try: the adapter's own, or a statement's.       *)
Raise(r) ==
  /\ \/ run[r].pc = "scanned" /\ agent.platform # "embedded"
     \/ Faults /\ run[r].pc \in {"opened", "answered", "completed", "appended", "told", "done"}
  /\ run' = [run EXCEPT ![r] = [@ EXCEPT !.pc = "handling"]]
  /\ UNCHANGED <<agent, convo, alert, month, job, contended>>

FaultyFail(r) ==
  /\ run[r].pc = "handling"
  /\ run' = [run EXCEPT ![r] = [Left(r, "ended") EXCEPT !.span = "ERROR",
                !.told = Told(r, "task_failed")]]
  /\ UNCHANGED <<agent, convo, alert, month, job, contended>>

(* The outer handler, which also catches what fails after COMPLETED.       *)
Fail(r) ==
  /\ run[r].pc = "handling"
  /\ run' = [run EXCEPT ![r] = [Left(r, "ended") EXCEPT !.status = "failed", !.text = "error",
                !.told = Told(r, "task_failed"), !.span = "ERROR"]]
  /\ UNCHANGED <<agent, convo, alert, month, job, contended>>

(* The save or the telemetry event of the handler raises too.              *)
FailFails(r) ==
  /\ Faults
  /\ run[r].pc = "handling"
  /\ \/ run' = [run EXCEPT ![r] = Left(r, "gone")]
     \/ /\ agent.telemetry
        /\ run' = [run EXCEPT ![r] = [Left(r, "gone") EXCEPT !.status = "failed", !.text = "error"]]
  /\ UNCHANGED <<agent, convo, alert, month, job, contended>>

(* The client goes away: the server closes the generator at a yield, and   *)
(* GeneratorExit is not an Exception.                                      *)
Disconnect(r) ==
  /\ run[r].pc \in {"asked", "opened", "scanned", "answered", "done"}
  /\ run' = [run EXCEPT ![r] = Left(r, "gone")]
  /\ UNCHANGED <<agent, convo, alert, month, job, contended>>

Crash(r) ==
  /\ Faults
  /\ Live(r)
  /\ run' = [run EXCEPT ![r] = Left(r, "gone")]
  /\ UNCHANGED <<agent, convo, alert, month, job, contended>>

-----------------------------------------------------------------------------
(* Budgets                                                                 *)

NoJob == [pc |-> "idle", flag |-> FALSE, month |-> 1]

(* compute_budgets fixes its month and loads the agents with a cap, 0      *)
(* included.                                                               *)
JobLoad ==
  /\ job.pc = "idle"
  /\ agent.cap # NoCap
  /\ job' = [pc |-> "loaded", flag |-> agent.flag, month |-> month]
  /\ UNCHANGED <<agent, run, convo, alert, month, contended>>

(* The job writes the row of its own month.                                *)
JobAlert(row) == IF job.month = month THEN row ELSE alert

FaultyComputeBudgets ==
  /\ job.pc = "loaded"
  /\ LET over == Over(job.month, agent.cap) IN
       IF over /\ ~job.flag
       THEN /\ alert' = JobAlert(Breached)
            /\ agent' = [agent EXCEPT !.flag = TRUE]
       ELSE UNCHANGED <<agent, alert>>
  /\ job' = NoJob
  /\ UNCHANGED <<run, convo, month, contended>>

(* ... and then decides from the copy.                                     *)
ComputeBudgets ==
  /\ job.pc = "loaded"
  /\ LET over == Over(job.month, agent.cap) IN
       \/ /\ over
          /\ ~job.flag
          /\ alert' = JobAlert(Breached)
          /\ agent' = [agent EXCEPT !.flag = TRUE]
       \/ /\ ~over
          /\ job.flag
          /\ alert' = JobAlert(Resolved)
          /\ agent' = [agent EXCEPT !.flag = FALSE]
       \/ /\ over = job.flag
          /\ UNCHANGED <<agent, alert>>
  /\ job' = NoJob
  /\ UNCHANGED <<run, convo, month, contended>>

(* An error or a crash ends the command, before the alert row or between   *)
(* it and the flag.                                                        *)
JobDies ==
  /\ Faults
  /\ job.pc = "loaded"
  /\ LET over == Over(job.month, agent.cap) IN
       alert' \in {alert} \union (IF over = job.flag THEN {} ELSE {JobAlert(IF over THEN Breached ELSE Resolved)})
  /\ job' = NoJob
  /\ UNCHANGED <<agent, run, convo, month, contended>>

NextMonth ==
  /\ month < MaxMonth
  /\ month' = month + 1
  /\ alert' = "none"
  /\ UNCHANGED <<agent, run, convo, job, contended>>

-----------------------------------------------------------------------------

RuntimeInit ==
  /\ agent \in [platform : Platforms, level : Levels, telemetry : Telemetry,
                cap : Caps, flag : {FALSE}]
  /\ run = [r \in Runs |-> Idle]
  /\ convo = [r \in Runs |-> <<>>]
  /\ alert = "none"
  /\ month = 1
  /\ job = NoJob
  /\ contended = {}

(* The steps the generator takes by itself when it is iterated.            *)
Step(r) ==
  \/ Start(r) \/ Scan(r) \/ Execute(r) \/ Complete(r)
  \/ AppendExchange(r) \/ Report(r) \/ CheckBudget(r) \/ Done(r) \/ Fail(r)

RuntimeNext ==
  \/ \E r \in Runs : \/ RunAgent(r) \/ Step(r) \/ Raise(r) \/ StartFails(r) \/ FailFails(r)
                     \/ Disconnect(r) \/ Crash(r)
  \/ JobLoad \/ ComputeBudgets \/ JobDies \/ NextMonth

RuntimeSpec == RuntimeInit /\ [][RuntimeNext]_runtimeVars

(* The server iterates the response of a client that stays, model calls    *)
(* time out, and beat starts compute_budgets every hour, which does not    *)
(* fail every time.                                                        *)
FairRuntimeSpec ==
  /\ RuntimeSpec
  /\ \A r \in Runs : WF_runtimeVars(Step(r))
  /\ WF_runtimeVars(JobLoad)
  /\ SF_runtimeVars(ComputeBudgets)

-----------------------------------------------------------------------------
(* Properties                                                              *)

RuntimeTypeOK ==
  /\ agent \in [platform : Platforms, level : Levels, telemetry : Telemetry,
                cap : Caps, flag : BOOLEAN]
  /\ \A r \in Runs :
       /\ run[r].pc \in {"idle", "asked", "opened", "scanned", "answered", "completed",
                         "appended", "told", "done", "handling", "ended", "gone"}
       /\ run[r].status \in {"none", "started", "completed", "failed"}
       /\ run[r].told \subseteq {"agent_invoked", "task_completed", "task_failed"}
       /\ run[r].span \in {"none", "UNSET", "OK", "ERROR"}
       /\ run[r].session \in Runs \union {"none"}
       /\ run[r].month \in Months
  /\ alert \in {"none", "open", "resolved"}
  /\ month \in Months
  /\ job \in [pc : {"idle", "loaded"}, flag : BOOLEAN, month : Months]
  /\ contended \subseteq Runs

(* A run's row, its telemetry and its span tell one story once the         *)
(* generator ended by itself, although four statements fail separately     *)
(* and the handler overwrites what they wrote: a failure is never reported *)
(* for a completed run, and a completed run was reported.                  *)
StoriesAgree ==
  \A r \in Runs : run[r].pc = "ended" =>
    /\ run[r].status \in {"completed", "failed"}
    /\ run[r].status = "completed" =>
         /\ "task_failed" \notin run[r].told
         /\ run[r].span # "ERROR"
         /\ (agent.telemetry => "task_completed" \in run[r].told)
    /\ run[r].status = "failed" /\ run[r].text # "blocked" /\ agent.telemetry =>
         "task_failed" \in run[r].told

(* As long as the messages of a conversation do not overlap, what a run    *)
(* showed the model is still how the conversation begins, and every        *)
(* exchange that was completed and saved is in it, whatever other runs     *)
(* failed, crashed or were abandoned in between.                           *)
SerialConversation ==
  \A r \in Runs : run[r].session \in Runs \ contended =>
    LET said == convo[run[r].session] IN
    /\ SubSeq(said, 1, Len(run[r].messages)) = run[r].messages
    /\ run[r].status = "completed" /\ run[r].pc \in {"appended", "told", "done", "ended"} =>
         \E i \in DOMAIN said : said[i].by = r

(* For a blocking agent, text the output rules flag is stored neither on   *)
(* the run nor in the conversation, from where the next message would hand *)
(* it to the model again.                                                  *)
NoLeakStored ==
  agent.level = "block" =>
    /\ \A r \in Runs : run[r].status = "completed" => run[r].text # "leaky"
    /\ \A c \in Runs : \A i \in DOMAIN convo[c] : convo[c][i].text # "leaky"

(* Stale copies of budget_alert may raise or clear the flag wrongly, but   *)
(* once runs, cap and month stand still the hourly job makes it right.     *)
BudgetFlagConverges ==
  agent.cap # NoCap /\ <>[](\A r \in Runs : ~Live(r)) => <>[](agent.flag = Over(month, agent.cap))
=============================================================================
