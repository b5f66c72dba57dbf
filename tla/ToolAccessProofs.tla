-------------------------- MODULE ToolAccessProofs --------------------------
(* Theorems about ToolAccess, for every number of runs, tools and          *)
(* connectors and every threshold.                                         *)
EXTENDS ToolAccess, TLAPS

USE DEF vars

-----------------------------------------------------------------------------
(* Type correctness.  The records are complete here, so that a step can be *)
(* followed field by field.                                                *)

Targets == Connectors \union {"mcp", "none"}

RunState ==
  [pc : {"idle", "admitted", "ready", "calling", "failing"},
   mode : {"sandbox", "live"},
   tools : [Tools -> [target : Targets, mode : {"none", "sandbox", "live"}]],
   allowed : [Tools -> Targets],
   target : Targets, tool : Tools \union {"none"}, seen : 0 .. Threshold]

Promotion ==
  [pc : {"idle", "read", "checked"}, mode : {"sandbox", "live"}, rows : [Tools -> BOOLEAN],
   targets : [Tools -> Targets], kinds : [Tools -> BOOLEAN], late : BOOLEAN]

Breaker == [failures : 0 .. Threshold, open : BOOLEAN]

RowsType ==
  /\ status \in {"sandbox", "pilot"}
  /\ server \in RemoteMcpServer
  /\ binding \in [Tools -> AgentToolBinding]
PromoterType ==
  /\ promoter \in Promotion
  /\ sanctioned \in [Tools -> Targets]
RunType ==
  /\ run \in [Runs -> RunState]
  /\ \A r \in Runs : run[r].pc = "failing" => run[r].target \in Connectors
BreakerType ==
  /\ breaker \in [Connectors -> Breaker]
  /\ streak \in [Connectors -> 0 .. Threshold]
  /\ overlapped \subseteq Connectors

Typed == RowsType /\ PromoterType /\ RunType /\ BreakerType

LEMMA TypedIsTypeOK == Typed => TypeOK
<1> SUFFICES ASSUME Typed PROVE TypeOK
  OBVIOUS
<1>1. RowsType /\ PromoterType /\ RunType /\ BreakerType  BY DEF Typed
<1>2. promoter.pc \in {"idle", "read", "checked"}  BY <1>1 DEF PromoterType, Promotion
<1>3. \A r \in Runs : /\ run[r].pc \in {"idle", "admitted", "ready", "calling", "failing"}
                      /\ run[r].mode \in {"sandbox", "live"}
                      /\ run[r].seen \in 0 .. Threshold
  BY <1>1 DEF RunType, RunState
<1> QED BY <1>1, <1>2, <1>3 DEF TypeOK, RowsType, RunType, BreakerType, Breaker

LEMMA TargetKindType ==
  ASSUME NEW b \in AgentToolBinding
  PROVE  TargetKind(b) \in Targets
  BY DEF TargetKind, AgentToolBinding, Targets

LEMMA NoRunType == NoRun \in RunState /\ NoRun.pc = "idle"
  BY ThresholdAssumption DEF NoRun, RunState, Targets

LEMMA NoPromoterType == NoPromoter \in Promotion /\ NoPromoter.pc = "idle" /\ ~NoPromoter.late
  BY DEF NoPromoter, Promotion, Targets

LEMMA InitType == Init => Typed
<1> SUFFICES ASSUME Init PROVE Typed
  OBVIOUS
<1>1. RowsType  BY DEF Init, RowsType, RemoteMcpServer, Absent, AgentToolBinding
<1>2. PromoterType  BY NoPromoterType DEF Init, PromoterType, Targets
<1>3. RunType  BY NoRunType DEF Init, RunType
<1>4. BreakerType  BY ThresholdAssumption DEF Init, BreakerType, Breaker, NoFailures
<1> QED BY <1>1, <1>2, <1>3, <1>4 DEF Typed

(* What a run copies of the bindings.                                      *)
LEMMA ResolveType ==
  ASSUME RowsType, NEW mode \in {"sandbox", "live"}
  PROVE  ResolveBindings(mode) \in [Tools -> [target : Targets, mode : {"none", "sandbox", "live"}]]
<1> SUFFICES ASSUME NEW t \in Tools
             PROVE  (IF binding[t].status \in {"absent", "proposed"}
                     THEN [target |-> "none", mode |-> "none"]
                     ELSE [target |-> TargetKind(binding[t]),
                           mode |-> EffectiveMode(binding[t], mode)])
                    \in [target : Targets, mode : {"none", "sandbox", "live"}]
  BY DEF ResolveBindings
<1>1. TargetKind(binding[t]) \in Targets  BY TargetKindType DEF RowsType
<1>2. EffectiveMode(binding[t], mode) \in {"sandbox", "live"}  BY DEF EffectiveMode
<1>3. "none" \in Targets  BY DEF Targets
<1> QED BY <1>1, <1>2, <1>3

(* One run moves on.                                                       *)
LEMMA OneRun ==
  ASSUME RunType, NEW r \in Runs, NEW state \in RunState,
         state.pc = "failing" => state.target \in Connectors,
         run' = [run EXCEPT ![r] = state]
  PROVE  RunType'
  BY DEF RunType

LEMMA BindingStepType ==
  ASSUME Typed,
         \/ \E t \in Tools : CreateBindingsFromPlan(t) \/ CreateMcpBinding(t)
         \/ PromoteToLive \/ PromoteToSandbox
         \/ AgentMoves \/ McpServerSync \/ McpServerDisable
  PROVE  Typed'
<1>0. RowsType /\ PromoterType /\ RunType /\ BreakerType  BY DEF Typed
<1>1. ASSUME UNCHANGED <<promoter, sanctioned, run, breaker, streak, overlapped>>, RowsType'
      PROVE  Typed'
  BY <1>0, <1>1 DEF Typed, PromoterType, RunType, BreakerType
<1>2. ASSUME NEW t \in Tools, CreateBindingsFromPlan(t) \/ CreateMcpBinding(t) PROVE Typed'
  <2>0. binding[t] \in AgentToolBinding /\ binding \in [Tools -> AgentToolBinding]
    BY <1>0 DEF RowsType
  <2>1. CASE CreateBindingsFromPlan(t)
    <3>1. PICK c \in Connectors \union {"none"} :
            binding' = [binding EXCEPT ![t] = [@ EXCEPT !.connector = c,
                          !.status = IF c = "none" THEN "proposed" ELSE "sandbox"]]
      BY <2>1 DEF CreateBindingsFromPlan
    <3>2. [binding[t] EXCEPT !.connector = c,
             !.status = IF c = "none" THEN "proposed" ELSE "sandbox"] \in AgentToolBinding
      BY <2>0 DEF AgentToolBinding
    <3>3. binding' \in [Tools -> AgentToolBinding]  BY <2>0, <3>1, <3>2
    <3> QED BY <1>0, <1>1, <2>1, <3>3 DEF CreateBindingsFromPlan, RowsType
  <2>2. CASE CreateMcpBinding(t)
    <3>1. [binding[t] EXCEPT !.connector = "none", !.mcp = TRUE,
             !.status = IF IsUsable(server) THEN "sandbox" ELSE "proposed"] \in AgentToolBinding
      BY <2>0 DEF AgentToolBinding
    <3>2. binding' \in [Tools -> AgentToolBinding]  BY <2>0, <2>2, <3>1 DEF CreateMcpBinding
    <3> QED BY <1>0, <1>1, <2>2, <3>2 DEF CreateMcpBinding, RowsType
  <2> QED BY <1>2, <2>1, <2>2
<1>3. CASE PromoteToLive \/ PromoteToSandbox
  <2>1. binding' \in [Tools -> AgentToolBinding]
    <3>1. ASSUME NEW t \in Tools
          PROVE  /\ [binding[t] EXCEPT !.status = "live", !.approved = TRUE] \in AgentToolBinding
                 /\ [binding[t] EXCEPT !.status = "sandbox"] \in AgentToolBinding
                 /\ binding[t] \in AgentToolBinding
      <4>1. binding[t] \in AgentToolBinding  BY <1>0 DEF RowsType
      <4> QED BY <4>1 DEF AgentToolBinding
    <3> QED BY <1>3, <3>1 DEF PromoteToLive, PromoteToSandbox
  <2>2. promoter' \in Promotion  BY <1>3, NoPromoterType DEF PromoteToLive, PromoteToSandbox
  <2>3. sanctioned' \in [Tools -> Targets]
    BY <1>0, <1>3 DEF PromoteToLive, PromoteToSandbox, PromoterType, Promotion
  <2> QED BY <1>0, <1>3, <2>1, <2>2, <2>3
       DEF Typed, PromoteToLive, PromoteToSandbox, RowsType, PromoterType, RunType, BreakerType
<1>4. CASE AgentMoves \/ McpServerSync \/ McpServerDisable
  <2>1. server' \in RemoteMcpServer
    BY <1>0, <1>4 DEF AgentMoves, McpServerSync, McpServerDisable, RowsType, RemoteMcpServer
  <2>2. status' \in {"sandbox", "pilot"}
    BY <1>0, <1>4 DEF AgentMoves, McpServerSync, McpServerDisable, RowsType
  <2> QED BY <1>0, <1>1, <1>4, <2>1, <2>2 DEF AgentMoves, McpServerSync, McpServerDisable, RowsType
<1> QED BY <1>2, <1>3, <1>4

LEMMA RequestStepType ==
  ASSUME Typed, (\E mode \in {"sandbox", "live"} : ReadBindings(mode)) \/ CheckBindings
  PROVE  Typed'
<1>0. RowsType /\ PromoterType /\ RunType /\ BreakerType  BY DEF Typed
<1>1. promoter' \in Promotion
  <2>1. ASSUME NEW mode \in {"sandbox", "live"}, ReadBindings(mode) PROVE promoter' \in Promotion
    <3>1. PICK found \in SUBSET Tools :
            promoter' = [pc |-> "read", mode |-> mode,
              rows |-> [t \in Tools |-> t \in found],
              targets |-> [t \in Tools |-> IF t \in found THEN TargetKind(binding[t]) ELSE "none"],
              kinds |-> [t \in Tools |-> t \in found /\ binding[t].mcp],
              late |-> ~server.active]
      BY <2>1 DEF ReadBindings
    <3>2. [t \in Tools |-> IF t \in found THEN TargetKind(binding[t]) ELSE "none"] \in [Tools -> Targets]
      BY <1>0, TargetKindType DEF RowsType, Targets
    <3>3. /\ [t \in Tools |-> t \in found] \in [Tools -> BOOLEAN]
          /\ [t \in Tools |-> t \in found /\ binding[t].mcp] \in [Tools -> BOOLEAN]
      OBVIOUS
    <3> QED BY <3>1, <3>2, <3>3 DEF Promotion
  <2>2. CASE CheckBindings
    BY <1>0, <2>2, NoPromoterType DEF CheckBindings, PromoterType, Promotion
  <2> QED BY <2>1, <2>2
<1>2. UNCHANGED <<status, server, binding, run, breaker, sanctioned, streak, overlapped>>
  BY DEF ReadBindings, CheckBindings
<1> QED BY <1>0, <1>1, <1>2 DEF Typed, RowsType, PromoterType, RunType, BreakerType

LEMMA RunStepType ==
  ASSUME Typed, NEW r \in Runs,
         \/ Admit(r) \/ ToolsetFor(r) \/ McpEndpoint(r) \/ End(r)
         \/ \E t \in Tools : Dispatch(r, t)
  PROVE  Typed'
<1>0. RowsType /\ PromoterType /\ RunType /\ BreakerType  BY DEF Typed
<1>a. run[r] \in RunState /\ run \in [Runs -> RunState]  BY <1>0 DEF RunType
<1>1. ASSUME UNCHANGED <<status, server, binding, promoter, sanctioned, breaker, streak>>,
             overlapped' \subseteq Connectors,
             NEW state \in RunState, run' = [run EXCEPT ![r] = state], state.pc # "failing"
      PROVE  Typed'
  <2>1. RunType'  BY <1>0, <1>1, OneRun
  <2> QED BY <1>0, <1>1, <2>1 DEF Typed, RowsType, PromoterType, BreakerType
<1>2. overlapped \subseteq Connectors  BY <1>0 DEF BreakerType
<1>3. CASE Admit(r)
  <2> DEFINE state == [NoRun EXCEPT !.pc = "admitted",
                         !.mode = IF IsLive(status) THEN "live" ELSE "sandbox"]
  <2>1. state \in RunState /\ state.pc # "failing"  BY NoRunType DEF RunState
  <2>2. run' = [run EXCEPT ![r] = state]  BY <1>3 DEF Admit
  <2> HIDE DEF state
  <2> QED BY <1>1, <1>2, <1>3, <2>1, <2>2 DEF Admit
<1>4. CASE ToolsetFor(r)
  <2> DEFINE state == [run[r] EXCEPT !.pc = "ready", !.tools = ResolveBindings(run[r].mode),
                         !.allowed = sanctioned]
  <2>1. run[r].mode \in {"sandbox", "live"}  BY <1>a DEF RunState
  <2>2. ResolveBindings(run[r].mode)
          \in [Tools -> [target : Targets, mode : {"none", "sandbox", "live"}]]
    BY <1>0, <2>1, ResolveType
  <2>3. sanctioned \in [Tools -> Targets]  BY <1>0 DEF PromoterType
  <2>4. state \in RunState /\ state.pc # "failing"  BY <1>a, <2>2, <2>3 DEF RunState
  <2>5. run' = [run EXCEPT ![r] = state]  BY <1>4 DEF ToolsetFor
  <2> HIDE DEF state
  <2> QED BY <1>1, <1>2, <1>4, <2>4, <2>5 DEF ToolsetFor
<1>5. CASE McpEndpoint(r)
  <2> DEFINE state == [NoRun EXCEPT !.pc = "ready", !.mode = "live"]
  <2>1. state \in RunState /\ state.pc # "failing"  BY NoRunType DEF RunState
  <2>2. run' = [run EXCEPT ![r] = state]  BY <1>5 DEF McpEndpoint
  <2> HIDE DEF state
  <2> QED BY <1>1, <1>2, <1>5, <2>1, <2>2 DEF McpEndpoint
<1>6. CASE End(r)
  <2>1. NoRun \in RunState /\ NoRun.pc # "failing"  BY NoRunType
  <2>2. run' = [run EXCEPT ![r] = NoRun]  BY <1>6 DEF End
  <2> QED BY <1>1, <1>2, <1>6, <2>1, <2>2 DEF End
<1>7. ASSUME NEW t \in Tools, Dispatch(r, t) PROVE Typed'
  <2>1. PICK target \in Connectors \union {"mcp"} : Begin(r, t, target)
    BY <1>7 DEF Dispatch, ExecuteLive, CallTool
  <2>2. overlapped' \subseteq Connectors
    BY <1>2, <1>7 DEF Dispatch, ExecuteLive, CallTool, Contend
  <2> DEFINE state == [run[r] EXCEPT !.pc = "calling", !.tool = t, !.target = target]
  <2>3. target \in Targets  BY DEF Targets
  <2>4. state \in RunState /\ state.pc # "failing"  BY <1>a, <2>3 DEF RunState
  <2>5. run' = [run EXCEPT ![r] = state]  BY <2>1 DEF Begin
  <2> HIDE DEF state
  <2> QED BY <1>1, <2>1, <2>2, <2>4, <2>5 DEF Begin
<1> QED BY <1>3, <1>4, <1>5, <1>6, <1>7

LEMMA CallStepType ==
  ASSUME Typed, NEW r \in Runs, Answer(r) \/ WriteFailure(r)
  PROVE  Typed'
<1>0. RowsType /\ PromoterType /\ RunType /\ BreakerType  BY DEF Typed
<1>a. run[r] \in RunState /\ run \in [Runs -> RunState]  BY <1>0 DEF RunType
<1>b. Threshold \in Nat \ {0}  BY ThresholdAssumption
<1>1. ASSUME breaker' \in [Connectors -> Breaker], streak' \in [Connectors -> 0 .. Threshold],
             NEW state \in RunState, run' = [run EXCEPT ![r] = state],
             state.pc = "failing" => state.target \in Connectors
      PROVE  Typed'
  <2>1. RunType'  BY <1>0, <1>1, OneRun
  <2>2. UNCHANGED <<status, server, binding, promoter, sanctioned, overlapped>>
    BY DEF Answer, WriteFailure
  <2> QED BY <1>0, <1>1, <2>1, <2>2 DEF Typed, RowsType, PromoterType, BreakerType
<1>2. breaker \in [Connectors -> Breaker] /\ streak \in [Connectors -> 0 .. Threshold]
  BY <1>0 DEF BreakerType
<1>3. ASSUME run' = [run EXCEPT ![r] = [@ EXCEPT !.pc = "ready", !.target = "none", !.tool = "none"]],
             IF run[r].target \in Connectors
             THEN /\ breaker' = [breaker EXCEPT ![run[r].target] = ClearFailures]
                  /\ streak' = [streak EXCEPT ![run[r].target] = 0]
             ELSE UNCHANGED <<breaker, streak>>
      PROVE  Typed'
  <2> DEFINE state == [run[r] EXCEPT !.pc = "ready", !.target = "none", !.tool = "none"]
  <2>1. state \in RunState /\ state.pc # "failing"  BY <1>a DEF RunState, Targets
  <2>2. run' = [run EXCEPT ![r] = state]  BY <1>3
  <2>3. ClearFailures \in Breaker  BY <1>b DEF ClearFailures, NoFailures, Breaker
  <2>5. breaker' \in [Connectors -> Breaker]  BY <1>2, <1>3, <2>3
  <2>4. streak' \in [Connectors -> 0 .. Threshold]  BY <1>2, <1>3, <1>b
  <2> HIDE DEF state
  <2> QED BY <1>1, <2>1, <2>2, <2>5, <2>4
<1>4. ASSUME run[r].target \in Connectors,
             run' = [run EXCEPT ![r] = [@ EXCEPT !.pc = "failing",
                                          !.seen = breaker[run[r].target].failures]],
             UNCHANGED <<breaker, streak>>
      PROVE  Typed'
  <2> DEFINE state == [run[r] EXCEPT !.pc = "failing", !.seen = breaker[run[r].target].failures]
  <2>1. breaker[run[r].target].failures \in 0 .. Threshold  BY <1>2, <1>4 DEF Breaker
  <2>2. state \in RunState /\ state.target = run[r].target  BY <1>a, <2>1 DEF RunState
  <2>3. run' = [run EXCEPT ![r] = state]  BY <1>4
  <2> HIDE DEF state
  <2> QED BY <1>1, <1>2, <1>4, <2>2, <2>3
<1>5. CASE WriteFailure(r)
  <2> DEFINE state == [run[r] EXCEPT !.pc = "ready", !.target = "none", !.tool = "none", !.seen = 0]
             c == run[r].target
  <2>0. 0 \in 0 .. Threshold  BY <1>b
  <2>1. state \in RunState /\ state.pc # "failing"  BY <1>a, <2>0 DEF RunState, Targets
  <2>2. run' = [run EXCEPT ![r] = state]  BY <1>5 DEF WriteFailure
  <2>3. c \in Connectors /\ run[r].seen \in 0 .. Threshold
    BY <1>0, <1>a, <1>5 DEF WriteFailure, RunType, RunState
  <2>4. RegisterFailure(run[r].seen, breaker[c]) \in Breaker
    BY <1>2, <1>b, <2>3 DEF RegisterFailure, Breaker
  <2>5. breaker' \in [Connectors -> Breaker]  BY <1>2, <1>5, <2>3, <2>4 DEF WriteFailure
  <2>6. (IF streak[c] < Threshold THEN streak[c] + 1 ELSE streak[c]) \in 0 .. Threshold
    BY <1>2, <1>b, <2>3
  <2>7. streak' \in [Connectors -> 0 .. Threshold]  BY <1>2, <1>5, <2>3, <2>6 DEF WriteFailure
  <2> HIDE DEF state
  <2> QED BY <1>1, <2>1, <2>2, <2>5, <2>7
<1> QED BY <1>3, <1>4, <1>5 DEF Answer

LEMMA ClockStepType ==
  ASSUME Typed, NEW c \in Connectors, Cooldown(c) \/ CountExpires(c)
  PROVE  Typed'
<1>0. RowsType /\ PromoterType /\ RunType /\ BreakerType  BY DEF Typed
<1>1. Threshold \in Nat \ {0}  BY ThresholdAssumption
<1>2. breaker' \in [Connectors -> Breaker]
  <2>1. breaker[c] \in Breaker /\ breaker \in [Connectors -> Breaker]  BY <1>0 DEF BreakerType
  <2>2. [breaker[c] EXCEPT !.open = FALSE] \in Breaker  BY <2>1 DEF Breaker
  <2>3. 0 \in 0 .. Threshold  BY <1>1
  <2>4. [breaker[c] EXCEPT !.failures = 0] \in Breaker  BY <2>1, <2>3 DEF Breaker
  <2> QED BY <2>1, <2>2, <2>4 DEF Cooldown, CountExpires
<1>3. streak' \in [Connectors -> 0 .. Threshold] /\ overlapped' \subseteq Connectors
  BY <1>0, <1>1 DEF Cooldown, CountExpires, BreakerType
<1>4. UNCHANGED <<status, server, binding, promoter, sanctioned, run>>
  BY DEF Cooldown, CountExpires
<1> QED BY <1>0, <1>2, <1>3, <1>4 DEF Typed, RowsType, PromoterType, RunType, BreakerType

LEMMA StepType == Typed /\ [Next]_vars => Typed'
<1> SUFFICES ASSUME Typed, [Next]_vars PROVE Typed'
  OBVIOUS
<1>1. CASE UNCHANGED vars
  BY <1>1 DEF Typed, RowsType, PromoterType, RunType, BreakerType
<1>2. CASE Next
  BY <1>2, BindingStepType, RequestStepType, RunStepType, CallStepType, ClockStepType DEF Next
<1> QED BY <1>1, <1>2

LEMMA AlwaysTyped == Spec => []Typed
  BY InitType, StepType, PTL DEF Spec

(* Every variable keeps its type, whatever the runs, the breaker's cache,  *)
(* the builders and the approver do.                                       *)
THEOREM TypeCorrect == Spec => []TypeOK
  BY AlwaysTyped, TypedIsTypeOK, PTL

-----------------------------------------------------------------------------
(* Sanctioned calls.  A live row has the target last approved for it, since *)
(* every plan takes the LIVE status away; a request that has read its rows  *)
(* still agrees with them, when no plan comes in between; and a run holds   *)
(* what it copied together with what was approved then.                     *)

RowsSanctioned ==
  \A t \in Tools : binding[t].status = "live" =>
    sanctioned[t] = TargetKind(binding[t]) /\ sanctioned[t] # "none"
RequestFresh ==
  promoter.pc # "idle" =>
    \A t \in Tools : promoter.rows[t] => promoter.targets[t] = TargetKind(binding[t])
RequestChecked ==
  promoter.pc = "checked" /\ promoter.mode = "live" =>
    \A t \in Tools : promoter.rows[t] => promoter.targets[t] # "none"
StateSanctioned(s) ==
  /\ \A t \in Tools : s.tools[t].mode = "live" =>
       s.mode = "live" /\ s.tools[t].target = s.allowed[t] /\ s.tools[t].target # "none"
  /\ s.pc \in {"calling", "failing"} =>
       s.mode = "live" /\ s.target # "none" /\ s.target = s.allowed[s.tool]
RunsSanctioned == \A r \in Runs : StateSanctioned(run[r])

Sanctioned == RowsSanctioned /\ RequestFresh /\ RequestChecked /\ RunsSanctioned

LEMMA SanctionedImplies == Sanctioned => CallsSanctioned
  BY DEF Sanctioned, RunsSanctioned, StateSanctioned, CallsSanctioned

LEMMA NoRunSanctioned == StateSanctioned(NoRun)
  BY DEF StateSanctioned, NoRun

LEMMA SanctionedInit == Init => Sanctioned
<1> SUFFICES ASSUME Init PROVE Sanctioned
  OBVIOUS
<1>1. RowsSanctioned  BY DEF Init, RowsSanctioned, Absent
<1>2. RequestFresh /\ RequestChecked  BY NoPromoterType DEF Init, RequestFresh, RequestChecked
<1>3. RunsSanctioned  BY NoRunSanctioned DEF Init, RunsSanctioned
<1> QED BY <1>1, <1>2, <1>3 DEF Sanctioned

(* A plan leaves its row without the LIVE status.                          *)
LEMMA PlanNotLive ==
  ASSUME Typed, NEW t \in Tools, CreateBindingsFromPlan(t) \/ CreateMcpBinding(t)
  PROVE  binding'[t].status # "live" /\ \A u \in Tools \ {t} : binding'[u] = binding[u]
<1>1. binding \in [Tools -> AgentToolBinding] /\ binding[t] \in AgentToolBinding
  BY DEF Typed, RowsType
<1>2. CASE CreateBindingsFromPlan(t)
  <2>1. PICK c \in Connectors \union {"none"} :
          binding' = [binding EXCEPT ![t] = [@ EXCEPT !.connector = c,
                        !.status = IF c = "none" THEN "proposed" ELSE "sandbox"]]
    BY <1>2 DEF CreateBindingsFromPlan
  <2> QED BY <1>1, <2>1 DEF AgentToolBinding
<1>3. CASE CreateMcpBinding(t)
  BY <1>1, <1>3 DEF CreateMcpBinding, AgentToolBinding
<1> QED BY <1>2, <1>3

LEMMA PlanSanctioned ==
  ASSUME Typed, Sanctioned, ~Retarget, NEW t \in Tools,
         CreateBindingsFromPlan(t) \/ CreateMcpBinding(t)
  PROVE  Sanctioned'
<1>1. promoter.pc = "idle" /\ UNCHANGED <<promoter, sanctioned, run>>
  BY DEF CreateBindingsFromPlan, CreateMcpBinding
<1>2. binding'[t].status # "live" /\ \A u \in Tools \ {t} : binding'[u] = binding[u]
  BY PlanNotLive
<1>5. RowsSanctioned'
  <2> SUFFICES ASSUME NEW u \in Tools, binding'[u].status = "live"
               PROVE  sanctioned'[u] = TargetKind(binding'[u]) /\ sanctioned'[u] # "none"
    BY DEF RowsSanctioned, TargetKind
  <2>1. binding'[u] = binding[u]  BY <1>2
  <2> QED BY <1>1, <2>1 DEF Sanctioned, RowsSanctioned
<1>6. RequestFresh' /\ RequestChecked'  BY <1>1 DEF RequestFresh, RequestChecked
<1>7. RunsSanctioned'  BY <1>1 DEF Sanctioned, RunsSanctioned, StateSanctioned
<1> QED BY <1>5, <1>6, <1>7 DEF Sanctioned

LEMMA RequestSanctioned ==
  ASSUME Typed, Sanctioned, (\E mode \in {"sandbox", "live"} : ReadBindings(mode)) \/ CheckBindings
  PROVE  Sanctioned'
<1>1. UNCHANGED <<binding, sanctioned, run>>  BY DEF ReadBindings, CheckBindings
<1>2. RowsSanctioned' /\ RunsSanctioned'
  BY <1>1 DEF Sanctioned, RowsSanctioned, RunsSanctioned, StateSanctioned, TargetKind
<1>3. ASSUME NEW mode \in {"sandbox", "live"}, ReadBindings(mode)
      PROVE  RequestFresh' /\ RequestChecked'
  <2>1. promoter'.pc = "read"  BY <1>3 DEF ReadBindings
  <2>2. \A t \in Tools : promoter'.rows[t] => promoter'.targets[t] = TargetKind(binding[t])
    <3>1. PICK found \in SUBSET Tools :
            promoter' = [pc |-> "read", mode |-> mode,
              rows |-> [t \in Tools |-> t \in found],
              targets |-> [t \in Tools |-> IF t \in found THEN TargetKind(binding[t]) ELSE "none"],
              kinds |-> [t \in Tools |-> t \in found /\ binding[t].mcp],
              late |-> ~server.active]
      BY <1>3 DEF ReadBindings
    <3> QED BY <3>1
  <2> QED BY <1>1, <2>1, <2>2 DEF RequestFresh, RequestChecked, TargetKind
<1>4. ASSUME CheckBindings PROVE RequestFresh' /\ RequestChecked'
  <2>1. CASE promoter' = NoPromoter
    BY <2>1, NoPromoterType DEF RequestFresh, RequestChecked
  <2>2. CASE promoter' = [promoter EXCEPT !.pc = "checked"]
                /\ (promoter.mode = "sandbox" \/ \A t \in Chosen : MayGoLive(t))
    <3>1. promoter \in Promotion  BY DEF Typed, PromoterType
    <3>2. promoter' = [promoter EXCEPT !.pc = "checked"]  BY <2>2
    <3>3. /\ promoter'.rows = promoter.rows /\ promoter'.targets = promoter.targets
          /\ promoter'.mode = promoter.mode
      BY <3>1, <3>2 DEF Promotion
    <3>4. RequestFresh'
      BY <1>1, <1>4, <3>3 DEF CheckBindings, Sanctioned, RequestFresh, TargetKind
    <3>5. RequestChecked'
      BY <2>2, <3>3 DEF RequestChecked, MayGoLive, Chosen
    <3> QED BY <3>4, <3>5
  <2> QED BY <1>4, <2>1, <2>2 DEF CheckBindings
<1> QED BY <1>2, <1>3, <1>4 DEF Sanctioned

LEMMA PromotionSanctioned ==
  ASSUME Typed, Sanctioned, PromoteToLive \/ PromoteToSandbox
  PROVE  Sanctioned'
<1>1. promoter' = NoPromoter /\ UNCHANGED run  BY DEF PromoteToLive, PromoteToSandbox
<1>2. RequestFresh' /\ RequestChecked'  BY <1>1, NoPromoterType DEF RequestFresh, RequestChecked
<1>3. RunsSanctioned'  BY <1>1 DEF Sanctioned, RunsSanctioned, StateSanctioned
<1>4. ASSUME NEW t \in Tools, binding'[t].status = "live"
      PROVE  sanctioned'[t] = TargetKind(binding'[t]) /\ sanctioned'[t] # "none"
  <2>0. binding[t] \in AgentToolBinding  BY DEF Typed, RowsType
  <2>1. TargetKind(binding'[t]) = TargetKind(binding[t])
    <3>1. /\ [binding[t] EXCEPT !.status = "live", !.approved = TRUE].mcp = binding[t].mcp
          /\ [binding[t] EXCEPT !.status = "live", !.approved = TRUE].connector = binding[t].connector
          /\ [binding[t] EXCEPT !.status = "sandbox"].mcp = binding[t].mcp
          /\ [binding[t] EXCEPT !.status = "sandbox"].connector = binding[t].connector
      BY <2>0 DEF AgentToolBinding
    <3>2. binding'[t] \in {binding[t], [binding[t] EXCEPT !.status = "live", !.approved = TRUE],
                           [binding[t] EXCEPT !.status = "sandbox"]}
      BY DEF PromoteToLive, PromoteToSandbox
    <3> QED BY <3>1, <3>2 DEF TargetKind
  <2>2. CASE PromoteToLive /\ t \in Chosen
    <3>1. sanctioned'[t] = promoter.targets[t]  BY <2>2 DEF PromoteToLive
    <3>2. promoter.rows[t] /\ promoter.pc = "checked" /\ promoter.mode = "live"
      BY <2>2 DEF PromoteToLive, Chosen
    <3> QED BY <2>1, <3>1, <3>2 DEF Sanctioned, RequestFresh, RequestChecked
  <2>3. CASE ~(PromoteToLive /\ t \in Chosen)
    <3>1. sanctioned'[t] = sanctioned[t]  BY <2>3 DEF PromoteToLive, PromoteToSandbox
    <3>2. binding[t].status = "live"
      BY <1>4, <2>0, <2>3 DEF PromoteToLive, PromoteToSandbox, AgentToolBinding
    <3> QED BY <2>1, <3>1, <3>2 DEF Sanctioned, RowsSanctioned
  <2> QED BY <2>2, <2>3
<1>5. RowsSanctioned'  BY <1>4 DEF RowsSanctioned, TargetKind
<1> QED BY <1>2, <1>3, <1>5 DEF Sanctioned

(* The run's own steps: what changes is one run's state.                   *)
LEMMA RunSanctioned ==
  ASSUME Typed, Sanctioned, NEW r \in Runs,
         \/ Admit(r) \/ ToolsetFor(r) \/ McpEndpoint(r) \/ Answer(r) \/ WriteFailure(r) \/ End(r)
         \/ \E t \in Tools : Dispatch(r, t)
  PROVE  Sanctioned'
<1>0. run \in [Runs -> RunState] /\ run[r] \in RunState  BY DEF Typed, RunType
<1>a. StateSanctioned(run[r]) /\ RunsSanctioned  BY DEF Sanctioned, RunsSanctioned
<1>1. UNCHANGED <<binding, promoter, sanctioned>>
  BY DEF Admit, ToolsetFor, McpEndpoint, Answer, WriteFailure, End, Dispatch, ExecuteLive,
         CallTool, Begin
<1>2. RowsSanctioned' /\ RequestFresh' /\ RequestChecked'
  BY <1>1 DEF Sanctioned, RowsSanctioned, RequestFresh, RequestChecked, TargetKind
<1>3. ASSUME NEW state, StateSanctioned(state), run' = [run EXCEPT ![r] = state] PROVE Sanctioned'
  <2>1. RunsSanctioned'  BY <1>0, <1>a, <1>3 DEF RunsSanctioned, StateSanctioned
  <2> QED BY <1>2, <2>1 DEF Sanctioned
<1>4. CASE Admit(r)
  <2> DEFINE state == [NoRun EXCEPT !.pc = "admitted",
                         !.mode = IF IsLive(status) THEN "live" ELSE "sandbox"]
  <2>1. StateSanctioned(state)  BY DEF StateSanctioned, NoRun
  <2>2. run' = [run EXCEPT ![r] = state]  BY <1>4 DEF Admit
  <2> HIDE DEF state
  <2> QED BY <1>3, <2>1, <2>2
<1>5. CASE ToolsetFor(r)
  <2> DEFINE state == [run[r] EXCEPT !.pc = "ready", !.tools = ResolveBindings(run[r].mode),
                         !.allowed = sanctioned]
  <2>1. /\ state.tools = ResolveBindings(run[r].mode) /\ state.allowed = sanctioned
        /\ state.pc = "ready" /\ state.mode = run[r].mode
    BY <1>0 DEF RunState
  <2>2. ASSUME NEW t \in Tools, ResolveBindings(run[r].mode)[t].mode = "live"
        PROVE  /\ run[r].mode = "live"
               /\ ResolveBindings(run[r].mode)[t].target = sanctioned[t]
               /\ sanctioned[t] # "none"
    <3>1. /\ EffectiveMode(binding[t], run[r].mode) = "live"
          /\ ResolveBindings(run[r].mode)[t].target = TargetKind(binding[t])
      BY <2>2 DEF ResolveBindings
    <3>2. run[r].mode = "live" /\ binding[t].status = "live"  BY <3>1 DEF EffectiveMode
    <3> QED BY <3>1, <3>2 DEF Sanctioned, RowsSanctioned
  <2>3. StateSanctioned(state)
    <3> HIDE DEF state
    <3> QED BY <2>1, <2>2 DEF StateSanctioned
  <2>4. run' = [run EXCEPT ![r] = state]  BY <1>5 DEF ToolsetFor
  <2> HIDE DEF state
  <2> QED BY <1>3, <2>3, <2>4
<1>6. CASE McpEndpoint(r)
  <2> DEFINE state == [NoRun EXCEPT !.pc = "ready", !.mode = "live"]
  <2>1. StateSanctioned(state)  BY DEF StateSanctioned, NoRun
  <2>2. run' = [run EXCEPT ![r] = state]  BY <1>6 DEF McpEndpoint
  <2> HIDE DEF state
  <2> QED BY <1>3, <2>1, <2>2
<1>7. CASE End(r)
  BY <1>3, <1>7, NoRunSanctioned DEF End
<1>8. ASSUME NEW t \in Tools, Dispatch(r, t) PROVE Sanctioned'
  <2> DEFINE target == run[r].tools[t].target
             state == [run[r] EXCEPT !.pc = "calling", !.tool = t, !.target = target]
  <2>1. run' = [run EXCEPT ![r] = state]
    BY <1>8 DEF Dispatch, ExecuteLive, CallTool, Begin
  <2>2. run[r].tools[t].mode = "live"  BY <1>8 DEF Dispatch
  <2>3. run[r].mode = "live" /\ target = run[r].allowed[t] /\ target # "none"
    BY <1>a, <2>2 DEF StateSanctioned
  <2>4. /\ state.tools = run[r].tools /\ state.allowed = run[r].allowed /\ state.mode = run[r].mode
        /\ state.target = target /\ state.tool = t
    BY <1>0 DEF RunState
  <2>5. StateSanctioned(state)
    <3> HIDE DEF state, target
    <3> QED BY <1>a, <2>3, <2>4 DEF StateSanctioned
  <2> HIDE DEF state
  <2> QED BY <1>3, <2>1, <2>5
<1>9. CASE Answer(r) \/ WriteFailure(r)
  <2>1. PICK state :
          /\ run' = [run EXCEPT ![r] = state]
          /\ state.tools = run[r].tools /\ state.allowed = run[r].allowed
          /\ state.mode = run[r].mode
          /\ \/ state.pc = "ready"
             \/ run[r].pc = "calling" /\ state.target = run[r].target /\ state.tool = run[r].tool
    <3>1. CASE run' = [run EXCEPT ![r] = [@ EXCEPT !.pc = "ready", !.target = "none", !.tool = "none"]]
      <4> DEFINE state == [run[r] EXCEPT !.pc = "ready", !.target = "none", !.tool = "none"]
      <4>1. run' = [run EXCEPT ![r] = state]  BY <3>1
      <4>2. /\ state.tools = run[r].tools /\ state.allowed = run[r].allowed
            /\ state.mode = run[r].mode /\ state.pc = "ready"
        BY <1>0 DEF RunState
      <4> HIDE DEF state
      <4> QED BY <4>1, <4>2
    <3>2. CASE /\ run[r].pc = "calling"
               /\ run' = [run EXCEPT ![r] = [@ EXCEPT !.pc = "failing",
                                               !.seen = breaker[run[r].target].failures]]
      <4> DEFINE state == [run[r] EXCEPT !.pc = "failing", !.seen = breaker[run[r].target].failures]
      <4>1. run' = [run EXCEPT ![r] = state]  BY <3>2
      <4>2. /\ state.tools = run[r].tools /\ state.allowed = run[r].allowed
            /\ state.mode = run[r].mode
            /\ state.target = run[r].target /\ state.tool = run[r].tool
        BY <1>0 DEF RunState
      <4> HIDE DEF state
      <4> QED BY <3>2, <4>1, <4>2
    <3>3. CASE WriteFailure(r)
      <4> DEFINE state == [run[r] EXCEPT !.pc = "ready", !.target = "none", !.tool = "none",
                                         !.seen = 0]
      <4>1. run' = [run EXCEPT ![r] = state]  BY <3>3 DEF WriteFailure
      <4>2. /\ state.tools = run[r].tools /\ state.allowed = run[r].allowed
            /\ state.mode = run[r].mode /\ state.pc = "ready"
        BY <1>0 DEF RunState
      <4> HIDE DEF state
      <4> QED BY <4>1, <4>2
    <3> QED BY <1>9, <3>1, <3>2, <3>3 DEF Answer
  <2>2. StateSanctioned(state)  BY <1>a, <2>1 DEF StateSanctioned
  <2> QED BY <1>3, <2>1, <2>2
<1> QED BY <1>4, <1>5, <1>6, <1>7, <1>8, <1>9

LEMMA SanctionedStep == ~Retarget /\ Typed /\ Sanctioned /\ [Next]_vars => Sanctioned'
<1> SUFFICES ASSUME ~Retarget, Typed, Sanctioned, [Next]_vars PROVE Sanctioned'
  OBVIOUS
<1>1. ASSUME UNCHANGED <<binding, promoter, sanctioned, run>> PROVE Sanctioned'
  BY <1>1 DEF Sanctioned, RowsSanctioned, RequestFresh, RequestChecked, RunsSanctioned,
              StateSanctioned, TargetKind
<1>2. CASE UNCHANGED vars  BY <1>1, <1>2
<1>3. CASE \/ AgentMoves \/ McpServerSync \/ McpServerDisable
           \/ \E c \in Connectors : Cooldown(c) \/ CountExpires(c)
  BY <1>1, <1>3 DEF AgentMoves, McpServerSync, McpServerDisable, Cooldown, CountExpires
<1> QED BY <1>2, <1>3, PlanSanctioned, RequestSanctioned, PromotionSanctioned, RunSanctioned DEF Next

(* A real call goes only to the target approved for its tool, as of the    *)
(* moment the run copied its bindings, and only from a run admitted live,  *)
(* when no plan changes a row between a promotion's read and its save.     *)
THEOREM AlwaysSanctioned == ~Retarget => (Spec => []CallsSanctioned)
<1> SUFFICES ASSUME ~Retarget PROVE Spec => []CallsSanctioned
  OBVIOUS
<1>1. Typed /\ Sanctioned /\ [Next]_vars => Sanctioned'  BY SanctionedStep
<1> QED BY <1>1, SanctionedInit, SanctionedImplies, AlwaysTyped, PTL DEF Spec

-----------------------------------------------------------------------------
(* Disabled servers.  is_active is never set again, so a request that read *)
(* the rows late finds it off at its check, whatever a sync did to the     *)
(* status in between; only a request that passed its check saves LIVE.     *)

LateRequest ==
  /\ promoter.late => ~server.active
  /\ promoter.pc = "checked" /\ promoter.mode = "live" /\ promoter.late
       => \A t \in Tools : promoter.rows[t] => ~promoter.kinds[t]

BoundStep ==
  \A t \in Tools : promoter.late /\ promoter.kinds[t] /\ promoter.rows[t]
    => (binding'[t].status = "live" => binding[t].status = "live")

LEMMA LateInit == Init => LateRequest
  BY NoPromoterType DEF Init, LateRequest

LEMMA LateStep == Typed /\ LateRequest /\ [Next]_vars => LateRequest'
<1> SUFFICES ASSUME Typed, LateRequest, [Next]_vars PROVE LateRequest'
  OBVIOUS
<1>1. server \in RemoteMcpServer /\ promoter \in Promotion  BY DEF Typed, RowsType, PromoterType
<1>2. server'.active => server.active
  <2>1. CASE server' = server  BY <2>1
  <2>2. CASE McpServerSync  BY <1>1, <2>2 DEF McpServerSync, RemoteMcpServer
  <2>3. CASE McpServerDisable  BY <1>1, <2>3 DEF McpServerDisable, RemoteMcpServer
  <2> QED BY <2>1, <2>2, <2>3
       DEF Next, CreateBindingsFromPlan, CreateMcpBinding, ReadBindings, CheckBindings,
           PromoteToLive, PromoteToSandbox, AgentMoves, Admit, ToolsetFor, McpEndpoint, Dispatch,
           ExecuteLive, CallTool, Begin, Answer, WriteFailure, End, Cooldown, CountExpires
<1>3. CASE promoter' = promoter  BY <1>2, <1>3 DEF LateRequest
<1>4. CASE promoter' = NoPromoter  BY <1>4, NoPromoterType DEF LateRequest
<1>5. ASSUME NEW mode \in {"sandbox", "live"}, ReadBindings(mode) PROVE LateRequest'
  <2>1. promoter'.pc = "read" /\ promoter'.late = ~server.active /\ server' = server
    BY <1>5 DEF ReadBindings
  <2> QED BY <2>1 DEF LateRequest
<1>6. ASSUME promoter' = [promoter EXCEPT !.pc = "checked"],
             promoter.mode = "sandbox" \/ \A t \in Chosen : MayGoLive(t)
      PROVE LateRequest'
  <2>1. /\ promoter'.late = promoter.late /\ promoter'.mode = promoter.mode
        /\ promoter'.rows = promoter.rows /\ promoter'.kinds = promoter.kinds
    BY <1>1, <1>6 DEF Promotion
  <2>2. ASSUME promoter.mode = "live", promoter.late, NEW t \in Tools, promoter.rows[t]
        PROVE  ~promoter.kinds[t]
    BY <1>6, <2>2 DEF Chosen, MayGoLive, LateRequest
  <2> QED BY <1>2, <2>1, <2>2 DEF LateRequest
<1>7. CASE CheckBindings
  BY <1>4, <1>6, <1>7 DEF CheckBindings
<1> QED BY <1>3, <1>4, <1>5, <1>7
     DEF Next, CreateBindingsFromPlan, CreateMcpBinding,
         PromoteToLive, PromoteToSandbox, AgentMoves, McpServerSync, McpServerDisable, Admit,
         ToolsetFor, McpEndpoint, Dispatch, ExecuteLive, CallTool, Begin, Answer, WriteFailure,
         End, Cooldown, CountExpires

LEMMA BoundNext == Typed /\ LateRequest /\ [Next]_vars => BoundStep
<1> SUFFICES ASSUME Typed, LateRequest, [Next]_vars,
                    NEW t \in Tools, promoter.late, promoter.kinds[t], promoter.rows[t],
                    binding'[t].status = "live"
             PROVE  binding[t].status = "live"
  BY DEF BoundStep
<1>1. binding \in [Tools -> AgentToolBinding] /\ binding[t] \in AgentToolBinding
  BY DEF Typed, RowsType
<1>2. ASSUME NEW u \in Tools, CreateBindingsFromPlan(u) \/ CreateMcpBinding(u)
      PROVE  binding[t].status = "live"
  <2>1. binding'[u].status # "live" /\ \A v \in Tools \ {u} : binding'[v] = binding[v]
    BY <1>2, PlanNotLive
  <2> QED BY <2>1
<1>3. CASE PromoteToLive
  BY <1>3 DEF PromoteToLive, LateRequest
<1>4. CASE PromoteToSandbox
  <2>1. [binding[t] EXCEPT !.status = "sandbox"].status = "sandbox"
    BY <1>1 DEF AgentToolBinding
  <2> QED BY <1>4, <2>1 DEF PromoteToSandbox
<1>5. CASE binding' = binding  BY <1>5
<1> QED BY <1>2, <1>3, <1>4, <1>5
     DEF Next, ReadBindings, CheckBindings, AgentMoves, McpServerSync, McpServerDisable, Admit,
         ToolsetFor, McpEndpoint, Dispatch, ExecuteLive, CallTool, Begin, Answer, WriteFailure,
         End, Cooldown, CountExpires

(* A server disabled before the approver's request read the bindings is    *)
(* never bound live by it, even after a sync made its status ACTIVE again. *)
THEOREM DisabledNeverBound == Spec => DisabledStaysUnbound
<1>1. Typed /\ LateRequest /\ [Next]_vars => LateRequest'  BY LateStep
<1>2. Typed /\ LateRequest /\ [Next]_vars => BoundStep  BY BoundNext
<1>3. Spec => [][BoundStep]_vars
  BY <1>1, <1>2, LateInit, AlwaysTyped, PTL DEF Spec
<1> QED BY <1>3 DEF DisabledStaysUnbound, BoundStep

-----------------------------------------------------------------------------
(* The breaker.  While the calls of a connector do not overlap, one run at *)
(* most is between its call and its answer, and what it read of the count  *)
(* is still what the cache holds.                                          *)

OnCall(r, c) == run[r].pc \in {"calling", "failing"} /\ run[r].target = c

Exact(c) ==
  /\ breaker[c].failures = streak[c]
  /\ breaker[c].open => streak[c] = Threshold
  /\ \A r, q \in Runs : OnCall(r, c) /\ OnCall(q, c) => r = q
  /\ \A r \in Runs : OnCall(r, c) /\ run[r].pc = "failing" => run[r].seen = breaker[c].failures

AllExact == \A c \in Connectors \ overlapped : Exact(c)

LEMMA ExactInit == Init => AllExact
  BY NoRunType DEF Init, AllExact, Exact, OnCall, NoFailures

(* Steps that leave the cache, the ghosts and the calls alone.             *)
LEMMA ExactKept ==
  ASSUME AllExact, UNCHANGED <<breaker, streak>>, overlapped \subseteq overlapped',
         \A r \in Runs, c \in Connectors : OnCall(r, c)' => OnCall(r, c) /\ run'[r] = run[r]
  PROVE  AllExact'
<1> SUFFICES ASSUME NEW c \in Connectors \ overlapped' PROVE Exact(c)'
  BY DEF AllExact
<1>1. Exact(c)  BY DEF AllExact
<1> QED BY <1>1 DEF Exact, OnCall

(* The calls of r end or begin; every other run stays where it is.         *)
LEMMA OtherRuns ==
  ASSUME Typed, NEW r \in Runs,
         \/ Admit(r) \/ ToolsetFor(r) \/ McpEndpoint(r) \/ Answer(r) \/ WriteFailure(r) \/ End(r)
         \/ \E t \in Tools : Dispatch(r, t)
  PROVE  \A q \in Runs \ {r} : run'[q] = run[q]
<1>1. run \in [Runs -> RunState]  BY DEF Typed, RunType
<1> QED BY <1>1 DEF Admit, ToolsetFor, McpEndpoint, Answer, WriteFailure, End, Dispatch, ExecuteLive,
                    CallTool, Begin

LEMMA ExactRunStep ==
  ASSUME Typed, AllExact, NEW r \in Runs, Admit(r) \/ ToolsetFor(r) \/ McpEndpoint(r) \/ End(r)
  PROVE  AllExact'
<1>1. run \in [Runs -> RunState] /\ run[r] \in RunState  BY DEF Typed, RunType
<1>2. run'[r].pc \notin {"calling", "failing"}
  <2>1. CASE Admit(r)  BY <1>1, <2>1 DEF Admit, NoRun
  <2>2. CASE ToolsetFor(r)  BY <1>1, <2>2 DEF ToolsetFor, RunState
  <2>3. CASE McpEndpoint(r)  BY <1>1, <2>3 DEF McpEndpoint, NoRun
  <2>4. CASE End(r)  BY <1>1, <2>4 DEF End, NoRun
  <2> QED BY <2>1, <2>2, <2>3, <2>4
<1>3. \A q \in Runs \ {r} : run'[q] = run[q]  BY OtherRuns
<1>4. UNCHANGED <<breaker, streak, overlapped>>  BY DEF Admit, ToolsetFor, McpEndpoint, End
<1>5. \A q \in Runs, c \in Connectors : OnCall(q, c)' => OnCall(q, c) /\ run'[q] = run[q]
  BY <1>2, <1>3 DEF OnCall
<1> QED BY <1>4, <1>5, ExactKept

LEMMA ExactDispatch ==
  ASSUME Typed, AllExact, NEW r \in Runs, NEW t \in Tools, Dispatch(r, t)
  PROVE  AllExact'
<1> DEFINE target == run[r].tools[t].target
<1>1. run \in [Runs -> RunState] /\ run[r] \in RunState  BY DEF Typed, RunType
<1>2. run'[r] = [run[r] EXCEPT !.pc = "calling", !.tool = t, !.target = target]
  BY <1>1 DEF Dispatch, ExecuteLive, CallTool, Begin
<1>3. run'[r].pc = "calling" /\ run'[r].target = target  BY <1>1, <1>2 DEF RunState
<1>4. \A q \in Runs \ {r} : run'[q] = run[q]  BY OtherRuns
<1>5. UNCHANGED <<breaker, streak>>  BY DEF Dispatch, ExecuteLive, CallTool, Begin
<1>6. \/ target = "mcp" /\ overlapped' = overlapped
      \/ target \in Connectors /\ overlapped' = overlapped \union Contend(target)
  BY DEF Dispatch, ExecuteLive, CallTool
<1> HIDE DEF target
<1> SUFFICES ASSUME NEW c \in Connectors, c \notin overlapped' PROVE Exact(c)'
  BY DEF AllExact
<1>7. Exact(c)  BY <1>6 DEF AllExact
<1>8. CASE c = target
  <2>1. \A q \in Runs : ~OnCall(q, c)
    <3>1. target \in Connectors /\ target \notin Contend(target)
      BY <1>6, <1>8, ConnectorAssumption
    <3> QED BY <1>8, <3>1 DEF Contend, OnCall
  <2>2. \A q \in Runs : OnCall(q, c)' => q = r  BY <1>4, <2>1 DEF OnCall
  <2> QED BY <1>3, <1>5, <1>7, <2>2 DEF Exact, OnCall
<1>9. CASE c # target
  <2>1. \A q \in Runs : OnCall(q, c)' => OnCall(q, c) /\ run'[q] = run[q]
    BY <1>3, <1>4, <1>9 DEF OnCall
  <2> QED BY <1>5, <1>7, <2>1 DEF Exact, OnCall
<1> QED BY <1>8, <1>9

LEMMA ExactAnswer ==
  ASSUME Typed, AllExact, NEW r \in Runs, Answer(r)
  PROVE  AllExact'
<1> DEFINE d == run[r].target
<1>1. run \in [Runs -> RunState] /\ run[r] \in RunState  BY DEF Typed, RunType
<1>2. breaker \in [Connectors -> Breaker] /\ streak \in [Connectors -> 0 .. Threshold]
  BY DEF Typed, BreakerType
<1>3. \A q \in Runs \ {r} : run'[q] = run[q]  BY OtherRuns
<1>4. overlapped' = overlapped /\ run[r].pc = "calling"  BY DEF Answer
<1>5. CASE run'[r].pc = "failing"
  <2>1. UNCHANGED <<breaker, streak>> /\ d \in Connectors
        /\ run'[r] = [run[r] EXCEPT !.pc = "failing", !.seen = breaker[d].failures]
    <3>1. [run[r] EXCEPT !.pc = "ready", !.target = "none", !.tool = "none"].pc # "failing"
      BY <1>1 DEF RunState
    <3> QED BY <1>1, <1>5, <3>1 DEF Answer
  <2>2. run'[r].seen = breaker[d].failures /\ run'[r].target = d  BY <1>1, <2>1 DEF RunState
  <2> SUFFICES ASSUME NEW c \in Connectors, c \notin overlapped PROVE Exact(c)'
    BY <1>4 DEF AllExact
  <2>3. Exact(c)  BY DEF AllExact
  <2>4. \A q \in Runs : OnCall(q, c)' => OnCall(q, c)  BY <1>3, <1>4, <2>2 DEF OnCall
  <2>5. ASSUME NEW q \in Runs, OnCall(q, c)', run'[q].pc = "failing"
        PROVE  run'[q].seen = breaker'[c].failures
    <3>1. CASE q = r  BY <2>1, <2>2, <2>5, <3>1 DEF OnCall
    <3>2. CASE q # r  BY <1>3, <2>1, <2>3, <2>5, <3>2 DEF Exact, OnCall
    <3> QED BY <3>1, <3>2
  <2> QED BY <2>1, <2>3, <2>4, <2>5 DEF Exact
<1>6. CASE run'[r].pc # "failing"
  <2>1. /\ run'[r].pc = "ready"
        /\ IF d \in Connectors
           THEN /\ breaker' = [breaker EXCEPT ![d] = ClearFailures]
                /\ streak' = [streak EXCEPT ![d] = 0]
           ELSE UNCHANGED <<breaker, streak>>
    <3>1. /\ [run[r] EXCEPT !.pc = "failing", !.seen = breaker[d].failures].pc = "failing"
          /\ [run[r] EXCEPT !.pc = "ready", !.target = "none", !.tool = "none"].pc = "ready"
      BY <1>1 DEF RunState
    <3> QED BY <1>1, <1>6, <3>1 DEF Answer
  <2> SUFFICES ASSUME NEW c \in Connectors, c \notin overlapped PROVE Exact(c)'
    BY <1>4 DEF AllExact
  <2>2. Exact(c)  BY DEF AllExact
  <2>3. \A q \in Runs : OnCall(q, c)' => OnCall(q, c) /\ q # r /\ run'[q] = run[q]
    BY <1>3, <2>1 DEF OnCall
  <2>4. CASE c = d
    <3>1. \A q \in Runs : ~OnCall(q, c)'
      BY <1>4, <2>2, <2>3, <2>4 DEF Exact, OnCall
    <3>2. breaker'[c] = NoFailures /\ streak'[c] = 0
      BY <1>2, <2>1, <2>4 DEF ClearFailures
    <3> QED BY <3>1, <3>2 DEF Exact, NoFailures
  <2>5. CASE c # d
    <3>1. breaker'[c] = breaker[c] /\ streak'[c] = streak[c]  BY <1>2, <2>1, <2>5
    <3> QED BY <2>2, <2>3, <3>1 DEF Exact, OnCall
  <2> QED BY <2>4, <2>5
<1> QED BY <1>5, <1>6

LEMMA ExactWrite ==
  ASSUME Typed, AllExact, NEW r \in Runs, WriteFailure(r)
  PROVE  AllExact'
<1> DEFINE d == run[r].target
<1>1. /\ run \in [Runs -> RunState] /\ run[r] \in RunState
      /\ run[r].pc = "failing" /\ d \in Connectors
  BY DEF Typed, RunType, WriteFailure
<1>2. breaker \in [Connectors -> Breaker] /\ streak \in [Connectors -> 0 .. Threshold]
  BY DEF Typed, BreakerType
<1>3. \A q \in Runs \ {r} : run'[q] = run[q]  BY OtherRuns
<1>4. run'[r].pc = "ready" /\ overlapped' = overlapped  BY <1>1 DEF WriteFailure, RunState
<1>5. /\ breaker'[d] = RegisterFailure(run[r].seen, breaker[d])
      /\ streak'[d] = IF streak[d] < Threshold THEN streak[d] + 1 ELSE streak[d]
  BY <1>1, <1>2 DEF WriteFailure
<1>6. \A c \in Connectors \ {d} : breaker'[c] = breaker[c] /\ streak'[c] = streak[c]
  BY <1>1, <1>2 DEF WriteFailure
<1> SUFFICES ASSUME NEW c \in Connectors, c \notin overlapped PROVE Exact(c)'
  BY <1>4 DEF AllExact
<1>7. Exact(c)  BY DEF AllExact
<1>8. \A q \in Runs : OnCall(q, c)' => OnCall(q, c) /\ q # r /\ run'[q] = run[q]
  BY <1>3, <1>4 DEF OnCall
<1>9. CASE c = d
  <2>1. \A q \in Runs : ~OnCall(q, c)'  BY <1>1, <1>7, <1>8, <1>9 DEF Exact, OnCall
  <2>2. run[r].seen = streak[d] /\ breaker[d].failures = streak[d]
        /\ (breaker[d].open => streak[d] = Threshold)
    BY <1>1, <1>7, <1>9 DEF Exact, OnCall
  <2>3. streak[d] \in 0 .. Threshold /\ Threshold \in Nat  BY <1>1, <1>2, ThresholdAssumption
  <2>4. breaker'[d].failures = streak'[d]  BY <1>5, <2>2, <2>3 DEF RegisterFailure
  <2>5. breaker'[d].open => streak'[d] = Threshold
    <3>1. breaker'[d].open = (breaker[d].open \/ streak[d] + 1 >= Threshold)
      BY <1>5, <2>2 DEF RegisterFailure
    <3>2. streak[d] + 1 >= Threshold => streak'[d] = Threshold  BY <1>5, <2>3
    <3>3. streak[d] = Threshold => streak'[d] = Threshold  BY <1>5, <2>3
    <3> QED BY <2>2, <3>1, <3>2, <3>3
  <2> QED BY <1>9, <2>1, <2>4, <2>5 DEF Exact
<1>10. CASE c # d
  <2>1. breaker'[c] = breaker[c] /\ streak'[c] = streak[c]  BY <1>6, <1>10
  <2> QED BY <1>7, <1>8, <2>1 DEF Exact, OnCall
<1> QED BY <1>9, <1>10

LEMMA ExactClock ==
  ASSUME Typed, AllExact, NEW d \in Connectors, Cooldown(d) \/ CountExpires(d)
  PROVE  AllExact'
<1>1. breaker \in [Connectors -> Breaker] /\ streak \in [Connectors -> 0 .. Threshold]
  BY DEF Typed, BreakerType
<1>2. run' = run /\ overlapped \subseteq overlapped'  BY DEF Cooldown, CountExpires
<1> SUFFICES ASSUME NEW c \in Connectors, c \notin overlapped' PROVE Exact(c)'
  BY DEF AllExact
<1>3. Exact(c)  BY <1>2 DEF AllExact
<1>4. CASE c # d
  <2>1. breaker'[c] = breaker[c] /\ streak'[c] = streak[c]
    BY <1>1, <1>4 DEF Cooldown, CountExpires
  <2> QED BY <1>2, <1>3, <2>1 DEF Exact, OnCall
<1>5. CASE c = d /\ Cooldown(d)
  <2>1. streak' = streak /\ breaker' = [breaker EXCEPT ![d] = [@ EXCEPT !.open = FALSE]]
    BY <1>5 DEF Cooldown
  <2>2. breaker[d] \in Breaker  BY <1>1
  <2>3. breaker'[d].failures = breaker[d].failures /\ ~breaker'[d].open
    BY <1>1, <2>1, <2>2 DEF Breaker
  <2> QED BY <1>2, <1>3, <1>5, <2>1, <2>3 DEF Exact, OnCall
<1>6. CASE c = d /\ CountExpires(d)
  <2>1. /\ breaker' = [breaker EXCEPT ![d] = [@ EXCEPT !.failures = 0]]
        /\ streak' = [streak EXCEPT ![d] = 0] /\ ~breaker[d].open
    BY <1>6 DEF CountExpires
  <2>2. breaker[d] \in Breaker  BY <1>1
  <2>3. breaker'[d].failures = 0 /\ ~breaker'[d].open /\ streak'[d] = 0
    BY <1>1, <2>1, <2>2 DEF Breaker
  <2>4. \A r \in Runs : ~(OnCall(r, d) /\ run[r].pc = "failing")
    BY <1>6 DEF CountExpires, OnCall
  <2> QED BY <1>2, <1>3, <1>6, <2>3, <2>4 DEF Exact, OnCall
<1> QED BY <1>4, <1>5, <1>6

LEMMA ExactStep == Typed /\ AllExact /\ [Next]_vars => AllExact'
<1> SUFFICES ASSUME Typed, AllExact, [Next]_vars PROVE AllExact'
  OBVIOUS
<1>1. ASSUME UNCHANGED <<run, breaker, streak, overlapped>> PROVE AllExact'
  BY <1>1 DEF AllExact, Exact, OnCall
<1>2. CASE UNCHANGED vars  BY <1>1, <1>2
<1>3. CASE \/ \E t \in Tools : CreateBindingsFromPlan(t) \/ CreateMcpBinding(t)
           \/ \E mode \in {"sandbox", "live"} : ReadBindings(mode)
           \/ CheckBindings \/ PromoteToLive \/ PromoteToSandbox
           \/ AgentMoves \/ McpServerSync \/ McpServerDisable
  <2>1. UNCHANGED <<run, breaker, streak, overlapped>>
    BY <1>3 DEF CreateBindingsFromPlan, CreateMcpBinding, ReadBindings, CheckBindings,
                PromoteToLive, PromoteToSandbox, AgentMoves, McpServerSync, McpServerDisable
  <2> QED BY <1>1, <2>1
<1> QED BY <1>2, <1>3, ExactRunStep, ExactDispatch, ExactAnswer, ExactWrite, ExactClock DEF Next

(* While its calls do not overlap and its count does not expire between a  *)
(* failure's read and write, a connector's breaker opens at the threshold  *)
(* of failures in a row and not before.                                    *)
THEOREM BreakerAlwaysExact == Spec => []BreakerExact
<1>1. Typed /\ AllExact /\ [Next]_vars => AllExact'  BY ExactStep
<1>2. AllExact => BreakerExact  BY DEF AllExact, Exact, BreakerExact
<1> QED BY <1>1, <1>2, ExactInit, AlwaysTyped, PTL DEF Spec
=============================================================================
