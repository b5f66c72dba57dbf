--------------------------- MODULE RegistryProofs ---------------------------
(* Theorems about Registry, for every number of actors, platforms and      *)
(* external agents, with or without crashes.                               *)
EXTENDS Registry, TLAPS

USE DEF vars

-----------------------------------------------------------------------------
(* Type correctness, and where each operation can be.                      *)

Reviews == {"discovered", "approved", "rejected"}

Ops == {"none", "publish", "unpublish", "mcp_sync", "mcp_disable", "sync_all", "scan", "invoke"}

Process == [op : Ops, at : Steps \union Platforms, copy : RemoteMcpServer, review : Reviews,
            todo : SUBSET Platforms]

AgentSteps == {"card", "project", "upsert", "withdraw", "drop"}
ServerSteps == {"list", "project_server", "drop_server"}

(* Only a scan has platforms to do, and only a scan is at one.             *)
Shaped(s) ==
  /\ s.op = "scan" <=> s.at \in {"scan"} \union Platforms
  /\ s.op # "scan" => s.todo = {}

RowsType ==
  /\ agent \in [status : {"sandbox", "pilot"}, wasLive : BOOLEAN]
  /\ card \in AgentCard
  /\ server \in RemoteMcpServer
  /\ entry \in [Subjects -> RegistryEntry]
  /\ disturbed \subseteq Subjects
ProcType ==
  /\ proc \in [Actors -> Process]
  /\ \A p \in Actors : Shaped(proc[p])

Typed == RowsType /\ ProcType

LEMMA TypedIsTypeOK == Typed => TypeOK
<1> SUFFICES ASSUME Typed PROVE TypeOK
  OBVIOUS
<1>1. \A p \in Actors : /\ proc[p].copy \in RemoteMcpServer
                        /\ proc[p].review \in {"discovered", "approved", "rejected"}
                        /\ proc[p].todo \subseteq Platforms
  BY DEF Typed, ProcType, Process, Reviews
<1> QED BY <1>1 DEF Typed, RowsType, TypeOK

LEMMA FreeType == Free \in Process /\ Shaped(Free)
<1>1. NoCopy \in RemoteMcpServer  BY DEF NoCopy, RemoteMcpServer
<1>2. Free \in Process  BY <1>1 DEF Free, Process, Ops, Steps, Reviews
<1> QED BY <1>2, SubjectAssumption DEF Free, Shaped, Steps

(* One actor moves on.                                                     *)
LEMMA OneMoves ==
  ASSUME ProcType, NEW p \in Actors, NEW state \in Process, Shaped(state),
         proc' = [proc EXCEPT ![p] = state]
  PROVE  ProcType'
<1>1. proc' \in [Actors -> Process]  BY DEF ProcType
<1>2. \A q \in Actors : proc'[q] = proc[q] \/ proc'[q] = state  BY DEF ProcType
<1> QED BY <1>1, <1>2 DEF ProcType, Shaped

(* What the three ways an actor moves do to it, and to the others.         *)
Others(p) == \A q \in Actors \ {p} : proc'[q] = proc[q]

LEMMA GotoStep ==
  ASSUME ProcType, NEW p \in Actors, NEW step \in Steps \ {"scan"}, Goto(p, step),
         proc[p].at \in Steps \ {"scan"}
  PROVE  /\ ProcType' /\ Others(p)
         /\ proc'[p].at = step /\ proc'[p].op = proc[p].op /\ proc'[p].copy = proc[p].copy
         /\ proc'[p].review = proc[p].review /\ proc'[p].todo = proc[p].todo
<1> DEFINE state == [proc[p] EXCEPT !.at = step]
<1>1. proc \in [Actors -> Process] /\ proc[p] \in Process /\ Shaped(proc[p])  BY DEF ProcType
<1>2. proc' = [proc EXCEPT ![p] = state]  BY DEF Goto
<1>3. /\ state \in Process
      /\ state.at = step /\ state.op = proc[p].op /\ state.copy = proc[p].copy
      /\ state.review = proc[p].review /\ state.todo = proc[p].todo
  BY <1>1 DEF Process
<1> HIDE DEF state
<1>4. Shaped(state)
  BY <1>1, <1>3, SubjectAssumption DEF Shaped
<1>5. ProcType'  BY <1>1, <1>2, <1>3, <1>4, OneMoves
<1> QED BY <1>1, <1>2, <1>3, <1>5 DEF Others

LEMMA FinishStep ==
  ASSUME ProcType, NEW p \in Actors, Finish(p)
  PROVE  ProcType' /\ Others(p) /\ proc'[p] = Free
<1>1. proc \in [Actors -> Process]  BY DEF ProcType
<1>2. ProcType'  BY FreeType, OneMoves DEF Finish
<1> QED BY <1>1, <1>2 DEF Others, Finish

LEMMA BeginStep ==
  ASSUME Typed, NEW p \in Actors, NEW op \in Ops, NEW step \in Steps, NEW subjects \in SUBSET Subjects,
         op = "scan" => subjects \subseteq Platforms, op = "scan" <=> step = "scan",
         Begin(p, op, step, subjects)
  PROVE  /\ ProcType' /\ Others(p)
         /\ proc[p].at = "idle"
         /\ proc'[p].at = step /\ proc'[p].op = op /\ proc'[p].review = "discovered"
         /\ proc'[p].copy = IF op = "mcp_sync" THEN server ELSE NoCopy
         /\ proc'[p].todo = IF op = "scan" THEN subjects ELSE {}
         /\ disturbed' = disturbed \union (subjects \intersect InFlight)
         /\ disturbed' \subseteq Subjects
<1> DEFINE copy == IF op = "mcp_sync" THEN server ELSE NoCopy
           todo == IF op = "scan" THEN subjects ELSE {}
           state == [Free EXCEPT !.op = op, !.at = step, !.copy = copy, !.todo = todo]
<1>1. proc \in [Actors -> Process] /\ server \in RemoteMcpServer /\ NoCopy \in RemoteMcpServer
  BY DEF Typed, ProcType, RowsType, NoCopy, RemoteMcpServer
<1>2. proc' = [proc EXCEPT ![p] = state] /\ proc[p].at = "idle"  BY DEF Begin, At
<1>3. copy \in RemoteMcpServer /\ todo \in SUBSET Platforms /\ (op # "scan" => todo = {})
  BY <1>1
<1>4. Free.review = "discovered"  BY DEF Free
<1>5. /\ state \in Process
      /\ state.op = op /\ state.at = step /\ state.copy = copy
      /\ state.review = "discovered" /\ state.todo = todo
  <2> HIDE DEF copy, todo
  <2> QED BY <1>3, <1>4, FreeType DEF Process
<1> HIDE DEF state
<1>6. Shaped(state)
  <2> HIDE DEF copy, todo
  <2> QED BY <1>3, <1>5, SubjectAssumption DEF Shaped
<1>7. ProcType'  BY <1>2, <1>5, <1>6, OneMoves DEF Typed
<1>8. disturbed' = disturbed \union (subjects \intersect InFlight)  BY DEF Begin, Disturb
<1>9. disturbed' \subseteq Subjects  BY <1>8 DEF Typed, RowsType
<1>10. proc'[p] = state /\ Others(p)  BY <1>1, <1>2 DEF Others
<1> QED BY <1>2, <1>5, <1>7, <1>8, <1>9, <1>10

-----------------------------------------------------------------------------
(* The rows of the catalog.                                                *)

LEMMA SubjectFacts ==
  /\ "agent" \in Subjects /\ "server" \in Subjects /\ Platforms \subseteq Subjects
  /\ Manual \subseteq Subjects
  /\ \A x \in Platforms \union Manual : x # "agent" /\ x # "server"
  /\ \A x \in Platforms : x \notin Manual /\ x \notin Steps
  BY SubjectAssumption DEF Subjects

LEMMA UpsertStep ==
  ASSUME Typed, NEW x \in Subjects, NEW review \in Reviews, UpsertEntry(x, review)
  PROVE  /\ entry' \in [Subjects -> RegistryEntry]
         /\ entry'[x].state = "active" /\ entry'[x].review = review
         /\ \A y \in Subjects \ {x} : entry'[y] = entry[y]
<1>1. entry \in [Subjects -> RegistryEntry]  BY DEF Typed, RowsType
<1>2. [state |-> "active", review |-> review] \in RegistryEntry  BY DEF RegistryEntry, Reviews
<1> QED BY <1>1, <1>2 DEF UpsertEntry

LEMMA KeptType == ASSUME Typed, NEW x \in Subjects
                  PROVE  /\ Kept(x) \in Reviews
                         /\ entry[x].state # "absent" => Kept(x) = entry[x].review
                         /\ entry[x].state = "absent" => Kept(x) = "approved"
<1>1. entry[x] \in RegistryEntry  BY DEF Typed, RowsType
<1> QED BY <1>1 DEF Kept, RegistryEntry, Reviews

LEMMA DeactivateStep ==
  ASSUME Typed, NEW x \in Subjects, DeactivateEntry(x)
  PROVE  /\ entry' \in [Subjects -> RegistryEntry]
         /\ entry'[x].state = IF entry[x].state = "absent" THEN "absent" ELSE "inactive"
         /\ entry'[x].review = entry[x].review
         /\ \A y \in Subjects \ {x} : entry'[y] = entry[y]
<1> DEFINE state == IF entry[x].state = "absent" THEN "absent" ELSE "inactive"
           row == [entry[x] EXCEPT !.state = state]
<1>1. entry \in [Subjects -> RegistryEntry] /\ entry[x] \in RegistryEntry  BY DEF Typed, RowsType
<1>2. state \in {"absent", "inactive"}  OBVIOUS
<1>3. row \in RegistryEntry /\ row.state = state /\ row.review = entry[x].review
  <2> HIDE DEF state
  <2> QED BY <1>1, <1>2 DEF RegistryEntry
<1>4. entry' = [entry EXCEPT ![x] = row]
  <2>1. CASE entry[x].state = "absent"  BY <2>1 DEF DeactivateEntry
  <2>2. CASE entry[x].state # "absent"  BY <2>2 DEF DeactivateEntry
  <2> QED BY <2>1, <2>2
<1> HIDE DEF row
<1> QED BY <1>1, <1>3, <1>4

-----------------------------------------------------------------------------
(* Who touches which subject.                                              *)

LEMMA TouchedIs ==
  ASSUME ProcType, NEW p \in Actors
  PROVE  Touched(p) = IF proc[p].at \in AgentSteps THEN {"agent"}
                      ELSE IF proc[p].at \in ServerSteps THEN {"server"} ELSE proc[p].todo
<1>1. Shaped(proc[p])  BY DEF ProcType
<1>2. CASE proc[p].at \in AgentSteps \union ServerSteps
  <2>1. proc[p].op # "scan"
    BY <1>1, <1>2, SubjectAssumption DEF Shaped, AgentSteps, ServerSteps, Steps
  <2> QED BY <1>2, <2>1 DEF Touched, AgentSteps, ServerSteps
<1>3. CASE proc[p].at \notin AgentSteps \union ServerSteps
  BY <1>1, <1>3 DEF Touched, AgentSteps, ServerSteps, Shaped
<1> QED BY <1>2, <1>3

LEMMA InFlightIs ==
  ASSUME ProcType
  PROVE  /\ "agent" \in InFlight <=> \E p \in Actors : proc[p].at \in AgentSteps
         /\ "server" \in InFlight <=> \E p \in Actors : proc[p].at \in ServerSteps
         /\ \A x \in Platforms : x \in InFlight <=> \E p \in Actors : x \in proc[p].todo
<1>1. \A x : x \in InFlight <=> \E p \in Actors : x \in Touched(p)  BY DEF InFlight
<1>2. ASSUME NEW p \in Actors
      PROVE  /\ "agent" \in Touched(p) <=> proc[p].at \in AgentSteps
             /\ "server" \in Touched(p) <=> proc[p].at \in ServerSteps
             /\ \A x \in Platforms : x \in Touched(p) <=> x \in proc[p].todo
  <2>1. proc[p].todo \subseteq Platforms /\ Shaped(proc[p])  BY DEF ProcType, Process
  <2>2. AgentSteps \intersect ServerSteps = {}  BY DEF AgentSteps, ServerSteps
  <2>3. proc[p].at \in AgentSteps \union ServerSteps => proc[p].todo = {}
    BY <2>1, SubjectAssumption DEF Shaped, AgentSteps, ServerSteps, Steps
  <2> QED BY <2>1, <2>2, <2>3, TouchedIs, SubjectFacts
<1> QED BY <1>1, <1>2

-----------------------------------------------------------------------------
(* The invariant: what an agent that was never live cannot have, and, for  *)
(* a subject no two requests of which overlapped and none died, that one   *)
(* actor at most is at it and what that actor read is still so.            *)

NeverLive ==
  /\ agent.status = "pilot" => agent.wasLive
  /\ ~agent.wasLive => /\ card # "published"
                       /\ entry["agent"].state # "active"
                       /\ \A p \in Actors : proc[p].at \notin {"card", "upsert", "submit"}

AgentInv ==
  /\ \A p, q \in Actors : proc[p].at \in AgentSteps /\ proc[q].at \in AgentSteps => p = q
  /\ (\A p \in Actors : proc[p].at \notin AgentSteps) =>
       /\ entry["agent"].state = "active" => card = "published"
       /\ card = "published" => entry["agent"].state # "absent"
  /\ \A p \in Actors : /\ proc[p].at \in {"project", "upsert"} => card = "published"
                       /\ proc[p].at = "drop" => card # "published"

ServerInv ==
  /\ \A p, q \in Actors : proc[p].at \in ServerSteps /\ proc[q].at \in ServerSteps => p = q
  /\ (\A p \in Actors : proc[p].at \notin {"project_server", "drop_server"}) =>
       (entry["server"].state = "active" => server.active /\ server.status = "active")
  /\ \A p \in Actors : proc[p].at \in {"list", "project_server"} => proc[p].copy = server

ScanInv(x) ==
  /\ \A p, q \in Actors : x \in proc[p].todo /\ x \in proc[q].todo => p = q
  /\ \A p \in Actors : proc[p].at = x /\ x \in proc[p].todo /\ proc[p].review = "discovered"
       => entry[x].state = "absent" \/ entry[x].review = "discovered"

Orderly ==
  /\ "agent" \notin disturbed => AgentInv
  /\ "server" \notin disturbed => ServerInv
  /\ \A x \in Platforms \ disturbed : ScanInv(x)

Inv == Typed /\ NeverLive /\ Orderly

(* What leaves each part alone.                                            *)
LEMMA NeverLiveKept ==
  ASSUME NeverLive, UNCHANGED <<agent, card>>,
         entry'["agent"].state \in {entry["agent"].state, "inactive"},
         \A p \in Actors : proc'[p].at \in {"card", "upsert", "submit"} => proc[p].at = proc'[p].at
  PROVE  NeverLive'
  BY DEF NeverLive

AgentStill ==
  /\ UNCHANGED card
  /\ \/ entry'["agent"].state = entry["agent"].state
     \/ entry["agent"].state # "absent" /\ entry'["agent"].state = "inactive"
  /\ \A p \in Actors : proc'[p].at \in AgentSteps \/ proc[p].at \in AgentSteps
       => proc'[p].at = proc[p].at

ServerStill ==
  /\ UNCHANGED server
  /\ entry'["server"].state \in {entry["server"].state, "inactive"}
  /\ \A p \in Actors : proc'[p].at \in ServerSteps \/ proc[p].at \in ServerSteps
       => proc'[p].at = proc[p].at /\ proc'[p].copy = proc[p].copy

ScanStill(x) ==
  /\ \/ entry'[x] = entry[x]
     \/ entry[x].state # "absent" /\ entry'[x].review = entry[x].review
  /\ \A p \in Actors : /\ proc'[p].todo \subseteq proc[p].todo
                       /\ proc'[p].at = x => proc[p].at = x /\ proc'[p].review = proc[p].review

LEMMA AgentKept == ASSUME AgentInv, AgentStill PROVE AgentInv'
  BY DEF AgentInv, AgentStill, AgentSteps

LEMMA ServerKept == ASSUME ServerInv, ServerStill PROVE ServerInv'
  BY DEF ServerInv, ServerStill, ServerSteps

LEMMA ScanKept == ASSUME NEW x \in Platforms, ScanInv(x), ScanStill(x) PROVE ScanInv(x)'
  BY DEF ScanInv, ScanStill

LEMMA OrderlyKept ==
  ASSUME Orderly, disturbed \subseteq disturbed',
         "agent" \notin disturbed' /\ AgentInv => AgentInv',
         "server" \notin disturbed' /\ ServerInv => ServerInv',
         \A x \in Platforms \ disturbed' : ScanInv(x) => ScanInv(x)'
  PROVE  Orderly'
  BY DEF Orderly

-----------------------------------------------------------------------------
(* Steps at the agent, at the server and at the scans leave each other     *)
(* alone.                                                                  *)

LEMMA StepFacts ==
  /\ AgentSteps \subseteq Steps /\ ServerSteps \subseteq Steps
  /\ AgentSteps \intersect ServerSteps = {}
  /\ Free.at = "idle" /\ Free.todo = {} /\ Free.op = "none"
  /\ \A x \in Platforms : x \notin Steps
  BY SubjectAssumption DEF AgentSteps, ServerSteps, Steps, Free

LEMMA AgentSide ==
  ASSUME Typed, NEW p \in Actors, Others(p), UNCHANGED server,
         \A y \in Subjects \ {"agent"} : entry'[y] = entry[y],
         proc[p].at \notin ServerSteps,
         proc'[p].at \in Steps \ ServerSteps, proc'[p].todo = {}
  PROVE  ServerStill /\ \A x \in Platforms : ScanStill(x)
<1>1. entry'["server"] = entry["server"] /\ \A x \in Platforms : entry'[x] = entry[x]
  BY SubjectFacts
<1>2. ServerStill  BY <1>1 DEF ServerStill, Others
<1>3. ASSUME NEW x \in Platforms PROVE ScanStill(x)
  BY <1>1, StepFacts DEF ScanStill, Others
<1> QED BY <1>2, <1>3

LEMMA ServerSide ==
  ASSUME Inv, NEW p \in Actors, Others(p), UNCHANGED <<agent, card>>,
         \A y \in Subjects \ {"server"} : entry'[y] = entry[y],
         proc[p].at \notin AgentSteps,
         proc'[p].at \in Steps \ (AgentSteps \union {"submit"}), proc'[p].todo = {}
  PROVE  NeverLive' /\ AgentStill /\ \A x \in Platforms : ScanStill(x)
<1>1. entry'["agent"] = entry["agent"] /\ \A x \in Platforms : entry'[x] = entry[x]
  BY SubjectFacts
<1>2. AgentStill  BY <1>1 DEF AgentStill, Others
<1>3. ASSUME NEW x \in Platforms PROVE ScanStill(x)
  BY <1>1, StepFacts DEF ScanStill, Others
<1>4. NeverLive'
  <2>1. \A q \in Actors : proc'[q].at \in {"card", "upsert", "submit"} => proc[q].at = proc'[q].at
    BY DEF Others, AgentSteps
  <2> QED BY <1>1, <2>1, NeverLiveKept DEF Inv
<1> QED BY <1>2, <1>3, <1>4

LEMMA ScanSide ==
  ASSUME Inv, NEW p \in Actors, Others(p), UNCHANGED <<agent, card, server>>,
         entry'["agent"] = entry["agent"], entry'["server"] = entry["server"],
         proc[p].at \notin AgentSteps \union ServerSteps,
         proc'[p].at \notin AgentSteps \union ServerSteps \union {"submit"}
  PROVE  NeverLive' /\ AgentStill /\ ServerStill
<1>1. AgentStill /\ ServerStill  BY DEF AgentStill, ServerStill, Others
<1>2. \A q \in Actors : proc'[q].at \in {"card", "upsert", "submit"} => proc[q].at = proc'[q].at
  BY DEF Others, AgentSteps
<1> QED BY <1>1, <1>2, NeverLiveKept DEF Inv

-----------------------------------------------------------------------------
(* Cards.                                                                  *)

LEMMA BeginCard ==
  ASSUME Inv, NEW p \in Actors, PublishCard(p) \/ UnpublishCard(p)
  PROVE  Inv'
<1>0. Typed /\ NeverLive /\ Orderly  BY DEF Inv
<1>1. /\ ProcType' /\ Others(p) /\ proc[p].at = "idle" /\ proc'[p].todo = {}
      /\ disturbed' = disturbed \union ({"agent"} \intersect InFlight) /\ disturbed' \subseteq Subjects
      /\ proc'[p].at \in {"card", "withdraw"}
      /\ proc'[p].at = "card" => agent.status = "pilot"
  <2>1. {"agent"} \in SUBSET Subjects  BY SubjectFacts
  <2>2. CASE PublishCard(p)
    <3>1. "publish" \in Ops /\ "card" \in Steps  BY DEF Ops, Steps
    <3> QED BY <1>0, <2>1, <2>2, <3>1, BeginStep DEF PublishCard
  <2>3. CASE UnpublishCard(p)
    <3>1. "unpublish" \in Ops /\ "withdraw" \in Steps  BY DEF Ops, Steps
    <3> QED BY <1>0, <2>1, <2>3, <3>1, BeginStep DEF UnpublishCard
  <2> QED BY <2>2, <2>3
<1>2. UNCHANGED <<agent, card, server, entry>>  BY DEF PublishCard, UnpublishCard
<1>3. Typed'  BY <1>0, <1>1, <1>2 DEF Typed, RowsType
<1>4. ServerStill /\ \A x \in Platforms : ScanStill(x)
  BY <1>0, <1>1, <1>2, AgentSide DEF Steps, ServerSteps
<1>5. NeverLive'
  BY <1>0, <1>1, <1>2 DEF NeverLive, Others
<1>6. ASSUME "agent" \notin disturbed' PROVE AgentInv'
  <2>1. \A q \in Actors : proc[q].at \notin AgentSteps
    BY <1>0, <1>1, <1>6, InFlightIs DEF Typed
  <2> QED BY <1>1, <1>2, <2>1 DEF AgentInv, AgentSteps, Others
<1>7. Orderly'  BY <1>0, <1>1, <1>4, <1>6, OrderlyKept, ServerKept, ScanKept
<1> QED BY <1>3, <1>5, <1>7 DEF Inv

LEMMA SaveCards ==
  ASSUME Inv, NEW p \in Actors, SaveCard(p) \/ WithdrawCard(p) \/ ReadCard(p)
  PROVE  Inv'
<1>0. Typed /\ NeverLive /\ Orderly  BY DEF Inv
<1>1. PICK step \in {"project", "upsert", "drop"} :
        /\ Goto(p, step)
        /\ step = "project" => card' = "published" /\ proc[p].at = "card"
        /\ step = "upsert" => card' = "published" /\ card' = card
        /\ step = "drop" => card' # "published" /\ card' \in {"unpublished", card}
  <2>1. CASE SaveCard(p)  BY <2>1 DEF SaveCard, At
  <2>2. CASE WithdrawCard(p)  BY <2>2 DEF WithdrawCard
  <2>3. CASE ReadCard(p) /\ card = "published"
    <3>1. Goto(p, "upsert") /\ card' = card  BY <2>3 DEF ReadCard
    <3> QED BY <2>3, <3>1
  <2>4. CASE ReadCard(p) /\ card # "published"
    <3>1. Goto(p, "drop") /\ card' = card  BY <2>4 DEF ReadCard
    <3> QED BY <2>4, <3>1
  <2> QED BY <2>1, <2>2, <2>3, <2>4
<1>2. proc[p].at \in AgentSteps
  BY DEF SaveCard, WithdrawCard, ReadCard, At, AgentSteps
<1>3. /\ ProcType' /\ Others(p) /\ proc'[p].at = step /\ proc'[p].todo = proc[p].todo
  <2>1. step \in Steps \ {"scan"} /\ proc[p].at \in Steps \ {"scan"}
    BY <1>2 DEF Steps, AgentSteps
  <2> QED BY <1>0, <1>1, <2>1, GotoStep DEF Typed
<1>4. proc[p].todo = {}
  BY <1>0, <1>2, StepFacts DEF Typed, ProcType, Shaped, AgentSteps
<1>5. UNCHANGED <<agent, server, entry, disturbed>>  BY DEF SaveCard, WithdrawCard, ReadCard
<1>6. Typed'
  <2>1. card' \in AgentCard  BY <1>0, <1>1 DEF Typed, RowsType, AgentCard
  <2> QED BY <1>0, <1>3, <1>5, <2>1 DEF Typed, RowsType
<1>7. ServerStill /\ \A x \in Platforms : ScanStill(x)
  <2>1. proc[p].at \notin ServerSteps /\ proc'[p].at \in Steps \ ServerSteps
    BY <1>2, <1>3, StepFacts DEF Steps, ServerSteps
  <2> QED BY <1>0, <1>3, <1>4, <1>5, <2>1, AgentSide
<1>8. NeverLive'
  <2>1. ASSUME ~agent.wasLive
        PROVE  step = "drop" /\ card' # "published" /\ entry["agent"].state # "active"
    <3>1. card # "published" /\ entry["agent"].state # "active" /\ proc[p].at # "card"
      BY <1>0, <2>1 DEF NeverLive
    <3> QED BY <1>1, <3>1
  <2> QED BY <1>0, <1>3, <1>5, <2>1 DEF NeverLive, Others
<1>9. ASSUME "agent" \notin disturbed' PROVE AgentInv'
  <2>1. AgentInv  BY <1>0, <1>5, <1>9 DEF Orderly
  <2>2. \A q \in Actors : proc'[q].at \in AgentSteps => q = p
    BY <1>2, <1>3, <2>1 DEF AgentInv, Others
  <2>3. proc'[p].at \in AgentSteps  BY <1>3 DEF AgentSteps
  <2>4. \A q \in Actors : /\ proc'[q].at \in {"project", "upsert"} => card' = "published"
                          /\ proc'[q].at = "drop" => card' # "published"
    BY <1>1, <1>3, <2>2 DEF AgentSteps
  <2> QED BY <2>2, <2>3, <2>4 DEF AgentInv
<1>10. Orderly'  BY <1>0, <1>5, <1>7, <1>9, OrderlyKept, ServerKept, ScanKept
<1> QED BY <1>6, <1>8, <1>10 DEF Inv

LEMMA FinishAgentStep ==
  ASSUME ProcType, NEW p \in Actors, proc[p].at \in AgentSteps, FinishAgent(p)
  PROVE  /\ ProcType' /\ Others(p) /\ proc'[p].at \in {"idle", "servers"} /\ proc'[p].todo = {}
<1>1. proc[p].todo = {} /\ proc[p].at \in Steps \ {"scan"}
  BY StepFacts DEF ProcType, Shaped, AgentSteps
<1>2. CASE Goto(p, "servers")
  <2>1. "servers" \in Steps \ {"scan"}  BY DEF Steps
  <2> QED BY <1>1, <1>2, <2>1, GotoStep
<1>3. CASE Finish(p)
  BY <1>3, FinishStep, StepFacts
<1> QED BY <1>2, <1>3 DEF FinishAgent

LEMMA ProjectOrDrop ==
  ASSUME Inv, NEW p \in Actors, ProjectAgent(p) \/ UnprojectAgent(p)
  PROVE  Inv'
<1>0. Typed /\ NeverLive /\ Orderly  BY DEF Inv
<1>1. proc[p].at \in {"upsert", "drop"} /\ proc[p].at \in AgentSteps
  BY DEF ProjectAgent, UnprojectAgent, At, AgentSteps
<1>2. UNCHANGED <<agent, card, server, disturbed>>  BY DEF ProjectAgent, UnprojectAgent
<1>3. /\ ProcType' /\ Others(p) /\ proc'[p].at \in {"idle", "servers"} /\ proc'[p].todo = {}
  BY <1>0, <1>1, FinishAgentStep DEF Typed, ProjectAgent, UnprojectAgent
<1>4. /\ entry' \in [Subjects -> RegistryEntry]
      /\ \A y \in Subjects \ {"agent"} : entry'[y] = entry[y]
      /\ \/ proc[p].at = "upsert" /\ entry'["agent"].state = "active"
         \/ proc[p].at = "drop" /\ entry'["agent"].state \in {"absent", "inactive"}
  <2>1. CASE ProjectAgent(p)
    BY <1>0, <2>1, KeptType, UpsertStep, SubjectFacts DEF ProjectAgent, At
  <2>2. CASE UnprojectAgent(p)
    BY <1>0, <2>2, DeactivateStep, SubjectFacts DEF UnprojectAgent, At
  <2> QED BY <2>1, <2>2
<1>5. Typed'  BY <1>0, <1>2, <1>3, <1>4 DEF Typed, RowsType
<1>6. ServerStill /\ \A x \in Platforms : ScanStill(x)
  <2>1. proc[p].at \notin ServerSteps /\ proc'[p].at \in Steps \ ServerSteps
    BY <1>1, <1>3, StepFacts DEF Steps, ServerSteps
  <2> QED BY <1>0, <1>2, <1>3, <1>4, <2>1, AgentSide
<1>7. NeverLive'
  BY <1>0, <1>2, <1>3, <1>4 DEF NeverLive, Others
<1>8. ASSUME "agent" \notin disturbed' PROVE AgentInv'
  <2>1. AgentInv  BY <1>0, <1>2, <1>8 DEF Orderly
  <2>2. \A q \in Actors : proc'[q].at \notin AgentSteps
    BY <1>1, <1>3, <2>1 DEF AgentInv, Others, AgentSteps
  <2>3. /\ proc[p].at = "upsert" => card' = "published"
        /\ proc[p].at = "drop" => card' # "published"
    BY <1>2, <2>1 DEF AgentInv
  <2> QED BY <1>4, <2>2, <2>3 DEF AgentInv, AgentSteps
<1>9. Orderly'  BY <1>0, <1>2, <1>6, <1>8, OrderlyKept, ServerKept, ScanKept
<1> QED BY <1>5, <1>7, <1>9 DEF Inv

-----------------------------------------------------------------------------
(* Servers.                                                                *)

LEMMA BeginServer ==
  ASSUME Inv, NEW p \in Actors, McpServerSync(p) \/ McpServerDisable(p)
  PROVE  Inv'
<1>0. Typed /\ NeverLive /\ Orderly  BY DEF Inv
<1>1. /\ ProcType' /\ Others(p) /\ proc[p].at = "idle" /\ proc'[p].todo = {}
      /\ disturbed' = disturbed \union ({"server"} \intersect InFlight) /\ disturbed' \subseteq Subjects
      /\ \/ proc'[p].at = "list" /\ proc'[p].copy = server /\ server' = server
         \/ proc'[p].at = "drop_server"
  <2>1. {"server"} \in SUBSET Subjects  BY SubjectFacts
  <2>2. CASE McpServerSync(p)
    <3>1. "mcp_sync" \in Ops /\ "list" \in Steps  BY DEF Ops, Steps
    <3> QED BY <1>0, <2>1, <2>2, <3>1, BeginStep DEF McpServerSync
  <2>3. CASE McpServerDisable(p)
    <3>1. "mcp_disable" \in Ops /\ "drop_server" \in Steps  BY DEF Ops, Steps
    <3> QED BY <1>0, <2>1, <2>3, <3>1, BeginStep DEF McpServerDisable
  <2> QED BY <2>2, <2>3
<1>2. UNCHANGED <<agent, card, entry>>  BY DEF McpServerSync, McpServerDisable
<1>3. Typed'
  <2>1. server' \in RemoteMcpServer
    BY <1>0 DEF McpServerSync, McpServerDisable, Typed, RowsType, RemoteMcpServer
  <2> QED BY <1>0, <1>1, <1>2, <2>1 DEF Typed, RowsType
<1>4. NeverLive' /\ AgentStill /\ \A x \in Platforms : ScanStill(x)
  <2>1. proc[p].at \notin AgentSteps /\ proc'[p].at \in Steps \ (AgentSteps \union {"submit"})
    BY <1>1 DEF Steps, AgentSteps
  <2> QED BY <1>1, <1>2, <2>1, ServerSide
<1>5. ASSUME "server" \notin disturbed' PROVE ServerInv'
  <2>1. \A q \in Actors : proc[q].at \notin ServerSteps
    BY <1>0, <1>1, <1>5, InFlightIs DEF Typed
  <2>2. ServerInv  BY <1>0, <1>1, <1>5 DEF Orderly
  <2> QED BY <1>1, <1>2, <2>1, <2>2 DEF ServerInv, ServerSteps, Others
<1>6. Orderly'  BY <1>0, <1>1, <1>4, <1>5, OrderlyKept, AgentKept, ScanKept
<1> QED BY <1>3, <1>4, <1>6 DEF Inv

LEMMA ListToolsStep ==
  ASSUME Inv, NEW p \in Actors, ListTools(p)
  PROVE  Inv'
<1>0. Typed /\ NeverLive /\ Orderly  BY DEF Inv
<1>a. proc \in [Actors -> Process] /\ proc[p] \in Process /\ Shaped(proc[p]) /\ server \in RemoteMcpServer
  BY <1>0 DEF Typed, ProcType, RowsType
<1>b. proc[p].at = "list" /\ UNCHANGED <<agent, card, entry, disturbed>>  BY DEF ListTools, At
<1>c. proc[p].todo = {} /\ proc[p].op # "scan"  BY <1>a, <1>b, StepFacts DEF Shaped, ServerSteps
<1>1. /\ ProcType' /\ Others(p) /\ proc'[p].todo = {} /\ server' \in RemoteMcpServer
      /\ \/ proc'[p].at = "idle" /\ server' = server
         \/ /\ proc'[p].at = "project_server"
            /\ proc[p].copy = server => proc'[p].copy = server'
  <2>1. ASSUME NEW offered \in BOOLEAN,
               server' = [server EXCEPT !.status = "active", !.catalog = offered],
               proc' = [proc EXCEPT ![p].at = "project_server",
                          ![p].copy = [@ EXCEPT !.status = "active", !.catalog = offered]]
        PROVE  /\ ProcType' /\ Others(p) /\ proc'[p].todo = {} /\ server' \in RemoteMcpServer
               /\ proc'[p].at = "project_server" /\ (proc[p].copy = server => proc'[p].copy = server')
    <3> DEFINE copy == [proc[p].copy EXCEPT !.status = "active", !.catalog = offered]
               state == [proc[p] EXCEPT !.at = "project_server", !.copy = copy]
    <3>1. copy \in RemoteMcpServer /\ server' \in RemoteMcpServer
      <4>1. proc[p].copy \in RemoteMcpServer  BY <1>a DEF Process
      <4> QED BY <1>a, <2>1, <4>1 DEF RemoteMcpServer
    <3>2. proc[p].copy = server => copy = server'  BY <2>1
    <3>3. proc' = [proc EXCEPT ![p] = state]  BY <1>a, <2>1 DEF Process
    <3> HIDE DEF copy
    <3>4. /\ state \in Process /\ state.at = "project_server" /\ state.copy = copy
          /\ state.todo = proc[p].todo /\ state.op = proc[p].op
      BY <1>a, <3>1 DEF Process, Steps
    <3> HIDE DEF state
    <3>5. Shaped(state)  BY <1>c, <3>4, StepFacts DEF Shaped, ServerSteps
    <3>6. ProcType'  BY <1>0, <3>3, <3>4, <3>5, OneMoves DEF Typed
    <3> QED BY <1>a, <1>c, <3>1, <3>2, <3>3, <3>4, <3>6 DEF Others
  <2>2. ASSUME Finish(p), UNCHANGED server
        PROVE  /\ ProcType' /\ Others(p) /\ proc'[p].todo = {} /\ server' \in RemoteMcpServer
               /\ proc'[p].at = "idle" /\ server' = server
    BY <1>0, <1>a, <2>2, FinishStep, StepFacts DEF Typed
  <2> QED BY <2>1, <2>2 DEF ListTools
<1>2. Typed'  BY <1>0, <1>b, <1>1 DEF Typed, RowsType
<1>3. NeverLive' /\ AgentStill /\ \A x \in Platforms : ScanStill(x)
  <2>1. proc[p].at \notin AgentSteps /\ proc'[p].at \in Steps \ (AgentSteps \union {"submit"})
    BY <1>b, <1>1 DEF Steps, AgentSteps
  <2> QED BY <1>b, <1>1, <2>1, ServerSide
<1>4. ASSUME "server" \notin disturbed' PROVE ServerInv'
  <2>1. ServerInv  BY <1>0, <1>b, <1>4 DEF Orderly
  <2>2. \A q \in Actors : q # p => proc'[q] = proc[q] /\ proc'[q].at \notin ServerSteps
    BY <1>b, <1>1, <2>1 DEF ServerInv, Others, ServerSteps
  <2>3. proc[p].copy = server  BY <1>b, <2>1 DEF ServerInv
  <2> QED BY <1>b, <1>1, <2>1, <2>2, <2>3 DEF ServerInv, ServerSteps
<1>5. Orderly'  BY <1>0, <1>b, <1>3, <1>4, OrderlyKept, AgentKept, ScanKept
<1> QED BY <1>2, <1>3, <1>5 DEF Inv

LEMMA ServerDone ==
  ASSUME Inv, NEW p \in Actors, ProjectMcpServer(p) \/ DeactivateMcpServer(p)
  PROVE  Inv'
<1>0. Typed /\ NeverLive /\ Orderly  BY DEF Inv
<1>1. proc[p].at \in {"project_server", "drop_server"} /\ proc[p].at \in ServerSteps
  BY DEF ProjectMcpServer, DeactivateMcpServer, At, ServerSteps
<1>2. UNCHANGED <<agent, card, server, disturbed>>  BY DEF ProjectMcpServer, DeactivateMcpServer
<1>3. ProcType' /\ Others(p) /\ proc'[p] = Free
  BY <1>0, FinishStep DEF ProjectMcpServer, DeactivateMcpServer, Typed
<1>4. /\ entry' \in [Subjects -> RegistryEntry]
      /\ \A y \in Subjects \ {"server"} : entry'[y] = entry[y]
      /\ entry'["server"].state = "active" => proc[p].at = "project_server" /\ IsUsable(proc[p].copy)
  <2>1. CASE DeactivateEntry("server")
    BY <1>0, <2>1, DeactivateStep, SubjectFacts
  <2>2. CASE ProjectMcpServer(p) /\ IsUsable(proc[p].copy)
    <3>1. UpsertEntry("server", Kept("server"))  BY <2>2 DEF ProjectMcpServer
    <3> QED BY <1>0, <2>2, <3>1, KeptType, UpsertStep, SubjectFacts DEF ProjectMcpServer, At
  <2> QED BY <2>1, <2>2 DEF ProjectMcpServer, DeactivateMcpServer
<1>5. Typed'  BY <1>0, <1>2, <1>3, <1>4 DEF Typed, RowsType
<1>6. NeverLive' /\ AgentStill /\ \A x \in Platforms : ScanStill(x)
  <2>1. proc[p].at \notin AgentSteps /\ proc'[p].at \in Steps \ (AgentSteps \union {"submit"})
        /\ proc'[p].todo = {}
    BY <1>1, <1>3, StepFacts DEF Steps, AgentSteps
  <2> QED BY <1>2, <1>3, <1>4, <2>1, ServerSide
<1>7. ASSUME "server" \notin disturbed' PROVE ServerInv'
  <2>1. ServerInv  BY <1>0, <1>2, <1>7 DEF Orderly
  <2>2. \A q \in Actors : proc'[q].at \notin ServerSteps
    BY <1>1, <1>3, <2>1, StepFacts DEF ServerInv, Others, ServerSteps
  <2>3. proc[p].at = "project_server" => proc[p].copy = server  BY <2>1 DEF ServerInv
  <2> QED BY <1>2, <1>4, <2>2, <2>3 DEF ServerInv, ServerSteps, IsUsable
<1>8. Orderly'  BY <1>0, <1>2, <1>6, <1>7, OrderlyKept, AgentKept, ScanKept
<1> QED BY <1>5, <1>6, <1>8 DEF Inv

LEMMA SyncServersStep ==
  ASSUME Inv, NEW p \in Actors, SyncServers(p)
  PROVE  Inv'
<1>0. Typed /\ NeverLive /\ Orderly  BY DEF Inv
<1>1. proc[p].at = "servers" /\ UNCHANGED <<agent, card, server, entry>>  BY DEF SyncServers, At
<1>a. proc \in [Actors -> Process] /\ proc[p] \in Process /\ Shaped(proc[p]) /\ server \in RemoteMcpServer
  BY <1>0 DEF Typed, ProcType, RowsType
<1>b. proc[p].op # "scan" /\ proc[p].todo = {}
  BY <1>1, <1>a, SubjectAssumption DEF Shaped, Steps
<1>2. /\ ProcType' /\ Others(p) /\ proc'[p].todo = {}
      /\ \/ proc'[p].at = "idle" /\ disturbed' = disturbed
         \/ /\ proc'[p].at = "project_server" /\ proc'[p].copy = server
            /\ disturbed' = disturbed \union ({"server"} \intersect InFlight)
  <2>1. CASE server.active
    <3> DEFINE state == [proc[p] EXCEPT !.at = "project_server", !.copy = server]
    <3>1. proc' = [proc EXCEPT ![p] = state]  BY <1>a, <2>1 DEF SyncServers
    <3>2. /\ state \in Process /\ state.at = "project_server" /\ state.copy = server
          /\ state.todo = proc[p].todo /\ state.op = proc[p].op
      BY <1>a DEF Process, Steps
    <3> HIDE DEF state
    <3>3. Shaped(state)  BY <1>b, <3>2, StepFacts DEF Shaped, ServerSteps
    <3>4. ProcType'  BY <1>0, <3>1, <3>2, <3>3, OneMoves DEF Typed
    <3>5. disturbed' = disturbed \union ({"server"} \intersect InFlight)
      BY <2>1 DEF SyncServers, Disturb
    <3> QED BY <1>a, <1>b, <3>1, <3>2, <3>4, <3>5 DEF Others
  <2>2. CASE ~server.active
    BY <1>0, <2>2, FinishStep, StepFacts DEF SyncServers, Typed
  <2> QED BY <2>1, <2>2
<1>3. Typed'
  <2>1. disturbed' \subseteq Subjects  BY <1>0, <1>2, SubjectFacts DEF Typed, RowsType
  <2> QED BY <1>0, <1>1, <1>2, <2>1 DEF Typed, RowsType
<1>4. NeverLive' /\ AgentStill /\ \A x \in Platforms : ScanStill(x)
  <2>1. proc[p].at \notin AgentSteps /\ proc'[p].at \in Steps \ (AgentSteps \union {"submit"})
    BY <1>1, <1>2 DEF Steps, AgentSteps
  <2> QED BY <1>1, <1>2, <2>1, ServerSide
<1>5. ASSUME "server" \notin disturbed' PROVE ServerInv'
  <2>1. ServerInv  BY <1>0, <1>2, <1>5 DEF Orderly
  <2>2. CASE proc'[p].at = "idle"
    BY <1>1, <1>2, <2>1, <2>2 DEF ServerInv, ServerSteps, Others
  <2>3. CASE proc'[p].at = "project_server"
    <3>1. \A q \in Actors : proc[q].at \notin ServerSteps
      BY <1>0, <1>2, <1>5, <2>3, InFlightIs DEF Typed
    <3> QED BY <1>1, <1>2, <2>3, <3>1 DEF ServerInv, ServerSteps, Others
  <2> QED BY <1>2, <2>2, <2>3
<1>6. disturbed \subseteq disturbed'  BY <1>2
<1>7. Orderly'  BY <1>0, <1>4, <1>5, <1>6, OrderlyKept, AgentKept, ScanKept
<1> QED BY <1>3, <1>4, <1>7 DEF Inv

LEMMA SyncAllStep ==
  ASSUME Inv, NEW p \in Actors, SyncAll(p)
  PROVE  Inv'
<1>0. Typed /\ NeverLive /\ Orderly  BY DEF Inv
<1> DEFINE step == IF card = "published" THEN "project" ELSE "servers"
           subjects == IF card = "published" THEN {"agent"} ELSE {}
<1>1. /\ ProcType' /\ Others(p) /\ proc[p].at = "idle" /\ proc'[p].at = step /\ proc'[p].todo = {}
      /\ disturbed' = disturbed \union (subjects \intersect InFlight) /\ disturbed' \subseteq Subjects
  <2>1. "sync_all" \in Ops /\ step \in Steps /\ step # "scan"  BY DEF Ops, Steps
  <2>2. subjects \in SUBSET Subjects  BY SubjectFacts
  <2>3. Begin(p, "sync_all", step, subjects)  BY DEF SyncAll
  <2> HIDE DEF step, subjects
  <2> QED BY <1>0, <2>1, <2>2, <2>3, BeginStep
<1>2. UNCHANGED <<agent, card, server, entry>>  BY DEF SyncAll
<1>3. Typed'  BY <1>0, <1>1, <1>2 DEF Typed, RowsType
<1>4. ServerStill /\ \A x \in Platforms : ScanStill(x)
  <2>1. proc[p].at \notin ServerSteps /\ proc'[p].at \in Steps \ ServerSteps
    BY <1>1 DEF Steps, ServerSteps
  <2> QED BY <1>0, <1>1, <1>2, <2>1, AgentSide
<1>5. NeverLive'  BY <1>0, <1>1, <1>2 DEF NeverLive, Others
<1>6. ASSUME "agent" \notin disturbed' PROVE AgentInv'
  <2>1. AgentInv  BY <1>0, <1>1, <1>6 DEF Orderly
  <2>2. CASE card = "published"
    <3>1. \A q \in Actors : proc[q].at \notin AgentSteps
      BY <1>0, <1>1, <1>6, <2>2, InFlightIs DEF Typed
    <3> QED BY <1>1, <1>2, <2>2, <3>1 DEF AgentInv, AgentSteps, Others
  <2>3. CASE card # "published"
    BY <1>1, <1>2, <2>1, <2>3 DEF AgentInv, AgentSteps, Others
  <2> QED BY <2>2, <2>3
<1>7. Orderly'
  <2>1. disturbed \subseteq disturbed'  BY <1>1
  <2> QED BY <1>0, <1>4, <1>6, <2>1, OrderlyKept, ServerKept, ScanKept
<1> QED BY <1>3, <1>5, <1>7 DEF Inv

-----------------------------------------------------------------------------
(* Scans.                                                                  *)

LEMMA BeginScan ==
  ASSUME Inv, NEW p \in Actors, Scan(p)
  PROVE  Inv'
<1>0. Typed /\ NeverLive /\ Orderly  BY DEF Inv
<1>1. PICK todo \in SUBSET Platforms : Begin(p, "scan", "scan", todo)  BY DEF Scan
<1>2. /\ ProcType' /\ Others(p) /\ proc[p].at = "idle" /\ proc'[p].at = "scan" /\ proc'[p].todo = todo
      /\ disturbed' = disturbed \union (todo \intersect InFlight) /\ disturbed' \subseteq Subjects
  <2>1. "scan" \in Ops /\ "scan" \in Steps /\ todo \in SUBSET Subjects
    BY SubjectFacts DEF Ops, Steps
  <2> QED BY <1>0, <1>1, <2>1, BeginStep
<1>3. UNCHANGED <<agent, card, server, entry>>  BY DEF Scan
<1>4. Typed'  BY <1>0, <1>2, <1>3 DEF Typed, RowsType
<1>5. NeverLive' /\ AgentStill /\ ServerStill
  <2>1. /\ proc[p].at \notin AgentSteps \union ServerSteps
        /\ proc'[p].at \notin AgentSteps \union ServerSteps \union {"submit"}
    BY <1>2 DEF AgentSteps, ServerSteps
  <2> QED BY <1>2, <1>3, <2>1, ScanSide
<1>6. ASSUME NEW x \in Platforms, x \notin disturbed', ScanInv(x) PROVE ScanInv(x)'
  <2>1. x \in todo => \A q \in Actors : x \notin proc[q].todo
    BY <1>0, <1>2, <1>6, InFlightIs DEF Typed
  <2>2. proc'[p].at # x  BY <1>2, SubjectFacts DEF Steps
  <2> QED BY <1>2, <1>3, <1>6, <2>1, <2>2 DEF ScanInv, Others
<1>7. disturbed \subseteq disturbed'  BY <1>2
<1>8. Orderly'  BY <1>0, <1>5, <1>6, <1>7, OrderlyKept, AgentKept, ServerKept
<1> QED BY <1>4, <1>5, <1>8 DEF Inv

(* The two ways a scan goes on to the next platform.                       *)
LEMMA RemainingStep ==
  ASSUME Typed, NEW p \in Actors, NEW x \in Platforms, x \in proc[p].todo, Remaining(p, x)
  PROVE  /\ ProcType' /\ Others(p) /\ proc'[p].at \in {"idle", "scan"}
         /\ proc'[p].todo = proc[p].todo \ {x}
<1>1. proc \in [Actors -> Process] /\ proc[p] \in Process /\ Shaped(proc[p])
  BY DEF Typed, ProcType
<1>2. CASE proc[p].todo = {x}
  BY <1>2, FinishStep, StepFacts DEF Remaining, Typed
<1>3. CASE proc[p].todo # {x}
  <2> DEFINE state == [proc[p] EXCEPT !.at = "scan", !.todo = @ \ {x}]
  <2>1. proc' = [proc EXCEPT ![p] = state]  BY <1>1, <1>3 DEF Remaining
  <2>2. /\ state \in Process /\ state.at = "scan" /\ state.todo = proc[p].todo \ {x}
        /\ state.op = proc[p].op
    BY <1>1 DEF Process, Steps
  <2> HIDE DEF state
  <2>3. Shaped(state)  BY <1>1, <2>2 DEF Shaped
  <2>4. ProcType'  BY <2>1, <2>2, <2>3, OneMoves DEF Typed
  <2> QED BY <1>1, <2>1, <2>2, <2>4 DEF Others
<1> QED BY <1>2, <1>3

LEMMA ReadReviewStep ==
  ASSUME Inv, NEW p \in Actors, NEW x \in Platforms, ReadReview(p, x)
  PROVE  Inv'
<1>0. Typed /\ NeverLive /\ Orderly  BY DEF Inv
<1> DEFINE review == IF entry[x].state = "absent" THEN "discovered" ELSE entry[x].review
           state == [proc[p] EXCEPT !.at = x, !.review = review]
<1>1. /\ proc[p].at = "scan" /\ x \in proc[p].todo
      /\ UNCHANGED <<agent, card, server, entry, disturbed>>
  BY DEF ReadReview, At
<1>a. proc \in [Actors -> Process] /\ proc[p] \in Process /\ Shaped(proc[p])
  BY <1>0 DEF Typed, ProcType
<1>2. review \in Reviews
  <2>1. entry[x] \in RegistryEntry  BY <1>0, SubjectFacts DEF Typed, RowsType
  <2> QED BY <2>1 DEF RegistryEntry, Reviews
<1>3. proc' = [proc EXCEPT ![p] = state]  BY <1>a DEF ReadReview
<1>b. review = "discovered" => entry[x].state = "absent" \/ entry[x].review = "discovered"
  OBVIOUS
<1> HIDE DEF review
<1>4. /\ state \in Process /\ state.at = x /\ state.review = review /\ state.todo = proc[p].todo
      /\ state.op = proc[p].op
  BY <1>a, <1>2 DEF Process
<1> HIDE DEF state
<1>5. Shaped(state)  BY <1>1, <1>a, <1>4 DEF Shaped
<1>6. ProcType' /\ Others(p) /\ proc'[p] = state
  BY <1>0, <1>a, <1>3, <1>4, <1>5, OneMoves DEF Typed, Others
<1>7. Typed'  BY <1>0, <1>1, <1>6 DEF Typed, RowsType
<1>8. NeverLive' /\ AgentStill /\ ServerStill
  <2>1. /\ proc[p].at \notin AgentSteps \union ServerSteps
        /\ proc'[p].at \notin AgentSteps \union ServerSteps \union {"submit"}
    <3>1. proc[p].at \notin AgentSteps \union ServerSteps  BY <1>1 DEF AgentSteps, ServerSteps
    <3>2. x \notin Steps /\ "submit" \in Steps  BY SubjectFacts DEF Steps
    <3> QED BY <1>4, <1>6, <3>1, <3>2, StepFacts
  <2> QED BY <1>1, <1>6, <2>1, ScanSide
<1>9. ASSUME NEW y \in Platforms, y \notin disturbed', ScanInv(y) PROVE ScanInv(y)'
  <2>1. \A q \in Actors : proc'[q].todo = proc[q].todo  BY <1>4, <1>6 DEF Others
  <2>2. ASSUME NEW q \in Actors, proc'[q].at = y, y \in proc'[q].todo, proc'[q].review = "discovered"
        PROVE  entry'[y].state = "absent" \/ entry'[y].review = "discovered"
    <3>1. CASE q = p  BY <1>1, <1>b, <1>4, <1>6, <2>2, <3>1
    <3>2. CASE q # p  BY <1>1, <1>6, <1>9, <2>2, <3>2 DEF ScanInv, Others
    <3> QED BY <3>1, <3>2
  <2> QED BY <1>9, <2>1, <2>2 DEF ScanInv
<1>10. Orderly'  BY <1>0, <1>1, <1>8, <1>9, OrderlyKept, AgentKept, ServerKept
<1> QED BY <1>7, <1>8, <1>10 DEF Inv

LEMMA ScanGoesOn ==
  ASSUME Inv, NEW p \in Actors, NEW x \in Platforms, ScanNothing(p, x) \/ CatalogScannedAgent(p, x)
  PROVE  Inv'
<1>0. Typed /\ NeverLive /\ Orderly  BY DEF Inv
<1>1. /\ proc[p].at \in {"scan", x} /\ x \in proc[p].todo /\ Remaining(p, x)
      /\ UNCHANGED <<agent, card, server, disturbed>>
  BY DEF ScanNothing, CatalogScannedAgent, At
<1>2. /\ ProcType' /\ Others(p) /\ proc'[p].at \in {"idle", "scan"}
      /\ proc'[p].todo = proc[p].todo \ {x}
  BY <1>0, <1>1, RemainingStep
<1>3. /\ entry' \in [Subjects -> RegistryEntry]
      /\ \A y \in Subjects \ {x} : entry'[y] = entry[y]
  <2>1. CASE ScanNothing(p, x)  BY <1>0, <2>1 DEF ScanNothing, Typed, RowsType
  <2>2. CASE CatalogScannedAgent(p, x)
    <3>1. proc[p].review \in Reviews  BY <1>0 DEF Typed, ProcType, Process
    <3> QED BY <1>0, <2>2, <3>1, UpsertStep, SubjectFacts DEF CatalogScannedAgent
  <2> QED BY <2>1, <2>2
<1>4. Typed'  BY <1>0, <1>1, <1>2, <1>3 DEF Typed, RowsType
<1>5. NeverLive' /\ AgentStill /\ ServerStill
  <2>1. /\ proc[p].at \notin AgentSteps \union ServerSteps
        /\ proc'[p].at \notin AgentSteps \union ServerSteps \union {"submit"}
    <3>1. x \notin Steps  BY SubjectFacts
    <3> QED BY <1>1, <1>2, <3>1, StepFacts DEF AgentSteps, ServerSteps
  <2>2. entry'["agent"] = entry["agent"] /\ entry'["server"] = entry["server"]
    BY <1>3, SubjectFacts
  <2> QED BY <1>1, <1>2, <2>1, <2>2, ScanSide
<1>6. ASSUME NEW y \in Platforms, y \notin disturbed', ScanInv(y) PROVE ScanInv(y)'
  <2>1. \A q \in Actors : proc'[q].todo \subseteq proc[q].todo  BY <1>2 DEF Others
  <2>2. proc'[p].at # y  BY <1>2, SubjectFacts DEF Steps
  <2>3. CASE y = x
    <3>1. \A q \in Actors : y \notin proc'[q].todo
      BY <1>1, <1>2, <1>6, <2>3 DEF ScanInv, Others
    <3> QED BY <3>1 DEF ScanInv
  <2>4. CASE y # x
    <3>1. entry'[y] = entry[y]  BY <1>3, <2>4, SubjectFacts
    <3> QED BY <1>2, <1>6, <2>1, <2>2, <3>1 DEF ScanInv, Others
  <2> QED BY <2>3, <2>4
<1>7. Orderly'  BY <1>0, <1>1, <1>5, <1>6, OrderlyKept, AgentKept, ServerKept
<1> QED BY <1>4, <1>5, <1>7 DEF Inv

-----------------------------------------------------------------------------
(* Invocations, crashes, operators and governance.                         *)

LEMMA BeginInvoke ==
  ASSUME Inv, NEW p \in Actors, RouteAndExecute(p) \/ Rpc(p)
  PROVE  Inv'
<1>0. Typed /\ NeverLive /\ Orderly  BY DEF Inv
<1>1. Begin(p, "invoke", "submit", {}) /\ UNCHANGED <<agent, card, server, entry>>
  BY DEF RouteAndExecute, Rpc
<1>2. /\ ProcType' /\ Others(p) /\ proc[p].at = "idle" /\ proc'[p].at = "submit" /\ proc'[p].todo = {}
      /\ disturbed' = disturbed
  <2>1. "invoke" \in Ops /\ "submit" \in Steps /\ {} \in SUBSET Subjects  BY DEF Ops, Steps
  <2>2. disturbed' = disturbed \union ({} \intersect InFlight)
        /\ ProcType' /\ Others(p) /\ proc[p].at = "idle" /\ proc'[p].at = "submit" /\ proc'[p].todo = {}
    BY <1>0, <1>1, <2>1, BeginStep
  <2> QED BY <2>2
<1>3. card = "published" \/ entry["agent"].state = "active"
  BY DEF RouteAndExecute, Rpc, LlmRank, Executable, SelectCandidates, SearchEntries
<1>4. Typed'  BY <1>0, <1>1, <1>2 DEF Typed, RowsType
<1>5. NeverLive'  BY <1>0, <1>1, <1>2, <1>3 DEF NeverLive, Others
<1>6. AgentStill /\ ServerStill
  BY <1>1, <1>2 DEF AgentStill, ServerStill, Others, AgentSteps, ServerSteps
<1>7. \A x \in Platforms : ScanStill(x)
  <2>1. "submit" \notin Platforms  BY SubjectFacts DEF Steps
  <2> QED BY <1>1, <1>2, <2>1 DEF ScanStill, Others
<1>8. Orderly'  BY <1>0, <1>2, <1>6, <1>7, OrderlyKept, AgentKept, ServerKept, ScanKept
<1> QED BY <1>4, <1>5, <1>8 DEF Inv

(* A request ends, by itself or because it dies: what it was at is then    *)
(* disturbed.                                                              *)
LEMMA Ended ==
  ASSUME Inv, NEW p \in Actors, Submit(p) \/ Crash(p)
  PROVE  Inv'
<1>0. Typed /\ NeverLive /\ Orderly  BY DEF Inv
<1>1. Finish(p) /\ UNCHANGED <<agent, card, server, entry>>  BY DEF Submit, Crash
<1>2. ProcType' /\ Others(p) /\ proc'[p] = Free  BY <1>0, <1>1, FinishStep DEF Typed
<1>3. /\ disturbed \subseteq disturbed' /\ disturbed' \subseteq Subjects
      /\ proc[p].at \in AgentSteps => "agent" \in disturbed'
      /\ proc[p].at \in ServerSteps => "server" \in disturbed'
  <2>1. CASE Submit(p)
    BY <1>0, <2>1 DEF Submit, At, AgentSteps, ServerSteps, Typed, RowsType
  <2>2. CASE Crash(p)
    <3>1. disturbed' = disturbed \union Touched(p)  BY <2>2 DEF Crash, Disturb
    <3>2. Touched(p) = IF proc[p].at \in AgentSteps THEN {"agent"}
                       ELSE IF proc[p].at \in ServerSteps THEN {"server"} ELSE proc[p].todo
      BY <1>0, TouchedIs DEF Typed
    <3>3. proc[p].todo \subseteq Platforms  BY <1>0 DEF Typed, ProcType, Process
    <3> QED BY <1>0, <3>1, <3>2, <3>3, SubjectFacts, StepFacts DEF Typed, RowsType
  <2> QED BY <2>1, <2>2
<1>4. Typed'  BY <1>0, <1>1, <1>2, <1>3 DEF Typed, RowsType
<1>5. NeverLive'  BY <1>0, <1>1, <1>2, StepFacts DEF NeverLive, Others
<1>6. ASSUME "agent" \notin disturbed' PROVE AgentStill
  BY <1>1, <1>2, <1>3, <1>6, StepFacts DEF AgentStill, Others, AgentSteps
<1>7. ASSUME "server" \notin disturbed' PROVE ServerStill
  BY <1>1, <1>2, <1>3, <1>7, StepFacts DEF ServerStill, Others, ServerSteps
<1>8. \A x \in Platforms : ScanStill(x)
  <2>1. "idle" \notin Platforms  BY SubjectFacts DEF Steps
  <2> QED BY <1>1, <1>2, <2>1, StepFacts DEF ScanStill, Others
<1>9. Orderly'  BY <1>0, <1>3, <1>6, <1>7, <1>8, OrderlyKept, AgentKept, ServerKept, ScanKept
<1> QED BY <1>4, <1>5, <1>9 DEF Inv

LEMMA ReviewStep ==
  ASSUME Inv, NEW x \in Subjects, SetReviewStatus(x)
  PROVE  Inv'
<1>0. Typed /\ NeverLive /\ Orderly  BY DEF Inv
<1>1. /\ UNCHANGED <<agent, card, server, proc>> /\ entry[x].state # "absent"
      /\ disturbed' = disturbed \union ({x} \intersect InFlight)
  BY DEF SetReviewStatus, Disturb
<1>2. /\ entry' \in [Subjects -> RegistryEntry]
      /\ entry'[x].state = entry[x].state
      /\ \A y \in Subjects \ {x} : entry'[y] = entry[y]
  <2>1. PICK verdict \in {"approved", "rejected"} : entry' = [entry EXCEPT ![x].review = verdict]
    BY DEF SetReviewStatus
  <2>2. entry \in [Subjects -> RegistryEntry] /\ entry[x] \in RegistryEntry
    BY <1>0 DEF Typed, RowsType
  <2>3. [entry[x] EXCEPT !.review = verdict] \in RegistryEntry
        /\ [entry[x] EXCEPT !.review = verdict].state = entry[x].state
    BY <2>2 DEF RegistryEntry
  <2> QED BY <2>1, <2>2, <2>3
<1>3. \A y \in Subjects : entry'[y].state = entry[y].state  BY <1>2
<1>4. Typed'  BY <1>0, <1>1, <1>2 DEF Typed, RowsType, ProcType
<1>5. NeverLive'  BY <1>0, <1>1, <1>3, SubjectFacts DEF NeverLive
<1>6. AgentStill /\ ServerStill  BY <1>1, <1>3, SubjectFacts DEF AgentStill, ServerStill
<1>7. ASSUME NEW y \in Platforms, y \notin disturbed', ScanInv(y) PROVE ScanInv(y)'
  <2>1. CASE y = x
    <3>1. \A q \in Actors : y \notin proc[q].todo  BY <1>0, <1>1, <1>7, <2>1, InFlightIs DEF Typed
    <3> QED BY <1>1, <3>1 DEF ScanInv
  <2>2. CASE y # x
    <3>1. entry'[y] = entry[y]  BY <1>2, <2>2, SubjectFacts
    <3> QED BY <1>1, <1>7, <3>1 DEF ScanInv
  <2> QED BY <2>1, <2>2
<1>8. disturbed \subseteq disturbed'  BY <1>1
<1>9. Orderly'  BY <1>0, <1>6, <1>7, <1>8, OrderlyKept, AgentKept, ServerKept
<1> QED BY <1>4, <1>5, <1>9 DEF Inv

LEMMA EntryStep ==
  ASSUME Inv, NEW x \in Subjects, RegistryDetailDelete(x) \/ (x \in Manual /\ RegisterExternalAgent(x))
  PROVE  Inv'
<1>0. Typed /\ NeverLive /\ Orderly  BY DEF Inv
<1>1. UNCHANGED <<agent, card, server, proc, disturbed>>
  BY DEF RegistryDetailDelete, RegisterExternalAgent
<1>2. /\ entry' \in [Subjects -> RegistryEntry]
      /\ \A y \in Subjects \ Manual :
           \/ entry'[y] = entry[y]
           \/ /\ entry[y].state # "absent" /\ entry'[y].state = "inactive"
              /\ entry'[y].review = entry[y].review
  <2>1. CASE RegistryDetailDelete(x)
    BY <1>0, <2>1, DeactivateStep DEF RegistryDetailDelete
  <2>2. CASE x \in Manual /\ RegisterExternalAgent(x)
    BY <1>0, <2>2, UpsertStep, KeptType DEF RegisterExternalAgent
  <2> QED BY <2>1, <2>2
<1>3. \A y \in Platforms \union {"agent", "server"} : y \in Subjects \ Manual
  BY SubjectFacts
<1>4. Typed'  BY <1>0, <1>1, <1>2 DEF Typed, RowsType, ProcType
<1>5. NeverLive'  BY <1>0, <1>1, <1>2, <1>3, NeverLiveKept
<1>6. AgentStill /\ ServerStill  BY <1>1, <1>2, <1>3 DEF AgentStill, ServerStill
<1>7. \A y \in Platforms : ScanStill(y)  BY <1>1, <1>2, <1>3 DEF ScanStill
<1>8. Orderly'  BY <1>0, <1>1, <1>6, <1>7, OrderlyKept, AgentKept, ServerKept, ScanKept
<1> QED BY <1>4, <1>5, <1>8 DEF Inv

LEMMA AgentMovesStep == ASSUME Inv, AgentMoves PROVE Inv'
<1>0. Typed /\ NeverLive /\ Orderly  BY DEF Inv
<1>1. UNCHANGED <<card, server, entry, proc, disturbed>>  BY DEF AgentMoves
<1>2. PICK s \in {"sandbox", "pilot"} :
        agent' = [status |-> s, wasLive |-> agent.wasLive \/ s = "pilot"]
  BY DEF AgentMoves
<1>3. Typed'  BY <1>0, <1>1, <1>2 DEF Typed, RowsType, ProcType
<1>4. NeverLive'  BY <1>0, <1>1, <1>2 DEF NeverLive
<1>5. AgentStill /\ ServerStill /\ \A x \in Platforms : ScanStill(x)
  BY <1>1 DEF AgentStill, ServerStill, ScanStill
<1>6. Orderly'  BY <1>0, <1>1, <1>5, OrderlyKept, AgentKept, ServerKept, ScanKept
<1> QED BY <1>3, <1>4, <1>6 DEF Inv

LEMMA Stutter == ASSUME Inv, UNCHANGED vars PROVE Inv'
  BY DEF Inv, Typed, RowsType, ProcType, NeverLive, Orderly, AgentInv, ServerInv, ScanInv

LEMMA InitInv == Init => Inv
<1> SUFFICES ASSUME Init PROVE Inv
  OBVIOUS
<1>1. RowsType  BY DEF Init, RowsType, AgentCard, RemoteMcpServer, RegistryEntry
<1>2. ProcType  BY FreeType DEF Init, ProcType
<1>3. \A p \in Actors : proc[p].at = "idle" /\ proc[p].todo = {}  BY StepFacts DEF Init
<1>4. entry["agent"].state = "absent" /\ entry["server"].state = "absent"
  BY SubjectFacts DEF Init
<1>5. NeverLive  BY <1>3, <1>4 DEF Init, NeverLive
<1>6. AgentInv /\ ServerInv
  BY <1>3, <1>4 DEF Init, AgentInv, ServerInv, AgentSteps, ServerSteps
<1>7. \A x \in Platforms : ScanInv(x)  BY <1>3 DEF ScanInv
<1> QED BY <1>1, <1>2, <1>5, <1>6, <1>7 DEF Inv, Typed, Orderly

LEMMA StepInv == Inv /\ [Next]_vars => Inv'
<1> SUFFICES ASSUME Inv, [Next]_vars PROVE Inv'
  OBVIOUS
<1>1. ASSUME NEW p \in Actors,
             \/ PublishCard(p) \/ SaveCard(p) \/ ReadCard(p) \/ ProjectAgent(p)
             \/ UnpublishCard(p) \/ WithdrawCard(p) \/ UnprojectAgent(p)
      PROVE  Inv'
  BY <1>1, BeginCard, SaveCards, ProjectOrDrop
<1>2. ASSUME NEW p \in Actors,
             \/ McpServerSync(p) \/ ListTools(p) \/ ProjectMcpServer(p)
             \/ McpServerDisable(p) \/ DeactivateMcpServer(p) \/ SyncAll(p) \/ SyncServers(p)
      PROVE  Inv'
  BY <1>2, BeginServer, ListToolsStep, ServerDone, SyncServersStep, SyncAllStep
<1>3. ASSUME NEW p \in Actors, Scanning(p) PROVE Inv'
  BY <1>3, BeginScan, ReadReviewStep, ScanGoesOn DEF Scanning
<1>4. ASSUME NEW p \in Actors, RouteAndExecute(p) \/ Rpc(p) \/ Submit(p) \/ Crash(p) PROVE Inv'
  BY <1>4, BeginInvoke, Ended
<1>5. ASSUME NEW x \in Subjects, SetReviewStatus(x) \/ RegistryDetailDelete(x) PROVE Inv'
  BY <1>5, ReviewStep, EntryStep
<1>6. ASSUME NEW x \in Manual, RegisterExternalAgent(x) PROVE Inv'
  <2>1. x \in Subjects  BY SubjectFacts
  <2> QED BY <1>6, <2>1, EntryStep
<1> QED BY <1>1, <1>2, <1>3, <1>4, <1>5, <1>6, AgentMovesStep, Stutter DEF Next

LEMMA AlwaysInv == Spec => []Inv
  BY InitInv, StepInv, PTL DEF Spec

(* Every variable keeps its type.                                          *)
THEOREM TypeCorrect == Spec => []TypeOK
<1>1. Inv => TypeOK  BY TypedIsTypeOK DEF Inv
<1> QED BY <1>1, AlwaysInv, PTL

(* An agent that was never live has no published card, is not found and is *)
(* not started, whatever requests overlap or die.                          *)
THEOREM NeverFoundBeforeLive == Spec => []NeverLiveNeverFound
<1>1. Inv => NeverLiveNeverFound
  BY DEF Inv, NeverLive, NeverLiveNeverFound, SearchEntries, At
<1> QED BY <1>1, AlwaysInv, PTL

(* Whenever nothing is under way about a subject, and nothing about it     *)
(* overlapped or died, its entry says what its source says.                *)
THEOREM EntryAgrees == Spec => []EntryFollowsSource
<1>1. Inv => EntryFollowsSource
  <2> SUFFICES ASSUME Inv PROVE EntryFollowsSource
    OBVIOUS
  <2>0. Typed /\ Orderly  BY DEF Inv
  <2>1. ASSUME "agent" \notin disturbed, "agent" \notin InFlight
        PROVE  /\ entry["agent"].state = "active" => card = "published"
               /\ card = "published" => entry["agent"].state # "absent"
    <3>1. AgentInv /\ \A p \in Actors : proc[p].at \notin AgentSteps
      BY <2>0, <2>1, InFlightIs DEF Typed, Orderly
    <3> QED BY <3>1 DEF AgentInv
  <2>2. ASSUME "server" \notin disturbed, "server" \notin InFlight,
               entry["server"].state = "active"
        PROVE  server.active /\ server.status = "active"
    <3>1. ServerInv /\ \A p \in Actors : proc[p].at \notin ServerSteps
      BY <2>0, <2>2, InFlightIs DEF Typed, Orderly
    <3> QED BY <2>2, <3>1 DEF ServerInv, ServerSteps
  <2> QED BY <2>1, <2>2 DEF EntryFollowsSource
<1> QED BY <1>1, AlwaysInv, PTL

VerdictStep ==
  \A x \in Subjects \ disturbed :
    entry[x].state # "absent" /\ entry[x].review # "discovered" => entry'[x].review # "discovered"

LEMMA StepVerdict == Inv /\ [Next]_vars => VerdictStep
<1> SUFFICES ASSUME Inv, [Next]_vars,
                    NEW x \in Subjects, x \notin disturbed,
                    entry[x].state # "absent", entry[x].review # "discovered"
             PROVE  entry'[x].review # "discovered"
  BY DEF VerdictStep
<1>0. Typed /\ Orderly  BY DEF Inv
<1>1. CASE entry' = entry  BY <1>1
<1>2. ASSUME NEW y \in Subjects, UpsertEntry(y, Kept(y)) PROVE entry'[x].review # "discovered"
  <2>1. Kept(y) \in Reviews /\ (entry[y].state # "absent" => Kept(y) = entry[y].review)
    BY <1>0, KeptType
  <2>2. entry'[y].review = Kept(y) /\ \A z \in Subjects \ {y} : entry'[z] = entry[z]
    BY <1>0, <1>2, <2>1, UpsertStep
  <2> QED BY <2>1, <2>2
<1>3. ASSUME NEW y \in Subjects, DeactivateEntry(y) PROVE entry'[x].review # "discovered"
  <2>1. entry'[y].review = entry[y].review /\ \A z \in Subjects \ {y} : entry'[z] = entry[z]
    BY <1>0, <1>3, DeactivateStep
  <2> QED BY <2>1
<1>4. ASSUME NEW y \in Subjects, SetReviewStatus(y) PROVE entry'[x].review # "discovered"
  <2>1. PICK verdict \in {"approved", "rejected"} : entry' = [entry EXCEPT ![y].review = verdict]
    BY <1>4 DEF SetReviewStatus
  <2>2. entry \in [Subjects -> RegistryEntry] /\ entry[y] \in RegistryEntry
    BY <1>0 DEF Typed, RowsType
  <2>3. [entry[y] EXCEPT !.review = verdict].review = verdict  BY <2>2 DEF RegistryEntry
  <2> QED BY <2>1, <2>2, <2>3
<1>5. ASSUME NEW p \in Actors, NEW y \in Platforms, CatalogScannedAgent(p, y)
      PROVE  entry'[x].review # "discovered"
  <2>1. proc[p].at = y /\ y \in proc[p].todo /\ UpsertEntry(y, proc[p].review)
    BY <1>5 DEF CatalogScannedAgent, At
  <2>2. proc[p].review \in Reviews  BY <1>0 DEF Typed, ProcType, Process
  <2>3. entry'[y].review = proc[p].review /\ \A z \in Subjects \ {y} : entry'[z] = entry[z]
    BY <1>0, <2>1, <2>2, UpsertStep, SubjectFacts
  <2>4. CASE x = y
    <3>1. ScanInv(y)  BY <1>0, <2>4 DEF Orderly
    <3> QED BY <2>1, <2>3, <2>4, <3>1 DEF ScanInv
  <2>5. CASE x # y  BY <2>3, <2>5
  <2> QED BY <2>4, <2>5
<1>6. ASSUME NEW p \in Actors, ProjectMcpServer(p) PROVE entry'[x].review # "discovered"
  <2>1. UpsertEntry("server", Kept("server")) \/ DeactivateEntry("server")
    BY <1>6 DEF ProjectMcpServer
  <2> QED BY <1>2, <1>3, <2>1, SubjectFacts
<1>7. ASSUME NEW p \in Actors, ProjectAgent(p) \/ UnprojectAgent(p) \/ DeactivateMcpServer(p)
      PROVE  entry'[x].review # "discovered"
  <2>1. \/ UpsertEntry("agent", Kept("agent")) \/ DeactivateEntry("agent")
        \/ DeactivateEntry("server")
    BY <1>7 DEF ProjectAgent, UnprojectAgent, DeactivateMcpServer
  <2> QED BY <1>2, <1>3, <2>1, SubjectFacts
<1>8. ASSUME NEW y \in Subjects, RegistryDetailDelete(y) \/ RegisterExternalAgent(y)
      PROVE  entry'[x].review # "discovered"
  BY <1>2, <1>3, <1>8 DEF RegistryDetailDelete, RegisterExternalAgent
<1>9. ASSUME NEW p \in Actors,
             \/ PublishCard(p) \/ SaveCard(p) \/ ReadCard(p) \/ UnpublishCard(p) \/ WithdrawCard(p)
             \/ McpServerSync(p) \/ ListTools(p) \/ McpServerDisable(p)
             \/ SyncAll(p) \/ SyncServers(p) \/ Scan(p)
             \/ RouteAndExecute(p) \/ Rpc(p) \/ Submit(p) \/ Crash(p)
      PROVE  entry' = entry
  BY <1>9 DEF PublishCard, SaveCard, ReadCard, UnpublishCard, WithdrawCard, McpServerSync, ListTools,
              McpServerDisable, SyncAll, SyncServers, Scan, RouteAndExecute, Rpc, Submit, Crash
<1>10. ASSUME NEW p \in Actors, NEW y \in Platforms, ReadReview(p, y) \/ ScanNothing(p, y)
       PROVE  entry' = entry
  BY <1>10 DEF ReadReview, ScanNothing
<1>11. CASE AgentMoves \/ UNCHANGED vars
  BY <1>1, <1>11 DEF AgentMoves
<1>12. Manual \subseteq Subjects  BY SubjectFacts
<1> QED BY <1>1, <1>4, <1>5, <1>6, <1>7, <1>8, <1>9, <1>10, <1>11, <1>12 DEF Next, Scanning

(* A re-scan takes back no verdict, unless it was under way when the       *)
(* verdict was given.                                                      *)
THEOREM VerdictsStand == Spec => VerdictStands
<1>1. Inv /\ [Next]_vars => VerdictStep  BY StepVerdict
<1>2. Spec => [][VerdictStep]_vars  BY <1>1, AlwaysInv, PTL DEF Spec
<1> QED BY <1>2 DEF VerdictStands, VerdictStep
=============================================================================
