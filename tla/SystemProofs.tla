------------------------------ MODULE SystemProofs ------------------------------
(***************************************************************************)
(* A watch and a gateway together do nothing that IndexLifecycle does not  *)
(* let processes do, so what IndexLifecycleProofs proves holds of them;    *)
(* and what the gateway owes its client, for any lines and databases.      *)
(***************************************************************************)
EXTENDS System, IndexLifecycleProofs, SequenceTheorems

-----------------------------------------------------------------------------
(* Where the gateway is.                                                   *)

\* A call that only reads is in a phase that only reads.
Reads(call) ==
    /\ call.kind \in ReadOnly
    /\ call.pc \in {"metadata", "file states", "symbols", "health", "answer", "done"}

\* A call of the gateway runs exactly when its loop waits for one, and the
\* line it is at is one that has calls.
GatewayIsAt ==
    /\ op[gateway] # Idle <=> server.pc = "running"
    /\ server.pc \in {"batch", "running", "respond"} => server.at >= 1
    /\ server.pc = "respond" => server.result # "none"
    /\ server.pc = "running" => Current.kind \in {"tool", "batch"}
    /\ server.pc = "batch" => Current.kind = "batch"
    /\ Batching => BatchIsValid(Current.calls) /\ server.next \in 1 .. Len(Current.calls)
    /\ Batching /\ op[gateway] # Idle => Reads(op[gateway])
    /\ CallsEndWithTheirBatch

SystemInv == Sound /\ WatchTypeOK /\ GatewayTypeOK /\ GatewayIsAt

-----------------------------------------------------------------------------
(* The composition implements IndexLifecycle.                              *)

LEMMA ConstantsAreIn ==
    /\ watcher \in Processes /\ gateway \in Processes /\ watcher # gateway
    /\ WatchLimit \in 1 .. ScanCap /\ DefaultMaxFiles \in 1 .. ScanCap
    /\ PerMs \in Nat \ {0} /\ {"inspect", "refresh", "migrate"} \subseteq Kinds
BY WatchAssumption, GatewayAssumption, ScenarioAssumption, LifecycleAssumption DEF Kinds

LEMMA TargetType ==
    ASSUME WatchTypeOK, watch.pc # "exited"
    PROVE  Target \in Databases
<1>1. watch.targets \in Seq(Databases) /\ watch.at \in 1 .. Len(watch.targets)
  BY DEF WatchTypeOK, Watch
<1> QED BY <1>1, ElementOfSeq DEF Target

LEMMA WatchStepIsStep ==
    ASSUME Sound, WatchTypeOK, WatchNext
    PROVE  [Next]_vars
<1>0. clock \in Nat /\ op \in [Processes -> Call \cup {Idle}]
  BY DEF Sound, TypeOK
<1>1. ASSUME NEW kind \in Kinds, Asks(kind), watch.pc # "exited"
      PROVE  Next
  <2>1. Target \in Databases /\ clock' \in Nat
    BY <1>0, <1>1, TargetType DEF Asks
  <2> QED BY <1>1, <2>1, ConstantsAreIn DEF Asks, Next
<1>2. ASSUME Leave(watcher), UNCHANGED clock PROVE Next
  BY <1>0, <1>2, ConstantsAreIn DEF Next
<1>3. CASE InspectTarget
  BY <1>1, <1>3, ConstantsAreIn DEF InspectTarget
<1>4. CASE \/ TargetHealthy \/ WouldRepair \/ RejectResult \/ CannotRepair
           \/ TargetMigrated \/ TargetRefreshed
  BY <1>2, <1>4 DEF TargetHealthy, WouldRepair, RejectResult, CannotRepair, TargetMigrated,
                    TargetRefreshed, NextTarget, Abort
<1>5. CASE StartMigration \/ StartRefresh
  BY <1>1, <1>5, ConstantsAreIn DEF StartMigration, StartRefresh, Inspected, Done
<1>6. CASE Wake \/ Restart
  BY <1>6 DEF Wake, Restart
<1>7. CASE Step(watcher) \/ Fail(watcher)
  BY <1>7, ConstantsAreIn DEF Next
<1>8. CASE Interrupt
  <2>1. CASE op[watcher] = Idle
    <3>1. op' = op
      BY <1>0, <1>8, <2>1 DEF Interrupt
    <3> QED BY <1>8, <3>1 DEF Interrupt, vars
  <2>2. CASE op[watcher] # Idle
    <3>1. Leave(watcher) /\ UNCHANGED clock
      BY <1>8, <2>2 DEF Interrupt, Leave, Continue
    <3> QED BY <1>2, <3>1
  <2> QED BY <2>1, <2>2
<1> QED BY <1>3, <1>4, <1>5, <1>6, <1>7, <1>8 DEF WatchNext, WatchStep, WatchFails

LEMMA LineType ==
    ASSUME GatewayTypeOK, NEW i \in 1 .. Len(server.lines)
    PROVE  server.lines[i] \in Line
<1>1. server.lines \in Seq(Line)
  BY DEF GatewayTypeOK, Server
<1> QED BY <1>1, ElementOfSeq

\* A call a line may hold.
LEMMA CallOfLineType ==
    ASSUME NEW line \in Line, NEW k \in 1 .. Len(line.calls)
    PROVE  /\ line.calls[k] \in ToolCall
           /\ line.calls[k].tool \in Kinds /\ line.calls[k].db \in Databases
           /\ line.calls[k].timeout \in Nat
<1>1. line.calls \in Seq(ToolCall)
  BY DEF Line
<1>2. line.calls[k] \in ToolCall
  BY <1>1, ElementOfSeq
<1> QED BY <1>2 DEF ToolCall

LEMMA RoundedUp ==
    ASSUME NEW a \in Nat \ {0}, NEW b \in Nat \ {0}
    PROVE  /\ (a + b - 1) \div b \in Nat \ {0}
           /\ b * ((a + b - 1) \div b) <= a + b - 1
OBVIOUS

LEMMA SmallerProduct ==
    ASSUME NEW b \in Nat \ {0}, NEW m \in Nat \ {0}, NEW n \in 1 .. m
    PROVE  b * n \in 1 .. b * m
OBVIOUS

\* A batch call that is started has some time left, and no more than its batch
\* but for what rounding adds.
LEMMA CallDeadlineType ==
    ASSUME clock \in Nat, GatewayTypeOK, server.pc = "batch", GatewayIsAt,
           NEW call, call = Current.calls[server.next]
    PROVE  /\ call \in ToolCall /\ call.tool \in Kinds /\ call.db \in Databases
           /\ ~OutOfTime => CallDeadline(call) \in Nat
           /\ ~OutOfTime /\ HasDeadline => CallDeadline(call) \in 1 .. server.deadline + PerMs - 1
<1> DEFINE left == server.deadline - clock
<1>1. server.at \in 1 .. Len(server.lines) /\ server.deadline \in Nat
  BY DEF GatewayTypeOK, GatewayIsAt, Server
<1>2. Current \in Line /\ Current.timeout \in Nat
  BY <1>1, LineType DEF Current, Line
<1>3. call \in ToolCall /\ call.tool \in Kinds /\ call.db \in Databases /\ call.timeout \in Nat
  BY <1>2, CallOfLineType DEF GatewayTypeOK
<1>4. PerMs \in Nat \ {0}
  BY ConstantsAreIn
<1>5. CASE ~HasDeadline
  <2>1. CallTimeout(call) \in Nat
    BY <1>3, <1>5 DEF CallTimeout
  <2>2. PerMs * CallTimeout(call) \in Nat
    BY <1>4, <2>1
  <2> QED BY <1>3, <1>5, <2>2 DEF CallDeadline
<1>6. CASE HasDeadline /\ ~OutOfTime
  <2>1. left \in Nat \ {0}
    BY <1>1, <1>6 DEF OutOfTime
  <2>2. Remaining \in Nat \ {0} /\ PerMs * Remaining <= left + PerMs - 1
    BY <1>4, <2>1, RoundedUp DEF Remaining
  <2>3. CallTimeout(call) \in 1 .. Remaining
    BY <1>3, <1>6, <2>2 DEF CallTimeout
  <2> DEFINE ticks == PerMs * CallTimeout(call)
             most == PerMs * Remaining
  <2>4. ticks \in 1 .. most
    BY <1>4, <2>2, <2>3, SmallerProduct
  <2>5. most \in Int
    BY <1>4, <2>2
  <2>6. CallDeadline(call) = clock + ticks
    BY <2>3 DEF CallDeadline
  <2> HIDE DEF ticks
  <2>7. most <= left + PerMs - 1
    BY <2>2
  <2> HIDE DEF most
  <2> QED BY <1>1, <1>3, <1>4, <2>4, <2>5, <2>6, <2>7
<1>7. CASE OutOfTime
  BY <1>3, <1>7
<1> QED BY <1>5, <1>6, <1>7 DEF OutOfTime

LEMMA GatewayStepIsStep ==
    ASSUME Sound, GatewayTypeOK, GatewayIsAt, GatewayNext
    PROVE  [Next]_vars
<1>0. clock \in Nat /\ calm \in BOOLEAN
  BY DEF Sound, TypeOK
<1>1. CASE ReadLine
  <2> DEFINE line == server.lines[server.at + 1]
  <2>1. line \in Line
    <3>1. server.at + 1 \in 1 .. Len(server.lines)
      BY <1>1 DEF ReadLine, GatewayTypeOK, Server
    <3> QED BY <3>1, LineType
  <2>2. CASE line.kind = "tool"
    <3> DEFINE call == line.calls[1]
    <3>1. call.tool \in Kinds /\ call.db \in Databases /\ call.timeout \in Nat
      BY <2>1, <2>2, CallOfLineType DEF Line
    <3>2. PerMs * call.timeout \in Nat
      BY <3>1, ConstantsAreIn
    <3>3. Start(gateway, call.tool, call.db, DefaultMaxFiles, PerMs * call.timeout) /\ UNCHANGED clock
      BY <1>1, <2>2 DEF ReadLine
    <3> HIDE DEF call
    <3> QED BY <1>0, <3>1, <3>2, <3>3, ConstantsAreIn DEF Next
  <2>3. CASE line.kind # "tool"
    BY <1>1, <2>3 DEF ReadLine
  <2> QED BY <2>2, <2>3
<1>2. CASE RunBatchCall
  <2> DEFINE call == Current.calls[server.next]
  <2>1. CASE OutOfTime
    BY <1>0, <1>2, <2>1 DEF RunBatchCall, Conclude, Next, Pass
  <2>2. CASE ~OutOfTime
    <3>1. call.tool \in Kinds /\ call.db \in Databases /\ CallDeadline(call) \in Nat
      BY <1>0, <1>2, <2>2, CallDeadlineType DEF RunBatchCall
    <3>2. Start(gateway, call.tool, call.db, DefaultMaxFiles, CallDeadline(call)) /\ UNCHANGED clock
      BY <1>2, <2>2 DEF RunBatchCall
    <3> HIDE DEF call
    <3> QED BY <1>0, <3>1, <3>2, ConstantsAreIn DEF Next
  <2> QED BY <2>1, <2>2
<1>3. CASE ToolReturns \/ BatchCallReturns
  <2>1. Leave(gateway) /\ clock' \in Nat
    BY <1>0, <1>3 DEF ToolReturns, BatchCallReturns, Conclude
  <2> QED BY <2>1, ConstantsAreIn DEF Next
<1>4. CASE EndOfInput \/ ReadGarbled \/ WriteAnswer \/ PipeClosed
  BY <1>4 DEF EndOfInput, ReadGarbled, WriteAnswer, PipeClosed
<1>5. CASE Step(gateway) \/ Fail(gateway)
  BY <1>5, ConstantsAreIn DEF Next
<1>6. CASE Tick
  BY <1>0, <1>6 DEF Tick, Next, Pass
<1> QED BY <1>1, <1>2, <1>3, <1>4, <1>5, <1>6 DEF GatewayNext, GatewayStep, GatewayFails

LEMMA SystemStepIsStep ==
    ASSUME SystemInv, [SystemNext]_systemVars
    PROVE  [Next]_vars
<1>1. CASE WatchNext
  BY <1>1, WatchStepIsStep DEF SystemInv
<1>2. CASE GatewayNext
  BY <1>2, GatewayStepIsStep DEF SystemInv
<1>3. CASE Elsewhere
  BY <1>3 DEF Next
<1>4. CASE CalmDown
  BY <1>4 DEF CalmDown, Next, Pass, SystemInv, Sound, TypeOK
<1>5. CASE UNCHANGED systemVars
  BY <1>5 DEF systemVars, vars
<1> QED BY <1>1, <1>2, <1>3, <1>4, <1>5 DEF SystemNext

-----------------------------------------------------------------------------
(* The loops.                                                              *)

LEMMA WatchKeepsType ==
    ASSUME WatchTypeOK, WatchNext
    PROVE  WatchTypeOK'
<1>1. /\ watch \in Watch /\ watch.at \in Nat /\ watch.targets \in Seq(Databases)
      /\ Len(watch.targets) \in Nat
      /\ watch.pc # "exited" => watch.at \in 1 .. Len(watch.targets)
  BY DEF WatchTypeOK, Watch
<1>2. ASSUME NEW healthy \in BOOLEAN, NextTarget(healthy), watch.pc # "exited"
      PROVE  WatchTypeOK'
  <2> DEFINE all == watch.healthy /\ healthy
  <2>1. all \in BOOLEAN
    OBVIOUS
  <2> HIDE DEF all
  <2>2. CASE watch.at < Len(watch.targets)
    <3> DEFINE at == watch.at + 1
    <3>1. watch' = [watch EXCEPT !.at = at, !.pc = "next", !.healthy = all]
      BY <1>2, <2>2 DEF NextTarget, all
    <3>2. at \in 1 .. Len(watch.targets) /\ at \in Nat
      BY <1>1, <2>2
    <3> HIDE DEF at
    <3>3. watch' \in Watch
      BY <1>1, <2>1, <3>1, <3>2 DEF Watch
    <3>4. watch'.at = at /\ watch'.targets = watch.targets
      BY <1>1, <3>1 DEF Watch
    <3> QED BY <3>2, <3>3, <3>4 DEF WatchTypeOK
  <2>3. CASE ~(watch.at < Len(watch.targets)) /\ Loops
    <3>1. watch' = [watch EXCEPT !.pc = "asleep"]
      BY <1>2, <2>3 DEF NextTarget
    <3> QED BY <1>1, <1>2, <3>1 DEF WatchTypeOK, Watch
  <2>4. CASE ~(watch.at < Len(watch.targets)) /\ ~Loops
    <3> DEFINE status == IF watch.mode = "check" /\ ~all THEN 1 ELSE 0
    <3>1. watch' = [watch EXCEPT !.pc = "exited", !.healthy = all, !.status = status]
      BY <1>2, <2>4 DEF NextTarget, all
    <3>2. status \in {0, 1}
      OBVIOUS
    <3> HIDE DEF status
    <3>3. watch' \in Watch
      BY <1>1, <2>1, <3>1, <3>2 DEF Watch
    <3>4. watch'.pc = "exited"
      BY <1>1, <3>1 DEF Watch
    <3> QED BY <3>3, <3>4 DEF WatchTypeOK
  <2> QED BY <2>2, <2>3, <2>4
<1>3. ASSUME Abort PROVE WatchTypeOK'
  BY <1>1, <1>3 DEF Abort, WatchTypeOK, Watch
<1>4. CASE InspectTarget
  BY <1>1, <1>4 DEF InspectTarget, WatchTypeOK, Watch
<1>5. CASE \/ TargetHealthy \/ WouldRepair \/ RejectResult \/ CannotRepair
           \/ TargetMigrated \/ TargetRefreshed
  BY <1>2, <1>3, <1>5 DEF TargetHealthy, WouldRepair, RejectResult, CannotRepair, TargetMigrated,
                          TargetRefreshed, Inspected, Done
<1>6. CASE StartMigration \/ StartRefresh
  BY <1>1, <1>6 DEF StartMigration, StartRefresh, Inspected, Done, WatchTypeOK, Watch
<1>7. CASE Wake
  <2>1. watch' = [watch EXCEPT !.pc = "next", !.at = 1] /\ 1 \in 1 .. Len(watch.targets)
    BY <1>1, <1>7 DEF Wake
  <2> QED BY <1>1, <2>1 DEF WatchTypeOK, Watch
<1>8. CASE Interrupt
  BY <1>1, <1>8 DEF Interrupt, WatchTypeOK, Watch
<1>9. CASE Restart
  <2>1. Len(watch.targets) >= 1 /\ watch.mode \in Modes
    BY <1>1, <1>9, EmptySeq DEF Restart, Watch
  <2>2. watch' = Started(watch.mode, watch.targets)
    BY <1>9 DEF Restart
  <2>3. watch' \in Watch
    BY <1>1, <2>1, <2>2 DEF Started, Watch
  <2>4. watch'.at = 1 /\ watch'.targets = watch.targets
    BY <2>2 DEF Started
  <2> QED BY <1>1, <2>1, <2>3, <2>4 DEF WatchTypeOK
<1>10. CASE UNCHANGED watch
  BY <1>10 DEF WatchTypeOK
<1> QED BY <1>3, <1>4, <1>5, <1>6, <1>7, <1>8, <1>9, <1>10 DEF WatchNext, WatchStep, WatchFails

-----------------------------------------------------------------------------
(* What a step makes of a call.                                            *)

\* Calls keep their kind and, but for migrations, their deadline; those that
\* read go on reading and write no index.
LEMMA StepOfCall ==
    ASSUME Sound, NEW p \in Processes, Step(p) \/ Fail(p)
    PROVE  \E next \in Call :
              /\ Continue(p, next) /\ next \in Call
              /\ next.kind = op[p].kind
              /\ next.deadline = op[p].deadline \/ op[p].kind = "migrate"
              /\ Reads(op[p]) => Reads(next) /\ db' = db
<1> DEFINE call == op[p]
           index == Index(p)
           Follows(next) == /\ next \in Call /\ next.kind = call.kind /\ next.deadline = call.deadline
                            /\ Reads(call) => Reads(next)
<1>1. op[p] # Idle
  BY DEF Step, InspectionStep, QueryStep, RefreshStep, MigrationStep, InspectMetadata, LoadFileStates,
     LoadSymbols, InspectHealth, QueryMetadata, AnswerQuery, ValidateIndex, Collect, EnsureTables,
     LoadStoredStates, LoadStoredSymbols, ReadSources, Persist, Preflight, Recheck, MigrateSchema,
     Expire, Fail, At
<1>2. call \in Call /\ call.db \in Databases /\ index \in Database /\ CallIsSound(call)
  BY <1>1, AtCall DEF Sound
<1>3. ASSUME NEW next, Continue(p, next), db' = db \/ ~Reads(call), Follows(next)
      PROVE  \E n \in Call :
                /\ Continue(p, n) /\ n \in Call
                /\ n.kind = call.kind
                /\ n.deadline = call.deadline \/ call.kind = "migrate"
                /\ Reads(call) => Reads(n) /\ db' = db
  BY <1>3
<1>4. ASSUME NEW says \in Findings PROVE Follows(Ended(call, says))
  <2> DEFINE new == NewCall(call.kind, call.db, call.limit, call.deadline)
  <2>1. new \in Call /\ new.deadline = call.deadline
    BY <1>2, NewCallType DEF Call, NewCall
  <2> HIDE DEF new
  <2>2. Ended(call, says).deadline = call.deadline
    BY <2>1 DEF Ended, new, Call
  <2> QED BY <1>2, <2>2, EndedType DEF Reads
<1>5. ASSUME NEW says \in Findings, Return(p, says), db' = db
      PROVE  \E n \in Call :
                /\ Continue(p, n) /\ n \in Call
                /\ n.kind = call.kind
                /\ n.deadline = call.deadline \/ call.kind = "migrate"
                /\ Reads(call) => Reads(n) /\ db' = db
  BY <1>3, <1>4, <1>5 DEF Return
<1>6. CASE InspectMetadata(p)
  <2> DEFINE next == [call EXCEPT !.pc = "file states", !.says = Advice(index), !.count = index.count]
  <2>1. Advice(index) \in Findings
    BY <1>2 DEF Advice, Findings, Database, Schemas
  <2>2. Follows(next)
    BY <1>2, <2>1 DEF Call, Phases, Database, Reads
  <2> QED BY <1>3, <1>5, <1>6, <2>1, <2>2 DEF InspectMetadata
<1>7. CASE LoadFileStates(p)
  <2>1. Follows([call EXCEPT !.pc = "symbols", !.states = index.states])
    BY <1>2 DEF Call, Phases, Database, Reads
  <2> QED BY <1>3, <1>7, <2>1 DEF LoadFileStates
<1>8. CASE LoadSymbols(p)
  <2>1. Follows([call EXCEPT !.pc = IF call.kind = "query" THEN "answer" ELSE "health",
                             !.rows = index.rows])
    BY <1>2 DEF Call, Phases, Database, Reads
  <2> QED BY <1>3, <1>8, <2>1 DEF LoadSymbols
<1>9. CASE InspectHealth(p)
  <2>1. PICK says \in Findings : Report(p, says)
    BY <1>2, <1>9 DEF InspectHealth, Call, Findings
  <2> DEFINE ended == Ended(call, says)
  <2>2. Follows(ended) /\ ended.pc = "done"
    BY <1>2, <1>4, EndedType
  <2> HIDE DEF ended
  <2>3. Follows([ended EXCEPT !.count = call.count, !.states = call.states])
    BY <1>2, <2>2 DEF Call, Reads
  <2> QED BY <1>3, <1>9, <2>1, <2>3 DEF InspectHealth, Report, ended
<1>10. CASE QueryMetadata(p)
  <2>1. Follows([call EXCEPT !.pc = "file states", !.count = index.count])
    BY <1>2 DEF Call, Phases, Database, Reads
  <2> QED BY <1>3, <1>5, <1>10, <2>1 DEF QueryMetadata, Findings
<1>11. CASE AnswerQuery(p)
  <2> DEFINE ended == Ended(call, "answered")
  <2>1. Follows(ended) /\ ended.pc = "done"
    BY <1>2, <1>4, EndedType DEF Findings
  <2> HIDE DEF ended
  <2>2. Follows([ended EXCEPT !.rows = call.rows])
    BY <1>2, <2>1 DEF Call, Reads
  <2> QED BY <1>3, <1>5, <1>11, <2>2 DEF AnswerQuery, Answer, Findings, ended
<1>12. CASE ValidateIndex(p)
  <2>1. Follows([call EXCEPT !.pc = "collect"])
    BY <1>2, <1>12 DEF Call, Phases, Reads, ValidateIndex, At
  <2> QED BY <1>3, <1>5, <1>12, <2>1 DEF ValidateIndex, Findings
<1>13. CASE Collect(p)
  <2>1. ASSUME NEW found \in Scans(call.db, call.limit)
        PROVE  Follows([call EXCEPT !.pc = "tables", !.found = found])
    <3>1. found \in SUBSET Files
      BY <1>2, LifecycleAssumption DEF Scans, SourceFiles
    <3> QED BY <1>2, <1>13, <3>1 DEF Call, Phases, Reads, Collect, At
  <2> QED BY <1>3, <1>5, <1>13, <2>1 DEF Collect, Findings
<1>14. CASE EnsureTables(p)
  <2>1. ~Reads(call)
    BY <1>14 DEF EnsureTables, At, Reads
  <2>2. Follows([call EXCEPT !.pc = "stored states"])
    BY <1>2, <2>1 DEF Call, Phases
  <2> QED BY <1>3, <1>14, <2>1, <2>2 DEF EnsureTables
<1>15. CASE LoadStoredStates(p)
  <2>1. Follows([call EXCEPT !.pc = "stored symbols", !.states = index.states])
    BY <1>2, <1>15 DEF Call, Phases, Database, Reads, LoadStoredStates, At
  <2> QED BY <1>3, <1>15, <2>1 DEF LoadStoredStates
<1>16. CASE LoadStoredSymbols(p)
  <2>1. Follows([call EXCEPT !.pc = "read", !.rows = index.rows])
    BY <1>2, <1>16 DEF Call, Phases, Database, Reads, LoadStoredSymbols, At
  <2> QED BY <1>3, <1>16, <2>1 DEF LoadStoredSymbols
<1>17. CASE ReadSources(p)
  <2> DEFINE read == [f \in Files |-> IF f \in call.found THEN disk[f] ELSE Absent]
  <2>1. read \in Sources
    BY DEF Sources, Sound, TypeOK
  <2> HIDE DEF read
  <2>2. Follows([call EXCEPT !.pc = "persist", !.now = read])
    BY <1>2, <1>17, <2>1 DEF Call, Phases, Reads, ReadSources, At
  <2> QED BY <1>3, <1>5, <1>17, <2>2 DEF ReadSources, Findings, read
<1>18. CASE Persist(p)
  <2>1. ~Reads(call)
    BY <1>18 DEF Persist, At, Reads
  <2> DEFINE ended(says) == Ended(call, says)
  <2>2. \A says \in Findings : Follows(ended(says))
    BY <1>4
  <2> HIDE DEF ended
  <2>3. Follows([ended("none") EXCEPT !.pc = "metadata"])
    BY <2>1, <2>2 DEF Call, Phases, Findings
  <2>4. \E next : Continue(p, next) /\ Follows(next)
    BY <1>18, <2>2, <2>3 DEF Persist, Return, Findings, ended
  <2> HIDE DEF Follows
  <2> QED BY <1>3, <2>1, <2>4
<1>19. CASE Preflight(p)
  <2>1. Follows([call EXCEPT !.pc = "recheck"])
    BY <1>2, <1>19 DEF Call, Phases, Reads, Preflight, At
  <2> QED BY <1>3, <1>5, <1>19, <2>1 DEF Preflight, Findings
<1>20. CASE Recheck(p)
  <2>1. Follows([call EXCEPT !.pc = "schema"])
    BY <1>2, <1>20 DEF Call, Phases, Reads, Recheck, At
  <2> QED BY <1>3, <1>5, <1>20, <2>1 DEF Recheck, Findings
<1>21. CASE MigrateSchema(p)
  <2> DEFINE next == [call EXCEPT !.pc = "validate", !.deadline = 0, !.limit = DefaultMaxFiles]
  <2>1. DefaultMaxFiles \in 1 .. ScanCap
    BY LifecycleAssumption
  <2>2. call.kind = "migrate" /\ ~Reads(call)
    BY <1>2, <1>21 DEF MigrateSchema, At, CallIsSound, Reads
  <2>3. next \in Call /\ next.kind = call.kind
    BY <1>2, <2>1 DEF Call, Phases
  <2>4. Continue(p, next)
    BY <1>21 DEF MigrateSchema
  <2> QED BY <2>2, <2>3, <2>4
<1>22. CASE Expire(p) \/ Fail(p)
  BY <1>5, <1>22 DEF Expire, Fail, Findings
<1> QED BY <1>6, <1>7, <1>8, <1>9, <1>10, <1>11, <1>12, <1>13, <1>14, <1>15, <1>16, <1>17, <1>18,
          <1>19, <1>20, <1>21, <1>22 DEF Step, InspectionStep, QueryStep, RefreshStep, MigrationStep

-----------------------------------------------------------------------------
(* The gateway's loop.                                                     *)

LEMMA NewCallOfGateway ==
    ASSUME Sound, NEW kind \in Kinds, NEW d \in Databases, NEW deadline \in Nat,
           Start(gateway, kind, d, DefaultMaxFiles, deadline)
    PROVE  /\ op'[gateway] # Idle
           /\ op'[gateway].kind = kind /\ op'[gateway].deadline = deadline
           /\ kind \in ReadOnly => Reads(op'[gateway])
<1> DEFINE new == NewCall(kind, d, DefaultMaxFiles, deadline)
<1>1. op'[gateway] = new
  BY ConstantsAreIn DEF Start, Continue, Sound, TypeOK
<1>2. new # Idle
  BY ConstantsAreIn, NewCallType, IdleAssumption
<1>3. new.kind = kind /\ new.deadline = deadline /\ new.pc = FirstPhase[kind]
  BY DEF NewCall
<1>4. kind \in ReadOnly => FirstPhase[kind] = "metadata"
  BY DEF ReadOnly, FirstPhase, Kinds
<1> QED BY <1>1, <1>2, <1>3, <1>4 DEF Reads

\* The server variable and the gateway's call keep what they promise.
GatewayOK == GatewayTypeOK /\ GatewayIsAt

LEMMA ReadLineKeeps ==
    ASSUME Sound, GatewayOK, ReadLine
    PROVE  GatewayOK'
<1> DEFINE at == server.at + 1
           line == server.lines[at]
<1>1. /\ server \in Server /\ at \in 1 .. Len(server.lines) /\ at \in Nat /\ server.lines \in Seq(Line)
      /\ op[gateway] = Idle /\ clock \in Nat
  BY DEF ReadLine, GatewayOK, GatewayTypeOK, GatewayIsAt, Server, Sound, TypeOK
<1>2. line \in Line /\ line.timeout \in Nat
  BY <1>1, LineType DEF GatewayOK, Line
<1> HIDE DEF at
<1>3. ASSUME NEW pc \in {"read", "respond", "running"}, NEW result \in {"none", "result", "error"},
             server' = [server EXCEPT !.at = at, !.pc = pc, !.result = result],
             pc = "running" => line.kind = "tool" /\ op'[gateway] # Idle,
             pc = "respond" => result # "none",
             pc # "running" => op' = op
      PROVE  GatewayOK'
  <2>1. server' \in Server
    BY <1>1, <1>3 DEF Server
  <2>2. server'.at = at /\ server'.lines = server.lines /\ server'.pc = pc /\ server'.result = result
    BY <1>1, <1>3 DEF Server
  <2>3. Current' = line
    BY <2>2 DEF Current
  <2>4. ~Batching'
    BY <1>3, <2>2, <2>3 DEF Batching
  <2>5. GatewayTypeOK'
    BY <1>1, <1>3, <2>1, <2>2 DEF GatewayTypeOK
  <2> QED BY <1>1, <1>3, <2>2, <2>3, <2>4, <2>5 DEF GatewayOK, GatewayIsAt, CallsEndWithTheirBatch
<1>4. CASE line.kind = "blank"
  <2>1. server' = [server EXCEPT !.at = at, !.pc = "read", !.result = server.result] /\ op' = op
    BY <1>1, <1>4 DEF ReadLine, vars, at, Server
  <2> QED BY <1>1, <1>3, <2>1 DEF Server
<1>5. CASE line.kind = "malformed" \/ (line.kind = "batch" /\ ~BatchIsValid(line.calls))
  <2>1. server' = [server EXCEPT !.at = at, !.pc = "respond", !.result = "error"] /\ op' = op
    BY <1>1, <1>5 DEF ReadLine, vars, at
  <2> QED BY <1>3, <2>1
<1>6. CASE line.kind = "other"
  <2>1. PICK result \in {"result", "error"} :
            server' = [server EXCEPT !.at = at, !.pc = "respond", !.result = result] /\ op' = op
    BY <1>1, <1>6 DEF ReadLine, vars, at
  <2> QED BY <1>3, <2>1
<1>7. CASE line.kind = "tool"
  <2> DEFINE call == line.calls[1]
  <2>1. call.tool \in Kinds /\ call.db \in Databases /\ PerMs * call.timeout \in Nat
    BY <1>2, <1>7, CallOfLineType, ConstantsAreIn DEF Line
  <2>2. Start(gateway, call.tool, call.db, DefaultMaxFiles, PerMs * call.timeout)
    BY <1>7 DEF ReadLine, at
  <2>3. op'[gateway] # Idle
    BY <2>1, <2>2, NewCallOfGateway
  <2>4. server' = [server EXCEPT !.at = at, !.pc = "running", !.result = server.result]
    BY <1>1, <1>7 DEF ReadLine, at, Server
  <2> QED BY <1>1, <1>3, <1>7, <2>3, <2>4 DEF Server
<1>8. CASE line.kind = "batch" /\ BatchIsValid(line.calls)
  <2> DEFINE deadline == clock + PerMs * line.timeout
  <2>1. deadline \in Nat
    BY <1>1, <1>2, ConstantsAreIn
  <2>2. server' = [server EXCEPT !.at = at, !.pc = "batch", !.next = 1, !.deadline = deadline] /\ op' = op
    BY <1>1, <1>8 DEF ReadLine, vars, at
  <2> HIDE DEF deadline
  <2>3. server' \in Server
    BY <1>1, <2>1, <2>2 DEF Server
  <2>4. server'.at = at /\ server'.lines = server.lines /\ server'.pc = "batch" /\ server'.next = 1
    BY <1>1, <2>2 DEF Server
  <2>5. Current' = line
    BY <2>4 DEF Current
  <2>6. 1 \in 1 .. Len(line.calls)
    BY <1>2, <1>8 DEF BatchIsValid
  <2>7. GatewayTypeOK'
    BY <1>1, <2>3, <2>4, <2>5, <2>6 DEF GatewayTypeOK
  <2> QED BY <1>1, <1>8, <2>2, <2>4, <2>5, <2>6, <2>7 DEF GatewayOK, GatewayIsAt, CallsEndWithTheirBatch
<1>9. line.kind \in {"blank", "malformed", "other", "tool", "batch"}
  BY DEF ReadLine, at
<1> QED BY <1>4, <1>5, <1>6, <1>7, <1>8, <1>9

LEMMA ReadGarbledKeeps ==
    ASSUME GatewayOK, ReadGarbled
    PROVE  GatewayOK'
<1>1. PICK i \in server.at + 1 .. Len(server.lines) :
        server' = [server EXCEPT !.at = i, !.pc = "respond", !.result = "error"] /\ op' = op
  BY DEF ReadGarbled, vars
<1>2. server \in Server /\ server.at \in Nat /\ op[gateway] = Idle
  BY DEF ReadGarbled, GatewayOK, GatewayTypeOK, GatewayIsAt, Server
<1>3. i \in Nat /\ i >= 1 /\ i <= Len(server.lines)
  BY <1>2
<1>4. server' \in Server
  BY <1>1, <1>2, <1>3 DEF Server
<1>5. /\ server'.at = i /\ server'.lines = server.lines
      /\ server'.pc = "respond" /\ server'.result = "error"
  BY <1>1, <1>2 DEF Server
<1>6. ~Batching'
  BY <1>5 DEF Batching
<1> QED BY <1>1, <1>2, <1>3, <1>4, <1>5, <1>6
        DEF GatewayOK, GatewayTypeOK, GatewayIsAt, CallsEndWithTheirBatch

\* The gateway between two calls, when it is not at a batch's next one.
LEMMA SettledKeeps ==
    ASSUME GatewayOK, NEW s \in Server, server' = s,
           s.lines = server.lines, s.at = server.at, s.pc \in {"read", "respond", "exited"},
           s.pc = "respond" => s.at >= 1 /\ s.result # "none",
           op'[gateway] = Idle
    PROVE  GatewayOK'
<1>1. ~Batching'
  BY DEF Batching
<1> QED BY <1>1 DEF GatewayOK, GatewayTypeOK, GatewayIsAt, CallsEndWithTheirBatch

LEMMA ConcludeKeeps ==
    ASSUME GatewayOK, server.pc \in {"batch", "running"}, NEW result \in {"result", "error"},
           Conclude(result), op'[gateway] = Idle
    PROVE  GatewayOK'
<1> DEFINE s == [[server EXCEPT !.pc = "respond", !.result = result] EXCEPT !.deadline = 0, !.next = 0]
<1>1. server \in Server /\ server.at >= 1
  BY DEF GatewayOK, GatewayTypeOK, GatewayIsAt
<1>2. server' = s
  BY DEF Conclude, Respond
<1>3. s \in Server /\ s.lines = server.lines /\ s.at = server.at
      /\ s.pc = "respond" /\ s.result = result
  BY <1>1 DEF Server
<1> HIDE DEF s
<1> QED BY <1>1, <1>2, <1>3, SettledKeeps

\* The gateway runs a call of the line it is at.
LEMMA CallingKeeps ==
    ASSUME GatewayOK, NEW s \in Server, server' = s,
           s.lines = server.lines, s.at = server.at, s.next = server.next, s.deadline = server.deadline,
           s.pc = "running", server.pc \in {"batch", "running"},
           op'[gateway] # Idle,
           Batching => /\ Reads(op'[gateway])
                       /\ HasDeadline => op'[gateway].deadline \in 1 .. server.deadline + PerMs - 1
    PROVE  GatewayOK'
<1>1. Current' = Current /\ HasDeadline' = HasDeadline /\ (Batching' <=> Batching)
  BY DEF Current, HasDeadline, Batching
<1> QED BY <1>1 DEF GatewayOK, GatewayTypeOK, GatewayIsAt, CallsEndWithTheirBatch

LEMMA RunBatchCallKeeps ==
    ASSUME Sound, GatewayOK, RunBatchCall
    PROVE  GatewayOK'
<1>1. server \in Server /\ server.pc = "batch" /\ op[gateway] = Idle /\ clock \in Nat
  BY DEF RunBatchCall, GatewayOK, GatewayTypeOK, GatewayIsAt, Sound, TypeOK
<1>2. CASE OutOfTime
  <2>1. Conclude("error") /\ op' = op
    BY <1>2 DEF RunBatchCall
  <2> QED BY <1>1, <2>1, ConcludeKeeps
<1>3. CASE ~OutOfTime
  <2> DEFINE call == Current.calls[server.next]
             deadline == CallDeadline(call)
             s == [server EXCEPT !.pc = "running"]
  <2>1. /\ Start(gateway, call.tool, call.db, DefaultMaxFiles, deadline)
        /\ server' = s
    BY <1>3 DEF RunBatchCall
  <2>2. /\ call.tool \in Kinds /\ call.db \in Databases /\ deadline \in Nat
        /\ HasDeadline => deadline \in 1 .. server.deadline + PerMs - 1
    BY <1>1, <1>3, CallDeadlineType DEF GatewayOK
  <2>3. call.tool \in ReadOnly
    BY <1>1 DEF GatewayOK, GatewayIsAt, Batching, BatchIsValid
  <2> HIDE DEF call, deadline
  <2>4. op'[gateway] # Idle /\ op'[gateway].deadline = deadline /\ Reads(op'[gateway])
    BY <2>1, <2>2, <2>3, NewCallOfGateway
  <2>5. /\ s \in Server /\ s.lines = server.lines /\ s.at = server.at /\ s.next = server.next
        /\ s.deadline = server.deadline /\ s.pc = "running"
    BY <1>1 DEF Server
  <2> HIDE DEF s
  <2> QED BY <1>1, <2>1, <2>2, <2>4, <2>5, CallingKeeps
<1> QED BY <1>2, <1>3

LEMMA ReturnKeeps ==
    ASSUME Sound, GatewayOK, ToolReturns \/ BatchCallReturns
    PROVE  GatewayOK'
<1>1. /\ server \in Server /\ server.pc = "running" /\ server.next \in Nat
      /\ op'[gateway] = Idle
  BY ConstantsAreIn
     DEF ToolReturns, BatchCallReturns, Leave, Continue, GatewayOK, GatewayTypeOK, Server, Sound, TypeOK
<1>2. ASSUME NEW result \in {"result", "error"}, Conclude(result) PROVE GatewayOK'
  BY <1>1, <1>2, ConcludeKeeps
<1>3. CASE BatchCallReturns /\ Succeeded /\ ~OutOfTime /\ server.next < Len(Current.calls)
  <2> DEFINE next == server.next + 1
  <2>1. /\ server' = [server EXCEPT !.pc = "batch", !.next = next]
        /\ Current.kind = "batch"
    BY <1>3 DEF BatchCallReturns
  <2>2. /\ BatchIsValid(Current.calls) /\ server.next \in 1 .. Len(Current.calls)
        /\ server.at >= 1
    BY <1>1, <2>1 DEF GatewayOK, GatewayIsAt, Batching
  <2>3. next \in 1 .. Len(Current.calls) /\ next \in Nat
    BY <1>1, <1>3, <2>2 DEF BatchIsValid
  <2> HIDE DEF next
  <2>4. server' \in Server
    BY <1>1, <2>1, <2>3 DEF Server
  <2>5. server'.lines = server.lines /\ server'.at = server.at /\ server'.pc = "batch" /\ server'.next = next
    BY <1>1, <2>1 DEF Server
  <2>6. Current' = Current
    BY <2>5 DEF Current
  <2>7. GatewayTypeOK'
    BY <2>3, <2>4, <2>5, <2>6 DEF GatewayOK, GatewayTypeOK
  <2> QED BY <1>1, <2>1, <2>2, <2>3, <2>5, <2>6, <2>7 DEF GatewayOK, GatewayIsAt, CallsEndWithTheirBatch
<1>4. CASE ToolReturns
  BY <1>2, <1>4 DEF ToolReturns
<1> QED BY <1>2, <1>3, <1>4 DEF BatchCallReturns

LEMMA WriteAnswerKeeps ==
    ASSUME Sound, GatewayOK, WriteAnswer
    PROVE  GatewayOK'
<1> DEFINE Answers == Seq([line: Nat, says: {"result", "error"}])
<1>1. server \in Server /\ server.pc = "respond" /\ op[gateway] = Idle /\ op' = op
  BY DEF WriteAnswer, GatewayOK, GatewayTypeOK, GatewayIsAt, vars
<1>2. server.result \in {"result", "error"}
  BY <1>1 DEF GatewayOK, GatewayIsAt, Server
<1> HIDE DEF Answers
<1> DEFINE pc == IF Current.kind = "garbled" THEN "exited" ELSE "read"
           answer == [line |-> server.at, says |-> server.result]
           answers == IF Answered THEN Append(server.answers, answer) ELSE server.answers
<1>3. answers \in Answers
  <2>1. answer \in [line: Nat, says: {"result", "error"}]
    BY <1>1, <1>2 DEF Server
  <2>2. server.answers \in Answers
    BY <1>1 DEF Server, Answers
  <2> HIDE DEF answer
  <2>3. Append(server.answers, answer) \in Answers
    BY <2>1, <2>2, AppendProperties DEF Answers
  <2> QED BY <2>2, <2>3
<1>4. server' = [server EXCEPT !.pc = pc, !.result = "none", !.answers = answers]
  BY DEF WriteAnswer
<1>5. pc \in {"read", "exited"}
  OBVIOUS
<1> HIDE DEF pc, answers
<1>6. server' \in Server
  BY <1>1, <1>3, <1>4, <1>5 DEF Server, Answers
<1>7. server'.lines = server.lines /\ server'.at = server.at /\ server'.pc = pc
  BY <1>1, <1>4 DEF Server
<1> QED BY <1>1, <1>5, <1>6, <1>7, SettledKeeps

\* No other process touches the gateway's call.
LEMMA OthersLeaveIt ==
    ASSUME Sound, WatchNext \/ Elsewhere \/ CalmDown
    PROVE  op'[gateway] = op[gateway]
<1>1. watcher # gateway /\ watcher \in Processes
  BY ConstantsAreIn
<1>2. ASSUME NEW call, Continue(watcher, call) PROVE op'[gateway] = op[gateway]
  BY <1>1, <1>2 DEF Continue, Sound, TypeOK
<1>3. CASE Step(watcher) \/ Fail(watcher)
  <2>1. \E call : Continue(watcher, call)
    BY <1>1, <1>3, StepOfCall
  <2> QED BY <1>2, <2>1
<1>4. CASE Interrupt
  BY <1>1, <1>4 DEF Interrupt, Sound, TypeOK
<1>5. CASE Wake \/ Restart \/ Elsewhere \/ CalmDown
  BY <1>5 DEF Wake, Restart, vars, Elsewhere, CalmDown, ExternalWrite, DeleteDatabase
<1>6. CASE InspectTarget \/ StartMigration \/ StartRefresh
  BY <1>2, <1>6 DEF InspectTarget, StartMigration, StartRefresh, Asks, Start
<1>7. CASE \/ TargetHealthy \/ WouldRepair \/ RejectResult \/ CannotRepair
           \/ TargetMigrated \/ TargetRefreshed
  BY <1>2, <1>7 DEF TargetHealthy, WouldRepair, RejectResult, CannotRepair, TargetMigrated,
                    TargetRefreshed, NextTarget, Abort, Leave
<1> QED BY <1>3, <1>4, <1>5, <1>6, <1>7 DEF WatchNext, WatchStep, WatchFails

LEMMA GatewayKeeps ==
    ASSUME Sound, GatewayOK, GatewayNext
    PROVE  GatewayOK'
<1>1. server \in Server /\ (server.pc \in {"batch", "running", "respond"} => server.at >= 1)
  BY DEF GatewayOK, GatewayTypeOK, GatewayIsAt
<1>2. CASE EndOfInput \/ PipeClosed
  <2> DEFINE s == [server EXCEPT !.pc = "exited"]
  <2>1. server' = s /\ op' = op /\ op[gateway] = Idle
    BY <1>2 DEF EndOfInput, PipeClosed, vars, GatewayOK, GatewayIsAt
  <2>2. s \in Server /\ s.lines = server.lines /\ s.at = server.at /\ s.pc = "exited"
    BY <1>1 DEF Server
  <2> HIDE DEF s
  <2> QED BY <2>1, <2>2, SettledKeeps
<1>3. CASE (Step(gateway) \/ Fail(gateway)) /\ UNCHANGED server
  <2>1. PICK next \in Call :
            /\ Continue(gateway, next)
            /\ next.deadline = op[gateway].deadline \/ op[gateway].kind = "migrate"
            /\ Reads(op[gateway]) => Reads(next)
    BY <1>3, StepOfCall, ConstantsAreIn
  <2>2. op[gateway] # Idle
    BY <1>3 DEF Step, InspectionStep, QueryStep, RefreshStep, MigrationStep, InspectMetadata,
       LoadFileStates, LoadSymbols, InspectHealth, QueryMetadata, AnswerQuery, ValidateIndex, Collect,
       EnsureTables, LoadStoredStates, LoadStoredSymbols, ReadSources, Persist, Preflight, Recheck,
       MigrateSchema, Expire, Fail, At
  <2>3. op'[gateway] = next /\ next # Idle
    BY <2>1, ConstantsAreIn, IdleAssumption DEF Continue, Sound, TypeOK
  <2>4. Reads(op[gateway]) => op[gateway].kind # "migrate"
    BY DEF Reads, ReadOnly
  <2>5. server.pc = "running"
    BY <2>2 DEF GatewayOK, GatewayIsAt
  <2>6. Batching => /\ Reads(next)
                    /\ HasDeadline => next.deadline \in 1 .. server.deadline + PerMs - 1
    BY <2>1, <2>2, <2>4 DEF GatewayOK, GatewayIsAt, CallsEndWithTheirBatch
  <2> QED BY <1>1, <1>3, <2>3, <2>5, <2>6, CallingKeeps
<1>4. CASE Tick
  BY <1>4 DEF Tick, GatewayOK, GatewayTypeOK, GatewayIsAt, Batching, Current, HasDeadline,
              CallsEndWithTheirBatch
<1> QED BY <1>2, <1>3, <1>4, ReadGarbledKeeps, ReadLineKeeps, RunBatchCallKeeps, ReturnKeeps, WriteAnswerKeeps
        DEF GatewayNext, GatewayStep, GatewayFails

LEMMA SystemNextKeeps == SystemInv /\ [SystemNext]_systemVars => SystemInv'
<1> SUFFICES ASSUME SystemInv, [SystemNext]_systemVars PROVE SystemInv'
  OBVIOUS
<1>1. Sound'
  BY SystemStepIsStep, NextIsSound DEF SystemInv
<1>2. ASSUME op'[gateway] = op[gateway], UNCHANGED server PROVE GatewayOK'
  BY <1>2 DEF SystemInv, GatewayTypeOK, GatewayIsAt, GatewayOK, Batching, Current, HasDeadline,
              CallsEndWithTheirBatch, Reads
<1>3. CASE WatchNext /\ UNCHANGED server
  <2>1. WatchTypeOK'
    BY <1>3, WatchKeepsType DEF SystemInv
  <2>2. GatewayOK'
    BY <1>2, <1>3, OthersLeaveIt DEF SystemInv
  <2> QED BY <1>1, <2>1, <2>2 DEF SystemInv, GatewayOK
<1>4. CASE GatewayNext /\ UNCHANGED watch
  <2>1. WatchTypeOK'
    BY <1>4 DEF SystemInv, WatchTypeOK
  <2>2. GatewayOK'
    BY <1>4, GatewayKeeps DEF SystemInv, GatewayOK
  <2> QED BY <1>1, <2>1, <2>2 DEF SystemInv, GatewayOK
<1>5. CASE ((Elsewhere \/ CalmDown) /\ UNCHANGED <<watch, server>>) \/ UNCHANGED systemVars
  <2>1. WatchTypeOK'
    BY <1>5 DEF SystemInv, WatchTypeOK, systemVars
  <2>2. GatewayOK'
    BY <1>2, <1>5, OthersLeaveIt DEF SystemInv, systemVars
  <2> QED BY <1>1, <2>1, <2>2 DEF SystemInv, GatewayOK
<1> QED BY <1>3, <1>4, <1>5 DEF SystemNext

\* The scenarios start the system in a state of IndexLifecycle.
LEMMA SystemInitIsInit == SystemInit => Init
BY ScenarioAssumption DEF SystemInit, Init

LEMMA SystemInitKeeps == SystemInit => SystemInv
<1> SUFFICES ASSUME SystemInit PROVE SystemInv
  OBVIOUS
<1>1. Sound
  BY SystemInitIsInit, InitIsSound
<1>2. PICK s \in Scenarios :
        /\ op = [p \in Processes |-> Idle]
        /\ watch = s.watch
        /\ server = Serving(s.lines)
  BY DEF SystemInit
<1>3. s.watch \in Watch /\ s.lines \in Seq(Line)
  BY ScenarioAssumption
<1>4. WatchTypeOK
  <2>1. CASE s.watch = NoWatch
    BY <1>2, <1>3, <2>1 DEF WatchTypeOK, NoWatch, Started
  <2>2. CASE s.watch = Started(s.watch.mode, s.watch.targets) /\ s.watch.targets # <<>>
    <3>1. s.watch.targets \in Seq(Databases)
      BY <1>3 DEF Watch
    <3>2. Len(s.watch.targets) \in Nat /\ Len(s.watch.targets) >= 1
      BY <2>2, <3>1, EmptySeq
    <3>3. watch.at = 1 /\ watch.targets = s.watch.targets
      BY <1>2, <2>2 DEF Started
    <3> QED BY <1>2, <1>3, <3>2, <3>3 DEF WatchTypeOK
  <2> QED BY <2>1, <2>2, ScenarioAssumption
<1>5. server.pc = "read" /\ op[gateway] = Idle
  BY <1>2, ConstantsAreIn DEF Serving
<1>6. GatewayTypeOK
  BY <1>2, <1>3 DEF Serving, GatewayTypeOK, Server
<1>7. GatewayIsAt
  BY <1>5 DEF GatewayIsAt, Batching, CallsEndWithTheirBatch
<1> QED BY <1>1, <1>4, <1>6, <1>7 DEF SystemInv

LEMMA SystemInvHolds == SystemSpec => []SystemInv
<1>1. SystemInit => SystemInv
  BY SystemInitKeeps
<1>2. SystemInv /\ [SystemNext]_systemVars => SystemInv'
  BY SystemNextKeeps
<1> QED BY <1>1, <1>2, PTL DEF SystemSpec

-----------------------------------------------------------------------------
(* What follows.                                                           *)

\* The system's variables have their types, for any number of lines, targets
\* and databases (index_watch_runtime.py:644, gateway_cli.py:64).
THEOREM SystemTypeCorrect == SystemSpec => []SystemTypeOK
<1>1. SystemInv => SystemTypeOK
  BY DEF SystemInv, Sound, GatewayTypeOK, SystemTypeOK
<1> QED BY <1>1, SystemInvHolds, PTL

\* No call of a batch may run on when the batch's time is over
\* (batch_tools.py:31).
THEOREM CallsEndWithBatches == SystemSpec => []CallsEndWithTheirBatch
<1>1. SystemInv => CallsEndWithTheirBatch
  BY DEF SystemInv, GatewayIsAt
<1> QED BY <1>1, SystemInvHolds, PTL

\* The watch and the gateway with their calls are processes of IndexLifecycle
\* (index_watch_runtime.py:444, gateway_index_routes.py:6).
THEOREM SystemImplementsLifecycle == SystemSpec => Spec
<1>1. SystemInit => Init
  BY SystemInitIsInit
<1>2. SystemInv /\ [SystemNext]_systemVars => [Next]_vars
  BY SystemStepIsStep
<1> QED BY <1>1, <1>2, SystemInvHolds, PTL DEF SystemSpec, Spec

\* So an index one of them reports as healthy has each source file of its
\* workspace as it is (paths.rs:257).
THEOREM SystemHealthIsWhole == SystemSpec => HealthyIndexesCoverTheirWorkspace
BY SystemImplementsLifecycle, HealthIsWhole, PTL

\* And they create, upgrade and rewrite only the databases they may, unless
\* two migrations overlap (index_schema/migration.rs:20).
THEOREM SystemImplementsLife == ASSUME OneMigration = TRUE PROVE SystemSpec => LifeSpec
BY SystemImplementsLifecycle, LifecycleImplementsLife, PTL

\* A batch writes no index, and one with a call that would runs none: all its
\* calls are checked before any runs, and those that only read go on reading
\* (batch_tools.py:88).
THEOREM BatchesAreReadOnly == SystemSpec => BatchesWriteNothing
<1>1. ASSUME SystemInv, [SystemNext]_systemVars
      PROVE  [Batching /\ op'[gateway] # op[gateway] =>
                 /\ \A i \in 1 .. Len(Current.calls) : Current.calls[i].tool \in ReadOnly
                 /\ db' = db]_<<vars, server>>
  <2> SUFFICES ASSUME Batching, op'[gateway] # op[gateway]
               PROVE  /\ \A i \in 1 .. Len(Current.calls) : Current.calls[i].tool \in ReadOnly
                      /\ db' = db
    OBVIOUS
  <2>0. \A i \in 1 .. Len(Current.calls) : Current.calls[i].tool \in ReadOnly
    BY <1>1 DEF SystemInv, GatewayIsAt, BatchIsValid
  <2>1. GatewayNext
    BY <1>1, OthersLeaveIt DEF SystemNext, systemVars, SystemInv
  <2>2. CASE Step(gateway) \/ Fail(gateway)
    <3>1. op[gateway] # Idle
      BY <2>2 DEF Step, InspectionStep, QueryStep, RefreshStep, MigrationStep, InspectMetadata,
         LoadFileStates, LoadSymbols, InspectHealth, QueryMetadata, AnswerQuery, ValidateIndex, Collect,
         EnsureTables, LoadStoredStates, LoadStoredSymbols, ReadSources, Persist, Preflight, Recheck,
         MigrateSchema, Expire, Fail, At
    <3>2. Reads(op[gateway])
      BY <1>1, <3>1 DEF SystemInv, GatewayIsAt
    <3> QED BY <1>1, <2>0, <2>2, <3>2, StepOfCall, ConstantsAreIn DEF SystemInv
  <2>3. CASE EndOfInput \/ ReadGarbled \/ ReadLine \/ WriteAnswer \/ PipeClosed \/ Tick
    BY <2>0, <2>3 DEF EndOfInput, ReadGarbled, ReadLine, WriteAnswer, PipeClosed, Tick, vars, Start
  <2>4. CASE RunBatchCall \/ ToolReturns \/ BatchCallReturns
    BY <2>0, <2>4 DEF RunBatchCall, ToolReturns, BatchCallReturns, Start, Leave
  <2> QED BY <2>1, <2>2, <2>3, <2>4 DEF GatewayNext, GatewayStep, GatewayFails
<1> QED BY <1>1, SystemInvHolds, PTL DEF SystemSpec, BatchesWriteNothing

-----------------------------------------------------------------------------
(* One answer for each request.                                            *)

\* While a line is worked on it has no answer yet, and it may come to have one.
AnswersInv ==
    /\ EachRequestIsAnsweredOnce
    /\ server.pc \in {"batch", "running", "respond"} =>
        \A k \in 1 .. Len(server.answers) : server.answers[k].line < server.at
    /\ server.pc = "respond" => Current.kind # "blank"
    /\ server.pc = "read" /\ server.at >= 1 => Current.kind # "garbled"

\* Steps within a line, and those that end the command.
LEMMA SameLineAnswers ==
    ASSUME AnswersInv, GatewayIsAt, server'.lines = server.lines, server'.at = server.at,
           server'.answers = server.answers,
           \/ server'.pc = "exited"
           \/ /\ server.pc \in {"batch", "running"}
              /\ server'.pc \in {"batch", "running", "respond"}
    PROVE  AnswersInv'
<1>1. Current' = Current
  BY DEF Current
<1>2. server'.pc = "respond" => Current.kind # "blank"
  BY DEF GatewayIsAt
<1> QED BY <1>1, <1>2 DEF AnswersInv, EachRequestIsAnsweredOnce, Expected

LEMMA ReadLineAnswers ==
    ASSUME AnswersInv, GatewayTypeOK, ReadLine
    PROVE  AnswersInv'
<1> DEFINE at == server.at + 1
           line == server.lines[at]
<1>1. server \in Server /\ server.pc = "read" /\ server.at \in Nat /\ at \in 1 .. Len(server.lines)
  BY DEF ReadLine, GatewayTypeOK, Server
<1>2. line \in Line
  BY <1>1, LineType
<1>3. line.kind \in {"blank", "malformed", "other", "tool", "batch"}
  BY DEF ReadLine, at
<1>4. /\ server'.at = at /\ server'.lines = server.lines /\ server'.answers = server.answers
      /\ IF line.kind = "blank" THEN server'.pc = "read"
         ELSE server'.pc \in {"respond", "running", "batch"}
  BY <1>1, <1>3 DEF ReadLine, Server
<1>5. Current' = line
  BY <1>4 DEF Current
<1>6. \A k \in 1 .. Len(server.answers) :
        /\ server.answers[k].line \in 1 .. server.at
        /\ Expected(server.lines[server.answers[k].line])
        /\ k > 1 => server.answers[k - 1].line < server.answers[k].line
  BY DEF AnswersInv, EachRequestIsAnsweredOnce
<1>7. \A i \in 1 .. server.at : Expected(server.lines[i]) =>
        \E k \in 1 .. Len(server.answers) : server.answers[k].line = i
  BY <1>1 DEF AnswersInv, EachRequestIsAnsweredOnce
<1>8. line.kind = "blank" => ~Expected(line)
  BY DEF Expected
<1>9. \A i \in 1 .. at : i \in 1 .. server.at \/ i = at
  BY <1>1
<1>10. \A n \in 1 .. server.at : n \in 1 .. at /\ n < at
  BY <1>1
<1> HIDE DEF at
<1>11. \A k \in 1 .. Len(server.answers) :
        /\ server.answers[k].line \in 1 .. at
        /\ Expected(server.lines[server.answers[k].line])
        /\ k > 1 => server.answers[k - 1].line < server.answers[k].line
  BY <1>6, <1>10
<1>12. \A i \in 1 .. at :
        Expected(server.lines[i]) /\ (i < at \/ server'.pc = "read") =>
            \E k \in 1 .. Len(server.answers) : server.answers[k].line = i
  <2> SUFFICES ASSUME NEW i \in 1 .. at, Expected(server.lines[i]), i < at \/ server'.pc = "read"
               PROVE  \E k \in 1 .. Len(server.answers) : server.answers[k].line = i
    OBVIOUS
  <2>1. i # at
    <3>1. CASE i < at
      BY <1>1, <3>1
    <3>2. CASE server'.pc = "read"
      BY <1>4, <1>8, <3>2
    <3> QED BY <3>1, <3>2
  <2> QED BY <1>7, <1>9, <2>1
<1>13. EachRequestIsAnsweredOnce'
  BY <1>4, <1>11, <1>12 DEF EachRequestIsAnsweredOnce, Expected
<1>14. \A k \in 1 .. Len(server.answers) : server.answers[k].line < at
  BY <1>6, <1>10
<1> QED BY <1>3, <1>4, <1>5, <1>13, <1>14 DEF AnswersInv

\* The lines that bytes which are not UTF-8 take with them come after all that
\* have an answer.
LEMMA ReadGarbledAnswers ==
    ASSUME AnswersInv, GatewayTypeOK, ReadGarbled
    PROVE  AnswersInv'
<1>1. PICK at \in server.at + 1 .. Len(server.lines) :
        /\ server.lines[at].kind = "garbled"
        /\ server' = [server EXCEPT !.at = at, !.pc = "respond", !.result = "error"]
  BY DEF ReadGarbled
<1>2. server \in Server /\ server.pc = "read" /\ server.at \in Nat /\ at \in Nat /\ server.at < at
  BY DEF ReadGarbled, GatewayTypeOK, Server
<1>3. /\ server'.at = at /\ server'.lines = server.lines /\ server'.answers = server.answers
      /\ server'.pc = "respond"
  BY <1>1, <1>2 DEF Server
<1>4. Current'.kind = "garbled"
  BY <1>1, <1>3 DEF Current
<1>5. \A k \in 1 .. Len(server.answers) :
        /\ server.answers[k].line \in 1 .. server.at
        /\ Expected(server.lines[server.answers[k].line])
        /\ k > 1 => server.answers[k - 1].line < server.answers[k].line
  BY DEF AnswersInv, EachRequestIsAnsweredOnce
<1>6. \A k \in 1 .. Len(server.answers) :
        server.answers[k].line \in 1 .. at /\ server.answers[k].line < at
  BY <1>2, <1>5
<1>7. ASSUME NEW i \in 1 .. at, Expected(server.lines[i])
      PROVE  \/ \E k \in 1 .. Len(server.answers) : server.answers[k].line = i
             \/ \A k \in 1 .. Len(server.answers) : server.answers[k].line < i
  <2>1. CASE i <= server.at
    <3>1. Current.kind # "garbled"
      BY <1>2, <2>1 DEF AnswersInv
    <3> QED BY <1>2, <1>7, <2>1, <3>1 DEF AnswersInv, EachRequestIsAnsweredOnce
  <2>2. CASE i > server.at
    BY <1>2, <1>5, <2>2
  <2> QED BY <1>2, <2>1, <2>2
<1>8. EachRequestIsAnsweredOnce'
  BY <1>3, <1>4, <1>5, <1>6, <1>7 DEF EachRequestIsAnsweredOnce, Expected
<1> QED BY <1>3, <1>4, <1>6, <1>8 DEF AnswersInv

LEMMA WriteAnswerAnswers ==
    ASSUME AnswersInv, GatewayTypeOK, GatewayIsAt, WriteAnswer
    PROVE  AnswersInv'
<1> DEFINE answer == [line |-> server.at, says |-> server.result]
           old == server.answers
           answers == IF Answered THEN Append(old, answer) ELSE old
           pc == IF Current.kind = "garbled" THEN "exited" ELSE "read"
<1>1. server \in Server /\ server.at \in 1 .. Len(server.lines) /\ server.pc = "respond"
  BY DEF WriteAnswer, GatewayTypeOK, GatewayIsAt, Server
<1>2. server' = [server EXCEPT !.pc = pc, !.result = "none", !.answers = answers]
  BY DEF WriteAnswer
<1>3. pc \in {"read", "exited"} /\ (pc = "exited" => Current.kind = "garbled")
  OBVIOUS
<1>4. Answered <=> Expected(Current)
  BY <1>1 DEF AnswersInv, Answered, Expected
<1>5. /\ Len(answers) \in Nat /\ Len(old) \in Nat
      /\ \A k \in 1 .. Len(old) : answers[k] = old[k]
      /\ Answered => Len(answers) = Len(old) + 1 /\ answers[Len(answers)].line = server.at
      /\ ~Answered => Len(answers) = Len(old)
  <2> DEFINE Written == [line: Nat, says: {"none", "result", "error"}]
  <2>1. answer \in Written /\ answer.line = server.at
    BY <1>1 DEF Server
  <2>2. old \in Seq(Written)
    <3>1. old \in Seq([line: Nat, says: {"result", "error"}])
      BY <1>1 DEF Server
    <3>2. [line: Nat, says: {"result", "error"}] \subseteq Written
      OBVIOUS
    <3> QED BY <3>1, <3>2, SeqMonotonic
  <2> HIDE DEF answer, Written
  <2>3. /\ Len(Append(old, answer)) = Len(old) + 1 /\ Len(old) \in Nat
        /\ \A k \in 1 .. Len(old) : Append(old, answer)[k] = old[k]
        /\ Append(old, answer)[Len(old) + 1] = answer
    BY <2>1, <2>2, AppendProperties
  <2> QED BY <2>1, <2>3
<1> HIDE DEF pc, answers, old
<1>6. /\ server'.at = server.at /\ server'.lines = server.lines /\ server'.pc = pc
      /\ server'.answers = answers
  BY <1>1, <1>2 DEF Server
<1>7. \A k \in 1 .. Len(old) :
        /\ old[k].line \in 1 .. server.at /\ old[k].line < server.at
        /\ Expected(server.lines[old[k].line])
        /\ k > 1 => old[k - 1].line < old[k].line
  BY <1>1 DEF AnswersInv, EachRequestIsAnsweredOnce, old
<1>8. \A i \in 1 .. server.at : Expected(server.lines[i]) /\ i < server.at =>
        \/ \E k \in 1 .. Len(old) : old[k].line = i
        \/ /\ Current.kind = "garbled"
           /\ \A k \in 1 .. Len(old) : old[k].line < i
  BY <1>7 DEF AnswersInv, EachRequestIsAnsweredOnce, old
<1>9. ASSUME NEW k \in 1 .. Len(answers)
      PROVE  /\ answers[k].line \in 1 .. server.at
             /\ Expected(server.lines[answers[k].line])
             /\ k > 1 => answers[k - 1].line < answers[k].line
  <2>1. CASE k \in 1 .. Len(old)
    <3>1. k > 1 => k - 1 \in 1 .. Len(old)
      BY <1>5, <2>1
    <3> QED BY <1>5, <1>7, <2>1, <3>1
  <2>2. CASE k \notin 1 .. Len(old)
    <3>1. Answered /\ k = Len(answers) /\ k = Len(old) + 1
      BY <1>5, <2>2
    <3>2. k > 1 => k - 1 \in 1 .. Len(old)
      BY <1>5, <3>1
    <3>3. answers[k].line = server.at /\ Expected(server.lines[server.at])
      BY <1>4, <1>5, <3>1 DEF Current
    <3> QED BY <1>1, <1>5, <1>7, <3>2, <3>3
  <2> QED BY <2>1, <2>2
<1>10. ASSUME NEW i \in 1 .. server.at, Expected(server.lines[i])
       PROVE  \/ \E k \in 1 .. Len(answers) : answers[k].line = i
              \/ /\ Current.kind = "garbled"
                 /\ \A k \in 1 .. Len(answers) : answers[k].line < i \/ answers[k].line = server.at
  <2>1. CASE i < server.at /\ \E k \in 1 .. Len(old) : old[k].line = i
    <3>1. PICK k \in 1 .. Len(old) : old[k].line = i
      BY <2>1
    <3>2. k \in 1 .. Len(answers)
      BY <1>5
    <3> QED BY <1>5, <3>1, <3>2
  <2>2. CASE i < server.at /\ ~\E k \in 1 .. Len(old) : old[k].line = i
    <3>1. Current.kind = "garbled" /\ \A k \in 1 .. Len(old) : old[k].line < i
      BY <1>8, <1>10, <2>2
    <3>2. ASSUME NEW k \in 1 .. Len(answers)
          PROVE  answers[k].line < i \/ answers[k].line = server.at
      BY <1>5, <3>1
    <3> QED BY <3>1, <3>2
  <2>3. CASE i = server.at
    <3>1. Answered
      BY <1>4, <1>10, <2>3 DEF Current
    <3> QED BY <1>5, <2>3, <3>1
  <2> QED BY <1>1, <2>1, <2>2, <2>3
<1>11. Current' = Current
  BY <1>6 DEF Current
<1>12. EachRequestIsAnsweredOnce'
  BY <1>6, <1>9, <1>10, <1>11 DEF EachRequestIsAnsweredOnce, Expected
<1>13. pc = "read" => Current.kind # "garbled"
  BY DEF pc
<1> QED BY <1>3, <1>6, <1>11, <1>12, <1>13 DEF AnswersInv

LEMMA AnswersNext ==
    ASSUME SystemInv, AnswersInv, [SystemNext]_systemVars
    PROVE  AnswersInv'
<1>1. server \in Server /\ GatewayTypeOK /\ GatewayIsAt
  BY DEF SystemInv, GatewayTypeOK
<1>2. CASE UNCHANGED server
  BY <1>2 DEF AnswersInv, EachRequestIsAnsweredOnce, Expected, Current
<1>3. CASE EndOfInput \/ PipeClosed
  BY <1>1, <1>3, SameLineAnswers DEF EndOfInput, PipeClosed, Server
<1>4. CASE RunBatchCall \/ ToolReturns \/ BatchCallReturns
  <2>1. /\ server'.lines = server.lines /\ server'.at = server.at /\ server'.answers = server.answers
        /\ server.pc \in {"batch", "running"} /\ server'.pc \in {"batch", "running", "respond"}
    BY <1>1, <1>4 DEF RunBatchCall, ToolReturns, BatchCallReturns, Conclude, Respond, Server
  <2> QED BY <1>1, <2>1, SameLineAnswers
<1> QED BY <1>1, <1>2, <1>3, <1>4, ReadGarbledAnswers, ReadLineAnswers, WriteAnswerAnswers
        DEF SystemNext, GatewayNext, GatewayStep, GatewayFails, Tick, systemVars

\* Every request has its one answer, in order, before the next is read, and
\* notifications have none, but for the last lines before bytes that are not
\* UTF-8 (gateway_cli.py:64, gateway.py:158).
THEOREM RequestsAreAnsweredOnce == SystemSpec => []EachRequestIsAnsweredOnce
<1>1. SystemInit => AnswersInv
  <2> SUFFICES ASSUME SystemInit PROVE AnswersInv
    OBVIOUS
  <2>1. PICK s \in Scenarios : server = Serving(s.lines)
    BY DEF SystemInit
  <2>2. server.pc = "read" /\ server.at = 0 /\ server.answers = <<>>
    BY <2>1 DEF Serving
  <2> QED BY <2>2 DEF AnswersInv, EachRequestIsAnsweredOnce
<1>2. SystemInv /\ AnswersInv /\ [SystemNext]_systemVars => AnswersInv'
  BY AnswersNext
<1>3. AnswersInv => EachRequestIsAnsweredOnce
  BY DEF AnswersInv
<1> QED BY <1>1, <1>2, <1>3, SystemInvHolds, PTL DEF SystemSpec
=============================================================================
