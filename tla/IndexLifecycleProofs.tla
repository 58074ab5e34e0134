-------------------------- MODULE IndexLifecycleProofs --------------------------
(***************************************************************************)
(* What IndexLifecycle keeps true for all workspaces, database files and   *)
(* processes.                                                              *)
(***************************************************************************)
EXTENDS IndexLifecycle, FiniteSetTheorems, TLAPS

-----------------------------------------------------------------------------
(* Types.                                                                  *)

LEMMA NoSourcesType == NoSources \in Sources /\ NoSources \in Rows
BY DEF NoSources, Sources, Rows

LEMMA NewCallType ==
    ASSUME NEW kind \in Kinds, NEW d \in Databases, NEW limit \in 1 .. ScanCap,
           NEW deadline \in Nat
    PROVE  NewCall(kind, d, limit, deadline) \in Call
<1>1. FirstPhase[kind] \in Phases
  BY DEF FirstPhase, Kinds, Phases
<1> QED BY <1>1, NoSourcesType DEF NewCall, Call, Findings

\* Ending a call leaves what it was asked for.
LEMMA EndedType ==
    ASSUME NEW call \in Call, NEW says \in Findings
    PROVE  /\ Ended(call, says) \in Call
           /\ Ended(call, says).kind = call.kind
           /\ Ended(call, says).db = call.db
           /\ Ended(call, says).pc = "done"
           /\ Ended(call, says).says = says
<1> DEFINE new == NewCall(call.kind, call.db, call.limit, call.deadline)
<1>1. new \in Call /\ new.kind = call.kind /\ new.db = call.db
  BY NewCallType DEF Call, NewCall
<1> HIDE DEF new
<1> QED BY <1>1 DEF Ended, Call, Phases, new

\* What is stored and what is found can be counted.
LEMMA SubsetsAreCounted ==
    ASSUME NEW S \in SUBSET Files
    PROVE  Cardinality(S) \in Nat
BY LifecycleAssumption, FS_Subset, FS_CardinalityType

LEMMA RowsOfType ==
    ASSUME NEW call \in Call, \A f \in call.found : call.now[f] # Absent
    PROVE  RowsOf(call) \in Rows
<1> SUFFICES ASSUME NEW f \in Files PROVE RowsOf(call)[f] \in Row \cup {Absent}
  BY DEF RowsOf, Rows
<1>1. call.rows[f] \in Row \cup {Absent} /\ call.now[f] \in Texts \cup {Absent}
  BY DEF Call, Rows, Sources
<1> QED BY <1>1 DEF RowsOf, Row

LEMMA EmptiedType ==
    ASSUME NEW index \in Database PROVE Emptied(index) \in Database
<1>1. [f \in Files |-> IF index.rows[f] = Absent THEN Absent
                       ELSE [text |-> index.rows[f].text, current |-> FALSE]] \in Rows
  <2> SUFFICES ASSUME NEW f \in Files, index.rows[f] # Absent
               PROVE  [text |-> index.rows[f].text, current |-> FALSE] \in Row
    BY DEF Rows
  <2>1. index.rows[f] \in Row
    BY DEF Database, Rows
  <2> QED BY <2>1 DEF Row
<1> QED BY <1>1, NoSourcesType DEF Emptied, Database, Schemas

LEMMA ConstantIndexTypes == Unfinished \in Database /\ Missing \in Database
BY NoSourcesType DEF Unfinished, Missing, Database, Schemas

-----------------------------------------------------------------------------
\* A process at a step has a call of that phase.
LEMMA AtCall ==
    ASSUME TypeOK, NEW p \in Processes, op[p] # Idle
    PROVE  op[p] \in Call /\ op[p].db \in Databases /\ Index(p) \in Database
BY DEF TypeOK, Call, Index

\* What a call has found and read by the phase it is in.
CallIsSound(call) ==
    /\ call.pc \in {"preflight", "recheck", "schema"} => call.kind = "migrate"
    /\ call.pc = "answer" => call.kind = "query"
    /\ call.pc # "done" => call.says \notin {"healthy", "answered"}
    /\ call.pc = "persist" => Stored(call.now) = call.found

Sound == TypeOK /\ \A p \in Processes : op[p] # Idle => CallIsSound(op[p])

LEMMA EndedIsSound ==
    ASSUME NEW call \in Call, NEW says \in Findings
    PROVE  CallIsSound(Ended(call, says))
BY EndedType DEF CallIsSound

LEMMA StepIsSound ==
    ASSUME Sound, NEW p \in Processes, Step(p)
    PROVE  Sound'
<1>1. op[p] # Idle
  BY DEF Step, InspectionStep, QueryStep, RefreshStep, MigrationStep, InspectMetadata, LoadFileStates,
         LoadSymbols, InspectHealth, QueryMetadata, AnswerQuery, ValidateIndex, Collect, EnsureTables,
         LoadStoredStates, LoadStoredSymbols, ReadSources, Persist, Preflight, Recheck, MigrateSchema,
         Expire, At
<1> DEFINE call == op[p]
           index == Index(p)
<1>2. /\ call \in Call /\ CallIsSound(call) /\ call.db \in Databases
      /\ index \in Database
  BY <1>1, AtCall DEF Sound
<1>0. db \in [Databases -> Database] /\ torn \subseteq Databases
  BY DEF Sound, TypeOK
<1>3. ASSUME NEW next \in Call, CallIsSound(next), Continue(p, next),
             UNCHANGED <<disk, clock, calm>>, db' \in [Databases -> Database],
             torn' \subseteq Databases
      PROVE  Sound'
  BY <1>3 DEF Sound, TypeOK, Continue
<1>4. ASSUME NEW says \in Findings, Return(p, says), UNCHANGED <<disk, clock, calm>>,
             db' \in [Databases -> Database], torn' \subseteq Databases
      PROVE  Sound'
  BY <1>2, <1>3, <1>4, EndedType, EndedIsSound DEF Return
<1>5. CASE InspectMetadata(p)
  <2> DEFINE next == [call EXCEPT !.pc = "file states", !.says = Advice(index), !.count = index.count]
  <2>1. Advice(index) \in Findings \ {"healthy", "answered"}
    BY <1>2 DEF Advice, Findings, Database, Schemas
  <2>2. next \in Call /\ CallIsSound(next)
    BY <1>2, <2>1 DEF Call, Phases, Database, CallIsSound
  <2> QED BY <1>0, <1>3, <1>4, <1>5, <2>1, <2>2 DEF InspectMetadata
<1>6. CASE LoadFileStates(p)
  <2> DEFINE next == [call EXCEPT !.pc = "symbols", !.states = index.states]
  <2>1. next \in Call /\ CallIsSound(next)
    BY <1>2, <1>6 DEF Call, Phases, Database, CallIsSound, LoadFileStates, At
  <2> QED BY <1>0, <1>3, <1>6, <2>1 DEF LoadFileStates
<1>7. CASE LoadSymbols(p)
  <2> DEFINE next == [call EXCEPT !.pc = IF call.kind = "query" THEN "answer" ELSE "health",
                                  !.rows = index.rows]
  <2>1. next \in Call /\ CallIsSound(next)
    BY <1>2, <1>7 DEF Call, Phases, Database, CallIsSound, LoadSymbols, At
  <2> QED BY <1>0, <1>3, <1>7, <2>1 DEF LoadSymbols
<1>8. CASE InspectHealth(p)
  <2>1. PICK says \in Findings : Report(p, says)
    BY <1>2, <1>8 DEF InspectHealth, Call, Findings
  <2> DEFINE ended == Ended(call, says)
             next == [ended EXCEPT !.count = call.count, !.states = call.states]
  <2>2. ended \in Call /\ ended.pc = "done"
    BY <1>2, EndedType
  <2> HIDE DEF ended
  <2>3. next \in Call /\ CallIsSound(next)
    BY <1>2, <2>2 DEF Call, CallIsSound
  <2> QED BY <1>0, <1>3, <1>8, <2>1, <2>3 DEF InspectHealth, Report, ended
<1>9. CASE QueryMetadata(p)
  <2> DEFINE next == [call EXCEPT !.pc = "file states", !.count = index.count]
  <2>1. next \in Call /\ CallIsSound(next)
    BY <1>2, <1>9 DEF Call, Phases, Database, CallIsSound, QueryMetadata, At
  <2> QED BY <1>0, <1>3, <1>4, <1>9, <2>1 DEF QueryMetadata, Findings
<1>10. CASE AnswerQuery(p)
  <2> DEFINE ended == Ended(call, "answered")
             next == [ended EXCEPT !.rows = call.rows]
  <2>1. ended \in Call /\ ended.pc = "done"
    BY <1>2, EndedType DEF Findings
  <2> HIDE DEF ended
  <2>2. next \in Call /\ CallIsSound(next)
    BY <1>2, <2>1 DEF Call, CallIsSound
  <2> QED BY <1>0, <1>3, <1>4, <1>10, <2>2 DEF AnswerQuery, Answer, Findings, ended
<1>11. CASE ValidateIndex(p)
  <2> DEFINE next == [call EXCEPT !.pc = "collect"]
  <2>1. next \in Call /\ CallIsSound(next)
    BY <1>2, <1>11 DEF Call, Phases, CallIsSound, ValidateIndex, At
  <2> QED BY <1>0, <1>3, <1>4, <1>11, <2>1 DEF ValidateIndex, Findings
<1>12. CASE Collect(p)
  <2>1. ASSUME NEW found \in Scans(call.db, call.limit)
        PROVE  LET next == [call EXCEPT !.pc = "tables", !.found = found]
               IN  next \in Call /\ CallIsSound(next)
    <3>1. found \in SUBSET Files
      BY <1>2, LifecycleAssumption DEF Scans, SourceFiles
    <3> QED BY <1>2, <1>12, <3>1 DEF Call, Phases, CallIsSound, Collect, At
  <2> QED BY <1>0, <1>3, <1>4, <1>12, <2>1 DEF Collect, Findings
<1>13. CASE EnsureTables(p)
  <2> DEFINE next == [call EXCEPT !.pc = "stored states"]
  <2>1. next \in Call /\ CallIsSound(next)
    BY <1>2, <1>13 DEF Call, Phases, CallIsSound, EnsureTables, At
  <2>2. db' \in [Databases -> Database]
    BY <1>0, <1>13, ConstantIndexTypes DEF EnsureTables
  <2> QED BY <1>0, <1>3, <1>13, <2>1, <2>2 DEF EnsureTables
<1>14. CASE LoadStoredStates(p)
  <2> DEFINE next == [call EXCEPT !.pc = "stored symbols", !.states = index.states]
  <2>1. next \in Call /\ CallIsSound(next)
    BY <1>2, <1>14 DEF Call, Phases, Database, CallIsSound, LoadStoredStates, At
  <2> QED BY <1>0, <1>3, <1>14, <2>1 DEF LoadStoredStates
<1>15. CASE LoadStoredSymbols(p)
  <2> DEFINE next == [call EXCEPT !.pc = "read", !.rows = index.rows]
  <2>1. next \in Call /\ CallIsSound(next)
    BY <1>2, <1>15 DEF Call, Phases, Database, CallIsSound, LoadStoredSymbols, At
  <2> QED BY <1>0, <1>3, <1>15, <2>1 DEF LoadStoredSymbols
<1>16. CASE ReadSources(p)
  <2> DEFINE read == [f \in Files |-> IF f \in call.found THEN disk[f] ELSE Absent]
             next == [call EXCEPT !.pc = "persist", !.now = read]
  <2>1. read \in Sources
    BY DEF Sources, Sound, TypeOK
  <2>2. (\A f \in call.found : disk[f] # Absent) => Stored(read) = call.found
    BY <1>2 DEF Stored, Call
  <2>3. call.pc = "read"
    BY <1>16 DEF ReadSources, At
  <2> HIDE DEF read
  <2>4. next \in Call /\ ((\A f \in call.found : disk[f] # Absent) => CallIsSound(next))
    BY <1>2, <2>1, <2>2, <2>3 DEF Call, Phases, CallIsSound
  <2> QED BY <1>0, <1>3, <1>4, <1>16, <2>4 DEF ReadSources, Findings, read
<1>17. CASE Persist(p)
  <2>1. call.now \in Sources /\ call.found \subseteq Files /\ call.pc = "persist"
    BY <1>2, <1>17 DEF Call, Persist, At
  <2>2. Stored(call.now) = call.found
    BY <1>2, <2>1 DEF CallIsSound
  <2>3. RowsOf(call) \in Rows /\ Cardinality(call.found) \in Nat
    BY <1>2, <2>1, <2>2, RowsOfType, SubsetsAreCounted DEF Stored
  <2> DEFINE stored == [schema |-> "current", provenance |-> TRUE, count |-> Cardinality(call.found),
                        states |-> call.now, rows |-> RowsOf(call)]
             next == [Ended(call, "none") EXCEPT !.pc = "metadata"]
  <2>4. stored \in Database
    BY <2>1, <2>3 DEF Database, Schemas
  <2> HIDE DEF stored
  <2>5. db' \in [Databases -> Database] /\ torn' \subseteq Databases
    BY <1>0, <1>2, <1>17, <2>4 DEF Persist, Commit, stored
  <2>6. Ended(call, "none") \in Call /\ Ended(call, "none").says = "none"
    BY <1>2, EndedType DEF Findings
  <2>7. next \in Call /\ CallIsSound(next)
    BY <2>6 DEF Call, Phases, CallIsSound
  <2> QED BY <1>3, <1>4, <1>17, <2>5, <2>7 DEF Persist, Findings
<1>18. CASE Preflight(p)
  <2> DEFINE next == [call EXCEPT !.pc = "recheck"]
  <2>1. next \in Call /\ CallIsSound(next)
    BY <1>2, <1>18 DEF Call, Phases, CallIsSound, Preflight, At
  <2> QED BY <1>0, <1>3, <1>4, <1>18, <2>1 DEF Preflight, Findings
<1>19. CASE Recheck(p)
  <2> DEFINE next == [call EXCEPT !.pc = "schema"]
  <2>1. next \in Call /\ CallIsSound(next)
    BY <1>2, <1>19 DEF Call, Phases, CallIsSound, Recheck, At
  <2> QED BY <1>0, <1>3, <1>4, <1>19, <2>1 DEF Recheck, Findings
<1>20. CASE MigrateSchema(p)
  <2> DEFINE next == [call EXCEPT !.pc = "validate", !.deadline = 0, !.limit = DefaultMaxFiles]
  <2>1. DefaultMaxFiles \in 1 .. ScanCap
    BY LifecycleAssumption
  <2>2. next \in Call /\ CallIsSound(next)
    BY <1>2, <1>20, <2>1 DEF Call, Phases, CallIsSound, MigrateSchema, At
  <2>3. Emptied(index) \in Database
    BY <1>2, EmptiedType
  <2>4. db' \in [Databases -> Database] /\ torn' \subseteq Databases
    BY <1>0, <1>2, <1>20, <2>3 DEF MigrateSchema, Commit
  <2> QED BY <1>3, <1>20, <2>2, <2>4 DEF MigrateSchema
<1>21. CASE Expire(p)
  BY <1>0, <1>4, <1>21 DEF Expire, Findings
<1> QED BY <1>5, <1>6, <1>7, <1>8, <1>9, <1>10, <1>11, <1>12, <1>13, <1>14, <1>15, <1>16, <1>17, <1>18,
          <1>19, <1>20, <1>21 DEF Step, InspectionStep, QueryStep, RefreshStep, MigrationStep

LEMMA StartIsSound ==
    ASSUME Sound, NEW p \in Processes, NEW kind \in Kinds, NEW d \in Databases,
           NEW limit \in 1 .. ScanCap, NEW deadline \in Nat,
           Start(p, kind, d, limit, deadline), clock' \in Nat
    PROVE  Sound'
<1> DEFINE new == NewCall(kind, d, limit, deadline)
<1>1. new \in Call
  BY NewCallType
<1>2. CallIsSound(new)
  BY <1>1 DEF CallIsSound, NewCall, FirstPhase, Kinds
<1> HIDE DEF new
<1>3. op' = [op EXCEPT ![p] = new] /\ UNCHANGED <<disk, db, calm, torn>>
  BY DEF Start, Continue, new
<1> QED BY <1>1, <1>2, <1>3 DEF Sound, TypeOK

LEMMA OtherStepIsSound ==
    ASSUME Sound,
           \/ \E p \in Processes : Fail(p) \/ (Leave(p) /\ clock' \in Nat)
           \/ Elsewhere \/ Pass \/ UNCHANGED vars
    PROVE  Sound'
<1>1. ASSUME NEW p \in Processes, Fail(p) PROVE Sound'
  <2>1. op[p] \in Call
    BY <1>1 DEF Fail, Sound, TypeOK
  <2>2. Ended(op[p], "failed") \in Call /\ CallIsSound(Ended(op[p], "failed"))
    BY <2>1, EndedType, EndedIsSound DEF Findings
  <2> QED BY <1>1, <2>2 DEF Fail, Return, Continue, Sound, TypeOK
<1>2. ASSUME NEW p \in Processes, Leave(p), clock' \in Nat PROVE Sound'
  BY <1>2 DEF Leave, Continue, Sound, TypeOK
<1>3. ASSUME NEW f \in Files, ExternalWrite(f) PROVE Sound'
  <2>1. disk' \in Sources
    BY <1>3, LifecycleAssumption DEF ExternalWrite, Sound, TypeOK, Sources
  <2> QED BY <1>3, <2>1 DEF ExternalWrite, Sound, TypeOK
<1>4. ASSUME NEW d \in Databases, DeleteDatabase(d) PROVE Sound'
  BY <1>4, ConstantIndexTypes DEF DeleteDatabase, Sound, TypeOK
<1>5. CASE Pass
  BY <1>5 DEF Pass, Sound, TypeOK
<1>6. CASE UNCHANGED vars
  BY <1>6 DEF vars, Sound, TypeOK
<1> QED BY <1>1, <1>2, <1>3, <1>4, <1>5, <1>6 DEF Elsewhere

LEMMA InitIsSound == Init => Sound
<1> SUFFICES ASSUME Init PROVE Sound
  OBVIOUS
<1>1. /\ op = [p \in Processes |-> Idle] /\ disk \in Sources /\ clock \in Nat /\ calm \in BOOLEAN
      /\ torn = {}
  BY DEF Init
<1>2. db \in [Databases -> Database]
  BY DEF Init
<1> QED BY <1>1, <1>2 DEF Sound, TypeOK

\* A step of a process changes no call but its own.
LEMMA StepContinues ==
    ASSUME NEW p \in Processes, Step(p) \/ Fail(p) \/ Leave(p)
    PROVE  \E next : Continue(p, next)
<1>1. CASE InspectionStep(p)
  BY <1>1 DEF InspectionStep, InspectMetadata, LoadFileStates, LoadSymbols, InspectHealth, Return, Report
<1>2. CASE QueryStep(p)
  BY <1>2 DEF QueryStep, QueryMetadata, AnswerQuery, Answer, Return
<1>3. CASE RefreshStep(p)
  BY <1>3 DEF RefreshStep, ValidateIndex, Collect, EnsureTables, LoadStoredStates, LoadStoredSymbols,
              ReadSources, Persist, Return
<1>4. CASE MigrationStep(p)
  BY <1>4 DEF MigrationStep, Preflight, Recheck, MigrateSchema, Return
<1> QED BY <1>1, <1>2, <1>3, <1>4 DEF Step, Expire, Fail, Leave, Return

LEMMA NextIsSound == Sound /\ [Next]_vars => Sound'
<1> SUFFICES ASSUME Sound, [Next]_vars PROVE Sound'
  OBVIOUS
<1>1. ASSUME NEW p \in Processes, NEW kind \in Kinds, NEW d \in Databases, NEW limit \in 1 .. ScanCap,
             NEW deadline \in Nat, Start(p, kind, d, limit, deadline), clock' \in Nat
      PROVE  Sound'
  BY <1>1, StartIsSound
<1>2. ASSUME NEW p \in Processes, Step(p) PROVE Sound'
  BY <1>2, StepIsSound
<1> QED BY <1>1, <1>2, OtherStepIsSound DEF Next

\* Every variable keeps its type, whatever calls overlap, fail or go away;
\* a rebuild that stores its result has read exactly the files it found.
THEOREM LifecycleTypeCorrect == Spec => []TypeOK
<1>1. Sound => TypeOK
  BY DEF Sound
<1> QED BY <1>1, InitIsSound, NextIsSound, PTL DEF Spec

\* An index passes for healthy, or answers, only when it has each source file
\* of its workspace as it is: what makes this hold is that a scan which meets
\* more files than its limit has no result, and that nothing is found before
\* the files were compared.
THEOREM HealthIsWhole == Spec => HealthyIndexesCoverTheirWorkspace
<1>1. ASSUME Sound, NEW p \in Processes, op[p] # Idle, IsHealthy(op[p])
      PROVE  \A f \in WorkspaceOf[op[p].db] : op[p].states[f] = disk[f]
  <2> DEFINE states == op[p].states
             d == op[p].db
  <2>1. d \in Databases /\ states \in Sources /\ WorkspaceOf[d] \subseteq Files
    BY <1>1, LifecycleAssumption DEF Sound, TypeOK, Call
  <2>2. IsFresh(states) /\ SourceFiles(d) \subseteq Stored(states)
    BY <1>1 DEF IsHealthy, NoneUnindexed, Scans
  <2> QED BY <2>1, <2>2 DEF IsFresh, Stored, SourceFiles
<1>2. ASSUME Sound, Next, NEW p \in Processes,
             op[p] # Idle, op[p].pc \in {"health", "answer"},
             op'[p] # Idle, op'[p].says \in {"healthy", "answered"}
      PROVE  IsHealthy(op[p])
  <2>1. op[p] \in Call /\ op[p].says \notin {"healthy", "answered"} /\ op \in [Processes -> Call \cup {Idle}]
    BY <1>2 DEF Sound, TypeOK, CallIsSound
  <2>2. op'[p] # op[p]
    BY <1>2, <2>1
  <2>3. ASSUME NEW next, Continue(p, next), next.says \notin {"healthy", "answered"} PROVE FALSE
    BY <1>2, <2>1, <2>3 DEF Continue
  <2>4. ASSUME NEW says \in Findings \ {"healthy", "answered"}, Return(p, says) PROVE FALSE
    BY <2>1, <2>3, <2>4, EndedType DEF Return
  <2>5. ASSUME NEW q \in Processes, NEW next, Continue(q, next) PROVE q = p
    BY <2>1, <2>2, <2>5 DEF Continue
  <2>6. CASE InspectHealth(p)
    <3> DEFINE ended == Ended(op[p], op[p].says)
               next == [ended EXCEPT !.count = op[p].count, !.states = op[p].states]
               rebuild == Ended(op[p], "rebuild")
               advised == [rebuild EXCEPT !.count = op[p].count, !.states = op[p].states]
    <3>1. /\ ended \in Call /\ ended.says = op[p].says
          /\ rebuild \in Call /\ rebuild.says = "rebuild"
      <4>1. op[p].says \in Findings
        BY <2>1 DEF Call
      <4> QED BY <2>1, <4>1, EndedType DEF Findings
    <3>2. IsHealthy(op[p]) \/ Continue(p, next) \/ Continue(p, advised)
      BY <2>6 DEF InspectHealth, Report
    <3> HIDE DEF ended, rebuild
    <3>3. next.says = op[p].says /\ advised.says = "rebuild"
      BY <3>1 DEF Call
    <3> QED BY <2>1, <2>3, <3>2, <3>3
  <2>7. CASE AnswerQuery(p)
    BY <2>4, <2>7 DEF AnswerQuery, Findings
  <2>8. CASE Step(p) /\ ~InspectHealth(p) /\ ~AnswerQuery(p)
    <3>1. Expire(p)
      BY <1>2, <2>8 DEF Step, InspectionStep, QueryStep, RefreshStep, MigrationStep, InspectMetadata,
             LoadFileStates, LoadSymbols, QueryMetadata, ValidateIndex, Collect, EnsureTables, LoadStoredStates,
             LoadStoredSymbols, ReadSources, Persist, Preflight, Recheck, MigrateSchema, At
    <3> QED BY <2>4, <3>1 DEF Expire, Findings
  <2>9. ASSUME NEW q \in Processes, Step(q) \/ Fail(q) \/ Leave(q) PROVE q = p
    BY <2>5, <2>9, StepContinues
  <2>10. ASSUME NEW kind \in Kinds, NEW d \in Databases, NEW limit \in 1 .. ScanCap,
                NEW deadline \in Nat, NEW q \in Processes, Start(q, kind, d, limit, deadline)
         PROVE  FALSE
    <3>1. Continue(q, NewCall(kind, d, limit, deadline))
      BY <2>10 DEF Start
    <3>2. NewCall(kind, d, limit, deadline).says = "none"
      BY DEF NewCall
    <3> QED BY <2>3, <2>5, <3>1, <3>2
  <2>11. ASSUME Fail(p) \/ Leave(p) PROVE FALSE
    BY <1>2, <2>1, <2>4, <2>11 DEF Fail, Leave, Continue, Findings
  <2> QED BY <1>2, <2>2, <2>6, <2>7, <2>8, <2>9, <2>10, <2>11
          DEF Next, Elsewhere, ExternalWrite, DeleteDatabase, Pass
<1>3. Sound /\ [Next]_vars =>
        [\A p \in Processes :
            /\ op[p] # Idle /\ op[p].pc \in {"health", "answer"}
            /\ op'[p] # Idle /\ op'[p].says \in {"healthy", "answered"}
            => \A f \in WorkspaceOf[op[p].db] : op[p].states[f] = disk[f]]_vars
  BY <1>1, <1>2
<1> QED BY <1>3, InitIsSound, NextIsSound, PTL DEF Spec, HealthyIndexesCoverTheirWorkspace
-----------------------------------------------------------------------------
(* What a call in flight may rely on about its index, as long as two       *)
(* migrations do not overlap.                                              *)

\* An index that has been emptied has no states, any other only rows of this
\* analysis.
OfThisAnalysis(states, rows) ==
    (\E f \in Files : states[f] # Absent) =>
        \A f \in Files : rows[f] # Absent => rows[f].current

\* An index a rebuild that has opened it may find.
MayBeRewritten(index) == index = Unfinished \/ IsCurrent(index)

\* Once a rebuild has passed its validation, or a migration its last check,
\* the index is not turned into something they must leave as it is.
IndexIsKept(call, index) ==
    /\ call.pc = "schema" => index.schema = "old"
    /\ call.pc \in {"collect", "tables"} => index.schema = "missing" \/ MayBeRewritten(index)
    /\ call.pc \in {"stored states", "stored symbols", "read", "persist"} => MayBeRewritten(index)
    /\ call.kind = "query" /\ call.pc \in {"file states", "symbols", "answer"} => IsCurrent(index)

\* States that say what the files are come with rows of this analysis only.
LoadsAreOfThisAnalysis(call, index) ==
    /\ call.kind = "query" /\ call.pc = "symbols" => OfThisAnalysis(call.states, index.rows)
    /\ call.pc = "stored symbols" => OfThisAnalysis(call.states, index.rows)
    /\ call.pc \in {"read", "persist", "answer"} => OfThisAnalysis(call.states, call.rows)
    /\ call.pc = "done" /\ call.says = "answered" =>
        \A f \in Files : call.rows[f] # Absent => call.rows[f].current

Kept(call, index) == IndexIsKept(call, index) /\ LoadsAreOfThisAnalysis(call, index)

MigrationsDoNotOverlap ==
    \A p, q \in Processes :
        op[p] # Idle /\ op[q] # Idle /\ op[p].kind = "migrate" /\ op[q].kind = "migrate" => p = q

KeptInv ==
    /\ Sound
    /\ MigrationsDoNotOverlap
    /\ \A p \in Processes : op[p] # Idle => Kept(op[p], Index(p))
    /\ \A d \in Databases : IsCurrent(db[d]) => OfThisAnalysis(db[d].states, db[d].rows)

\* A call that has ended relies on nothing but its answer.
LEMMA EndedIsKept ==
    ASSUME NEW call \in Call, NEW says \in Findings \ {"answered"}, NEW index
    PROVE  Kept(Ended(call, says), index)
BY EndedType DEF Kept, IndexIsKept, LoadsAreOfThisAnalysis

\* The ways an index changes while somebody may have a call on it.
Rewrites(was, now) ==
    \/ now = was
    \/ was.schema = "missing" /\ now = Unfinished
    \/ /\ MayBeRewritten(was) /\ IsCurrent(now)
       /\ \A f \in Files : now.rows[f] # Absent => now.rows[f].current

\* None of them takes from a call what it relies on; nor does a migration of
\* an old index, except from another migration.
LEMMA RewritesKeep ==
    ASSUME NEW call \in Call, NEW was \in Database, NEW now,
           Kept(call, was), CallIsSound(call),
           Rewrites(was, now) \/ (was.schema = "old" /\ call.kind # "migrate")
    PROVE  Kept(call, now)
<1>1. CASE now = was
  BY <1>1
<1>2. CASE was.schema = "missing" /\ now = Unfinished
  <2>1. ~MayBeRewritten(was) /\ ~IsCurrent(was) /\ was.schema # "old" /\ MayBeRewritten(now)
    BY <1>2 DEF MayBeRewritten, IsCurrent, Unfinished
  <2> QED BY <2>1 DEF Kept, IndexIsKept, LoadsAreOfThisAnalysis
<1>3. CASE /\ MayBeRewritten(was) /\ IsCurrent(now)
           /\ \A f \in Files : now.rows[f] # Absent => now.rows[f].current
  <2>1. was.schema # "old"
    BY <1>3 DEF MayBeRewritten, IsCurrent, Unfinished
  <2>2. OfThisAnalysis(call.states, now.rows)
    BY <1>3 DEF OfThisAnalysis
  <2>3. IndexIsKept(call, now)
    BY <1>3, <2>1 DEF Kept, IndexIsKept, MayBeRewritten
  <2> QED BY <2>2, <2>3 DEF Kept, LoadsAreOfThisAnalysis
<1>4. CASE was.schema = "old" /\ call.kind # "migrate"
  <2>1. ~MayBeRewritten(was) /\ ~IsCurrent(was)
    BY <1>4 DEF MayBeRewritten, IsCurrent, Unfinished
  <2> QED BY <1>4, <2>1 DEF Kept, IndexIsKept, LoadsAreOfThisAnalysis, CallIsSound
<1> QED BY <1>1, <1>2, <1>3, <1>4 DEF Rewrites

\* What RowsOf stores is of this analysis if what was loaded is.
LEMMA RowsOfThisAnalysis ==
    ASSUME NEW call \in Call, OfThisAnalysis(call.states, call.rows),
           Stored(call.now) = call.found
    PROVE  \A f \in Files : RowsOf(call)[f] # Absent => RowsOf(call)[f].current
<1> SUFFICES ASSUME NEW f \in Files, RowsOf(call)[f] # Absent
             PROVE  RowsOf(call)[f].current
  OBVIOUS
<1>1. CASE f \in call.found /\ Reuses(call, f)
  <2>1. call.states[f] # Absent /\ call.rows[f] # Absent
    BY <1>1 DEF Reuses, Stored
  <2> QED BY <1>1, <2>1 DEF OfThisAnalysis, RowsOf
<1>2. CASE ~(f \in call.found /\ Reuses(call, f))
  BY <1>2 DEF RowsOf
<1> QED BY <1>1, <1>2

\* A step that writes no index: the call's next phase may rely on what it
\* finds, and so may every other call.
LEMMA QuietStepKeeps ==
    ASSUME KeptInv, Sound', NEW p \in Processes, NEW next \in Call,
           op[p] # Idle, Continue(p, next), db' = db,
           next.kind = op[p].kind, next.db = op[p].db, Kept(next, Index(p))
    PROVE  KeptInv'
<1>1. op \in [Processes -> Call \cup {Idle}]
  BY DEF KeptInv, Sound, TypeOK
<1>2. \A q \in Processes : op'[q] = IF q = p THEN next ELSE op[q]
  BY <1>1 DEF Continue
<1>3. MigrationsDoNotOverlap'
  BY <1>2 DEF KeptInv, MigrationsDoNotOverlap
<1>4. \A q \in Processes : op'[q] # Idle => Kept(op'[q], Index(q)')
  BY <1>2 DEF KeptInv, Index
<1> QED BY <1>3, <1>4 DEF KeptInv

\* A step that writes its index.
LEMMA WritingStepKeeps ==
    ASSUME KeptInv, Sound', NEW p \in Processes, NEW next \in Call, NEW now \in Database,
           op[p] # Idle, Continue(p, next), db' = [db EXCEPT ![op[p].db] = now],
           next.kind = op[p].kind, next.db = op[p].db, Kept(next, now),
           Rewrites(Index(p), now) \/ (Index(p).schema = "old" /\ op[p].kind = "migrate"),
           IsCurrent(now) => OfThisAnalysis(now.states, now.rows)
    PROVE  KeptInv'
<1>1. op \in [Processes -> Call \cup {Idle}] /\ db \in [Databases -> Database] /\ op[p].db \in Databases
  BY AtCall DEF KeptInv, Sound, TypeOK
<1>2. \A q \in Processes : op'[q] = IF q = p THEN next ELSE op[q]
  BY <1>1 DEF Continue
<1>3. \A d \in Databases : db'[d] = IF d = op[p].db THEN now ELSE db[d]
  BY <1>1
<1>4. MigrationsDoNotOverlap'
  BY <1>2 DEF KeptInv, MigrationsDoNotOverlap
<1>5. ASSUME NEW q \in Processes, q # p, op[q] # Idle
      PROVE  Kept(op[q], db'[op[q].db])
  <2>1. op[q] \in Call /\ op[q].db \in Databases /\ Index(q) \in Database
    BY <1>5, AtCall DEF KeptInv, Sound
  <2>2. Kept(op[q], Index(q)) /\ CallIsSound(op[q])
    BY <1>5 DEF KeptInv, Sound
  <2>3. CASE op[q].db # op[p].db
    BY <1>3, <2>1, <2>2, <2>3 DEF Index
  <2>4. CASE op[q].db = op[p].db
    <3>1. Rewrites(Index(q), now) \/ (Index(q).schema = "old" /\ op[q].kind # "migrate")
      BY <1>5, <2>4 DEF Index, KeptInv, MigrationsDoNotOverlap
    <3>2. Kept(op[q], now)
      BY <2>1, <2>2, <3>1, RewritesKeep
    <3> QED BY <1>3, <2>1, <2>4, <3>2
  <2> QED BY <2>3, <2>4
<1>6. \A q \in Processes : op'[q] # Idle => Kept(op'[q], Index(q)')
  <2>1. Kept(next, db'[next.db])
    BY <1>1, <1>3
  <2> QED BY <1>2, <1>5, <2>1 DEF Index
<1>7. \A d \in Databases : IsCurrent(db'[d]) => OfThisAnalysis(db'[d].states, db'[d].rows)
  BY <1>3 DEF KeptInv
<1> QED BY <1>4, <1>6, <1>7 DEF KeptInv

LEMMA StepIsKept ==
    ASSUME KeptInv, NEW p \in Processes, Step(p)
    PROVE  KeptInv'
<1> DEFINE call == op[p]
           index == Index(p)
<1>1. Sound' /\ op[p] # Idle
  BY StepIsSound DEF KeptInv, Step, InspectionStep, QueryStep, RefreshStep, MigrationStep, InspectMetadata,
     LoadFileStates, LoadSymbols, InspectHealth, QueryMetadata, AnswerQuery, ValidateIndex, Collect,
     EnsureTables, LoadStoredStates, LoadStoredSymbols, ReadSources, Persist, Preflight, Recheck,
     MigrateSchema, Expire, At
<1>2. /\ call \in Call /\ call.db \in Databases /\ index \in Database
      /\ CallIsSound(call) /\ Kept(call, index)
      /\ IsCurrent(index) => OfThisAnalysis(index.states, index.rows)
  BY <1>1, AtCall DEF KeptInv, Sound, Index
<1>3. ASSUME NEW next, Continue(p, next), UNCHANGED <<disk, db, clock, calm>>,
             next \in Call, next.kind = call.kind, next.db = call.db, Kept(next, index)
      PROVE  KeptInv'
  BY <1>1, <1>3, QuietStepKeeps
<1>4. ASSUME NEW says \in Findings \ {"answered"}, Return(p, says), UNCHANGED <<disk, db, clock, calm>>
      PROVE  KeptInv'
  BY <1>2, <1>3, <1>4, EndedType, EndedIsKept DEF Return
<1>5. CASE InspectMetadata(p)
  <2> DEFINE next == [call EXCEPT !.pc = "file states", !.says = Advice(index), !.count = index.count]
  <2>1. Advice(index) \in Findings \ {"answered"}
    BY <1>2 DEF Advice, Findings, Database, Schemas
  <2>2. call.kind # "query"
    BY <1>5 DEF InspectMetadata
  <2>3. next \in Call /\ next.kind = call.kind /\ next.db = call.db /\ next.pc = "file states"
    BY <1>2, <2>1 DEF Call, Phases, Database
  <2>4. Kept(next, index)
    BY <2>2, <2>3 DEF Kept, IndexIsKept, LoadsAreOfThisAnalysis
  <2> QED BY <1>3, <1>4, <1>5, <2>1, <2>3, <2>4 DEF InspectMetadata
<1>6. CASE LoadFileStates(p)
  <2> DEFINE next == [call EXCEPT !.pc = "symbols", !.states = index.states]
  <2>1. next \in Call /\ next.kind = call.kind /\ next.db = call.db /\ next.pc = "symbols"
        /\ next.states = index.states
    BY <1>2 DEF Call, Phases, Database
  <2>2. call.kind = "query" => IsCurrent(index)
    BY <1>2, <1>6 DEF LoadFileStates, At, Kept, IndexIsKept
  <2>3. Kept(next, index)
    BY <1>2, <2>1, <2>2 DEF Kept, IndexIsKept, LoadsAreOfThisAnalysis
  <2> QED BY <1>3, <1>6, <2>1, <2>3 DEF LoadFileStates
<1>7. CASE LoadSymbols(p)
  <2> DEFINE next == [call EXCEPT !.pc = IF call.kind = "query" THEN "answer" ELSE "health",
                                  !.rows = index.rows]
  <2>1. next \in Call /\ next.kind = call.kind /\ next.db = call.db /\ next.states = call.states
        /\ next.rows = index.rows /\ next.pc = IF call.kind = "query" THEN "answer" ELSE "health"
    BY <1>2 DEF Call, Phases, Database
  <2>2. call.kind = "query" => IsCurrent(index) /\ OfThisAnalysis(call.states, index.rows)
    BY <1>2, <1>7 DEF LoadSymbols, At, Kept, IndexIsKept, LoadsAreOfThisAnalysis
  <2>3. Kept(next, index)
    BY <2>1, <2>2 DEF Kept, IndexIsKept, LoadsAreOfThisAnalysis
  <2> QED BY <1>3, <1>7, <2>1, <2>3 DEF LoadSymbols
<1>8. CASE InspectHealth(p)
  <2>1. PICK says \in Findings \ {"answered"} : Report(p, says)
    BY <1>2, <1>8 DEF Call, InspectHealth, At, CallIsSound, Findings
  <2> DEFINE ended == Ended(call, says)
             next == [ended EXCEPT !.count = call.count, !.states = call.states]
  <2>2. /\ ended \in Call /\ ended.kind = call.kind /\ ended.db = call.db
        /\ ended.pc = "done" /\ ended.says = says
    BY <1>2, EndedType
  <2> HIDE DEF ended
  <2>3. next \in Call /\ next.kind = call.kind /\ next.db = call.db
        /\ next.pc = "done" /\ next.says # "answered"
    BY <1>2, <2>1, <2>2 DEF Call
  <2>4. Kept(next, index)
    BY <2>3 DEF Kept, IndexIsKept, LoadsAreOfThisAnalysis
  <2> QED BY <1>3, <1>8, <2>1, <2>3, <2>4 DEF InspectHealth, Report, ended
<1>9. CASE QueryMetadata(p)
  <2> DEFINE next == [call EXCEPT !.pc = "file states", !.count = index.count]
  <2>1. next \in Call /\ next.kind = call.kind /\ next.db = call.db /\ next.pc = "file states"
    BY <1>2 DEF Call, Phases, Database
  <2>2. IsCurrent(index) => Kept(next, index)
    BY <2>1 DEF Kept, IndexIsKept, LoadsAreOfThisAnalysis
  <2> QED BY <1>3, <1>4, <1>9, <2>1, <2>2 DEF QueryMetadata, Findings
<1>10. CASE AnswerQuery(p)
  <2> DEFINE ended == Ended(call, "answered")
             next == [ended EXCEPT !.rows = call.rows]
  <2>1. ended \in Call /\ ended.pc = "done" /\ ended.kind = call.kind /\ ended.db = call.db
    BY <1>2, EndedType DEF Findings
  <2>2. OfThisAnalysis(call.states, call.rows)
    BY <1>2, <1>10 DEF AnswerQuery, At, Kept, LoadsAreOfThisAnalysis
  <2>3. IsHealthy(call) => \A f \in Files : call.rows[f] # Absent => call.rows[f].current
    BY <2>2 DEF IsHealthy, PathsAreValid, OfThisAnalysis
  <2> HIDE DEF ended
  <2>4. next \in Call /\ next.kind = call.kind /\ next.db = call.db /\ next.pc = "done"
        /\ next.rows = call.rows
    BY <1>2, <2>1 DEF Call
  <2>5. IsHealthy(call) => Kept(next, index)
    BY <2>3, <2>4 DEF Kept, IndexIsKept, LoadsAreOfThisAnalysis
  <2> QED BY <1>3, <1>4, <1>10, <2>4, <2>5 DEF AnswerQuery, Answer, Findings, ended
<1>11. CASE ValidateIndex(p)
  <2> DEFINE next == [call EXCEPT !.pc = "collect"]
  <2>1. next \in Call /\ next.kind = call.kind /\ next.db = call.db /\ next.pc = "collect"
    BY <1>2 DEF Call, Phases
  <2>2. index.schema = "missing" \/ IsCurrent(index) => Kept(next, index)
    BY <2>1 DEF Kept, IndexIsKept, LoadsAreOfThisAnalysis, MayBeRewritten
  <2> QED BY <1>3, <1>4, <1>11, <2>1, <2>2 DEF ValidateIndex, Findings
<1>12. CASE Collect(p)
  <2>1. ASSUME NEW found \in Scans(call.db, call.limit)
        PROVE  LET next == [call EXCEPT !.pc = "tables", !.found = found]
               IN  /\ next \in Call /\ next.kind = call.kind /\ next.db = call.db
                   /\ Kept(next, index)
    <3> DEFINE next == [call EXCEPT !.pc = "tables", !.found = found]
    <3>1. found \in SUBSET Files
      BY <1>2, LifecycleAssumption DEF Scans, SourceFiles
    <3>2. next \in Call /\ next.kind = call.kind /\ next.db = call.db /\ next.pc = "tables"
      BY <1>2, <3>1 DEF Call, Phases
    <3>3. Kept(next, index)
      BY <1>2, <1>12, <3>2 DEF Kept, IndexIsKept, LoadsAreOfThisAnalysis, Collect, At
    <3> QED BY <3>2, <3>3
  <2> QED BY <1>3, <1>4, <1>12, <2>1 DEF Collect, Findings
<1>13. CASE EnsureTables(p)
  <2> DEFINE next == [call EXCEPT !.pc = "stored states"]
             now == IF index.schema = "missing" THEN Unfinished ELSE index
  <2>1. next \in Call /\ next.kind = call.kind /\ next.db = call.db /\ next.pc = "stored states"
    BY <1>2 DEF Call, Phases
  <2>2. now \in Database /\ Rewrites(index, now) /\ MayBeRewritten(now)
    BY <1>2, <1>13, ConstantIndexTypes
       DEF EnsureTables, At, Kept, IndexIsKept, Rewrites, MayBeRewritten
  <2>3. IsCurrent(now) => OfThisAnalysis(now.states, now.rows)
    BY <1>2 DEF IsCurrent, Unfinished
  <2>4. db' = [db EXCEPT ![call.db] = now] /\ Continue(p, next)
    BY <1>13 DEF EnsureTables, Index
  <2> HIDE DEF next, now
  <2>5. Kept(next, now)
    BY <2>1, <2>2 DEF Kept, IndexIsKept, LoadsAreOfThisAnalysis
  <2> QED BY <1>1, <2>1, <2>2, <2>3, <2>4, <2>5, WritingStepKeeps
<1>14. CASE LoadStoredStates(p)
  <2> DEFINE next == [call EXCEPT !.pc = "stored symbols", !.states = index.states]
  <2>1. next \in Call /\ next.kind = call.kind /\ next.db = call.db /\ next.pc = "stored symbols"
        /\ next.states = index.states
    BY <1>2 DEF Call, Phases, Database
  <2>2. MayBeRewritten(index)
    BY <1>2, <1>14 DEF LoadStoredStates, At, Kept, IndexIsKept
  <2>3. OfThisAnalysis(index.states, index.rows)
    <3>1. CASE index = Unfinished
      BY <3>1 DEF Unfinished, NoSources, OfThisAnalysis
    <3> QED BY <1>2, <2>2, <3>1 DEF MayBeRewritten
  <2>4. Kept(next, index)
    BY <2>1, <2>2, <2>3 DEF Kept, IndexIsKept, LoadsAreOfThisAnalysis
  <2> QED BY <1>3, <1>14, <2>1, <2>4 DEF LoadStoredStates
<1>15. CASE LoadStoredSymbols(p)
  <2> DEFINE next == [call EXCEPT !.pc = "read", !.rows = index.rows]
  <2>1. next \in Call /\ next.kind = call.kind /\ next.db = call.db /\ next.pc = "read"
        /\ next.states = call.states /\ next.rows = index.rows
    BY <1>2 DEF Call, Phases, Database
  <2>2. MayBeRewritten(index) /\ OfThisAnalysis(call.states, index.rows)
    BY <1>2, <1>15 DEF LoadStoredSymbols, At, Kept, IndexIsKept, LoadsAreOfThisAnalysis
  <2>3. Kept(next, index)
    BY <2>1, <2>2 DEF Kept, IndexIsKept, LoadsAreOfThisAnalysis
  <2> QED BY <1>3, <1>15, <2>1, <2>3 DEF LoadStoredSymbols
<1>16. CASE ReadSources(p)
  <2> DEFINE read == [f \in Files |-> IF f \in call.found THEN disk[f] ELSE Absent]
             next == [call EXCEPT !.pc = "persist", !.now = read]
  <2>1. read \in Sources
    BY DEF Sources, KeptInv, Sound, TypeOK
  <2> HIDE DEF read
  <2>2. next \in Call /\ next.kind = call.kind /\ next.db = call.db /\ next.pc = "persist"
        /\ next.states = call.states /\ next.rows = call.rows
    BY <1>2, <2>1 DEF Call, Phases
  <2>3. Kept(next, index)
    BY <1>2, <1>16, <2>2 DEF ReadSources, At, Kept, IndexIsKept, LoadsAreOfThisAnalysis
  <2> QED BY <1>3, <1>4, <1>16, <2>2, <2>3 DEF ReadSources, Findings, read
<1>17. CASE Persist(p)
  <2> DEFINE now == [schema |-> "current", provenance |-> TRUE, count |-> Cardinality(call.found),
                     states |-> call.now, rows |-> RowsOf(call)]
             ended(says) == Ended(call, says)
             next == IF call.kind = "migrate" THEN [ended("none") EXCEPT !.pc = "metadata"]
                     ELSE ended("refreshed")
  <2>1. call.now \in Sources /\ call.found \subseteq Files /\ call.pc = "persist"
    BY <1>2, <1>17 DEF Call, Persist, At
  <2>2. /\ Stored(call.now) = call.found
        /\ OfThisAnalysis(call.states, call.rows)
        /\ MayBeRewritten(index)
    BY <1>2, <2>1 DEF CallIsSound, Kept, IndexIsKept, LoadsAreOfThisAnalysis
  <2>3. RowsOf(call) \in Rows /\ Cardinality(call.found) \in Nat
    BY <1>2, <2>1, <2>2, RowsOfType, SubsetsAreCounted DEF Stored
  <2>4. \A f \in Files : RowsOf(call)[f] # Absent => RowsOf(call)[f].current
    BY <1>2, <2>2, RowsOfThisAnalysis
  <2>5. now \in Database /\ IsCurrent(now) /\ now.rows = RowsOf(call)
    BY <2>1, <2>3 DEF Database, Schemas, IsCurrent
  <2>6. ASSUME NEW says \in Findings
        PROVE  ended(says) \in Call /\ ended(says).kind = call.kind /\ ended(says).db = call.db
               /\ ended(says).says = says /\ ended(says).pc = "done"
    BY <1>2, EndedType
  <2>7. db' = [db EXCEPT ![call.db] = now] /\ Continue(p, next)
    BY <1>17 DEF Persist, Commit, Return
  <2> HIDE DEF now, ended
  <2>8. next \in Call /\ next.kind = call.kind /\ next.db = call.db
        /\ (next.pc = "metadata" \/ (next.pc = "done" /\ next.says = "refreshed"))
    BY <2>6 DEF Call, Phases, Findings
  <2> HIDE DEF next
  <2>9. Kept(next, now)
    BY <2>8 DEF Kept, IndexIsKept, LoadsAreOfThisAnalysis
  <2>10. Rewrites(index, now) /\ OfThisAnalysis(now.states, now.rows)
    BY <2>2, <2>4, <2>5 DEF Rewrites, OfThisAnalysis
  <2> QED BY <1>1, <2>5, <2>7, <2>8, <2>9, <2>10, WritingStepKeeps
<1>18. CASE Preflight(p)
  <2> DEFINE next == [call EXCEPT !.pc = "recheck"]
  <2>1. next \in Call /\ next.kind = call.kind /\ next.db = call.db /\ next.pc = "recheck"
    BY <1>2 DEF Call, Phases
  <2>2. Kept(next, index)
    BY <2>1 DEF Kept, IndexIsKept, LoadsAreOfThisAnalysis
  <2> QED BY <1>3, <1>4, <1>18, <2>1, <2>2 DEF Preflight, Findings
<1>19. CASE Recheck(p)
  <2> DEFINE next == [call EXCEPT !.pc = "schema"]
  <2>1. next \in Call /\ next.kind = call.kind /\ next.db = call.db /\ next.pc = "schema"
    BY <1>2 DEF Call, Phases
  <2>2. index.schema = "old" => Kept(next, index)
    BY <2>1 DEF Kept, IndexIsKept, LoadsAreOfThisAnalysis
  <2> QED BY <1>3, <1>4, <1>19, <2>1, <2>2 DEF Recheck, Findings
<1>20. CASE MigrateSchema(p)
  <2> DEFINE now == Emptied(index)
             next == [call EXCEPT !.pc = "validate", !.deadline = 0, !.limit = DefaultMaxFiles]
  <2>1. DefaultMaxFiles \in 1 .. ScanCap
    BY LifecycleAssumption
  <2>2. next \in Call /\ next.kind = call.kind /\ next.db = call.db /\ next.pc = "validate"
    BY <1>2, <2>1 DEF Call, Phases
  <2>3. now \in Database /\ OfThisAnalysis(now.states, now.rows)
    BY <1>2, EmptiedType DEF Emptied, OfThisAnalysis, NoSources
  <2>4. call.kind = "migrate" /\ index.schema = "old"
    BY <1>2, <1>20 DEF MigrateSchema, At, CallIsSound, Kept, IndexIsKept
  <2>5. db' = [db EXCEPT ![call.db] = now] /\ Continue(p, next)
    BY <1>20 DEF MigrateSchema, Commit
  <2> HIDE DEF now, next
  <2>6. Kept(next, now)
    BY <2>2 DEF Kept, IndexIsKept, LoadsAreOfThisAnalysis
  <2> QED BY <1>1, <2>2, <2>3, <2>4, <2>5, <2>6, WritingStepKeeps
<1>21. CASE Expire(p)
  BY <1>4, <1>21 DEF Expire, Findings
<1> QED BY <1>5, <1>6, <1>7, <1>8, <1>9, <1>10, <1>11, <1>12, <1>13, <1>14, <1>15, <1>16, <1>17, <1>18,
          <1>19, <1>20, <1>21 DEF Step, InspectionStep, QueryStep, RefreshStep, MigrationStep

LEMMA StartIsKept ==
    ASSUME KeptInv, Sound', OneMigration = TRUE, NEW p \in Processes, NEW kind \in Kinds,
           NEW d \in Databases, NEW limit \in 1 .. ScanCap, NEW deadline \in Nat,
           Start(p, kind, d, limit, deadline)
    PROVE  KeptInv'
<1> DEFINE new == NewCall(kind, d, limit, deadline)
<1>1. new.kind = kind /\ new.pc \in {"metadata", "validate", "preflight"}
  BY DEF NewCall, FirstPhase, Kinds
<1> HIDE DEF new
<1>2. op' = [op EXCEPT ![p] = new] /\ db' = db /\ (kind = "migrate" => ~Overlaps(p))
  BY DEF Start, Continue, new
<1>3. op \in [Processes -> Call \cup {Idle}]
  BY DEF KeptInv, Sound, TypeOK
<1>4. \A q \in Processes : op'[q] = IF q = p THEN new ELSE op[q]
  BY <1>2, <1>3
<1>5. MigrationsDoNotOverlap'
  BY <1>1, <1>2, <1>4 DEF KeptInv, MigrationsDoNotOverlap, Overlaps
<1>6. \A index : Kept(new, index)
  BY <1>1 DEF Kept, IndexIsKept, LoadsAreOfThisAnalysis
<1>7. \A q \in Processes : op'[q] # Idle => Kept(op'[q], Index(q)')
  BY <1>2, <1>4, <1>6 DEF KeptInv, Index
<1> QED BY <1>2, <1>5, <1>7 DEF KeptInv

LEMMA OtherStepIsKept ==
    ASSUME KeptInv, Sound',
           (\E p \in Processes : Fail(p) \/ Leave(p)) \/ Elsewhere \/ Pass \/ UNCHANGED vars
    PROVE  KeptInv'
<1>0. op \in [Processes -> Call \cup {Idle}] /\ db \in [Databases -> Database]
  BY DEF KeptInv, Sound, TypeOK
<1>1. ASSUME NEW p \in Processes, Fail(p) PROVE KeptInv'
  <2> DEFINE next == Ended(op[p], "failed")
  <2>1. op[p] # Idle /\ op[p] \in Call
    BY <1>0, <1>1 DEF Fail
  <2>2. next \in Call /\ next.kind = op[p].kind /\ next.db = op[p].db /\ Kept(next, Index(p))
    BY <2>1, EndedType, EndedIsKept DEF Findings
  <2>3. Continue(p, next) /\ db' = db
    BY <1>1 DEF Fail, Return
  <2> HIDE DEF next
  <2> QED BY <2>1, <2>2, <2>3, QuietStepKeeps
<1>2. ASSUME NEW p \in Processes, Leave(p) PROVE KeptInv'
  <2>1. db' = db /\ \A q \in Processes : op'[q] = IF q = p THEN Idle ELSE op[q]
    BY <1>0, <1>2 DEF Leave, Continue
  <2> QED BY <2>1 DEF KeptInv, MigrationsDoNotOverlap, Index
<1>3. CASE UNCHANGED <<db, op>>
  BY <1>3 DEF KeptInv, MigrationsDoNotOverlap, Index
<1>4. ASSUME NEW d \in Databases, DeleteDatabase(d) PROVE KeptInv'
  <2>1. op' = op /\ \A e \in Databases : db'[e] = IF e = d THEN Missing ELSE db[e]
    BY <1>0, <1>4 DEF DeleteDatabase
  <2>2. \A p \in Processes : op[p] # Idle => op[p].db # d /\ op[p].db \in Databases
    BY <1>0, <1>4 DEF DeleteDatabase, Call
  <2>3. ~IsCurrent(Missing)
    BY DEF IsCurrent, Missing, Unfinished
  <2> QED BY <2>1, <2>2, <2>3 DEF KeptInv, MigrationsDoNotOverlap, Index
<1> QED BY <1>1, <1>2, <1>3, <1>4 DEF Elsewhere, ExternalWrite, Pass, vars

LEMMA InitIsKept == Init => KeptInv
<1> SUFFICES ASSUME Init PROVE KeptInv
  OBVIOUS
<1>1. op = [p \in Processes |-> Idle]
  BY DEF Init
<1>2. ASSUME NEW d \in Databases, IsCurrent(db[d])
      PROVE  OfThisAnalysis(db[d].states, db[d].rows)
  <2>1. Leftover(db[d])
    BY DEF Init
  <2>2. \A f \in Files : db[d].rows[f] = Derived(db[d].states[f])
    BY <1>2, <2>1 DEF Leftover
  <2>3. ASSUME NEW f \in Files, db[d].rows[f] # Absent PROVE db[d].rows[f].current
    <3>1. db[d].rows[f] = [text |-> db[d].states[f], current |-> TRUE]
      BY <2>2, <2>3 DEF Derived
    <3> QED BY <3>1
  <2> QED BY <2>3 DEF OfThisAnalysis
<1> QED BY <1>1, <1>2, InitIsSound DEF KeptInv, MigrationsDoNotOverlap

LEMMA NextIsKept ==
    ASSUME OneMigration = TRUE
    PROVE  KeptInv /\ [Next]_vars => KeptInv'
<1> SUFFICES ASSUME KeptInv, [Next]_vars PROVE KeptInv'
  OBVIOUS
<1>1. Sound'
  BY NextIsSound DEF KeptInv
<1>2. ASSUME NEW p \in Processes, NEW kind \in Kinds, NEW d \in Databases, NEW limit \in 1 .. ScanCap,
             NEW deadline \in Nat, Start(p, kind, d, limit, deadline)
      PROVE  KeptInv'
  BY <1>1, <1>2, StartIsKept
<1>3. ASSUME NEW p \in Processes, Step(p) PROVE KeptInv'
  BY <1>3, StepIsKept
<1> QED BY <1>1, <1>2, <1>3, OtherStepIsKept DEF Next

\* A query never answers with rows another analysis left: the states and the
\* rows it loads at two moments are those of a current index at both, and an
\* index without states has no rows that pass for valid.  Nothing is assumed
\* of what commits between the loads.
THEOREM AnswersAreSound == ASSUME OneMigration = TRUE PROVE Spec => []AnswersAreOfThisAnalysis
<1>1. KeptInv => AnswersAreOfThisAnalysis
  BY DEF KeptInv, Kept, LoadsAreOfThisAnalysis, AnswersAreOfThisAnalysis, Finished
<1>2. KeptInv /\ [Next]_vars => KeptInv'
  BY NextIsKept
<1> QED BY <1>1, <1>2, InitIsKept, PTL DEF Spec
-----------------------------------------------------------------------------
(* The life of the database files.                                         *)

LEMMA StageType == ASSUME NEW index \in Database PROVE Stage(index) \in Life!Stages
BY DEF Stage, Database, Schemas, Life!Stages

\* A step that changes the stage of one index, and only as IndexLife lets it.
LEMMA StageStep ==
    ASSUME NEW d \in Databases, NEW now, db \in [Databases -> Database],
           db' = [db EXCEPT ![d] = now],
           \/ Stage(now) = Stage(db[d])
           \/ Stage(db[d]) = "missing" /\ Stage(now) = "unfinished"
           \/ Stage(db[d]) \in {"unfinished", "emptied", "indexed"} /\ Stage(now) = "indexed"
           \/ Stage(db[d]) = "old" /\ Stage(now) \in {"emptied", "indexed"}
           \/ Stage(now) = "missing"
    PROVE  [Life!Next]_([e \in Databases |-> Stage(db[e])])
<1> DEFINE stage == [e \in Databases |-> Stage(db[e])]
           after == [e \in Databases |-> Stage(db'[e])]
<1>1. after = [stage EXCEPT ![d] = Stage(now)]
  OBVIOUS
<1>2. stage[d] = Stage(db[d])
  OBVIOUS
<1>3. CASE Stage(now) = Stage(db[d])
  BY <1>1, <1>2, <1>3
<1>4. CASE Stage(db[d]) = "missing" /\ Stage(now) = "unfinished"
  BY <1>1, <1>2, <1>4 DEF Life!Next, Life!Create, Life!Becomes
<1>5. CASE Stage(db[d]) \in {"unfinished", "emptied", "indexed"} /\ Stage(now) = "indexed"
  BY <1>1, <1>2, <1>5 DEF Life!Next, Life!Publish, Life!Becomes
<1>6. CASE Stage(db[d]) = "old" /\ Stage(now) \in {"emptied", "indexed"}
  BY <1>1, <1>2, <1>6 DEF Life!Next, Life!Migrate, Life!Becomes
<1>7. CASE Stage(now) = "missing"
  BY <1>1, <1>2, <1>7 DEF Life!Next, Life!Delete, Life!Becomes
<1> QED BY <1>3, <1>4, <1>5, <1>6, <1>7

\* What a step does to the stages of the databases.
LEMMA LifeStep ==
    ASSUME KeptInv, [Next]_vars
    PROVE  [Life!Next]_([d \in Databases |-> Stage(db[d])])
<1>0. db \in [Databases -> Database] /\ op \in [Processes -> Call \cup {Idle}]
  BY DEF KeptInv, Sound, TypeOK
<1>1. ASSUME db' = db
      PROVE  [Life!Next]_([d \in Databases |-> Stage(db[d])])
  BY <1>1
<1>2. ASSUME NEW p \in Processes, EnsureTables(p)
      PROVE  [Life!Next]_([d \in Databases |-> Stage(db[d])])
  <2> DEFINE now == IF Index(p).schema = "missing" THEN Unfinished ELSE Index(p)
  <2>1. op[p].db \in Databases /\ db' = [db EXCEPT ![op[p].db] = now]
    BY <1>0, <1>2 DEF EnsureTables, At, Call, Index
  <2>2. Index(p).schema = "missing" => Stage(Index(p)) = "missing" /\ Stage(now) = "unfinished"
    BY DEF Stage, Unfinished
  <2>3. Index(p).schema # "missing" => Stage(now) = Stage(Index(p))
    OBVIOUS
  <2> HIDE DEF now
  <2> QED BY <1>0, <2>1, <2>2, <2>3, StageStep DEF Index
<1>3. ASSUME NEW p \in Processes, Persist(p)
      PROVE  [Life!Next]_([d \in Databases |-> Stage(db[d])])
  <2> DEFINE now == [schema |-> "current", provenance |-> TRUE, count |-> Cardinality(op[p].found),
                     states |-> op[p].now, rows |-> RowsOf(op[p])]
  <2>1. op[p] # Idle /\ op[p].pc = "persist" /\ op[p].db \in Databases
    BY <1>0, <1>3 DEF Persist, At, Call
  <2>2. Stored(op[p].now) = op[p].found /\ MayBeRewritten(Index(p))
    BY <2>1 DEF KeptInv, Sound, CallIsSound, Kept, IndexIsKept
  <2>3. Stage(now) = "indexed"
    BY <2>2 DEF Stage
  <2>4. db' = [db EXCEPT ![op[p].db] = now]
    BY <1>3 DEF Persist, Commit
  <2>5. Stage(Index(p)) \in {"unfinished", "emptied", "indexed"}
    BY <2>2 DEF Stage, MayBeRewritten, IsCurrent, Unfinished
  <2> HIDE DEF now
  <2> QED BY <1>0, <2>1, <2>3, <2>4, <2>5, StageStep DEF Index
<1>4. ASSUME NEW p \in Processes, MigrateSchema(p)
      PROVE  [Life!Next]_([d \in Databases |-> Stage(db[d])])
  <2> DEFINE now == Emptied(Index(p))
  <2>1. op[p] # Idle /\ op[p].pc = "schema" /\ op[p].db \in Databases
    BY <1>0, <1>4 DEF MigrateSchema, At, Call
  <2>2. Index(p).schema = "old"
    BY <2>1 DEF KeptInv, Kept, IndexIsKept
  <2>3. Stage(now) \in {"emptied", "indexed"}
    BY DEF Stage, Emptied
  <2>4. db' = [db EXCEPT ![op[p].db] = now]
    BY <1>4 DEF MigrateSchema, Commit
  <2>5. Stage(Index(p)) = "old"
    BY <2>2 DEF Stage
  <2> HIDE DEF now
  <2> QED BY <1>0, <2>1, <2>3, <2>4, <2>5, StageStep DEF Index
<1>5. ASSUME NEW d \in Databases, DeleteDatabase(d)
      PROVE  [Life!Next]_([e \in Databases |-> Stage(db[e])])
  <2>1. Stage(Missing) = "missing"
    BY DEF Stage, Missing, Unfinished
  <2>2. db' = [db EXCEPT ![d] = Missing]
    BY <1>5 DEF DeleteDatabase
  <2> QED BY <1>0, <2>1, <2>2, StageStep
<1>6. ASSUME NEW p \in Processes, Step(p), ~EnsureTables(p), ~Persist(p), ~MigrateSchema(p)
      PROVE  db' = db
  BY <1>6 DEF Step, InspectionStep, QueryStep, RefreshStep, MigrationStep, InspectMetadata, LoadFileStates,
     LoadSymbols, InspectHealth, QueryMetadata, AnswerQuery, ValidateIndex, Collect, LoadStoredStates,
     LoadStoredSymbols, ReadSources, Preflight, Recheck, Expire
<1>7. ASSUME NEW p \in Processes, NEW kind \in Kinds, NEW d \in Databases, NEW limit \in 1 .. ScanCap,
             NEW deadline \in Nat, Start(p, kind, d, limit, deadline)
      PROVE  db' = db
  BY <1>7 DEF Start
<1>8. ASSUME NEW p \in Processes, Fail(p) \/ Leave(p) PROVE db' = db
  BY <1>8 DEF Fail, Leave
<1>9. ASSUME NEW f \in Files, ExternalWrite(f) PROVE db' = db
  BY <1>9 DEF ExternalWrite
<1>10. CASE Pass \/ UNCHANGED vars
  BY <1>1, <1>10 DEF Pass, vars
<1> QED BY <1>1, <1>2, <1>3, <1>4, <1>5, <1>6, <1>7, <1>8, <1>9, <1>10 DEF Next, Elsewhere

\* The program creates, upgrades and rewrites only the databases IndexLife
\* lets it: a rebuild validates the index before it scans and writes much
\* later, but no other call makes of it meanwhile what a rebuild must leave,
\* as long as migrations do not overlap.
THEOREM LifecycleImplementsLife == ASSUME OneMigration = TRUE PROVE Spec => LifeSpec
<1>1. Init => Life!Init
  <2> SUFFICES ASSUME Init PROVE Life!Init
    OBVIOUS
  <2>1. \A d \in Databases : db[d] \in Database
    BY DEF Init
  <2> QED BY <2>1, StageType DEF Life!Init
<1>2. KeptInv /\ [Next]_vars => [Life!Next]_([d \in Databases |-> Stage(db[d])])
  BY LifeStep
<1>3. KeptInv /\ [Next]_vars => KeptInv'
  BY NextIsKept
<1> QED BY <1>1, <1>2, <1>3, InitIsKept, PTL DEF Spec, LifeSpec, Life!Spec
-----------------------------------------------------------------------------
(* Rows under fingerprints, for every index of which no rebuild has loaded  *)
(* states and rows of two commits.                                         *)

\* Rows are what this analysis finds in the texts the states name.
Pairs(states, rows) == \A f \in Stored(states) : rows[f] # Absent => rows[f] = Derived(states[f])

LoadsPair(call, index) ==
    /\ call.pc = "stored symbols" => Pairs(call.states, index.rows)
    /\ call.pc \in {"read", "persist"} => Pairs(call.states, call.rows)

PairsInv ==
    /\ KeptInv
    /\ \A p \in Processes : op[p] # Idle /\ op[p].db \notin torn => LoadsPair(op[p], Index(p))
    /\ FingerprintedRowsAreDerived

\* A rebuild that has loaded pairs stores, for each file, the rows of the text
\* it has read, whether it reuses rows or derives them.
LEMMA RowsOfPairs ==
    ASSUME NEW call \in Call, Pairs(call.states, call.rows), Stored(call.now) = call.found
    PROVE  \A f \in Files : RowsOf(call)[f] = Derived(call.now[f])
<1> SUFFICES ASSUME NEW f \in Files PROVE RowsOf(call)[f] = Derived(call.now[f])
  OBVIOUS
<1>1. CASE f \notin call.found
  BY <1>1 DEF RowsOf, Derived, Stored
<1>2. CASE f \in call.found /\ Reuses(call, f)
  <2>1. call.states[f] = call.now[f] /\ call.now[f] # Absent /\ call.rows[f] # Absent
    BY <1>2 DEF Reuses, Stored
  <2> QED BY <1>2, <2>1 DEF RowsOf, Pairs, Stored
<1>3. CASE f \in call.found /\ ~Reuses(call, f)
  BY <1>3 DEF RowsOf, Derived, Stored
<1> QED BY <1>1, <1>2, <1>3

\* What a step that writes no index must leave of the call.
LEMMA QuietStepPairs ==
    ASSUME PairsInv, KeptInv', NEW p \in Processes, NEW next, Continue(p, next),
           db' = db, torn' = torn,
           next # Idle /\ next.db \notin torn => LoadsPair(next, db[next.db])
    PROVE  PairsInv'
<1>1. op \in [Processes -> Call \cup {Idle}]
  BY DEF PairsInv, KeptInv, Sound, TypeOK
<1>2. \A q \in Processes : op'[q] = IF q = p THEN next ELSE op[q]
  BY <1>1 DEF Continue
<1>3. \A q \in Processes : op'[q] # Idle /\ op'[q].db \notin torn' => LoadsPair(op'[q], Index(q)')
  BY <1>2 DEF PairsInv, Index
<1>4. FingerprintedRowsAreDerived'
  BY DEF PairsInv, FingerprintedRowsAreDerived
<1> QED BY <1>3, <1>4 DEF PairsInv

LEMMA MissingIsNotRewritten ==
    ASSUME NEW index, index.schema = "missing" PROVE ~MayBeRewritten(index)
BY DEF MayBeRewritten, IsCurrent, Unfinished

\* What a step that writes the index of its call must see to.  If a rebuild
\* has loaded only the states of what it replaces, the index is torn from now on.
LEMMA WritingStepPairs ==
    ASSUME PairsInv, KeptInv', NEW p \in Processes, op[p] # Idle, NEW next, NEW now,
           Continue(p, next), db' = [db EXCEPT ![op[p].db] = now], torn \subseteq torn',
           next.pc \notin {"stored symbols", "read", "persist"},
           now = Index(p) \/ Index(p).schema = "missing" \/ ~BetweenLoads(p) \/ op[p].db \in torn',
           op[p].db \notin torn /\ IsCurrent(now) =>
               \A f \in Stored(now.states) : now.rows[f] = Derived(now.states[f])
    PROVE  PairsInv'
<1>1. op \in [Processes -> Call \cup {Idle}] /\ db \in [Databases -> Database] /\ op[p].db \in Databases
  BY AtCall DEF PairsInv, KeptInv, Sound, TypeOK
<1>2. \A q \in Processes : op'[q] = IF q = p THEN next ELSE op[q]
  BY <1>1 DEF Continue
<1>3. \A d \in Databases : db'[d] = IF d = op[p].db THEN now ELSE db[d]
  BY <1>1
<1>4. ASSUME NEW q \in Processes, q # p, op[q] # Idle, op[q].db \notin torn'
      PROVE  LoadsPair(op[q], db'[op[q].db])
  <2>1. op[q].db \in Databases /\ LoadsPair(op[q], Index(q)) /\ Kept(op[q], Index(q))
    BY <1>1, <1>4 DEF PairsInv, KeptInv, Call
  <2>2. CASE op[q].db # op[p].db \/ now = Index(p)
    <3>1. db'[op[q].db] = Index(q)
      BY <1>3, <2>1, <2>2 DEF Index
    <3> QED BY <2>1, <3>1
  <2>3. CASE op[q].db = op[p].db /\ now # Index(p)
    <3>1. op[q].pc # "stored symbols"
      <4>1. CASE Index(p).schema = "missing"
        <5>1. Index(q) = Index(p)
          BY <2>3 DEF Index
        <5>2. ~MayBeRewritten(Index(p))
          BY <4>1, MissingIsNotRewritten
        <5> QED BY <2>1, <5>1, <5>2 DEF Kept, IndexIsKept
      <4>2. CASE ~BetweenLoads(p)
        BY <1>4, <2>3, <4>2 DEF BetweenLoads
      <4> QED BY <1>4, <2>3, <4>1, <4>2
    <3> QED BY <2>1, <3>1 DEF LoadsPair
  <2> QED BY <2>2, <2>3
<1>5. \A q \in Processes : op'[q] # Idle /\ op'[q].db \notin torn' => LoadsPair(op'[q], Index(q)')
  <2>1. LoadsPair(next, db'[next.db])
    BY DEF LoadsPair
  <2> QED BY <1>2, <1>4, <2>1 DEF Index
<1>6. FingerprintedRowsAreDerived'
  <2>1. ASSUME NEW d \in Databases \ torn', IsCurrent(db'[d])
        PROVE  \A f \in Stored(db'[d].states) : db'[d].rows[f] = Derived(db'[d].states[f])
    <3>1. CASE d = op[p].db
      <4>1. db'[d] = now /\ op[p].db \notin torn
        BY <1>3, <3>1
      <4> QED BY <2>1, <4>1
    <3>2. CASE d # op[p].db
      <4>1. db'[d] = db[d] /\ d \in Databases \ torn
        BY <1>3, <3>2
      <4> QED BY <2>1, <4>1 DEF PairsInv, FingerprintedRowsAreDerived
    <3> QED BY <3>1, <3>2
  <2> QED BY <2>1 DEF FingerprintedRowsAreDerived
<1> QED BY <1>5, <1>6 DEF PairsInv

LEMMA StepPairs ==
    ASSUME PairsInv, KeptInv', NEW p \in Processes, Step(p)
    PROVE  PairsInv'
<1> DEFINE call == op[p]
           index == Index(p)
           Elsewhen(next) == next.pc \notin {"stored symbols", "read", "persist"}
<1>1. op[p] # Idle
  BY DEF Step, InspectionStep, QueryStep, RefreshStep, MigrationStep, InspectMetadata, LoadFileStates,
     LoadSymbols, InspectHealth, QueryMetadata, AnswerQuery, ValidateIndex, Collect, EnsureTables,
     LoadStoredStates, LoadStoredSymbols, ReadSources, Persist, Preflight, Recheck, MigrateSchema, Expire, At
<1>2. /\ call \in Call /\ call.db \in Databases /\ index \in Database
      /\ CallIsSound(call) /\ Kept(call, index)
      /\ call.db \notin torn => LoadsPair(call, index)
      /\ call.db \notin torn /\ IsCurrent(index) =>
            \A f \in Stored(index.states) : index.rows[f] = Derived(index.states[f])
  BY <1>1, AtCall DEF PairsInv, KeptInv, Sound, FingerprintedRowsAreDerived, Index
<1>3. ASSUME NEW next, Continue(p, next), UNCHANGED <<disk, db, clock, calm, torn>>, Elsewhen(next)
      PROVE  PairsInv'
  BY <1>3, QuietStepPairs DEF LoadsPair
<1>4. ASSUME NEW says \in Findings, Return(p, says), UNCHANGED <<disk, db, clock, calm, torn>>
      PROVE  PairsInv'
  BY <1>2, <1>3, <1>4, EndedType DEF Return
<1>5. CASE InspectMetadata(p)
  <2> DEFINE next == [call EXCEPT !.pc = "file states", !.says = Advice(index), !.count = index.count]
  <2>1. Advice(index) \in Findings
    BY <1>2 DEF Advice, Findings, Database, Schemas
  <2>2. Elsewhen(next)
    BY <1>2 DEF Call
  <2> QED BY <1>3, <1>4, <1>5, <2>1, <2>2 DEF InspectMetadata
<1>6. CASE LoadFileStates(p)
  <2>1. Elsewhen([call EXCEPT !.pc = "symbols", !.states = index.states])
    BY <1>2 DEF Call
  <2> QED BY <1>3, <1>6, <2>1 DEF LoadFileStates
<1>7. CASE LoadSymbols(p)
  <2>1. Elsewhen([call EXCEPT !.pc = IF call.kind = "query" THEN "answer" ELSE "health",
                              !.rows = index.rows])
    BY <1>2 DEF Call
  <2> QED BY <1>3, <1>7, <2>1 DEF LoadSymbols
<1>8. CASE InspectHealth(p)
  <2>1. PICK says \in Findings : Report(p, says)
    BY <1>2, <1>8 DEF InspectHealth, Call, Findings
  <2> DEFINE ended == Ended(call, says)
             next == [ended EXCEPT !.count = call.count, !.states = call.states]
  <2>2. ended \in Call /\ ended.pc = "done"
    BY <1>2, EndedType
  <2> HIDE DEF ended
  <2>3. Elsewhen(next)
    BY <2>2 DEF Call
  <2> QED BY <1>3, <1>8, <2>1, <2>3 DEF InspectHealth, Report, ended
<1>9. CASE QueryMetadata(p)
  <2>1. Elsewhen([call EXCEPT !.pc = "file states", !.count = index.count])
    BY <1>2 DEF Call
  <2> QED BY <1>3, <1>4, <1>9, <2>1 DEF QueryMetadata, Findings
<1>10. CASE AnswerQuery(p)
  <2> DEFINE ended == Ended(call, "answered")
  <2>1. ended \in Call /\ ended.pc = "done"
    BY <1>2, EndedType DEF Findings
  <2> HIDE DEF ended
  <2>2. Elsewhen([ended EXCEPT !.rows = call.rows])
    BY <2>1 DEF Call
  <2> QED BY <1>3, <1>4, <1>10, <2>2 DEF AnswerQuery, Answer, Findings, ended
<1>11. CASE ValidateIndex(p)
  <2>1. Elsewhen([call EXCEPT !.pc = "collect"])
    BY <1>2 DEF Call
  <2> QED BY <1>3, <1>4, <1>11, <2>1 DEF ValidateIndex, Findings
<1>12. CASE Collect(p)
  <2>1. \A found : Elsewhen([call EXCEPT !.pc = "tables", !.found = found])
    BY <1>2 DEF Call
  <2> QED BY <1>3, <1>4, <1>12, <2>1 DEF Collect, Findings
<1>13. CASE EnsureTables(p)
  <2> DEFINE next == [call EXCEPT !.pc = "stored states"]
             now == IF index.schema = "missing" THEN Unfinished ELSE index
  <2>1. Elsewhen(next)
    BY <1>2 DEF Call
  <2>2. call.db \notin torn /\ IsCurrent(now) =>
            \A f \in Stored(now.states) : now.rows[f] = Derived(now.states[f])
    BY <1>2 DEF IsCurrent, Unfinished
  <2>3. db' = [db EXCEPT ![call.db] = now] /\ Continue(p, next) /\ torn \subseteq torn'
    BY <1>13 DEF EnsureTables, Index
  <2>4. now = index \/ index.schema = "missing"
    OBVIOUS
  <2> HIDE DEF next, now
  <2> QED BY <1>1, <2>1, <2>2, <2>3, <2>4, WritingStepPairs
<1>14. CASE LoadStoredStates(p)
  <2> DEFINE next == [call EXCEPT !.pc = "stored symbols", !.states = index.states]
  <2>1. next.pc = "stored symbols" /\ next.states = index.states /\ next.db = call.db
    BY <1>2 DEF Call
  <2>2. MayBeRewritten(index)
    BY <1>2, <1>14 DEF LoadStoredStates, At, Kept, IndexIsKept
  <2>3. call.db \notin torn => Pairs(index.states, index.rows)
    <3>1. CASE index = Unfinished
      BY <3>1 DEF Unfinished, NoSources, Pairs, Stored
    <3> QED BY <1>2, <2>2, <3>1 DEF MayBeRewritten, Pairs
  <2> HIDE DEF next
  <2>4. next.db \notin torn => LoadsPair(next, db[next.db])
    BY <2>1, <2>3 DEF LoadsPair, Index
  <2> QED BY <1>14, <2>4, QuietStepPairs DEF LoadStoredStates, next
<1>15. CASE LoadStoredSymbols(p)
  <2> DEFINE next == [call EXCEPT !.pc = "read", !.rows = index.rows]
  <2>1. /\ next.pc = "read" /\ next.db = call.db
        /\ next.states = call.states /\ next.rows = index.rows
    BY <1>2 DEF Call
  <2>2. call.db \notin torn => Pairs(call.states, index.rows)
    BY <1>2, <1>15 DEF LoadStoredSymbols, At, LoadsPair
  <2> HIDE DEF next
  <2>3. next.db \notin torn => LoadsPair(next, db[next.db])
    BY <2>1, <2>2 DEF LoadsPair
  <2> QED BY <1>15, <2>3, QuietStepPairs DEF LoadStoredSymbols, next
<1>16. CASE ReadSources(p)
  <2> DEFINE read == [f \in Files |-> IF f \in call.found THEN disk[f] ELSE Absent]
             next == [call EXCEPT !.pc = "persist", !.now = read]
  <2> HIDE DEF read
  <2>1. /\ next.pc = "persist" /\ next.db = call.db
        /\ next.states = call.states /\ next.rows = call.rows
    BY <1>2 DEF Call
  <2>2. call.db \notin torn => Pairs(call.states, call.rows)
    BY <1>2, <1>16 DEF ReadSources, At, LoadsPair
  <2> HIDE DEF next
  <2>3. next.db \notin torn => LoadsPair(next, db[next.db])
    BY <2>1, <2>2 DEF LoadsPair
  <2> QED BY <1>4, <1>16, <2>3, QuietStepPairs DEF ReadSources, next, read, Findings
<1>17. CASE Persist(p)
  <2> DEFINE now == [schema |-> "current", provenance |-> TRUE, count |-> Cardinality(call.found),
                     states |-> call.now, rows |-> RowsOf(call)]
             ended(says) == Ended(call, says)
             next == IF call.kind = "migrate" THEN [ended("none") EXCEPT !.pc = "metadata"]
                     ELSE ended("refreshed")
  <2>1. /\ call.pc = "persist" /\ Stored(call.now) = call.found
        /\ call.db \notin torn => Pairs(call.states, call.rows)
    BY <1>2, <1>17 DEF Persist, At, CallIsSound, LoadsPair
  <2>2. call.db \notin torn => \A f \in Files : RowsOf(call)[f] = Derived(call.now[f])
    BY <1>2, <2>1, RowsOfPairs
  <2>3. call.db \notin torn => \A f \in Stored(now.states) : now.rows[f] = Derived(now.states[f])
    BY <2>2 DEF Stored
  <2>4. \A says \in Findings : ended(says) \in Call /\ ended(says).pc = "done"
    BY <1>2, EndedType
  <2>5. /\ db' = [db EXCEPT ![call.db] = now] /\ Continue(p, next)
        /\ torn \subseteq torn' /\ (~BetweenLoads(p) \/ call.db \in torn')
    BY <1>17 DEF Persist, Commit, Return
  <2> HIDE DEF now, ended
  <2>6. Elsewhen(next)
    BY <2>4 DEF Call, Findings
  <2> HIDE DEF next
  <2> QED BY <1>1, <2>3, <2>5, <2>6, WritingStepPairs
<1>18. CASE Preflight(p)
  <2>1. Elsewhen([call EXCEPT !.pc = "recheck"])
    BY <1>2 DEF Call
  <2> QED BY <1>3, <1>4, <1>18, <2>1 DEF Preflight, Findings
<1>19. CASE Recheck(p)
  <2>1. Elsewhen([call EXCEPT !.pc = "schema"])
    BY <1>2 DEF Call
  <2> QED BY <1>3, <1>4, <1>19, <2>1 DEF Recheck, Findings
<1>20. CASE MigrateSchema(p)
  <2> DEFINE now == Emptied(index)
             next == [call EXCEPT !.pc = "validate", !.deadline = 0, !.limit = DefaultMaxFiles]
  <2>1. Elsewhen(next)
    BY <1>2 DEF Call
  <2>2. \A f \in Stored(now.states) : now.rows[f] = Derived(now.states[f])
    BY DEF Emptied, NoSources, Stored
  <2>3. /\ db' = [db EXCEPT ![call.db] = now] /\ Continue(p, next)
        /\ torn \subseteq torn' /\ (~BetweenLoads(p) \/ call.db \in torn')
    BY <1>20 DEF MigrateSchema, Commit
  <2> HIDE DEF now, next
  <2> QED BY <1>1, <2>1, <2>2, <2>3, WritingStepPairs
<1>21. CASE Expire(p)
  BY <1>4, <1>21 DEF Expire, Findings
<1> QED BY <1>5, <1>6, <1>7, <1>8, <1>9, <1>10, <1>11, <1>12, <1>13, <1>14, <1>15, <1>16, <1>17, <1>18,
          <1>19, <1>20, <1>21 DEF Step, InspectionStep, QueryStep, RefreshStep, MigrationStep

LEMMA NextPairs ==
    ASSUME OneMigration = TRUE
    PROVE  PairsInv /\ [Next]_vars => PairsInv'
<1> SUFFICES ASSUME PairsInv, [Next]_vars PROVE PairsInv'
  OBVIOUS
<1>1. KeptInv' /\ op \in [Processes -> Call \cup {Idle}] /\ db \in [Databases -> Database]
  BY NextIsKept DEF PairsInv, KeptInv, Sound, TypeOK
<1>2. ASSUME NEW p \in Processes, NEW kind \in Kinds, NEW d \in Databases, NEW limit \in 1 .. ScanCap,
             NEW deadline \in Nat, Start(p, kind, d, limit, deadline)
      PROVE  PairsInv'
  <2> DEFINE new == NewCall(kind, d, limit, deadline)
  <2>1. new.pc \in {"metadata", "validate", "preflight"}
    BY DEF NewCall, FirstPhase, Kinds
  <2>2. Continue(p, new) /\ db' = db /\ torn' = torn
    BY <1>2 DEF Start
  <2> HIDE DEF new
  <2>3. LoadsPair(new, db[new.db])
    BY <2>1 DEF LoadsPair
  <2> QED BY <1>1, <2>2, <2>3, QuietStepPairs
<1>3. ASSUME NEW p \in Processes, Step(p) PROVE PairsInv'
  BY <1>1, <1>3, StepPairs
<1>4. ASSUME NEW p \in Processes, Fail(p) PROVE PairsInv'
  <2> DEFINE next == Ended(op[p], "failed")
  <2>1. op[p] \in Call
    BY <1>1, <1>4 DEF Fail
  <2>2. next.pc = "done"
    BY <2>1, EndedType DEF Findings
  <2>3. Continue(p, next) /\ db' = db /\ torn' = torn
    BY <1>4 DEF Fail, Return
  <2> HIDE DEF next
  <2>4. LoadsPair(next, db[next.db])
    BY <2>2 DEF LoadsPair
  <2> QED BY <1>1, <2>3, <2>4, QuietStepPairs
<1>5. ASSUME NEW p \in Processes, Leave(p) PROVE PairsInv'
  BY <1>1, <1>5, QuietStepPairs DEF Leave
<1>6. ASSUME UNCHANGED <<db, op, torn>> PROVE PairsInv'
  BY <1>1, <1>6 DEF PairsInv, FingerprintedRowsAreDerived, Index
<1>7. ASSUME NEW d \in Databases, DeleteDatabase(d) PROVE PairsInv'
  <2>1. op' = op /\ torn' = torn /\ \A e \in Databases : db'[e] = IF e = d THEN Missing ELSE db[e]
    BY <1>1, <1>7 DEF DeleteDatabase
  <2>2. \A p \in Processes : op[p] # Idle => op[p].db # d /\ op[p].db \in Databases
    BY <1>1, <1>7 DEF DeleteDatabase, Call
  <2>3. ~IsCurrent(Missing)
    BY DEF IsCurrent, Missing, Unfinished
  <2>4. \A p \in Processes : op'[p] # Idle /\ op'[p].db \notin torn' => LoadsPair(op'[p], Index(p)')
    BY <2>1, <2>2 DEF PairsInv, Index
  <2>5. FingerprintedRowsAreDerived'
    BY <2>1, <2>3 DEF PairsInv, FingerprintedRowsAreDerived
  <2> QED BY <1>1, <2>4, <2>5 DEF PairsInv
<1> QED BY <1>2, <1>3, <1>4, <1>5, <1>6, <1>7 DEF Next, Elsewhere, ExternalWrite, Pass, vars

LEMMA InitPairs == Init => PairsInv
<1> SUFFICES ASSUME Init PROVE PairsInv
  OBVIOUS
<1>1. op = [p \in Processes |-> Idle] /\ \A d \in Databases : Leftover(db[d])
  BY DEF Init
<1>2. FingerprintedRowsAreDerived
  BY <1>1 DEF FingerprintedRowsAreDerived, Leftover, Stored
<1> QED BY <1>1, <1>2, InitIsKept DEF PairsInv

\* Rows stored under a fingerprint are what this analysis finds in the text
\* of that fingerprint, for every index but those of which a rebuild has loaded
\* states and rows with a commit between the two loads: such a rebuild pairs
\* fingerprints and rows of two commits.
THEOREM FingerprintedRowsDerived ==
    ASSUME OneMigration = TRUE
    PROVE  Spec => []FingerprintedRowsAreDerived
<1>1. PairsInv => FingerprintedRowsAreDerived
  BY DEF PairsInv
<1>2. PairsInv /\ [Next]_vars => PairsInv'
  BY NextPairs
<1> QED BY <1>1, <1>2, InitPairs, PTL DEF Spec

\* A refresh, the one of a migration included, stores the rows of the texts it
\* has read, with the same exception.
THEOREM RefreshesAreFaithful ==
    ASSUME OneMigration = TRUE
    PROVE  Spec => RefreshesStoreWhatTheyRead
<1>1. ASSUME PairsInv, NEW p \in Processes, Persist(p), op[p].db \notin torn, NEW f \in Files
      PROVE  db'[op[p].db].rows[f] = Derived(op[p].now[f])
  <2>1. op[p] # Idle /\ op[p].pc = "persist"
    BY <1>1 DEF Persist, At
  <2>2. op[p] \in Call /\ op[p].db \in Databases /\ CallIsSound(op[p]) /\ LoadsPair(op[p], Index(p))
    BY <1>1, <2>1, AtCall DEF PairsInv, KeptInv, Sound
  <2>3. RowsOf(op[p])[f] = Derived(op[p].now[f])
    BY <2>1, <2>2, RowsOfPairs DEF CallIsSound, LoadsPair
  <2>4. db'[op[p].db].rows = RowsOf(op[p])
    BY <1>1, <2>2 DEF Persist, Commit, PairsInv, KeptInv, Sound, TypeOK
  <2> QED BY <2>3, <2>4
<1>2. PairsInv /\ [Next]_vars =>
        [\A p \in Processes : Persist(p) /\ op[p].db \notin torn =>
            \A f \in Files : db'[op[p].db].rows[f] = Derived(op[p].now[f])]_vars
  BY <1>1
<1>3. PairsInv /\ [Next]_vars => PairsInv'
  BY NextPairs
<1> QED BY <1>2, <1>3, InitPairs, PTL DEF Spec, RefreshesStoreWhatTheyRead
=============================================================================
