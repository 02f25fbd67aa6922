--------------------------- MODULE TaskTable_proofs ---------------------------
(***************************************************************************)
(* Proofs about the agent's task table, for any set of tasks, any number   *)
(* of engines of one task and any number of crashes. A record can only be  *)
(* Executing without an engine between a crash and the end of the next     *)
(* syncTask (ExecutingIsTrue is inductive): Crash clears sync together     *)
(* with up and Boot sets both, and an engine that stops writing leaves an  *)
(* outcome in the record or the record in lost, whatever other engines     *)
(* write in between.                                                       *)
(***************************************************************************)
EXTENDS TaskTable, TLAPS

\* The status that a stage writes.
Statuses == {"Executing"} \cup Final

\* What a successful or failed write of one record does to the table.
Written(t) ==
    \/ \E s \in Statuses : /\ db' = [db EXCEPT ![t] = s]
                           /\ byRestart' \in {byRestart \cup {t}, byRestart \ {t}}
                           /\ lost' = lost \ {t}
    \/ WriteFails(t)
    \/ UNCHANGED record

\* What a step of a service or of an engine may touch.
Shape(t, e) ==
    /\ Written(t)
    /\ carry' \in {carry, carry \cup {<<t, e>>}, carry \ {<<t, e>>}}
    /\ \E stage \in Stages : mem' = [mem EXCEPT ![t][e] = stage]
    /\ UNCHANGED process

\* The steps of services and engines write one record, move one engine and leave the
\* process alone.
LEMMA EngineShape ==
  ASSUME NEW t \in Tasks, NEW e \in Engines, TypeOK, Service(t, e) \/ Engine(t, e)
  PROVE Shape(t, e)
<1> USE DEF Shape, Goto, UpdateTask, Write, Written, Statuses, Final, Stages, Starting, record
<1>1. CASE NewTask(t, e) BY <1>1 DEF NewTask
<1>2. CASE Drop(t, e) BY <1>2 DEF Drop
<1>3. CASE ReNewTask(t, e) BY <1>3 DEF ReNewTask
<1>4. CASE Reopen(t, e) BY <1>4 DEF Reopen
<1>5. CASE Announce(t, e) BY <1>5 DEF Announce
<1>6. CASE Amend(t, e) BY <1>6 DEF Amend
<1>7. CASE Execute(t, e) BY <1>7 DEF Execute
<1>8. CASE NextStep(t, e)
  <2>1. mem' = [mem EXCEPT ![t][e] = mem[t][e]] /\ mem[t][e] \in Stages BY <1>8 DEF NextStep, TypeOK
  <2> QED BY <1>8, <2>1 DEF NextStep
<1>9. ASSUME NEW s \in Final, Settle(t, e, s) PROVE Shape(t, e)
  BY <1>9 DEF Settle
<1>10. CASE End(t, e) BY <1>10 DEF End
<1> QED BY <1>1, <1>2, <1>3, <1>4, <1>5, <1>6, <1>7, <1>8, <1>9, <1>10 DEF Service, Engine

\* Every step of an engine, of a service, of the process or of syncTask keeps the types.
LEMMA TypeStep == TypeOK /\ [Next]_vars => TypeOK'
<1> SUFFICES ASSUME TypeOK, [Next]_vars PROVE TypeOK'
  OBVIOUS
<1> USE MaxCrashesAssumption DEF TypeOK
<1>1. ASSUME NEW t \in Tasks, NEW e \in Engines, Service(t, e) \/ Engine(t, e) PROVE TypeOK'
  <2>1. Shape(t, e) BY <1>1, EngineShape
  <2>2. db' \in [Tasks -> {"absent", "Executing"} \cup Final] /\ byRestart' \subseteq Tasks /\ lost' \subseteq Tasks
    BY <2>1 DEF Shape, Written, Statuses, WriteFails, record, Final
  <2>3. mem' \in [Tasks -> [Engines -> Stages]] BY <2>1 DEF Shape
  <2>4. carry' \subseteq Tasks \X Engines BY <2>1 DEF Shape
  <2>5. up' = up /\ sync' = sync /\ crashes' = crashes /\ hit' = hit BY <2>1 DEF Shape, process
  <2> QED BY <2>2, <2>3, <2>4, <2>5
<1>2. ASSUME NEW ids \in SUBSET Tasks, DeleteRecords(ids) PROVE TypeOK'
  BY <1>2 DEF DeleteRecords, process, Final
<1>3. CASE Crash
  <2>1. crashes' \in 0..MaxCrashes BY <1>3 DEF Crash, record
  <2>2. up' \in BOOLEAN /\ sync' \in BOOLEAN BY <1>3, Zenon DEF Crash, record
  <2>3. mem' \in [Tasks -> [Engines -> Stages]] BY <1>3 DEF Crash, Stages
  <2>4. hit' \in SUBSET Tasks /\ carry' \in SUBSET (Tasks \X Engines)
    BY <1>3, Zenon DEF Crash, record
  <2>5. db' = db /\ byRestart' = byRestart /\ lost' = lost BY <1>3, Zenon DEF Crash, record
  <2> QED BY <2>1, <2>2, <2>3, <2>4, <2>5, Zenon
<1>4. CASE Boot BY <1>4 DEF Boot, record
<1>5. CASE SyncForRestart BY <1>5 DEF SyncForRestart, Stale, Final
<1>6. CASE UNCHANGED vars BY <1>6 DEF vars, record, process
<1> QED BY <1>1, <1>2, <1>3, <1>4, <1>5, <1>6 DEF Next

\* The type invariant of the task table.
THEOREM TableTypeCorrect == Spec => []TypeOK
<1>1. Init => TypeOK BY MaxCrashesAssumption DEF Init, TypeOK, Stages
<1> QED BY <1>1, TypeStep, PTL DEF Spec

-----------------------------------------------------------------------------
(* Executing records. *)

\* An engine that stops being a writer leaves an outcome, or a record that is known to
\* be lost; one that is no writer yet does not touch the record.
LEMMA WriterLeaves ==
  ASSUME NEW t \in Tasks, NEW e \in Engines, TypeOK, Service(t, e) \/ Engine(t, e)
  PROVE \/ mem'[t][e] \in Writers
        \/ db'[t] # "Executing"
        \/ t \in lost'
        \/ UNCHANGED record /\ mem[t][e] \notin Writers
<1> USE DEF TypeOK, Goto, UpdateTask, Write, WriteFails, Final, Writers, record
<1>1. CASE NewTask(t, e) BY <1>1 DEF NewTask
<1>2. CASE Drop(t, e) BY <1>2 DEF Drop
<1>3. CASE ReNewTask(t, e) BY <1>3 DEF ReNewTask
<1>4. CASE Reopen(t, e) BY <1>4 DEF Reopen
<1>5. CASE Announce(t, e) BY <1>5 DEF Announce
<1>6. CASE Amend(t, e) BY <1>6 DEF Amend
<1>7. CASE Execute(t, e) BY <1>7 DEF Execute
<1>8. CASE NextStep(t, e) BY <1>8 DEF NextStep
<1>9. ASSUME NEW s \in Final, Settle(t, e, s) PROVE mem'[t][e] \in Writers
  BY <1>9 DEF Settle
<1>10. CASE End(t, e) BY <1>10 DEF End
<1> QED BY <1>1, <1>2, <1>3, <1>4, <1>5, <1>6, <1>7, <1>8, <1>9, <1>10 DEF Service, Engine

\* A step of one engine leaves the other engines and the other records alone.
LEMMA OthersKeep ==
  ASSUME NEW t \in Tasks, NEW e \in Engines, TypeOK, Service(t, e) \/ Engine(t, e)
  PROVE /\ \A u \in Tasks : u # t => /\ mem'[u] = mem[u]
                                   /\ db'[u] = db[u]
                                   /\ (u \in lost' <=> u \in lost)
                                   /\ (u \in byRestart' <=> u \in byRestart)
        /\ \A f \in Engines : f # e => mem'[t][f] = mem[t][f]
<1>1. Shape(t, e) BY EngineShape
<1>2. \A u \in Tasks : u # t => /\ db'[u] = db[u]
                             /\ (u \in lost' <=> u \in lost)
                             /\ (u \in byRestart' <=> u \in byRestart)
  BY <1>1 DEF Shape, Written, WriteFails, record, TypeOK
<1> QED BY <1>1, <1>2 DEF Shape, TypeOK

\* A record that says Executing is somebody's.
Claimed(t) ==
    db[t] = "Executing" => t \in lost \/ \E e \in Engines : mem[t][e] \in Writers

\* No step leaves a record Executing without an engine in a synchronised agent.
LEMMA ExecutingStep == TypeOK /\ ExecutingIsTrue /\ [Next]_vars => ExecutingIsTrue'
<1> SUFFICES ASSUME TypeOK, ExecutingIsTrue, [Next]_vars, up', ~ sync', NEW u \in Tasks
             PROVE Claimed(u)'
  BY DEF ExecutingIsTrue, Claimed
<1>1. ASSUME NEW t \in Tasks, NEW e \in Engines, Service(t, e) \/ Engine(t, e) PROVE Claimed(u)'
  <2>1. up /\ ~ sync BY <1>1, EngineShape DEF Shape, process
  <2>2. Claimed(u) BY <2>1 DEF ExecutingIsTrue, Claimed
  <2>3. CASE u # t BY <1>1, <2>2, <2>3, OthersKeep DEF Claimed
  <2>4. CASE u = t
    <3>1. CASE UNCHANGED record /\ mem[t][e] \notin Writers
      BY <1>1, <2>2, <2>4, <3>1, OthersKeep DEF Claimed, record
    <3> QED BY <1>1, <2>4, <3>1, WriterLeaves DEF Claimed
  <2> QED BY <2>3, <2>4
<1>2. ASSUME NEW ids \in SUBSET Tasks, DeleteRecords(ids) PROVE Claimed(u)'
  <2>1. Claimed(u) BY <1>2 DEF DeleteRecords, process, ExecutingIsTrue, Claimed
  <2>2. u \in ids => db'[u] = "absent" BY <1>2 DEF DeleteRecords
  <2>3. u \notin ids => db'[u] = db[u] /\ (u \in lost' <=> u \in lost) BY <1>2 DEF DeleteRecords
  <2>4. mem' = mem BY <1>2 DEF DeleteRecords
  <2> QED BY <2>1, <2>2, <2>3, <2>4 DEF Claimed
<1>3. CASE Crash BY <1>3 DEF Crash
<1>4. CASE Boot BY <1>4 DEF Boot
<1>5. CASE SyncForRestart
  <2>1. db'[u] # "Executing" \/ u \in lost' \/ (db'[u] = db[u] /\ db[u] # "Executing")
    BY <1>5 DEF SyncForRestart, Stale
  <2> QED BY <2>1 DEF Claimed
<1>6. CASE UNCHANGED vars
  <2>1. Claimed(u) BY <1>6 DEF vars, process, ExecutingIsTrue, Claimed
  <2> QED BY <1>6, <2>1 DEF vars, record, Claimed
<1> QED BY <1>1, <1>2, <1>3, <1>4, <1>5, <1>6 DEF Next

\* After the synchronisation of a boot, every record that says Executing has an engine
\* that has written it and will write it again, wherever the agent crashed and however
\* many engines share the record; only a failed save or outcome leaves one behind.
THEOREM ExecutingRecordsHaveAnEngine == Spec => []ExecutingIsTrue
<1>1. Init => ExecutingIsTrue BY DEF Init, ExecutingIsTrue
<1> QED BY <1>1, ExecutingStep, TableTypeCorrect, PTL DEF Spec

-----------------------------------------------------------------------------
(* Outcomes. *)

\* A restart never overwrites the outcome or the message of a task that has no engine:
\* only deleting the record or opening an engine of the same id does.
THEOREM OutcomesAreKept == Spec => OutcomeIsKept
<1> DEFINE Same(t) == db'[t] = db[t] /\ (t \in byRestart' <=> t \in byRestart)
           Kept == \A t \in Tasks : db[t] \in Final /\ Idle(t) =>
                      \/ db'[t] = "absent"
                      \/ db'[t] = db[t] /\ (t \in byRestart' <=> t \in byRestart)
<1>1. TypeOK /\ [Next]_vars => [Kept]_vars
  <2> SUFFICES ASSUME TypeOK, Next, NEW u \in Tasks, db[u] \in Final, Idle(u)
               PROVE db'[u] = "absent" \/ Same(u)
    OBVIOUS
  <2>1. ASSUME NEW t \in Tasks, NEW e \in Engines, Service(t, e) \/ Engine(t, e) PROVE Same(u)
    <3>1. CASE u # t BY <2>1, <3>1, OthersKeep
    <3>2. CASE u = t
      <4>1. mem[t][e] = "none" BY <3>2 DEF Idle
      <4>2. NewTask(t, e) \/ ReNewTask(t, e)
        BY <2>1, <4>1 DEF Service, Engine, Drop, Reopen, Announce, Amend, Execute, NextStep,
           Settle, End, Starting, Final
      <4> QED BY <3>2, <4>2 DEF NewTask, ReNewTask, record
    <3> QED BY <3>1, <3>2
  <2>2. ASSUME NEW ids \in SUBSET Tasks, DeleteRecords(ids) PROVE db'[u] = "absent" \/ Same(u)
    BY <2>2 DEF DeleteRecords, TypeOK
  <2>3. CASE Crash \/ Boot BY <2>3 DEF Crash, Boot, record
  <2>4. CASE SyncForRestart
    <3>1. db[u] # "Executing" BY DEF Final
    <3>2. db'[u] = db[u] BY <2>4, <3>1 DEF SyncForRestart, Stale, TypeOK
    <3>3. byRestart' = byRestart \/ byRestart' = byRestart \cup {t \in Tasks : db[t] = "Executing"}
      BY <2>4 DEF SyncForRestart, Stale
    <3> QED BY <3>1, <3>2, <3>3
  <2> QED BY <2>1, <2>2, <2>3, <2>4 DEF Next
<1> QED BY <1>1, TableTypeCorrect, PTL DEF Spec, OutcomeIsKept
=============================================================================
