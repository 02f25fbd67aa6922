--------------------------- MODULE AgentTask_proofs ---------------------------
(***************************************************************************)
(* Proofs about the task engine of the agent, for any number of subtasks   *)
(* and any options.  The engine does not wait for actions that time out,   *)
(* but it keeps its books: the ledger below says, in every stage of        *)
(* Task.Execute, which subtasks completed, which were undone and which are *)
(* still to be undone.  What it guarantees when it fails, how long it can  *)
(* be stopped, and that it implements TaskLifecycle follow from that.      *)
(***************************************************************************)
EXTENDS AgentTask, TLAPS

\* The subtasks listed by a sequence, and sequences that list none twice.
Elements(s) == {s[i] : i \in DOMAIN s}
Injective(s) == \A i, j \in DOMAIN s : s[i] = s[j] => i = j

\* The empty list: rollbacks, pending and undone start as it.
LEMMA EmptyList == \A S : <<>> \in Seq(S) /\ Elements(<<>>) = {} /\ Injective(<<>>)
BY DEF Elements, Injective

\* What append does to a list of subtasks: it adds one element, and keeps the list
\* free of repetitions when the element is new.
LEMMA AppendList ==
  ASSUME NEW S, NEW s \in Seq(S), NEW e \in S
  PROVE /\ Append(s, e) \in Seq(S)
        /\ Elements(Append(s, e)) = Elements(s) \cup {e}
        /\ Injective(s) /\ e \notin Elements(s) => Injective(Append(s, e))
BY DEF Elements, Injective

\* What taking the first subtask off a list does: the rest has all the other
\* elements, and no longer has the first one if there were no repetitions.
LEMMA TailList ==
  ASSUME NEW S, NEW s \in Seq(S), s # <<>>, Injective(s)
  PROVE /\ Head(s) \in Elements(s) /\ Tail(s) \in Seq(S)
        /\ Elements(Tail(s)) = Elements(s) \ {Head(s)}
        /\ Injective(Tail(s))
<1>1. Head(s) = s[1] /\ 1 \in DOMAIN s /\ Len(s) \in Nat \ {0} /\ DOMAIN s = 1..Len(s)
  OBVIOUS
<1>2. DOMAIN Tail(s) = 1..(Len(s) - 1) /\ \A i \in DOMAIN Tail(s) : Tail(s)[i] = s[i + 1]
  OBVIOUS
<1>3. Injective(Tail(s)) BY <1>1, <1>2 DEF Injective
<1>4. ASSUME NEW x \in Elements(Tail(s)) PROVE x \in Elements(s) \ {Head(s)}
  BY <1>1, <1>2, <1>4 DEF Elements, Injective
<1>5. ASSUME NEW x \in Elements(s) \ {Head(s)} PROVE x \in Elements(Tail(s))
  <2>1. PICK i \in DOMAIN s : x = s[i] BY <1>5 DEF Elements
  <2>2. i # 1 /\ i - 1 \in 1..(Len(s) - 1) /\ (i - 1) + 1 = i BY <1>1, <1>5, <2>1
  <2> QED BY <1>2, <2>1, <2>2 DEF Elements
<1> QED BY <1>1, <1>3, <1>4, <1>5 DEF Elements

\* The number of subtasks is a natural number, and so is a subtask's number of retries.
LEMMA Constants == N \in Nat /\ \A o \in Options : o.retry \in Nat
BY OptionsAssumption

\* What Task.Execute and SubTask.Execute have at hand, and what they have done.
ControlType ==
    /\ opts \in [Steps -> Options]
    /\ pc \in {"save", "next", "attempt", "running", "decide", "returned", "undo",
               "finish", "ended"}
    /\ step \in 0..N
    /\ pc \notin {"save", "next", "finish", "ended"} => step \in Steps
    /\ attempt \in Nat
    /\ step \in Steps => attempt <= opts[step].retry
    /\ err \in SUBSET Causes
    /\ registered \in BOOLEAN
    /\ loaded \in BOOLEAN
    /\ tctx \in {"live", "canceled"}

EffectType ==
    /\ running \in SUBSET (Steps \X Nat)
    /\ abandoned \in SUBSET (Steps \X Nat)
    /\ stuck \in SUBSET (Steps \X Nat)
    /\ rollbacks \in Seq(Steps)
    /\ pending \in Seq(Steps)
    /\ status \in {"Executing", "Success", "Failed", "Canceled"}
    /\ saved \in {"none", "Executing", "Success", "Failed", "Canceled"}
    /\ done \in SUBSET Steps
    /\ undone \in Seq(Steps)

\* The two halves are the type invariant.
LEMMA TypeParts == TypeOK <=> ControlType /\ EffectType
BY DEF TypeOK, ControlType, EffectType

\* Every step keeps the control state in its type.
LEMMA ControlTypeStep == ControlType /\ EffectType /\ [Next]_vars => ControlType'
<1> SUFFICES ASSUME ControlType, EffectType, [Next]_vars PROVE ControlType'
  OBVIOUS
<1> USE Constants DEF ControlType, Steps, Causes
<1>1. CASE Save BY <1>1 DEF Save
<1>2. CASE SaveFails BY <1>2 DEF SaveFails
<1>3. CASE NextSubTask
  <2>1. step' \in 1..N /\ attempt' = 0 /\ err' = {} /\ pc' = "attempt"
    BY <1>3 DEF NextSubTask
  <2>2. UNCHANGED <<opts, registered, loaded, tctx>> BY <1>3 DEF NextSubTask
  <2>3. opts[step'].retry \in Nat BY <2>1
  <2> QED BY <2>1, <2>2, <2>3
<1>4. CASE StartAttempt BY <1>4 DEF StartAttempt
<1>5. CASE RetryAttempt
  <2>1. step \in 1..N /\ opts[step].retry \in Nat BY <1>5 DEF RetryAttempt
  <2>2. attempt + 1 <= opts[step].retry BY <1>5, <2>1 DEF RetryAttempt, LastAttempt
  <2>3. attempt' = attempt + 1 /\ pc' = "attempt" /\ UNCHANGED <<opts, step, err, registered, loaded, tctx>>
    BY <1>5 DEF RetryAttempt
  <2> QED BY <2>1, <2>2, <2>3
<1>6. CASE GiveUp BY <1>6 DEF GiveUp, LastAttempt
<1>7. CASE Succeed BY <1>7 DEF Succeed, RegisteredAfterReturn
<1>8. CASE Ignore BY <1>8 DEF Ignore, RegisteredAfterReturn
<1>9. CASE Fail BY <1>9 DEF Fail, RegisteredAfterReturn, ToUndo
<1>10. CASE RunRollback BY <1>10 DEF RunRollback
<1>11. CASE RollbacksDone BY <1>11 DEF RollbacksDone, UpdateTask
<1>12. CASE AllSubTasksDone BY <1>12 DEF AllSubTasksDone
<1>13. CASE Finish BY <1>13 DEF Finish, UpdateTask
<1>14. CASE Timeout BY <1>14 DEF Timeout
<1>15. CASE LoadTaskCancel \/ Cancel \/ LoseRegistration
  BY <1>15 DEF LoadTaskCancel, Cancel, LoseRegistration
<1>16. ASSUME NEW result \in Results, ActionReturns(result) PROVE ControlType'
  BY <1>16 DEF ActionReturns, Results
<1>17. ASSUME NEW action \in running, AbandonedReturns(action) PROVE ControlType'
  BY <1>17 DEF AbandonedReturns
<1>18. CASE UNCHANGED vars BY <1>18 DEF vars
<1> QED
  BY <1>1, <1>2, <1>3, <1>4, <1>5, <1>6, <1>7, <1>8, <1>9,
     <1>10, <1>11, <1>12, <1>13, <1>14, <1>15, <1>16, <1>17, <1>18
     DEF Next, Engine

\* Every step keeps the record of effects in its type.
LEMMA EffectTypeStep == ControlType /\ EffectType /\ [Next]_vars => EffectType'
<1> SUFFICES ASSUME ControlType, EffectType, [Next]_vars PROVE EffectType'
  OBVIOUS
<1>0. step \in Steps => <<step, attempt>> \in Steps \X Nat BY DEF ControlType
<1> USE DEF EffectType
<1>1. CASE Save BY <1>1 DEF Save
<1>2. CASE SaveFails BY <1>2 DEF SaveFails
<1>3. CASE NextSubTask BY <1>3 DEF NextSubTask, UpdateTask
<1>4. CASE StartAttempt
  <2>1. step \in Steps BY <1>4 DEF StartAttempt, ControlType
  <2> QED BY <1>4, <1>0, <2>1 DEF StartAttempt
<1>5. CASE RetryAttempt BY <1>5 DEF RetryAttempt, LastAttempt
<1>6. CASE GiveUp
  <2>1. step \in Steps BY <1>6 DEF GiveUp, ControlType
  <2>2. undone' \in Seq(Steps) BY <1>6, <2>1, AppendList DEF GiveUp
  <2> QED BY <1>6, <2>2 DEF GiveUp
<1>7. CASE Succeed
  <2>1. step \in Steps BY <1>7 DEF Succeed, ControlType
  <2>2. rollbacks' \in Seq(Steps) BY <1>7, <2>1, AppendList DEF Succeed
  <2> QED BY <1>7, <2>1, <2>2 DEF Succeed
<1>8. CASE Ignore BY <1>8 DEF Ignore, RegisteredAfterReturn
<1>9. CASE Fail BY <1>9 DEF Fail, RegisteredAfterReturn, ToUndo
<1>10. CASE RunRollback BY <1>10 DEF RunRollback
<1>11. CASE RollbacksDone BY <1>11 DEF RollbacksDone, UpdateTask
<1>12. CASE AllSubTasksDone BY <1>12 DEF AllSubTasksDone
<1>13. CASE Finish BY <1>13 DEF Finish, UpdateTask
<1>14. CASE Timeout
  <2>1. step \in Steps BY <1>14 DEF Timeout, ControlType
  <2> QED BY <1>14, <1>0, <2>1 DEF Timeout
<1>15. CASE LoadTaskCancel \/ Cancel \/ LoseRegistration
  BY <1>15 DEF LoadTaskCancel, Cancel, LoseRegistration
<1>16. ASSUME NEW result \in Results, ActionReturns(result) PROVE EffectType'
  BY <1>16 DEF ActionReturns, Results
<1>17. ASSUME NEW action \in running, AbandonedReturns(action) PROVE EffectType'
  BY <1>17 DEF AbandonedReturns
<1>18. CASE UNCHANGED vars BY <1>18 DEF vars
<1> QED
  BY <1>1, <1>2, <1>3, <1>4, <1>5, <1>6, <1>7, <1>8, <1>9,
     <1>10, <1>11, <1>12, <1>13, <1>14, <1>15, <1>16, <1>17, <1>18
     DEF Next, Engine

\* A task made by NewTask or ReNewTask and AddSubTask has the right type.
LEMMA TypeInit == Init => ControlType /\ EffectType
<1> SUFFICES ASSUME Init PROVE ControlType /\ EffectType
  OBVIOUS
<1>1. registered \in BOOLEAN /\ loaded \in BOOLEAN BY DEF Init
<1>2. opts \in [Steps -> Options] /\ pc = "save" /\ step = 0 /\ attempt = 0 /\ err = {} /\ tctx = "live"
  BY DEF Init
<1>3. step \in 0..N /\ step \notin Steps BY <1>2, Constants DEF Steps
<1>4. ControlType BY <1>1, <1>2, <1>3 DEF ControlType
<1>5. EffectType BY EmptyList DEF Init, EffectType
<1> QED BY <1>4, <1>5

\* The type invariant of the agent's task engine, in its two halves.
LEMMA TypesHold == Safety => [](ControlType /\ EffectType)
<1>1. ControlType /\ EffectType /\ [Next]_vars => (ControlType /\ EffectType)'
  BY ControlTypeStep, EffectTypeStep
<1> QED BY TypeInit, <1>1, PTL DEF Safety

-----------------------------------------------------------------------------
(* Which actions execute beside the engine. *)

\* Only a timeout leaves an action behind.
LEMMA StragglersStep == ControlType /\ StragglersTimedOut /\ [Next]_vars => StragglersTimedOut'
<1> SUFFICES ASSUME ControlType, StragglersTimedOut, [Next]_vars PROVE StragglersTimedOut'
  OBVIOUS
<1> USE DEF StragglersTimedOut
<1>1. CASE Save BY <1>1 DEF Save
<1>2. CASE SaveFails BY <1>2 DEF SaveFails
<1>3. CASE NextSubTask BY <1>3 DEF NextSubTask, UpdateTask
<1>4. CASE StartAttempt BY <1>4 DEF StartAttempt
<1>5. CASE RetryAttempt BY <1>5 DEF RetryAttempt, LastAttempt
<1>6. CASE GiveUp BY <1>6 DEF GiveUp, LastAttempt
<1>7. CASE Succeed BY <1>7 DEF Succeed, RegisteredAfterReturn
<1>8. CASE Ignore BY <1>8 DEF Ignore, RegisteredAfterReturn
<1>9. CASE Fail BY <1>9 DEF Fail, RegisteredAfterReturn, ToUndo
<1>10. CASE RunRollback BY <1>10 DEF RunRollback
<1>11. CASE RollbacksDone BY <1>11 DEF RollbacksDone, UpdateTask
<1>12. CASE AllSubTasksDone BY <1>12 DEF AllSubTasksDone
<1>13. CASE Finish BY <1>13 DEF Finish, UpdateTask
<1>14. CASE Timeout BY <1>14 DEF Timeout
<1>15. CASE LoadTaskCancel \/ Cancel \/ LoseRegistration
  BY <1>15 DEF LoadTaskCancel, Cancel, LoseRegistration
<1>16. ASSUME NEW result \in Results, ActionReturns(result) PROVE StragglersTimedOut'
  BY <1>16 DEF ActionReturns, Results
<1>17. ASSUME NEW action \in running, AbandonedReturns(action) PROVE StragglersTimedOut'
  BY <1>17 DEF AbandonedReturns
<1>18. CASE UNCHANGED vars BY <1>18 DEF vars
<1> QED
  BY <1>1, <1>2, <1>3, <1>4, <1>5, <1>6, <1>7, <1>8, <1>9,
     <1>10, <1>11, <1>12, <1>13, <1>14, <1>15, <1>16, <1>17, <1>18
     DEF Next, Engine

-----------------------------------------------------------------------------
(***************************************************************************)
(* The ledger: what the status, the error, the completed, the undone and   *)
(* the listed subtasks are in each stage of Task.Execute.                  *)
(***************************************************************************)
Undone == Elements(undone)
Early == pc \notin {"undo", "finish", "ended"}

\* Nothing is settled before the failure path or the end, only an attempt that
\* failed is decided upon, and the cancel function is registered until the first
\* subtask returns.
StatusLedger ==
    /\ Early => status = "Executing"
    /\ pc = "undo" => status \in {"Failed", "Canceled"}
    /\ pc = "decide" => err # {}
    /\ pc = "save" => step = 0
    /\ registered => step <= 1 /\ done = {} /\ (pc = "next" => step = 0)

\* The subtasks are taken in order. The one at hand has not completed and, unless
\* it has failed, is not undone.
OrderLedger ==
    /\ \A s \in done \cup Undone : s <= step
    /\ pc \in {"attempt", "running", "decide"} => step \notin done \cup Undone
    /\ pc = "returned" => step \notin done /\ (err = {} => step \notin Undone)
    /\ Early => done \cap Undone = {}

\* Task.Rollbacks lists the completed subtasks that can be undone, once each; the
\* failure path works off that list.
RollbackLedger ==
    /\ Early => /\ Injective(rollbacks)
                /\ Elements(rollbacks) = {s \in done : opts[s].rollback}
    /\ pc = "undo" => /\ Injective(pending)
                      /\ Elements(pending) \subseteq done \ Undone
                      /\ \A s \in done : opts[s].rollback => s \in Undone \cup Elements(pending)
    /\ pc \in {"finish", "ended"} /\ status \in {"Failed", "Canceled"} =>
          \A s \in done : opts[s].rollback => s \in Undone

Types == ControlType /\ EffectType
Ledger == StatusLedger /\ OrderLedger /\ RollbackLedger

\* Every step keeps what the status, the error and the registry say of the stage.
LEMMA StatusStep == Types /\ Ledger /\ [Next]_vars => StatusLedger'
<1> SUFFICES ASSUME Types, Ledger, [Next]_vars PROVE StatusLedger'
  OBVIOUS
<1>0. step \in 0..N /\ N \in Nat BY Constants DEF Types, ControlType
<1> USE <1>0 DEF Ledger, StatusLedger, Early
<1>1. CASE Save BY <1>1 DEF Save
<1>2. CASE SaveFails BY <1>2 DEF SaveFails
<1>3. CASE NextSubTask BY <1>3 DEF NextSubTask, UpdateTask
<1>4. CASE StartAttempt BY <1>4 DEF StartAttempt
<1>5. CASE RetryAttempt BY <1>5 DEF RetryAttempt, LastAttempt
<1>6. CASE GiveUp BY <1>6 DEF GiveUp, LastAttempt
<1>7. CASE Succeed BY <1>7 DEF Succeed, RegisteredAfterReturn
<1>8. CASE Ignore BY <1>8 DEF Ignore, RegisteredAfterReturn
<1>9. CASE Fail
  <2>1. status' \in {"Failed", "Canceled"} /\ ~ registered' /\ pc' = "undo"
    BY <1>9 DEF Fail, RegisteredAfterReturn
  <2> QED BY <2>1
<1>10. CASE RunRollback BY <1>10 DEF RunRollback
<1>11. CASE RollbacksDone BY <1>11 DEF RollbacksDone, UpdateTask
<1>12. CASE AllSubTasksDone BY <1>12 DEF AllSubTasksDone
<1>13. CASE Finish BY <1>13 DEF Finish, UpdateTask
<1>14. CASE Timeout BY <1>14 DEF Timeout
<1>15. CASE LoadTaskCancel \/ Cancel \/ LoseRegistration
  BY <1>15 DEF LoadTaskCancel, Cancel, LoseRegistration
<1>16. ASSUME NEW result \in Results, ActionReturns(result) PROVE StatusLedger'
  BY <1>16 DEF ActionReturns, Results
<1>17. ASSUME NEW action \in running, AbandonedReturns(action) PROVE StatusLedger'
  BY <1>17 DEF AbandonedReturns
<1>18. CASE UNCHANGED vars BY <1>18 DEF vars
<1> QED
  BY <1>1, <1>2, <1>3, <1>4, <1>5, <1>6, <1>7, <1>8, <1>9,
     <1>10, <1>11, <1>12, <1>13, <1>14, <1>15, <1>16, <1>17, <1>18
     DEF Next, Engine

\* Every step keeps the lists of completed and of undone subtasks consistent with
\* the subtask at hand.
LEMMA OrderStep == Types /\ Ledger /\ [Next]_vars => OrderLedger'
<1> SUFFICES ASSUME Types, Ledger, [Next]_vars PROVE OrderLedger'
  OBVIOUS
<1>0. step \in 0..N /\ N \in Nat /\ done \subseteq Steps /\ undone \in Seq(Steps)
  BY Constants DEF Types, ControlType, EffectType
<1> USE <1>0 DEF Ledger, OrderLedger, Early, Undone
<1>1. CASE Save BY <1>1 DEF Save
<1>2. CASE SaveFails BY <1>2 DEF SaveFails
<1>3. CASE NextSubTask
  <2>1. step' = step + 1 /\ Undone' = Undone /\ done' = done /\ pc = "next" /\ pc' = "attempt"
    BY <1>3 DEF NextSubTask
  <2>2. \A s \in done \cup Undone : s \in Nat /\ s <= step
    BY DEF Steps, Elements
  <2> HIDE DEF Undone
  <2> QED BY <2>1, <2>2
<1>4. CASE StartAttempt BY <1>4 DEF StartAttempt
<1>5. CASE RetryAttempt BY <1>5 DEF RetryAttempt, LastAttempt
<1>6. CASE GiveUp
  <2>1. step \in Steps /\ err # {} BY <1>6 DEF GiveUp, Types, ControlType, StatusLedger
  <2>2. Undone' = Undone \/ Undone' = Undone \cup {step} BY <1>6, <2>1, AppendList DEF GiveUp
  <2>3. UNCHANGED <<done, step, err>> /\ pc = "decide" /\ pc' = "returned" BY <1>6 DEF GiveUp
  <2> HIDE DEF Undone
  <2> QED BY <2>1, <2>2, <2>3
<1>7. CASE Succeed
  <2>1. Undone' = Undone /\ step' = step /\ done' = done \cup {step} /\ pc' = "next"
    BY <1>7 DEF Succeed
  <2>2. step \notin Undone /\ pc = "returned" BY <1>7 DEF Succeed
  <2> HIDE DEF Undone
  <2> QED BY <2>1, <2>2
<1>8. CASE Ignore BY <1>8 DEF Ignore, RegisteredAfterReturn
<1>9. CASE Fail BY <1>9 DEF Fail, RegisteredAfterReturn, ToUndo
<1>10. CASE RunRollback
  <2>1. Head(pending) \in done \ Undone
    BY <1>10, TailList DEF RunRollback, RollbackLedger, Types, EffectType
  <2>2. Undone' = Undone \cup {Head(pending)}
    BY <1>10, <2>1, AppendList DEF RunRollback
  <2>3. done' = done /\ step' = step /\ pc' = "undo" /\ pc = "undo" BY <1>10 DEF RunRollback
  <2> HIDE DEF Undone
  <2> QED BY <2>1, <2>2, <2>3
<1>11. CASE RollbacksDone BY <1>11 DEF RollbacksDone, UpdateTask
<1>12. CASE AllSubTasksDone BY <1>12 DEF AllSubTasksDone
<1>13. CASE Finish BY <1>13 DEF Finish, UpdateTask
<1>14. CASE Timeout BY <1>14 DEF Timeout
<1>15. CASE LoadTaskCancel \/ Cancel \/ LoseRegistration
  BY <1>15 DEF LoadTaskCancel, Cancel, LoseRegistration
<1>16. ASSUME NEW result \in Results, ActionReturns(result) PROVE OrderLedger'
  BY <1>16 DEF ActionReturns, Results
<1>17. ASSUME NEW action \in running, AbandonedReturns(action) PROVE OrderLedger'
  BY <1>17 DEF AbandonedReturns
<1>18. CASE UNCHANGED vars BY <1>18 DEF vars
<1> QED
  BY <1>1, <1>2, <1>3, <1>4, <1>5, <1>6, <1>7, <1>8, <1>9,
     <1>10, <1>11, <1>12, <1>13, <1>14, <1>15, <1>16, <1>17, <1>18
     DEF Next, Engine

\* Every step keeps the split of the completed subtasks into those undone and
\* those still to undo.
LEMMA RollbackStep == Types /\ Ledger /\ [Next]_vars => RollbackLedger'
<1> SUFFICES ASSUME Types, Ledger, [Next]_vars PROVE RollbackLedger'
  OBVIOUS
<1> USE DEF Ledger, RollbackLedger, StatusLedger, Early, Undone
<1>1. CASE Save BY <1>1 DEF Save
<1>2. CASE SaveFails BY <1>2 DEF SaveFails
<1>3. CASE NextSubTask BY <1>3 DEF NextSubTask, UpdateTask
<1>4. CASE StartAttempt BY <1>4 DEF StartAttempt
<1>5. CASE RetryAttempt BY <1>5 DEF RetryAttempt, LastAttempt
<1>6. CASE GiveUp
  <2>1. pc = "decide" /\ pc' = "returned" /\ UNCHANGED <<opts, rollbacks, done>> BY <1>6 DEF GiveUp
  <2> QED BY <2>1
<1>7. CASE Succeed
  <2>1. step \in Steps /\ step \notin done /\ rollbacks \in Seq(Steps)
    BY <1>7 DEF Succeed, Types, ControlType, EffectType, OrderLedger
  <2>2. pc = "returned" /\ pc' = "next" /\ opts' = opts /\ done' = done \cup {step}
    BY <1>7 DEF Succeed
  <2>3. step \notin Elements(rollbacks) BY <2>1, <2>2
  <2>4. CASE opts[step].rollback
    <3>1. rollbacks' = Append(rollbacks, step) BY <1>7, <2>4 DEF Succeed
    <3>2. Injective(rollbacks') /\ Elements(rollbacks') = Elements(rollbacks) \cup {step}
      BY <2>1, <2>2, <2>3, <3>1, AppendList
    <3> QED BY <2>1, <2>2, <2>4, <3>2
  <2>5. CASE ~ opts[step].rollback
    <3>1. rollbacks' = rollbacks BY <1>7, <2>5 DEF Succeed
    <3> QED BY <2>1, <2>2, <2>5, <3>1
  <2> QED BY <2>4, <2>5
<1>8. CASE Ignore BY <1>8 DEF Ignore, RegisteredAfterReturn
<1>9. CASE Fail
  <2>1. pc = "returned" /\ pc' = "undo" /\ pending' = rollbacks /\ UNCHANGED <<opts, done, undone>>
    BY <1>9 DEF Fail, ToUndo
  <2>2. done \cap Undone = {} BY <2>1 DEF OrderLedger
  <2> QED BY <2>1, <2>2
<1>10. CASE RunRollback
  <2>1. Head(pending) \in done \ Undone
    BY <1>10, TailList DEF RunRollback, Types, EffectType
  <2>2. Undone' = Undone \cup {Head(pending)}
    BY <1>10, <2>1, AppendList DEF RunRollback, Types, EffectType
  <2>3. pc = "undo" /\ pc' = "undo" /\ UNCHANGED <<opts, done>> BY <1>10 DEF RunRollback
  <2>4. Injective(pending') /\ Elements(pending') = Elements(pending) \ {Head(pending)}
    BY <1>10, TailList DEF RunRollback, Types, EffectType
  <2> HIDE DEF Undone
  <2> QED BY <2>1, <2>2, <2>3, <2>4
<1>11. CASE RollbacksDone
  <2>1. pc = "undo" /\ pc' = "finish" /\ pending = <<>> /\ UNCHANGED <<opts, done, undone, status>>
    BY <1>11 DEF RollbacksDone
  <2>2. Elements(pending) = {} BY <2>1, EmptyList
  <2> QED BY <2>1, <2>2
<1>12. CASE AllSubTasksDone BY <1>12 DEF AllSubTasksDone
<1>13. CASE Finish BY <1>13 DEF Finish, UpdateTask
<1>14. CASE Timeout BY <1>14 DEF Timeout
<1>15. CASE LoadTaskCancel \/ Cancel \/ LoseRegistration
  BY <1>15 DEF LoadTaskCancel, Cancel, LoseRegistration
<1>16. ASSUME NEW result \in Results, ActionReturns(result) PROVE RollbackLedger'
  BY <1>16 DEF ActionReturns, Results
<1>17. ASSUME NEW action \in running, AbandonedReturns(action) PROVE RollbackLedger'
  BY <1>17 DEF AbandonedReturns
<1>18. CASE UNCHANGED vars BY <1>18 DEF vars
<1> QED
  BY <1>1, <1>2, <1>3, <1>4, <1>5, <1>6, <1>7, <1>8, <1>9,
     <1>10, <1>11, <1>12, <1>13, <1>14, <1>15, <1>16, <1>17, <1>18
     DEF Next, Engine

\* The inductive invariant holds before Task.Execute starts.
LEMMA LedgerInit == Init => StragglersTimedOut /\ Ledger
BY EmptyList, Constants
   DEF Init, Ledger, StatusLedger, OrderLedger, RollbackLedger, Early, Undone, StragglersTimedOut

\* The inductive invariant holds in every state of the engine.
LEMMA LedgerCorrect == Safety => [](Types /\ StragglersTimedOut /\ Ledger)
<1>1. Types /\ StragglersTimedOut /\ Ledger /\ [Next]_vars => (StragglersTimedOut /\ Ledger)'
  BY StatusStep, OrderStep, RollbackStep, StragglersStep DEF Ledger, Types
<1>2. Types <=> ControlType /\ EffectType BY DEF Types
<1> QED BY LedgerInit, TypesHold, <1>1, <1>2, PTL DEF Safety

\* What the engine guarantees although it abandons actions that time out: its types,
\* that only such actions execute beside it (task.go:225-320), and that a failed or
\* cancelled task has undone every completed subtask with a rollback.
THEOREM EngineCorrect == Safety => []EngineIsConsistent
<1>1. Types /\ StragglersTimedOut /\ Ledger => EngineIsConsistent
  <2> SUFFICES ASSUME Types, StragglersTimedOut, Ledger PROVE EngineIsConsistent
    OBVIOUS
  <2>1. TypeOK BY TypeParts DEF Types
  <2>2. UndoneCompletely BY DEF Ledger, RollbackLedger, UndoneCompletely, Undone, Elements
  <2> QED BY <2>1, <2>2 DEF EngineIsConsistent
<1> QED BY LedgerCorrect, <1>1, PTL

-----------------------------------------------------------------------------
(* Cancelling. *)

\* No step but the reading of the registry gives a stop request the cancel function.
LEMMA CancelStep ==
  Types /\ Ledger /\ [Next]_vars => (loaded' /\ ~ loaded => step <= 1 /\ done = {})
<1> SUFFICES ASSUME Types, Ledger, [Next]_vars, loaded', ~ loaded PROVE step <= 1 /\ done = {}
  OBVIOUS
<1>1. LoadTaskCancel
  BY DEF Next, Engine, vars, Save, SaveFails, NextSubTask, StartAttempt, RetryAttempt,
     GiveUp, Succeed, Ignore, Fail, RunRollback, RollbacksDone, AllSubTasksDone, Finish,
     Timeout, Cancel, LoseRegistration, ActionReturns, AbandonedReturns
<1> QED BY <1>1 DEF LoadTaskCancel, Ledger, StatusLedger

\* SubTask.Execute defers RemoveTaskCancel, so that a stop request finds the task only
\* until its first subtask returns: before anything has completed. When the request
\* calls the function it found is not bounded.
THEOREM StopWindow == Safety => StopOnlyDuringFirstSubTask
<1>1. Types /\ Ledger /\ [Next]_vars => [loaded' /\ ~ loaded => step <= 1 /\ done = {}]_vars
  BY CancelStep
<1> QED BY LedgerCorrect, <1>1, PTL DEF Safety, StopOnlyDuringFirstSubTask

-----------------------------------------------------------------------------
(***************************************************************************)
(* The engine implements TaskLifecycle, with the same variables.           *)
(***************************************************************************)
\* Every step of the engine is a step of TaskLifecycle or leaves its variables alone.
LEMMA LifecycleStep ==
  Types /\ Ledger /\ [Next]_vars => [Lifecycle!Next]_(Lifecycle!vars)
<1> SUFFICES ASSUME Types, Ledger, [Next]_vars
             PROVE Lifecycle!Next \/ UNCHANGED <<status, done, undone>>
  BY DEF Lifecycle!vars
<1>0. Lifecycle!Undone = Undone BY DEF Lifecycle!Undone, Undone, Elements
<1>1. CASE Succeed
  <2>1. step \in Steps /\ step \notin done \cup Undone /\ status = "Executing"
    BY <1>1 DEF Succeed, Types, ControlType, Ledger, OrderLedger, StatusLedger, Early
  <2>2. Lifecycle!Complete(step) BY <1>0, <1>1, <2>1 DEF Succeed, Lifecycle!Complete
  <2> QED BY <2>1, <2>2 DEF Lifecycle!Next
<1>2. CASE GiveUp
  <2>1. step \in Steps /\ step \notin done \cup Undone /\ status = "Executing"
    BY <1>2 DEF GiveUp, Types, ControlType, Ledger, OrderLedger, StatusLedger, Early
  <2>2. CASE opts[step].rollback
    <3>1. Lifecycle!UndoFailed(step) BY <1>0, <1>2, <2>1, <2>2 DEF GiveUp, Lifecycle!UndoFailed
    <3> QED BY <2>1, <3>1 DEF Lifecycle!Next
  <2>3. CASE ~ opts[step].rollback BY <1>2, <2>3 DEF GiveUp
  <2> QED BY <2>2, <2>3
<1>3. CASE Fail
  <2>1. status = "Executing" BY <1>3 DEF Fail, Ledger, StatusLedger, Early
  <2>2. PICK final \in {"Success", "Failed", "Canceled"} : status' = final BY <1>3 DEF Fail
  <2>3. Lifecycle!Settle(final) BY <1>3, <2>1, <2>2 DEF Fail, Lifecycle!Settle
  <2> QED BY <2>3 DEF Lifecycle!Next
<1>4. CASE RunRollback
  <2>1. status \in {"Failed", "Canceled"} /\ Head(pending) \in done \ Undone
    BY <1>4, TailList
       DEF RunRollback, Ledger, StatusLedger, RollbackLedger, Types, EffectType
  <2>2. Head(pending) \in Steps BY <2>1 DEF Types, EffectType
  <2>3. Lifecycle!UndoCompleted(Head(pending))
    BY <1>0, <1>4, <2>1 DEF RunRollback, Lifecycle!UndoCompleted
  <2> QED BY <2>2, <2>3 DEF Lifecycle!Next
<1>5. CASE Finish
  <2>1. CASE status = "Executing"
    <3>1. Lifecycle!Settle("Success") BY <1>5, <2>1 DEF Finish, Lifecycle!Settle
    <3> QED BY <3>1 DEF Lifecycle!Next
  <2>2. CASE status # "Executing" BY <1>5, <2>2 DEF Finish
  <2> QED BY <2>1, <2>2
<1>6. CASE ~ (Succeed \/ GiveUp \/ Fail \/ RunRollback \/ Finish)
  BY <1>6 DEF Next, Engine, vars, Save, SaveFails, NextSubTask, StartAttempt, RetryAttempt,
     Ignore, RollbacksDone, AllSubTasksDone, Timeout, LoadTaskCancel,
     Cancel, LoseRegistration, ActionReturns, AbandonedReturns
<1> QED BY <1>1, <1>2, <1>3, <1>4, <1>5, <1>6

\* Task.Execute implements the lifecycle that its callers rely on, although it does not
\* wait for actions that time out.
THEOREM AgentImplementsLifecycle == Safety => ImplementsLifecycle
<1>1. Init => Lifecycle!Init BY DEF Init, Lifecycle!Init
<1> QED
  BY LedgerCorrect, LifecycleStep, <1>1, PTL
     DEF Safety, ImplementsLifecycle, Lifecycle!Spec
=============================================================================
