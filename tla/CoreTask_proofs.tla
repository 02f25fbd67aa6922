--------------------------- MODULE CoreTask_proofs ---------------------------
(***************************************************************************)
(* Proofs about the task engine of the core service, for any number of     *)
(* subtasks and any options. The argument: the engine's bookkeeping        *)
(* (Ledger, below) always tells which subtasks completed, which of them    *)
(* are still to be undone and which were undone, in every stage of         *)
(* Task.Execute; the properties about rollbacks, the saved status and the  *)
(* lifecycle follow from it.                                               *)
(***************************************************************************)
EXTENDS CoreTask, TLAPS

\* The subtasks listed by a sequence, and sequences that list none twice.
Elements(s) == {s[i] : i \in DOMAIN s}
Injective(s) == \A i, j \in DOMAIN s : s[i] = s[j] => i = j

\* The empty list: rollbacks, pending and undone start as it.
LEMMA EmptyList == \A S : <<>> \in Seq(S) /\ Elements(<<>>) = {} /\ Injective(<<>>)
BY DEF Elements, Injective

\* What append does to a list of subtasks: it adds one element, and keeps the list
\* free of repetitions when the element is new.
LEMMA AppendList ==
  ASSUME NEW S, NEW s \in Seq(S), NEW e \in S
  PROVE /\ Append(s, e) \in Seq(S)
        /\ Elements(Append(s, e)) = Elements(s) \cup {e}
        /\ Injective(s) /\ e \notin Elements(s) => Injective(Append(s, e))
BY DEF Elements, Injective

\* What taking the first subtask off a list does: the rest has all the other
\* elements, and no longer has the first one if there were no repetitions.
LEMMA TailList ==
  ASSUME NEW S, NEW s \in Seq(S), s # <<>>, Injective(s)
  PROVE /\ Head(s) \in Elements(s) /\ Tail(s) \in Seq(S)
        /\ Elements(Tail(s)) = Elements(s) \ {Head(s)}
        /\ Injective(Tail(s))
<1>1. Head(s) = s[1] /\ 1 \in DOMAIN s /\ Len(s) \in Nat \ {0} /\ DOMAIN s = 1..Len(s)
  OBVIOUS
<1>2. DOMAIN Tail(s) = 1..(Len(s) - 1) /\ \A i \in DOMAIN Tail(s) : Tail(s)[i] = s[i + 1]
  OBVIOUS
<1>3. Injective(Tail(s)) BY <1>1, <1>2 DEF Injective
<1>4. ASSUME NEW x \in Elements(Tail(s)) PROVE x \in Elements(s) \ {Head(s)}
  BY <1>1, <1>2, <1>4 DEF Elements, Injective
<1>5. ASSUME NEW x \in Elements(s) \ {Head(s)} PROVE x \in Elements(Tail(s))
  <2>1. PICK i \in DOMAIN s : x = s[i] BY <1>5 DEF Elements
  <2>2. i # 1 /\ i - 1 \in 1..(Len(s) - 1) /\ (i - 1) + 1 = i BY <1>1, <1>5, <2>1
  <2> QED BY <1>2, <2>1, <2>2 DEF Elements
<1> QED BY <1>1, <1>3, <1>4, <1>5 DEF Elements

\* The number of subtasks is a natural number.
LEMMA NType == N \in Nat
BY OptionsAssumption

\* Every step keeps the control state in its type.
LEMMA ControlTypeStep == TypeOK /\ [Next]_vars => ControlType'
<1> SUFFICES ASSUME TypeOK, [Next]_vars PROVE ControlType'
  OBVIOUS
<1> USE NType DEF TypeOK, ControlType, Steps, Causes, Ended
<1>1. CASE Save BY <1>1 DEF Save
<1>2. CASE SaveFails BY <1>2 DEF SaveFails
<1>3. CASE NextSubTask
  <2>1. attempted' \in BOOLEAN BY <1>3 DEF NextSubTask
  <2>2. attempt' \in Nat /\ err' = {} BY <1>3 DEF NextSubTask
  <2>3. UNCHANGED <<opts, cwt, ctx, actx>> /\ pc' = "attempt" /\ step' \in 1..N
    BY <1>3 DEF NextSubTask
  <2> QED BY <2>1, <2>2, <2>3
<1>4. CASE InvalidOptions BY <1>4 DEF InvalidOptions
<1>5. CASE StartAttempt BY <1>5 DEF StartAttempt
<1>6. CASE RefuseAttempt BY <1>6 DEF RefuseAttempt, ErrOf
<1>7. CASE Succeed BY <1>7 DEF Succeed
<1>8. CASE Retry BY <1>8 DEF Retry
<1>9. CASE BackoffElapses BY <1>9 DEF BackoffElapses
<1>10. CASE BackoffCancelled BY <1>10 DEF BackoffCancelled, ErrOf
<1>11. CASE GiveUp BY <1>11 DEF GiveUp
<1>12. CASE Leave BY <1>12 DEF Leave, SubTaskError, ErrOf
<1>13. CASE Ignore BY <1>13 DEF Ignore
<1>14. CASE Fail BY <1>14 DEF Fail, FinalStatus, ToUndo
<1>15. CASE RunRollback BY <1>15 DEF RunRollback
<1>16. CASE RollbacksDone BY <1>16 DEF RollbacksDone, UpdateTask
<1>17. CASE AllSubTasksDone BY <1>17 DEF AllSubTasksDone
<1>18. CASE Finish BY <1>18 DEF Finish, UpdateTask
<1>19. CASE Deadline BY <1>19 DEF Deadline
<1>20. ASSUME NEW cause \in Ended, EndContext(cause) PROVE ControlType'
  BY <1>20 DEF EndContext
<1>21. ASSUME NEW result \in Results, ActionReturns(result) PROVE ControlType'
  BY <1>21 DEF ActionReturns, Results, AttemptError, ErrOf
<1>22. CASE UNCHANGED vars BY <1>22 DEF vars
<1> QED
  BY <1>1, <1>2, <1>3, <1>4, <1>5, <1>6, <1>7, <1>8, <1>9, <1>10, <1>11,
     <1>12, <1>13, <1>14, <1>15, <1>16, <1>17, <1>18, <1>19, <1>20, <1>21, <1>22 DEF Next, Engine

\* Every step keeps the record of effects in its type.
LEMMA EffectTypeStep == TypeOK /\ [Next]_vars => EffectType'
<1> SUFFICES ASSUME TypeOK, [Next]_vars PROVE EffectType'
  OBVIOUS
<1> USE NType DEF TypeOK, ControlType, EffectType, Steps, Causes, Ended
<1>1. CASE Save BY <1>1 DEF Save
<1>2. CASE SaveFails BY <1>2 DEF SaveFails
<1>3. CASE NextSubTask BY <1>3 DEF NextSubTask, UpdateTask
<1>4. CASE InvalidOptions BY <1>4 DEF InvalidOptions
<1>5. CASE StartAttempt BY <1>5 DEF StartAttempt
<1>6. CASE RefuseAttempt BY <1>6 DEF RefuseAttempt, ErrOf
<1>7. CASE Succeed
  <2>1. rollbacks' = rollbacks \/ rollbacks' = Append(rollbacks, step) BY <1>7 DEF Succeed
  <2>2. done' = done \cup {step} /\ step \in Steps BY <1>7 DEF Succeed
  <2>3. UNCHANGED <<running, pending, status, saved, undone, swallowed>>
    BY <1>7 DEF Succeed
  <2> HIDE DEF ControlType, Steps
  <2>4. rollbacks' \in Seq(Steps) BY <2>1, <2>2, AppendList
  <2> QED BY <2>2, <2>3, <2>4
<1>8. CASE Retry BY <1>8 DEF Retry
<1>9. CASE BackoffElapses BY <1>9 DEF BackoffElapses
<1>10. CASE BackoffCancelled BY <1>10 DEF BackoffCancelled, ErrOf
<1>11. CASE GiveUp BY <1>11 DEF GiveUp
<1>12. CASE Leave
  <2>1. undone' = undone \/ undone' = Append(undone, step) BY <1>12 DEF Leave
  <2>2. step \in Steps BY <1>12 DEF Leave
  <2>3. UNCHANGED <<running, rollbacks, pending, status, saved, done, swallowed>>
    BY <1>12 DEF Leave
  <2> HIDE DEF ControlType, Steps
  <2>4. undone' \in Seq(Steps) BY <2>1, <2>2, AppendList
  <2> QED BY <2>3, <2>4
<1>13. CASE Ignore BY <1>13 DEF Ignore
<1>14. CASE Fail
  <2>1. pending' = <<>> \/ pending' = rollbacks BY <1>14 DEF Fail, ToUndo
  <2>2. status' \in {"Failed", "Canceled"} BY <1>14 DEF Fail, FinalStatus
  <2>3. UNCHANGED <<running, rollbacks, saved, done, undone, swallowed>>
    BY <1>14 DEF Fail
  <2> HIDE DEF ControlType, Steps
  <2>4. pending' \in Seq(Steps) BY <2>1, EmptyList
  <2> QED BY <2>2, <2>3, <2>4
<1>15. CASE RunRollback BY <1>15 DEF RunRollback
<1>16. CASE RollbacksDone BY <1>16 DEF RollbacksDone, UpdateTask
<1>17. CASE AllSubTasksDone BY <1>17 DEF AllSubTasksDone
<1>18. CASE Finish BY <1>18 DEF Finish, UpdateTask
<1>19. CASE Deadline BY <1>19 DEF Deadline
<1>20. ASSUME NEW cause \in Ended, EndContext(cause) PROVE EffectType'
  BY <1>20 DEF EndContext
<1>21. ASSUME NEW result \in Results, ActionReturns(result) PROVE EffectType'
  BY <1>21 DEF ActionReturns, Results, AttemptError, ErrOf
<1>22. CASE UNCHANGED vars BY <1>22 DEF vars
<1> QED
  BY <1>1, <1>2, <1>3, <1>4, <1>5, <1>6, <1>7, <1>8, <1>9, <1>10, <1>11,
     <1>12, <1>13, <1>14, <1>15, <1>16, <1>17, <1>18, <1>19, <1>20, <1>21, <1>22 DEF Next, Engine

\* A task made by NewTask and AddSubTask* has the right type.
LEMMA TypeInit == Init => TypeOK
<1> SUFFICES ASSUME Init PROVE TypeOK
  OBVIOUS
<1>1. ControlType
  <2>1. attempted \in BOOLEAN /\ cwt \in BOOLEAN BY DEF Init
  <2>2. opts \in [Steps -> Options] /\ step \in 0..N /\ attempt \in Nat BY NType DEF Init
  <2>3. pc = "save" /\ err = {} /\ ctx = "live" /\ actx = "live" BY DEF Init
  <2> QED BY <2>1, <2>2, <2>3 DEF ControlType
<1>2. EffectType BY DEF Init, EffectType
<1> QED BY <1>1, <1>2 DEF TypeOK

\* The type invariant of the core's task engine, for any number of subtasks with
\* any options.
THEOREM TypeCorrect == Safety => []TypeOK
<1>1. TypeOK /\ [Next]_vars => TypeOK'
  BY ControlTypeStep, EffectTypeStep DEF TypeOK
<1> QED BY TypeInit, <1>1, PTL DEF Safety
-----------------------------------------------------------------------------
(***************************************************************************)
(* Actions never overlap: NoOverlap is inductive.                          *)
(***************************************************************************)
\* No step starts an action, a rollback or the end of the task beside a running one.
LEMMA NoOverlapStep == TypeOK /\ NoOverlap /\ [Next]_vars => NoOverlap'
<1> SUFFICES ASSUME TypeOK, NoOverlap, [Next]_vars PROVE NoOverlap'
  OBVIOUS
<1> USE DEF NoOverlap
<1>1. CASE Save BY <1>1 DEF Save
<1>2. CASE SaveFails BY <1>2 DEF SaveFails
<1>3. CASE NextSubTask BY <1>3 DEF NextSubTask, UpdateTask
<1>4. CASE InvalidOptions BY <1>4 DEF InvalidOptions
<1>5. CASE StartAttempt BY <1>5 DEF StartAttempt
<1>6. CASE RefuseAttempt BY <1>6 DEF RefuseAttempt
<1>7. CASE Succeed BY <1>7 DEF Succeed
<1>8. CASE Retry BY <1>8 DEF Retry
<1>9. CASE BackoffElapses BY <1>9 DEF BackoffElapses
<1>10. CASE BackoffCancelled BY <1>10 DEF BackoffCancelled
<1>11. CASE GiveUp BY <1>11 DEF GiveUp
<1>12. CASE Leave BY <1>12 DEF Leave
<1>13. CASE Ignore BY <1>13 DEF Ignore, Ignorable
<1>14. CASE Fail BY <1>14 DEF Fail, FinalStatus, ToUndo
<1>15. CASE RunRollback BY <1>15 DEF RunRollback
<1>16. CASE RollbacksDone BY <1>16 DEF RollbacksDone, UpdateTask
<1>17. CASE AllSubTasksDone BY <1>17 DEF AllSubTasksDone
<1>18. CASE Finish BY <1>18 DEF Finish, UpdateTask
<1>19. CASE Deadline BY <1>19 DEF Deadline
<1>20. ASSUME NEW cause \in Ended, EndContext(cause) PROVE NoOverlap'
  BY <1>20 DEF EndContext
<1>21. ASSUME NEW result \in Results, ActionReturns(result) PROVE NoOverlap'
  BY <1>21 DEF ActionReturns
<1>22. CASE UNCHANGED vars BY <1>22 DEF vars
<1> QED
  BY <1>1, <1>2, <1>3, <1>4, <1>5, <1>6, <1>7, <1>8, <1>9, <1>10, <1>11,
     <1>12, <1>13, <1>14, <1>15, <1>16, <1>17, <1>18, <1>19, <1>20, <1>21, <1>22 DEF Next, Engine

\* executeAttempt waits for the action's goroutine even after the deadline: an
\* action never executes beside its retry, a rollback or the end of the task.
THEOREM ActionsNeverOverlap == Safety => []NoOverlap
<1>1. Init => NoOverlap BY DEF Init, NoOverlap
<1> QED BY TypeCorrect, NoOverlapStep, <1>1, PTL DEF Safety

-----------------------------------------------------------------------------
(***************************************************************************)
(* The ledger: what the status, the error, the completed, the undone and   *)
(* the listed subtasks are in each stage of Task.Execute.                  *)
(***************************************************************************)
Undone == Elements(undone)
Early == pc \notin {"undo", "finish", "ended"}
Inside == pc \in {"attempt", "running", "decide", "backoff", "leave"}

\* Nothing is settled before the failure path or the end.
StatusLedger ==
    /\ Early => status = "Executing"
    /\ Early \/ pc = "undo" => saved \in {"none", "Executing"}
    /\ pc = "undo" => status \in {"Failed", "Canceled"}
    /\ pc = "undo" /\ "unconfirmed" \in err => status = "Failed"
    /\ pc \in {"save", "next"} => err = {}
    /\ pc \in {"finish", "ended"} /\ "unconfirmed" \in err => status = "Failed"
    /\ SavedIsTrue

\* Subtasks are taken in order: the current one has neither completed nor been
\* undone, and up to the failure path no completed one has been undone.
OrderLedger ==
    /\ \A s \in done \cup Undone : s <= step
    /\ Inside => step \notin done \cup Undone
    /\ pc = "failed" => step \notin done
    /\ Early => done \cap Undone = {}

\* Task.Rollbacks lists the completed subtasks that can be undone, once each; the
\* failure path works off that list.
RollbackLedger ==
    /\ Early => /\ Injective(rollbacks)
                /\ Elements(rollbacks) = {s \in done : opts[s].rollback}
    /\ pc = "undo" => /\ Injective(pending)
                      /\ Elements(pending) \subseteq done \ Undone
    /\ pc = "undo" /\ "unconfirmed" \notin err =>
          \A s \in done : opts[s].rollback => s \in Undone \cup Elements(pending)
    /\ pc = "undo" /\ "unconfirmed" \in err => pending = <<>>
    /\ pc \in {"undo", "finish", "ended"} /\ "unconfirmed" \in err => done \cap Undone = {}
    /\ pc \in {"finish", "ended"} /\ "unconfirmed" \notin err /\ status \in {"Failed", "Canceled"} =>
          \A s \in done : opts[s].rollback => s \in Undone

Ledger == StatusLedger /\ OrderLedger /\ RollbackLedger

\* Every step keeps what the status, the saved row and the error say of each other.
LEMMA StatusStep == TypeOK /\ Ledger /\ [Next]_vars => StatusLedger'
<1> SUFFICES ASSUME TypeOK, Ledger, [Next]_vars PROVE StatusLedger'
  OBVIOUS
<1> USE DEF Ledger, StatusLedger, Early, SavedIsTrue, TypeOK, EffectType
<1>1. CASE Save BY <1>1 DEF Save
<1>2. CASE SaveFails BY <1>2 DEF SaveFails
<1>3. CASE NextSubTask BY <1>3 DEF NextSubTask, UpdateTask
<1>4. CASE InvalidOptions BY <1>4 DEF InvalidOptions
<1>5. CASE StartAttempt BY <1>5 DEF StartAttempt
<1>6. CASE RefuseAttempt BY <1>6 DEF RefuseAttempt
<1>7. CASE Succeed BY <1>7 DEF Succeed
<1>8. CASE Retry BY <1>8 DEF Retry
<1>9. CASE BackoffElapses BY <1>9 DEF BackoffElapses
<1>10. CASE BackoffCancelled BY <1>10 DEF BackoffCancelled
<1>11. CASE GiveUp BY <1>11 DEF GiveUp
<1>12. CASE Leave BY <1>12 DEF Leave
<1>13. CASE Ignore BY <1>13 DEF Ignore, Ignorable
<1>14. CASE Fail BY <1>14 DEF Fail, FinalStatus, ToUndo
<1>15. CASE RunRollback BY <1>15 DEF RunRollback
<1>16. CASE RollbacksDone BY <1>16 DEF RollbacksDone, UpdateTask
<1>17. CASE AllSubTasksDone BY <1>17 DEF AllSubTasksDone
<1>18. CASE Finish BY <1>18 DEF Finish, UpdateTask
<1>19. CASE Deadline BY <1>19 DEF Deadline
<1>20. ASSUME NEW cause \in Ended, EndContext(cause) PROVE StatusLedger'
  BY <1>20 DEF EndContext
<1>21. ASSUME NEW result \in Results, ActionReturns(result) PROVE StatusLedger'
  BY <1>21 DEF ActionReturns
<1>22. CASE UNCHANGED vars BY <1>22 DEF vars
<1> QED
  BY <1>1, <1>2, <1>3, <1>4, <1>5, <1>6, <1>7, <1>8, <1>9, <1>10, <1>11,
     <1>12, <1>13, <1>14, <1>15, <1>16, <1>17, <1>18, <1>19, <1>20, <1>21, <1>22 DEF Next, Engine

\* Every step keeps the lists of completed and of undone subtasks consistent with
\* the subtask at hand.
LEMMA OrderStep == TypeOK /\ Ledger /\ [Next]_vars => OrderLedger'
<1> SUFFICES ASSUME TypeOK, Ledger, [Next]_vars PROVE OrderLedger'
  OBVIOUS
<1>0. step \in 0..N /\ N \in Nat /\ done \subseteq Steps /\ undone \in Seq(Steps)
  BY NType DEF TypeOK, ControlType, EffectType
<1> USE <1>0 DEF Ledger, OrderLedger, Early, Inside, Undone
<1>1. CASE Save BY <1>1 DEF Save
<1>2. CASE SaveFails BY <1>2 DEF SaveFails
<1>3. CASE NextSubTask
  <2>1. step' = step + 1 /\ Undone' = Undone /\ done' = done BY <1>3 DEF NextSubTask
  <2>2. \A s \in done \cup Undone : s \in Nat /\ s < step + 1
    BY <1>3 DEF NextSubTask, Steps, Elements
  <2> QED BY <1>3, <2>1, <2>2 DEF NextSubTask
<1>4. CASE InvalidOptions BY <1>4 DEF InvalidOptions
<1>5. CASE StartAttempt BY <1>5 DEF StartAttempt
<1>6. CASE RefuseAttempt BY <1>6 DEF RefuseAttempt
<1>7. CASE Succeed
  <2>1. Undone' = Undone /\ step' = step /\ done' = done \cup {step} BY <1>7 DEF Succeed
  <2> QED BY <1>7, <2>1 DEF Succeed
<1>8. CASE Retry BY <1>8 DEF Retry
<1>9. CASE BackoffElapses BY <1>9 DEF BackoffElapses
<1>10. CASE BackoffCancelled BY <1>10 DEF BackoffCancelled
<1>11. CASE GiveUp BY <1>11 DEF GiveUp
<1>12. CASE Leave
  <2>1. step \in Steps BY <1>12 DEF Leave, TypeOK, ControlType
  <2>2. Undone' = Undone \/ Undone' = Undone \cup {step}
    BY <1>12, <2>1, AppendList DEF Leave, TypeOK, EffectType
  <2>3. done' = done /\ step' = step /\ pc = "leave" /\ pc' = "failed" BY <1>12 DEF Leave
  <2> HIDE DEF Undone
  <2> QED BY <2>1, <2>2, <2>3
<1>13. CASE Ignore BY <1>13 DEF Ignore, Ignorable
<1>14. CASE Fail BY <1>14 DEF Fail, FinalStatus, ToUndo
<1>15. CASE RunRollback
  <2>1. Head(pending) \in done \ Undone
    BY <1>15, TailList DEF RunRollback, RollbackLedger, TypeOK, EffectType
  <2>2. Undone' = Undone \cup {Head(pending)}
    BY <1>15, <2>1, AppendList DEF RunRollback, TypeOK, EffectType
  <2>3. done' = done /\ step' = step /\ pc' = "undo" /\ pc = "undo" BY <1>15 DEF RunRollback
  <2> HIDE DEF Undone
  <2> QED BY <2>1, <2>2, <2>3
<1>16. CASE RollbacksDone BY <1>16 DEF RollbacksDone, UpdateTask
<1>17. CASE AllSubTasksDone BY <1>17 DEF AllSubTasksDone
<1>18. CASE Finish BY <1>18 DEF Finish, UpdateTask
<1>19. CASE Deadline BY <1>19 DEF Deadline
<1>20. ASSUME NEW cause \in Ended, EndContext(cause) PROVE OrderLedger'
  BY <1>20 DEF EndContext
<1>21. ASSUME NEW result \in Results, ActionReturns(result) PROVE OrderLedger'
  BY <1>21 DEF ActionReturns
<1>22. CASE UNCHANGED vars BY <1>22 DEF vars
<1> QED
  BY <1>1, <1>2, <1>3, <1>4, <1>5, <1>6, <1>7, <1>8, <1>9, <1>10, <1>11,
     <1>12, <1>13, <1>14, <1>15, <1>16, <1>17, <1>18, <1>19, <1>20, <1>21, <1>22 DEF Next, Engine

\* Every step keeps the split of the completed subtasks into those undone and
\* those still to undo.
LEMMA RollbackStep == TypeOK /\ Ledger /\ [Next]_vars => RollbackLedger'
<1> SUFFICES ASSUME TypeOK, Ledger, [Next]_vars PROVE RollbackLedger'
  OBVIOUS
<1> USE DEF Ledger, RollbackLedger, StatusLedger, Early, Undone
<1>1. CASE Save BY <1>1 DEF Save
<1>2. CASE SaveFails BY <1>2 DEF SaveFails
<1>3. CASE NextSubTask BY <1>3 DEF NextSubTask, UpdateTask
<1>4. CASE InvalidOptions BY <1>4 DEF InvalidOptions
<1>5. CASE StartAttempt BY <1>5 DEF StartAttempt
<1>6. CASE RefuseAttempt BY <1>6 DEF RefuseAttempt
<1>7. CASE Succeed
  <2>1. step \in Steps /\ step \notin done /\ rollbacks \in Seq(Steps) /\ Undone' = Undone
    BY <1>7 DEF Succeed, TypeOK, ControlType, EffectType, OrderLedger, Inside
  <2>2. pc = "decide" /\ pc' = "next" /\ opts' = opts /\ done' = done \cup {step}
    BY <1>7 DEF Succeed
  <2>3. step \notin Elements(rollbacks) BY <2>1, <2>2
  <2>4. CASE opts[step].rollback
    <3>1. rollbacks' = Append(rollbacks, step) BY <1>7, <2>4 DEF Succeed
    <3>2. Injective(rollbacks') /\ Elements(rollbacks') = Elements(rollbacks) \cup {step}
      BY <2>1, <2>2, <2>3, <3>1, AppendList
    <3> QED BY <2>1, <2>2, <2>4, <3>2
  <2>5. CASE ~ opts[step].rollback
    <3>1. rollbacks' = rollbacks BY <1>7, <2>5 DEF Succeed
    <3> QED BY <2>1, <2>2, <2>5, <3>1
  <2> QED BY <2>4, <2>5
<1>8. CASE Retry BY <1>8 DEF Retry
<1>9. CASE BackoffElapses BY <1>9 DEF BackoffElapses
<1>10. CASE BackoffCancelled BY <1>10 DEF BackoffCancelled
<1>11. CASE GiveUp BY <1>11 DEF GiveUp
<1>12. CASE Leave
  <2>1. step \in Steps BY <1>12 DEF Leave, TypeOK, ControlType
  <2>2. Undone' = Undone \/ Undone' = Undone \cup {step}
    BY <1>12, <2>1, AppendList DEF Leave, TypeOK, EffectType
  <2>3. pc = "leave" /\ pc' = "failed" /\ UNCHANGED <<opts, rollbacks, done>> BY <1>12 DEF Leave
  <2> HIDE DEF Undone
  <2> QED BY <2>2, <2>3
<1>13. CASE Ignore BY <1>13 DEF Ignore, Ignorable
<1>14. CASE Fail
  <2>1. pc = "failed" /\ pc' = "undo" /\ UNCHANGED <<opts, err, done, undone, rollbacks>>
    BY <1>14 DEF Fail
  <2>2. done \cap Undone = {} BY <2>1 DEF OrderLedger
  <2>3. IF "unconfirmed" \in err THEN pending' = <<>> ELSE pending' = rollbacks
    BY <1>14 DEF Fail, ToUndo
  <2>4. Injective(<<>>) /\ Elements(<<>>) = {} BY EmptyList
  <2> QED BY <2>1, <2>2, <2>3, <2>4
<1>15. CASE RunRollback
  <2>1. Head(pending) \in done \ Undone
    BY <1>15, TailList DEF RunRollback, RollbackLedger, TypeOK, EffectType
  <2>2. Undone' = Undone \cup {Head(pending)}
    BY <1>15, <2>1, AppendList DEF RunRollback, TypeOK, EffectType
  <2>3. pc = "undo" /\ pc' = "undo" /\ UNCHANGED <<opts, err, done>> /\ pending # <<>>
    BY <1>15 DEF RunRollback
  <2>4. Injective(pending') /\ Elements(pending') = Elements(pending) \ {Head(pending)}
    BY <1>15, TailList DEF RunRollback, TypeOK, EffectType
  <2> HIDE DEF Undone
  <2> QED BY <2>1, <2>2, <2>3, <2>4
<1>16. CASE RollbacksDone
  <2>1. pc = "undo" /\ pc' = "finish" /\ pending = <<>>
        /\ UNCHANGED <<opts, err, done, undone, status>>
    BY <1>16 DEF RollbacksDone
  <2>2. Elements(pending) = {} BY <2>1, EmptyList
  <2> QED BY <2>1, <2>2
<1>17. CASE AllSubTasksDone BY <1>17 DEF AllSubTasksDone
<1>18. CASE Finish BY <1>18 DEF Finish, UpdateTask
<1>19. CASE Deadline BY <1>19 DEF Deadline
<1>20. ASSUME NEW cause \in Ended, EndContext(cause) PROVE RollbackLedger'
  BY <1>20 DEF EndContext
<1>21. ASSUME NEW result \in Results, ActionReturns(result) PROVE RollbackLedger'
  BY <1>21 DEF ActionReturns
<1>22. CASE UNCHANGED vars BY <1>22 DEF vars
<1> QED
  BY <1>1, <1>2, <1>3, <1>4, <1>5, <1>6, <1>7, <1>8, <1>9, <1>10, <1>11,
     <1>12, <1>13, <1>14, <1>15, <1>16, <1>17, <1>18, <1>19, <1>20, <1>21, <1>22 DEF Next, Engine

\* The inductive invariant holds before Task.Execute starts.
LEMMA LedgerInit == Init => Ledger
BY EmptyList DEF Init, Ledger, StatusLedger, OrderLedger, RollbackLedger, Early, Inside,
   Undone, SavedIsTrue

\* The inductive invariant holds in every state of the engine.
LEMMA LedgerCorrect == Safety => []Ledger
<1>1. TypeOK /\ Ledger /\ [Next]_vars => Ledger'
  BY StatusStep, OrderStep, RollbackStep DEF Ledger
<1> QED BY LedgerInit, TypeCorrect, <1>1, PTL DEF Safety

\* What is in the database never contradicts the task, although updateTask may
\* fail at every write.
THEOREM SavedStatusIsTrue == Safety => []SavedIsTrue
<1>1. Ledger => SavedIsTrue BY DEF Ledger, StatusLedger
<1> QED BY LedgerCorrect, <1>1, PTL

\* When the end of an action cannot be confirmed, Task.Execute undoes nothing that
\* completed and reports Failed.
THEOREM UnconfirmedIsFrozen == Safety => []UnconfirmedFreezes
<1>1. Ledger => UnconfirmedFreezes
  BY DEF Ledger, StatusLedger, RollbackLedger, UnconfirmedFreezes, Undone, Elements
<1> QED BY LedgerCorrect, <1>1, PTL

\* Otherwise a failed or cancelled task has undone every completed subtask that
\* has a rollback.
THEOREM FailureUndoesCompletely == Safety => []UndoneCompletely
<1>1. Ledger => UndoneCompletely
  BY DEF Ledger, RollbackLedger, UndoneCompletely, Undone, Elements
<1> QED BY LedgerCorrect, <1>1, PTL

\* IgnoreErr lets only ordinary errors pass.
THEOREM OnlyOrdinaryErrorsIgnored == Safety => []NothingSeriousSwallowed
<1>1. Init => NothingSeriousSwallowed BY DEF Init, NothingSeriousSwallowed
<1>2. TypeOK /\ NothingSeriousSwallowed /\ [Next]_vars => NothingSeriousSwallowed'
  <2> SUFFICES ASSUME TypeOK, NothingSeriousSwallowed, [Next]_vars
               PROVE NothingSeriousSwallowed'
    OBVIOUS
  <2>1. CASE Ignore
    <3>1. err \subseteq Causes BY DEF TypeOK, ControlType
    <3>2. err \subseteq {"plain"} BY <2>1, <3>1 DEF Ignore, Ignorable, Causes
    <3> QED BY <2>1, <3>2 DEF Ignore, NothingSeriousSwallowed
  <2>2. CASE ~ Ignore
    <3>1. swallowed' = swallowed
      BY <2>2 DEF Next, Engine, vars, Save, SaveFails, NextSubTask, InvalidOptions,
         StartAttempt, RefuseAttempt, Succeed, Retry, BackoffElapses, BackoffCancelled,
         GiveUp, Leave, Fail, RunRollback, RollbacksDone, AllSubTasksDone, Finish,
         Deadline, EndContext, ActionReturns
    <3> QED BY <3>1 DEF NothingSeriousSwallowed
  <2> QED BY <2>1, <2>2
<1> QED BY TypeCorrect, <1>1, <1>2, PTL DEF Safety

-----------------------------------------------------------------------------
(***************************************************************************)
(* A cancelled task cannot succeed any more: once its context has ended    *)
(* inside a subtask, the end of the context travels, as the error at hand, *)
(* through every way out of the subtask into the failure path.             *)
(***************************************************************************)
\* An action is told that the task's context has ended.
AttemptContext == pc = "running" /\ ctx # "live" => actx # "live"

\* The ways from a context that ended inside a subtask to the task's failure.
Doomed ==
    \/ pc \in {"attempt", "running", "backoff"} /\ ctx # "live" /\ opts[step].valid
    \/ pc = "decide" /\ ctx # "live" /\ err # {}
    \/ pc = "leave" /\ ctx # "live"
    \/ pc = "failed" /\ err \cap Ended # {}
    \/ pc \in {"undo", "finish", "ended"} /\ status \in {"Failed", "Canceled"}

\* An attempt starts only under a live context, and gets the end of that context.
LEMMA AttemptContextStep == TypeOK /\ AttemptContext /\ [Next]_vars => AttemptContext'
<1> SUFFICES ASSUME TypeOK, AttemptContext, [Next]_vars PROVE AttemptContext'
  OBVIOUS
<1> USE DEF TypeOK, ControlType, AttemptContext, Ended
<1>1. CASE Save BY <1>1 DEF Save
<1>2. CASE SaveFails BY <1>2 DEF SaveFails
<1>3. CASE NextSubTask BY <1>3 DEF NextSubTask
<1>4. CASE InvalidOptions BY <1>4 DEF InvalidOptions
<1>5. CASE StartAttempt BY <1>5 DEF StartAttempt
<1>6. CASE RefuseAttempt BY <1>6 DEF RefuseAttempt, ErrOf
<1>7. CASE Succeed BY <1>7 DEF Succeed
<1>8. CASE Retry BY <1>8 DEF Retry, MayRetry
<1>9. CASE BackoffElapses BY <1>9 DEF BackoffElapses
<1>10. CASE BackoffCancelled BY <1>10 DEF BackoffCancelled, ErrOf
<1>11. CASE GiveUp BY <1>11 DEF GiveUp
<1>12. CASE Leave BY <1>12 DEF Leave, SubTaskError, ErrOf
<1>13. CASE Ignore BY <1>13 DEF Ignore, Ignorable
<1>14. CASE Fail BY <1>14 DEF Fail, FinalStatus
<1>15. CASE RunRollback BY <1>15 DEF RunRollback
<1>16. CASE RollbacksDone BY <1>16 DEF RollbacksDone
<1>17. CASE AllSubTasksDone BY <1>17 DEF AllSubTasksDone
<1>18. CASE Finish BY <1>18 DEF Finish
<1>19. CASE Deadline BY <1>19 DEF Deadline
<1>20. ASSUME NEW cause \in Ended, EndContext(cause) PROVE AttemptContext'
  BY <1>20 DEF EndContext
<1>21. ASSUME NEW result \in Results, ActionReturns(result) PROVE AttemptContext'
  BY <1>21 DEF ActionReturns, AttemptError, ErrOf
<1>22. CASE UNCHANGED vars BY <1>22 DEF vars
<1> QED
  BY <1>1, <1>2, <1>3, <1>4, <1>5, <1>6, <1>7, <1>8, <1>9, <1>10, <1>11,
     <1>12, <1>13, <1>14, <1>15, <1>16, <1>17, <1>18, <1>19, <1>20, <1>21, <1>22 DEF Next, Engine

\* No step leads from a doomed task to one that may succeed.
LEMMA DoomedStep == TypeOK /\ AttemptContext /\ Doomed /\ [Next]_vars => Doomed'
<1> SUFFICES ASSUME TypeOK, AttemptContext, Doomed, [Next]_vars PROVE Doomed'
  OBVIOUS
<1> USE DEF TypeOK, ControlType, AttemptContext, Ended, Doomed
<1>1. CASE Save BY <1>1 DEF Save
<1>2. CASE SaveFails BY <1>2 DEF SaveFails
<1>3. CASE NextSubTask BY <1>3 DEF NextSubTask
<1>4. CASE InvalidOptions BY <1>4 DEF InvalidOptions
<1>5. CASE StartAttempt BY <1>5 DEF StartAttempt
<1>6. CASE RefuseAttempt BY <1>6 DEF RefuseAttempt, ErrOf
<1>7. CASE Succeed BY <1>7 DEF Succeed
<1>8. CASE Retry BY <1>8 DEF Retry, MayRetry
<1>9. CASE BackoffElapses BY <1>9 DEF BackoffElapses
<1>10. CASE BackoffCancelled BY <1>10 DEF BackoffCancelled, ErrOf
<1>11. CASE GiveUp BY <1>11 DEF GiveUp
<1>12. CASE Leave BY <1>12 DEF Leave, SubTaskError, ErrOf
<1>13. CASE Ignore BY <1>13 DEF Ignore, Ignorable
<1>14. CASE Fail BY <1>14 DEF Fail, FinalStatus
<1>15. CASE RunRollback BY <1>15 DEF RunRollback
<1>16. CASE RollbacksDone BY <1>16 DEF RollbacksDone
<1>17. CASE AllSubTasksDone BY <1>17 DEF AllSubTasksDone
<1>18. CASE Finish BY <1>18 DEF Finish
<1>19. CASE Deadline BY <1>19 DEF Deadline
<1>20. ASSUME NEW cause \in Ended, EndContext(cause) PROVE Doomed'
  BY <1>20 DEF EndContext
<1>21. ASSUME NEW result \in Results, ActionReturns(result) PROVE Doomed'
  BY <1>21 DEF ActionReturns, AttemptError, ErrOf
<1>22. CASE UNCHANGED vars BY <1>22 DEF vars
<1> QED
  BY <1>1, <1>2, <1>3, <1>4, <1>5, <1>6, <1>7, <1>8, <1>9, <1>10, <1>11,
     <1>12, <1>13, <1>14, <1>15, <1>16, <1>17, <1>18, <1>19, <1>20, <1>21, <1>22 DEF Next, Engine

\* A cancellation or a deadline that reaches the task inside a subtask is never
\* swallowed: neither an action that succeeds nonetheless, nor a retry, nor IgnoreErr
\* lets the task be reported as successful.
THEOREM CancellationIsHonoured == Safety => CancelIsHonoured
<1>1. Init => AttemptContext BY DEF Init, AttemptContext
<1>2. ctx # "live" /\ pc \in {"attempt", "running", "backoff"} /\ opts[step].valid => Doomed
  BY DEF Doomed
<1>3. Ledger /\ Doomed => status # "Success"
  BY DEF Ledger, StatusLedger, Doomed, Early
<1> QED
  BY TypeCorrect, LedgerCorrect, AttemptContextStep, DoomedStep, <1>1, <1>2, <1>3, PTL
     DEF Safety, CancelIsHonoured

-----------------------------------------------------------------------------
(***************************************************************************)
(* The engine implements TaskLifecycle, with the same variables.           *)
(***************************************************************************)
\* Every step of the engine is a step of TaskLifecycle or leaves its variables alone.
LEMMA LifecycleStep ==
  TypeOK /\ Ledger /\ [Next]_vars => [Lifecycle!Next]_(Lifecycle!vars)
<1> SUFFICES ASSUME TypeOK, Ledger, [Next]_vars
             PROVE Lifecycle!Next \/ UNCHANGED <<status, done, undone>>
  BY DEF Lifecycle!vars
<1>0. Lifecycle!Undone = Undone BY DEF Lifecycle!Undone, Undone, Elements
<1>1. CASE Succeed
  <2>1. step \in Steps /\ step \notin done \cup Undone /\ status = "Executing"
    BY <1>1 DEF Succeed, TypeOK, ControlType, Ledger, OrderLedger, StatusLedger, Early, Inside
  <2>2. Lifecycle!Complete(step) BY <1>0, <1>1, <2>1 DEF Succeed, Lifecycle!Complete
  <2> QED BY <2>1, <2>2 DEF Lifecycle!Next
<1>2. CASE Leave
  <2>1. step \in Steps /\ step \notin done \cup Undone /\ status = "Executing"
    BY <1>2 DEF Leave, TypeOK, ControlType, Ledger, OrderLedger, StatusLedger, Early, Inside
  <2>2. CASE RollsBack
    <3>1. Lifecycle!UndoFailed(step) BY <1>0, <1>2, <2>1, <2>2 DEF Leave, Lifecycle!UndoFailed
    <3> QED BY <2>1, <3>1 DEF Lifecycle!Next
  <2>3. CASE ~ RollsBack BY <1>2, <2>3 DEF Leave
  <2> QED BY <2>2, <2>3
<1>3. CASE Fail
  <2>1. status = "Executing" BY <1>3 DEF Fail, Ledger, StatusLedger, Early
  <2>2. PICK final \in {"Success", "Failed", "Canceled"} : status' = final
    BY <1>3 DEF Fail, FinalStatus
  <2>3. Lifecycle!Settle(final) BY <1>3, <2>1, <2>2 DEF Fail, Lifecycle!Settle
  <2> QED BY <2>3 DEF Lifecycle!Next
<1>4. CASE RunRollback
  <2>1. status \in {"Failed", "Canceled"} /\ Head(pending) \in done \ Undone
    BY <1>4, TailList
       DEF RunRollback, Ledger, StatusLedger, RollbackLedger, TypeOK, EffectType
  <2>2. Head(pending) \in Steps BY <2>1 DEF TypeOK, EffectType
  <2>3. Lifecycle!UndoCompleted(Head(pending))
    BY <1>0, <1>4, <2>1 DEF RunRollback, Lifecycle!UndoCompleted
  <2> QED BY <2>2, <2>3 DEF Lifecycle!Next
<1>5. CASE Finish
  <2>1. CASE status = "Executing"
    <3>1. Lifecycle!Settle("Success") BY <1>5, <2>1 DEF Finish, Lifecycle!Settle
    <3> QED BY <3>1 DEF Lifecycle!Next
  <2>2. CASE status # "Executing" BY <1>5, <2>2 DEF Finish
  <2> QED BY <2>1, <2>2
<1>6. CASE ~ (Succeed \/ Leave \/ Fail \/ RunRollback \/ Finish)
  BY <1>6 DEF Next, Engine, vars, Save, SaveFails, NextSubTask, InvalidOptions,
     StartAttempt, RefuseAttempt, Retry, BackoffElapses, BackoffCancelled, GiveUp,
     Ignore, RollbacksDone, AllSubTasksDone, Deadline, EndContext, ActionReturns
<1> QED BY <1>1, <1>2, <1>3, <1>4, <1>5, <1>6

\* Task.Execute implements the lifecycle that its callers rely on: it settles once,
\* undoes a completed subtask only after a failure and none of them twice.
THEOREM EngineImplementsLifecycle == Safety => ImplementsLifecycle
<1>1. Init => Lifecycle!Init BY DEF Init, Lifecycle!Init
<1> QED
  BY TypeCorrect, LedgerCorrect, LifecycleStep, <1>1, PTL
     DEF Safety, ImplementsLifecycle, Lifecycle!Spec
=============================================================================
