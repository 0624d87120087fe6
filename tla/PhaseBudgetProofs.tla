-------------------------- MODULE PhaseBudgetProofs --------------------------
(***************************************************************************)
(* Proofs about PhaseBudget for all durations. A trigger comes after its    *)
(* phase was observed (Observed), a phase begins after the trigger before   *)
(* it (Chained), and while a command runs the experiment's time is not      *)
(* over (Punctual).                                                         *)
(***************************************************************************)
EXTENDS PhaseBudget, TLAPS

\* Where the observation of the phase is over.
After == {"evaluate", "publish", "passed", "bind", "bound", "gate", "write",
          "posted"}
Admitted == {"publish", "bind", "bound", "gate", "write", "posted"}

\* The phase has lasted its minimum when its evaluation starts, and the
\* admitted sample is at most MaxAge older than that.
Observed ==
  /\ phaseStart <= now
  /\ pc = "sleep" => wake >= phaseStart + Minimum(idx)
  /\ pc \in After => now >= phaseStart + Minimum(idx)
  /\ pc \in Admitted \/ (pc = "passed" /\ idx <= LastTransition) =>
       /\ idx <= LastTransition
       /\ sample <= now
       /\ sample + MaxAge >= phaseStart + Minimum(idx)

\* The current phase began after the previous trigger, later transitions are
\* not triggered yet.
Chained ==
  /\ idx > 1 => at[idx - 1] <= phaseStart
  /\ \A t \in Transitions : at[t] <= now /\ (t > idx => at[t] = 0)
  /\ idx \in Transitions /\ pc \notin {"posted", "failed"} => at[idx] = 0

\* A running command is within the experiment.
Punctual == pc \in Running => now <= ExperimentMax

BudgetInv ==
  /\ TypeOK
  /\ Observed
  /\ Chained
  /\ Punctual
  /\ ControlsSeparated
  /\ AdmittedOnNewSamples
  /\ WithinExperiment

\* The observation target of a phase is a time, never below its minimum.
LEMMA TargetAboveMinimum ==
  TypeOK => /\ Target \in Nat /\ Minimum(idx) \in Nat /\ Minimum(idx) > 0
            /\ Target >= Minimum(idx)
<1> SUFFICES ASSUME TypeOK
             PROVE  /\ Target \in Nat /\ Minimum(idx) \in Nat /\ Minimum(idx) > 0
                    /\ Target >= Minimum(idx)
  OBVIOUS
<1>1. Minimum(idx) \in Nat /\ Minimum(idx) > 0
  BY BudgetAssumption DEF Minimum
<1>2. ext \in Nat /\ Extension \in Nat
  BY BudgetAssumption DEF TypeOK
<1>3. ext * Extension \in Nat
  BY <1>2
<1> QED
  BY <1>1, <1>3 DEF Target

\* The initial state satisfies the invariant.
LEMMA BudgetInit == Init => BudgetInv
BY BudgetAssumption
   DEF Init, BudgetInv, TypeOK, Observed, Chained, Punctual, ControlsSeparated,
       AdmittedOnNewSamples, WithinExperiment, Pc, Running, After, Admitted,
       Transitions

\* Every step preserves it.
LEMMA BudgetStep == BudgetInv /\ [Next]_vars => BudgetInv'
<1> SUFFICES ASSUME BudgetInv, [Next]_vars PROVE BudgetInv'
  OBVIOUS
<1> USE BudgetAssumption DEF BudgetInv
<1>0. Minimum(idx) \in Nat /\ Minimum(idx) > 0
  BY TargetAboveMinimum
<1>1. CASE Tick
  <2>1. TypeOK'
    BY <1>1 DEF Tick, TypeOK, Pc, Running, history
  <2>2. Observed'
    BY <1>0, <1>1 DEF Tick, Observed, After, Admitted, TypeOK, Minimum, history
  <2>3. Chained'
    BY <1>1 DEF Tick, Chained, TypeOK, history
  <2>4. Punctual'
    BY <1>1 DEF Tick, Punctual, Running, TypeOK
  <2>5. ControlsSeparated' /\ AdmittedOnNewSamples' /\ WithinExperiment'
    BY <1>1 DEF Tick, ControlsSeparated, AdmittedOnNewSamples, WithinExperiment,
       history, Pc, TypeOK
  <2> QED
    BY <2>1, <2>2, <2>3, <2>4, <2>5
<1>2. CASE BeginPre
  <2>1. TypeOK'
    BY <1>2 DEF BeginPre, Goto, TypeOK, Pc, Running, history
  <2>2. Observed'
    BY <1>0, <1>2 DEF BeginPre, Goto, Observed, After, Admitted, TypeOK,
       Minimum, history
  <2>3. Chained'
    BY <1>2 DEF BeginPre, Goto, Chained, TypeOK, history, Observed, Transitions
  <2>4. Punctual'
    BY <1>2 DEF BeginPre, Goto, Punctual, Running, TypeOK
  <2>5. ControlsSeparated' /\ AdmittedOnNewSamples' /\ WithinExperiment'
    BY <1>2 DEF BeginPre, Goto, ControlsSeparated, AdmittedOnNewSamples,
       WithinExperiment, history
  <2> QED
    BY <2>1, <2>2, <2>3, <2>4, <2>5
<1>3. CASE ArmWait
  <2>0. SleepFor \in Nat /\ now + SleepFor >= phaseStart + Minimum(idx)
    BY TargetAboveMinimum DEF SleepFor, Elapsed, TypeOK, Observed
  <2>1. TypeOK'
    BY <1>3, <2>0 DEF ArmWait, Goto, TypeOK, Pc, Running, history
  <2>2. Observed'
    BY <1>0, <1>3, <2>0 DEF ArmWait, Goto, Observed, After, Admitted, TypeOK,
       Minimum, history
  <2>3. Chained'
    BY <1>3, <2>0 DEF ArmWait, Goto, Chained, TypeOK, history
  <2>4. Punctual'
    BY <1>3 DEF ArmWait, Goto, Punctual, Running, TypeOK
  <2>5. ControlsSeparated' /\ AdmittedOnNewSamples' /\ WithinExperiment'
    BY <1>3 DEF ArmWait, Goto, ControlsSeparated, AdmittedOnNewSamples,
       WithinExperiment, history
  <2> QED
    BY <2>1, <2>2, <2>3, <2>4, <2>5
<1>4. CASE ArmFail
  <2>1. TypeOK'
    BY <1>4 DEF ArmFail, Fail, TypeOK, Pc, Running, history
  <2>2. Observed'
    BY <1>0, <1>4 DEF ArmFail, Fail, Observed, After, Admitted, TypeOK, Minimum,
       history
  <2>3. Chained'
    BY <1>4 DEF ArmFail, Fail, Chained, TypeOK, history
  <2>4. Punctual'
    BY <1>4 DEF ArmFail, Fail, Punctual, Running, TypeOK
  <2>5. ControlsSeparated' /\ AdmittedOnNewSamples' /\ WithinExperiment'
    BY <1>4 DEF ArmFail, Fail, ControlsSeparated, AdmittedOnNewSamples,
       WithinExperiment, history
  <2> QED
    BY <2>1, <2>2, <2>3, <2>4, <2>5
<1>5. CASE StartEvaluate
  <2>1. TypeOK'
    BY <1>5 DEF StartEvaluate, Goto, Remaining, TypeOK, Pc, Running, history
  <2>2. Observed'
    BY <1>0, <1>5 DEF StartEvaluate, Goto, Remaining, Observed, After, Admitted,
       TypeOK, Minimum, history
  <2>3. Chained'
    BY <1>5 DEF StartEvaluate, Goto, Remaining, Chained, TypeOK, history
  <2>4. Punctual'
    BY <1>5 DEF StartEvaluate, Goto, Remaining, Punctual, Running, TypeOK
  <2>5. ControlsSeparated' /\ AdmittedOnNewSamples' /\ WithinExperiment'
    BY <1>5 DEF StartEvaluate, Goto, Remaining, ControlsSeparated,
       AdmittedOnNewSamples, WithinExperiment, history
  <2> QED
    BY <2>1, <2>2, <2>3, <2>4, <2>5
<1>6. ASSUME NEW x \in 0..Horizon, Decide(x) PROVE BudgetInv'
  <2>1. TypeOK'
    BY <1>6 DEF Decide, Goto, TypeOK, Pc, Running, history
  <2>2. Observed'
    BY <1>0, <1>6 DEF Decide, Goto, Observed, After, Admitted, TypeOK, Minimum,
       history
  <2>3. Chained'
    BY <1>6 DEF Decide, Goto, Chained, TypeOK, history
  <2>4. Punctual'
    BY <1>6 DEF Decide, Goto, Punctual, Running, TypeOK
  <2>5. ControlsSeparated' /\ AdmittedOnNewSamples' /\ WithinExperiment'
    BY <1>6 DEF Decide, Goto, ControlsSeparated, AdmittedOnNewSamples,
       WithinExperiment, history
  <2> QED
    BY <2>1, <2>2, <2>3, <2>4, <2>5
<1>7. CASE Publish
  <2>1. TypeOK'
    BY <1>7 DEF Publish, Goto, TypeOK, Pc, Running, history
  <2>2. Observed'
    BY <1>0, <1>7 DEF Publish, Goto, Observed, After, Admitted, TypeOK, Minimum,
       history
  <2>3. Chained'
    BY <1>7 DEF Publish, Goto, Chained, TypeOK, history
  <2>4. Punctual'
    BY <1>7 DEF Publish, Goto, Punctual, Running, TypeOK
  <2>5. ControlsSeparated' /\ AdmittedOnNewSamples' /\ WithinExperiment'
    BY <1>7 DEF Publish, Goto, ControlsSeparated, AdmittedOnNewSamples,
       WithinExperiment, history
  <2> QED
    BY <2>1, <2>2, <2>3, <2>4, <2>5
<1>8. CASE LastPassed
  <2>1. TypeOK'
    BY <1>8 DEF LastPassed, Goto, TypeOK, Pc, Running, history
  <2>2. Observed'
    BY <1>0, <1>8 DEF LastPassed, Goto, Observed, After, Admitted, TypeOK,
       Minimum, history
  <2>3. Chained'
    BY <1>8 DEF LastPassed, Goto, Chained, TypeOK, history
  <2>4. Punctual'
    BY <1>8 DEF LastPassed, Goto, Punctual, Running, TypeOK
  <2>5. ControlsSeparated' /\ AdmittedOnNewSamples' /\ WithinExperiment'
    BY <1>8 DEF LastPassed, Goto, ControlsSeparated, AdmittedOnNewSamples,
       WithinExperiment, history
  <2> QED
    BY <2>1, <2>2, <2>3, <2>4, <2>5
<1>9. CASE Extend
  <2>1. TypeOK'
    BY <1>9 DEF Extend, Goto, TypeOK, Pc, Running, history
  <2>2. Observed'
    BY <1>0, <1>9 DEF Extend, Goto, Observed, After, Admitted, TypeOK, Minimum,
       history
  <2>3. Chained'
    BY <1>9 DEF Extend, Goto, Chained, TypeOK, history
  <2>4. Punctual'
    BY <1>9 DEF Extend, Goto, Punctual, Running, TypeOK
  <2>5. ControlsSeparated' /\ AdmittedOnNewSamples' /\ WithinExperiment'
    BY <1>9 DEF Extend, Goto, ControlsSeparated, AdmittedOnNewSamples,
       WithinExperiment, history
  <2> QED
    BY <2>1, <2>2, <2>3, <2>4, <2>5
<1>10. CASE StartBind
  <2>1. TypeOK'
    BY <1>10 DEF StartBind, Goto, Remaining, TypeOK, Pc, Running, history
  <2>2. Observed'
    BY <1>0, <1>10 DEF StartBind, Goto, Remaining, Observed, After, Admitted,
       TypeOK, Minimum, history
  <2>3. Chained'
    BY <1>10 DEF StartBind, Goto, Remaining, Chained, TypeOK, history
  <2>4. Punctual'
    BY <1>10 DEF StartBind, Goto, Remaining, Punctual, Running, TypeOK
  <2>5. ControlsSeparated' /\ AdmittedOnNewSamples' /\ WithinExperiment'
    BY <1>10 DEF StartBind, Goto, Remaining, ControlsSeparated,
       AdmittedOnNewSamples, WithinExperiment, history
  <2> QED
    BY <2>1, <2>2, <2>3, <2>4, <2>5
<1>11. CASE BindDone
  <2>1. TypeOK'
    BY <1>11 DEF BindDone, Goto, TypeOK, Pc, Running, history
  <2>2. Observed'
    BY <1>0, <1>11 DEF BindDone, Goto, Observed, After, Admitted, TypeOK,
       Minimum, history
  <2>3. Chained'
    BY <1>11 DEF BindDone, Goto, Chained, TypeOK, history
  <2>4. Punctual'
    BY <1>11 DEF BindDone, Goto, Punctual, Running, TypeOK
  <2>5. ControlsSeparated' /\ AdmittedOnNewSamples' /\ WithinExperiment'
    BY <1>11 DEF BindDone, Goto, ControlsSeparated, AdmittedOnNewSamples,
       WithinExperiment, history
  <2> QED
    BY <2>1, <2>2, <2>3, <2>4, <2>5
<1>12. CASE StartTrigger
  <2>1. TypeOK'
    BY <1>12 DEF StartTrigger, Goto, Remaining, TypeOK, Pc, Running, history
  <2>2. Observed'
    BY <1>0, <1>12 DEF StartTrigger, Goto, Remaining, Observed, After, Admitted,
       TypeOK, Minimum, history
  <2>3. Chained'
    BY <1>12 DEF StartTrigger, Goto, Remaining, Chained, TypeOK, history
  <2>4. Punctual'
    BY <1>12 DEF StartTrigger, Goto, Remaining, Punctual, Running, TypeOK
  <2>5. ControlsSeparated' /\ AdmittedOnNewSamples' /\ WithinExperiment'
    BY <1>12 DEF StartTrigger, Goto, Remaining, ControlsSeparated,
       AdmittedOnNewSamples, WithinExperiment, history
  <2> QED
    BY <2>1, <2>2, <2>3, <2>4, <2>5
<1>13. CASE AgeGate
  <2>1. TypeOK'
    BY <1>13 DEF AgeGate, Goto, TypeOK, Pc, Running, history
  <2>2. Observed'
    BY <1>0, <1>13 DEF AgeGate, Goto, Observed, After, Admitted, TypeOK,
       Minimum, history
  <2>3. Chained'
    BY <1>13 DEF AgeGate, Goto, Chained, TypeOK, history
  <2>4. Punctual'
    BY <1>13 DEF AgeGate, Goto, Punctual, Running, TypeOK
  <2>5. ControlsSeparated' /\ AdmittedOnNewSamples' /\ WithinExperiment'
    BY <1>13 DEF AgeGate, Goto, ControlsSeparated, AdmittedOnNewSamples,
       WithinExperiment, history
  <2> QED
    BY <2>1, <2>2, <2>3, <2>4, <2>5
<1>14. CASE WriteTrigger
  <2>0. idx \in Transitions
    BY <1>14 DEF WriteTrigger, Observed, Admitted, TypeOK, Transitions
  <2>1. TypeOK'
    BY <1>14, <2>0 DEF WriteTrigger, Goto, TypeOK, Pc, Running, history
  <2>2. Observed'
    BY <1>0, <1>14, <2>0 DEF WriteTrigger, Goto, Observed, After, Admitted,
       TypeOK, Minimum, history
  <2>3. Chained'
    BY <1>14, <2>0 DEF WriteTrigger, Goto, Chained, TypeOK, history, Transitions
  <2>4. Punctual'
    BY <1>14 DEF WriteTrigger, Goto, Punctual, Running, TypeOK
  <2>5. \A t \in Transitions :
            t > 1 => /\ t - 1 \in Transitions
                     /\ at'[t] > 0 => at'[t - 1] = at[t - 1]
    <3> SUFFICES ASSUME NEW t \in Transitions, t > 1
                 PROVE  /\ t - 1 \in Transitions
                        /\ at'[t] > 0 => at'[t - 1] = at[t - 1]
      OBVIOUS
    <3>1. t - 1 \in Transitions
      BY DEF Transitions
    <3>2. CASE t - 1 = idx
      <4>1. at'[t] = 0
        BY <1>14, <2>0, <3>2 DEF WriteTrigger, Chained, TypeOK, Transitions
      <4> QED
        BY <4>1, <3>1
    <3>3. CASE t - 1 # idx
      BY <1>14, <2>0, <3>1, <3>3 DEF WriteTrigger, TypeOK
    <3> QED
      BY <3>2, <3>3
  <2>6. ControlsSeparated' /\ AdmittedOnNewSamples'
    <3> SUFFICES ASSUME NEW t \in Transitions, at'[t] > 0
                 PROVE  /\ IF t = 1 THEN at'[t] >= PreMin
                           ELSE at'[t] >= at'[t - 1] + PostMin
                        /\ t > 1 => seen'[t] + MaxAge >= at'[t - 1] + PostMin
      BY DEF ControlsSeparated, AdmittedOnNewSamples
    <3>0. t \in Nat /\ (t # 1 => t > 1)
      BY DEF Transitions
    <3>1. CASE t = idx
      <4>1. at'[t] = now /\ seen'[t] = sample
        BY <1>14, <2>0, <3>1 DEF WriteTrigger, TypeOK
      <4>2. /\ now >= phaseStart + Minimum(t)
            /\ sample + MaxAge >= phaseStart + Minimum(t)
            /\ t > 1 => at[t - 1] <= phaseStart
        BY <1>14, <3>1 DEF WriteTrigger, Observed, After, Admitted, Chained
      <4>3. CASE t = 1
        BY <4>1, <4>2, <4>3 DEF Minimum, TypeOK
      <4>4. CASE t > 1
        <5>1. at'[t - 1] = at[t - 1] /\ at[t - 1] \in Nat
          BY <2>5, <4>4 DEF TypeOK
        <5>2. Minimum(t) = PostMin
          BY <4>4, <3>0 DEF Minimum
        <5> QED
          BY <4>1, <4>2, <4>4, <5>1, <5>2 DEF TypeOK
      <4> QED
        BY <3>0, <4>3, <4>4
    <3>2. CASE t # idx
      <4>1. at'[t] = at[t] /\ seen'[t] = seen[t]
        BY <1>14, <3>2 DEF WriteTrigger, TypeOK
      <4> QED
        BY <2>5, <3>0, <4>1 DEF ControlsSeparated, AdmittedOnNewSamples
    <3> QED
      BY <3>1, <3>2
  <2>7. WithinExperiment'
    BY <1>14, <2>0
       DEF WriteTrigger, Goto, WithinExperiment, Punctual, Running, TypeOK
  <2> QED
    BY <2>1, <2>2, <2>3, <2>4, <2>5, <2>6, <2>7
<1>15. CASE TriggerDone
  <2>0. idx \in Transitions
    BY <1>15 DEF TriggerDone, Observed, Admitted, TypeOK, Transitions
  <2>1. TypeOK'
    <3>1. idx' \in 1..(LastTransition + 1)
      BY <1>15, <2>0 DEF TriggerDone, Transitions
    <3>2. ext' \in 0..MaxExtensions
      BY <1>15 DEF TriggerDone
    <3> QED
      BY <1>15, <3>1, <3>2 DEF TriggerDone, Goto, TypeOK, Pc, history
  <2>2. Observed'
    BY <1>0, <1>15, <2>0 DEF TriggerDone, Goto, Observed, After, Admitted,
       TypeOK, history
  <2>3. Chained'
    <3>1. idx' - 1 = idx /\ idx' > 1
      BY <1>15, <2>0 DEF TriggerDone, Transitions
    <3>2. at[idx] <= now
      BY <2>0 DEF Chained
    <3>3. \A t \in Transitions : t > idx' => t > idx
      BY <1>15, <2>0 DEF TriggerDone, Transitions
    <3>4. idx' \in Transitions => idx' > idx
      BY <1>15, <2>0 DEF TriggerDone, Transitions
    <3> QED
      BY <1>15, <3>1, <3>2, <3>3, <3>4 DEF TriggerDone, Chained, history
  <2>4. Punctual'
    BY <1>15 DEF TriggerDone, Goto, Punctual, Running, TypeOK
  <2>5. ControlsSeparated' /\ AdmittedOnNewSamples' /\ WithinExperiment'
    BY <1>15 DEF TriggerDone, Goto, ControlsSeparated, AdmittedOnNewSamples,
       WithinExperiment, history
  <2> QED
    BY <2>1, <2>2, <2>3, <2>4, <2>5
<1>16. CASE StopTraffic
  <2>1. TypeOK'
    BY <1>16 DEF StopTraffic, Goto, TypeOK, Pc, Running, history
  <2>2. Observed'
    BY <1>0, <1>16 DEF StopTraffic, Goto, Observed, After, Admitted, TypeOK,
       Minimum, history
  <2>3. Chained'
    BY <1>16 DEF StopTraffic, Goto, Chained, TypeOK, history
  <2>4. Punctual'
    BY <1>16 DEF StopTraffic, Goto, Punctual, Running, TypeOK
  <2>5. ControlsSeparated' /\ AdmittedOnNewSamples' /\ WithinExperiment'
    BY <1>16 DEF StopTraffic, Goto, ControlsSeparated, AdmittedOnNewSamples,
       WithinExperiment, history
  <2> QED
    BY <2>1, <2>2, <2>3, <2>4, <2>5
<1>17. CASE StartFinalize
  <2>1. TypeOK'
    BY <1>17 DEF StartFinalize, Goto, Remaining, TypeOK, Pc, Running, history
  <2>2. Observed'
    BY <1>0, <1>17 DEF StartFinalize, Goto, Remaining, Observed, After,
       Admitted, TypeOK, Minimum, history
  <2>3. Chained'
    BY <1>17 DEF StartFinalize, Goto, Remaining, Chained, TypeOK, history
  <2>4. Punctual'
    BY <1>17 DEF StartFinalize, Goto, Remaining, Punctual, Running, TypeOK
  <2>5. ControlsSeparated' /\ AdmittedOnNewSamples' /\ WithinExperiment'
    BY <1>17 DEF StartFinalize, Goto, Remaining, ControlsSeparated,
       AdmittedOnNewSamples, WithinExperiment, history
  <2> QED
    BY <2>1, <2>2, <2>3, <2>4, <2>5
<1>18. CASE FinalizeDone
  <2>1. TypeOK'
    BY <1>18 DEF FinalizeDone, TypeOK, Pc, Running, history
  <2>2. Observed'
    BY <1>0, <1>18 DEF FinalizeDone, Observed, After, Admitted, TypeOK, Minimum,
       history
  <2>3. Chained'
    BY <1>18 DEF FinalizeDone, Chained, TypeOK, history
  <2>4. Punctual'
    BY <1>18 DEF FinalizeDone, Punctual, Running, TypeOK
  <2>5. ControlsSeparated' /\ AdmittedOnNewSamples' /\ WithinExperiment'
    BY <1>18 DEF FinalizeDone, ControlsSeparated, AdmittedOnNewSamples,
       WithinExperiment, history, Punctual, Running
  <2> QED
    BY <2>1, <2>2, <2>3, <2>4, <2>5
<1>19. CASE OutOfTime
  <2>1. TypeOK'
    BY <1>19 DEF OutOfTime, Fail, TypeOK, Pc, Running, history
  <2>2. Observed'
    BY <1>0, <1>19 DEF OutOfTime, Fail, Observed, After, Admitted, TypeOK,
       Minimum, history
  <2>3. Chained'
    BY <1>19 DEF OutOfTime, Fail, Chained, TypeOK, history
  <2>4. Punctual'
    BY <1>19 DEF OutOfTime, Fail, Punctual, Running, TypeOK
  <2>5. ControlsSeparated' /\ AdmittedOnNewSamples' /\ WithinExperiment'
    BY <1>19 DEF OutOfTime, Fail, ControlsSeparated, AdmittedOnNewSamples,
       WithinExperiment, history
  <2> QED
    BY <2>1, <2>2, <2>3, <2>4, <2>5
<1>20. CASE CommandFails
  <2>1. TypeOK'
    BY <1>20 DEF CommandFails, Fail, TypeOK, Pc, Running, history
  <2>2. Observed'
    BY <1>0, <1>20 DEF CommandFails, Fail, Observed, After, Admitted, TypeOK,
       Minimum, history
  <2>3. Chained'
    BY <1>20 DEF CommandFails, Fail, Chained, TypeOK, history, Running
  <2>4. Punctual'
    BY <1>20 DEF CommandFails, Fail, Punctual, Running, TypeOK
  <2>5. ControlsSeparated' /\ AdmittedOnNewSamples' /\ WithinExperiment'
    BY <1>20 DEF CommandFails, Fail, ControlsSeparated, AdmittedOnNewSamples,
       WithinExperiment, history
  <2> QED
    BY <2>1, <2>2, <2>3, <2>4, <2>5
<1>21. ASSUME NEW t \in Transitions, DockerStart(t) PROVE BudgetInv'
  <2>1. TypeOK'
    BY <1>21 DEF DockerStart, TypeOK, Pc, Running, history
  <2>2. Observed'
    BY <1>0, <1>21 DEF DockerStart, Observed, After, Admitted, TypeOK, Minimum,
       history
  <2>3. Chained'
    BY <1>21 DEF DockerStart, Chained, TypeOK, history
  <2>4. Punctual'
    BY <1>21 DEF DockerStart, Punctual, Running, TypeOK
  <2>5. ControlsSeparated' /\ AdmittedOnNewSamples' /\ WithinExperiment'
    BY <1>21 DEF DockerStart, ControlsSeparated, AdmittedOnNewSamples,
       WithinExperiment, history
  <2> QED
    BY <2>1, <2>2, <2>3, <2>4, <2>5
<1>22. CASE UNCHANGED vars
  BY <1>22 DEF vars, history, TypeOK, Observed, Minimum, Chained, Punctual,
     ControlsSeparated, AdmittedOnNewSamples, WithinExperiment
<1> QED
  BY <1>1, <1>2, <1>3, <1>4, <1>5, <1>6, <1>7, <1>8, <1>9, <1>10, <1>11, <1>12,
     <1>13, <1>14, <1>15, <1>16, <1>17, <1>18, <1>19, <1>20, <1>21, <1>22 DEF
     Next

\* Types, and the bound on extensions, for every choice of durations.
THEOREM BudgetTypes == Spec => []TypeOK
<1>1. BudgetInv => TypeOK
  BY DEF BudgetInv
<1> QED
  BY <1>1, BudgetInit, BudgetStep, PTL DEF Spec

\* Triggers are a minimum post phase apart.
THEOREM Separated == Spec => []ControlsSeparated
<1>1. BudgetInv => ControlsSeparated
  BY DEF BudgetInv
<1> QED
  BY <1>1, BudgetInit, BudgetStep, PTL DEF Spec

\* A trigger is admitted on samples taken after the previous trigger.
THEOREM NewSamples == Spec => []AdmittedOnNewSamples
<1>1. BudgetInv => AdmittedOnNewSamples
  BY DEF BudgetInv
<1> QED
  BY <1>1, BudgetInit, BudgetStep, PTL DEF Spec

\* No trigger and no PASS after EXPERIMENT_MAX_S.
THEOREM InTime == Spec => []WithinExperiment
<1>1. BudgetInv => WithinExperiment
  BY DEF BudgetInv
<1> QED
  BY <1>1, BudgetInit, BudgetStep, PTL DEF Spec
=============================================================================
