----------------------- MODULE SequenceSupervisorProofs -----------------------
(***************************************************************************)
(* Proofs about SequenceSupervisor for every number of supervisors and      *)
(* transitions. The exclusively published precontrol file T<t>.json is the  *)
(* lock: whoever triggers t published it (Owner), has not triggered it      *)
(* before (Fresh), and triggered all earlier transitions itself (Past).     *)
(***************************************************************************)
EXTENDS SequenceSupervisor, FiniteSetTheorems, TLAPS

ExecutorPc == {"x_gate", "x_write", "x_yes", "x_unknown", "x_no"}

\* The command of a living supervisor is the one it waits for.
InStep ==
  \A s \in Supervisors :
    /\ sup[s] = "none" => cmd[s] = "none" /\ idx[s] = 1
    /\ sup[s] = "observe" =>
         cmd[s] \in {"h_check", "h_stationarity", "h_freshness", "h_publish",
                     "ok", "gatefail", "error"}
    /\ sup[s] = "bind" => cmd[s] \in {"b_run", "ok", "error"}
    /\ sup[s] = "trigger" => cmd[s] \in ExecutorPc \cup {"ok", "error"}
    /\ cmd[s] \in {"h_freshness", "h_publish"} => idx[s] \in Transitions

\* Supervisor s, or the command it left behind, is on its way to a trigger.
Armed(s) ==
  \/ sup[s] \in {"bind", "trigger"}
  \/ cmd[s] \in {"b_run"} \cup ExecutorPc
  \/ sup[s] = "observe" /\ cmd[s] = "ok" /\ idx[s] <= LastTransition

\* It published the precontrol file of that transition.
Owner ==
  \A s \in Supervisors : Armed(s) => idx[s] \in Transitions /\ pre[idx[s]] = s

\* What it published is not triggered yet.
Fresh ==
  \A s \in Supervisors :
    /\ idx[s] \in Transitions
    /\ pre[idx[s]] = s
    /\ sup[s] \in {"none", "observe", "bind"} \/ cmd[s] \in {"b_run", "x_gate", "x_write"}
    => written[idx[s]] = 0 /\ evidence[idx[s]] = "None"

\* The executor's verdict in memory is true.
Pending ==
  \A s \in Supervisors :
    /\ cmd[s] \in ExecutorPc => evidence[idx[s]] = "None"
    /\ cmd[s] = "x_yes" => written[idx[s]] = 1
    /\ cmd[s] \in {"x_no", "x_unknown"} => written[idx[s]] = 0
    /\ sup[s] = "trigger" /\ cmd[s] = "ok" =>
         written[idx[s]] = 1 /\ evidence[idx[s]] = "YES"

\* Nothing happens to a transition before its file is published, and it is
\* published by a supervisor that got that far.
Published ==
  \A t \in Transitions :
    /\ pre[t] = None => written[t] = 0 /\ evidence[t] = "None"
    /\ pre[t] # None => t <= idx[pre[t]]

\* A supervisor triggered all transitions before its current one.
Past ==
  \A s \in Supervisors, u \in Transitions :
    u < idx[s] => pre[u] = s /\ written[u] = 1 /\ evidence[u] = "YES"

SupInv ==
  /\ TypeOK
  /\ InStep
  /\ Owner
  /\ Fresh
  /\ Pending
  /\ Published
  /\ Past
  /\ AtMostOneTrigger
  /\ EvidenceHonest

\* The initial state satisfies the invariant.
LEMMA SupInit == Init => SupInv
BY SupervisorAssumption
   DEF Init, SupInv, TypeOK, InStep, Owner, Armed, Fresh, Pending, Published, Past,
       AtMostOneTrigger, EvidenceHonest, Report, BaseReport, SupPc, CmdPc,
       ExecutorPc, Transitions

\* Every step preserves it.
LEMMA SupStep == SupInv /\ [Next]_vars => SupInv'
<1> SUFFICES ASSUME SupInv, [Next]_vars PROVE SupInv'
  OBVIOUS
<1> USE SupervisorAssumption DEF SupInv
<1>1. ASSUME NEW s \in Supervisors, HandoffCheck(s) PROVE SupInv'
  <2>1. TypeOK'
    BY <1>1 DEF HandoffCheck, Command, Publishes, TypeOK, Report, SupPc, CmdPc,
       fileVars
  <2>2. InStep'
    BY <1>1 DEF HandoffCheck, Command, Publishes, InStep, ExecutorPc,
       Transitions, TypeOK, fileVars
  <2>3. Owner'
    BY <1>1 DEF HandoffCheck, Command, Publishes, Owner, Armed, InStep,
       ExecutorPc, Transitions, TypeOK, fileVars
  <2>4. Fresh'
    BY <1>1 DEF HandoffCheck, Command, Publishes, Fresh, Owner, Armed,
       Published, InStep, ExecutorPc, Transitions, TypeOK, fileVars
  <2>5. Pending'
    BY <1>1 DEF HandoffCheck, Command, Publishes, Pending, Fresh, Owner, Armed,
       InStep, ExecutorPc, Transitions, TypeOK, fileVars
  <2>6. Published' /\ Past' /\ AtMostOneTrigger' /\ EvidenceHonest'
    BY <1>1 DEF HandoffCheck, Published, Past, AtMostOneTrigger, EvidenceHonest,
       fileVars
  <2> QED
    BY <2>1, <2>2, <2>3, <2>4, <2>5, <2>6
<1>2. ASSUME NEW s \in Supervisors, HandoffStationarity(s) PROVE SupInv'
  <2>1. TypeOK'
    BY <1>2 DEF HandoffStationarity, Command, Publishes, TypeOK, Report, SupPc,
       CmdPc, fileVars
  <2>2. InStep'
    BY <1>2 DEF HandoffStationarity, Command, Publishes, InStep, ExecutorPc,
       Transitions, TypeOK, fileVars
  <2>3. Owner'
    BY <1>2 DEF HandoffStationarity, Command, Publishes, Owner, Armed, InStep,
       ExecutorPc, Transitions, TypeOK, fileVars
  <2>4. Fresh'
    BY <1>2 DEF HandoffStationarity, Command, Publishes, Fresh, Owner, Armed,
       Published, InStep, ExecutorPc, Transitions, TypeOK, fileVars
  <2>5. Pending'
    BY <1>2 DEF HandoffStationarity, Command, Publishes, Pending, Fresh, Owner,
       Armed, InStep, ExecutorPc, Transitions, TypeOK, fileVars
  <2>6. Published' /\ Past' /\ AtMostOneTrigger' /\ EvidenceHonest'
    BY <1>2 DEF HandoffStationarity, Published, Past, AtMostOneTrigger,
       EvidenceHonest, fileVars
  <2> QED
    BY <2>1, <2>2, <2>3, <2>4, <2>5, <2>6
<1>3. ASSUME NEW s \in Supervisors, HandoffFreshness(s) PROVE SupInv'
  <2>1. TypeOK'
    BY <1>3 DEF HandoffFreshness, Command, TypeOK, Report, SupPc, CmdPc, fileVars
  <2>2. InStep'
    BY <1>3 DEF HandoffFreshness, Command, InStep, ExecutorPc, Transitions,
       TypeOK, fileVars
  <2>3. Owner'
    BY <1>3 DEF HandoffFreshness, Command, Owner, Armed, InStep, ExecutorPc,
       Transitions, TypeOK, fileVars
  <2>4. Fresh'
    BY <1>3 DEF HandoffFreshness, Command, Fresh, Owner, Armed, Published,
       InStep, ExecutorPc, Transitions, TypeOK, fileVars
  <2>5. Pending'
    BY <1>3 DEF HandoffFreshness, Command, Pending, Fresh, Owner, Armed, InStep,
       ExecutorPc, Transitions, TypeOK, fileVars
  <2>6. Published' /\ Past' /\ AtMostOneTrigger' /\ EvidenceHonest'
    BY <1>3 DEF HandoffFreshness, Published, Past, AtMostOneTrigger,
       EvidenceHonest, fileVars
  <2> QED
    BY <2>1, <2>2, <2>3, <2>4, <2>5, <2>6
<1>4. ASSUME NEW s \in Supervisors, HandoffPublish(s) PROVE SupInv'
  <2>0. idx[s] \in Transitions
    BY <1>4 DEF HandoffPublish, InStep
  <2>1. TypeOK'
    <3>1. pre' \in [Transitions -> Supervisors \cup {None}]
      BY <1>4, <2>0 DEF HandoffPublish, Command, TypeOK, CmdPc
    <3>2. cmd' \in [Supervisors -> CmdPc]
      BY <1>4 DEF HandoffPublish, Command, TypeOK, CmdPc
    <3> QED
      BY <1>4, <3>1, <3>2 DEF HandoffPublish, TypeOK
  <2>2. InStep'
    BY <1>4, <2>0 DEF HandoffPublish, Command, InStep, ExecutorPc, Transitions,
       TypeOK, fileVars
  <2>3. Owner'
    BY <1>4, <2>0 DEF HandoffPublish, Command, Owner, Armed, InStep, ExecutorPc,
       Transitions, TypeOK, fileVars
  <2>4. Fresh'
    <3> SUFFICES ASSUME NEW q \in Supervisors, idx'[q] \in Transitions,
                        pre'[idx'[q]] = q,
                        \/ sup'[q] \in {"none", "observe", "bind"}
                        \/ cmd'[q] \in {"b_run", "x_gate", "x_write"}
                 PROVE  written'[idx'[q]] = 0 /\ evidence'[idx'[q]] = "None"
      BY DEF Fresh
    <3>1. CASE q = s
      BY <1>4, <2>0, <3>1 DEF HandoffPublish, Command, Published, Fresh, TypeOK
    <3>2. CASE q # s
      BY <1>4, <2>0, <3>2 DEF HandoffPublish, Command, Fresh, TypeOK
    <3> QED
      BY <3>1, <3>2
  <2>5. Pending'
    BY <1>4, <2>0 DEF HandoffPublish, Command, Pending, Fresh, Owner, Armed,
       InStep, ExecutorPc, Transitions, TypeOK, fileVars
  <2>6. Published'
    <3> SUFFICES ASSUME NEW t \in Transitions
                 PROVE  /\ pre'[t] = None => written'[t] = 0 /\ evidence'[t] = "None"
                        /\ pre'[t] # None => t <= idx'[pre'[t]]
      BY DEF Published
    <3>1. CASE t = idx[s]
      BY <1>4, <2>0, <3>1 DEF HandoffPublish, Published, TypeOK, Transitions
    <3>2. CASE t # idx[s]
      BY <1>4, <2>0, <3>2 DEF HandoffPublish, Published, TypeOK
    <3> QED
      BY <3>1, <3>2
  <2>7. Past'
    <3> SUFFICES ASSUME NEW q \in Supervisors, NEW u \in Transitions, u < idx'[q]
                 PROVE  pre'[u] = q /\ written'[u] = 1 /\ evidence'[u] = "YES"
      BY DEF Past
    <3>1. pre[u] = q /\ written[u] = 1 /\ evidence[u] = "YES"
      BY <1>4 DEF HandoffPublish, Past
    <3> QED
      BY <1>4, <2>0, <3>1 DEF HandoffPublish, TypeOK
  <2>8. AtMostOneTrigger'
    BY <1>4, <2>0 DEF HandoffPublish, Command, AtMostOneTrigger, Owner, Fresh,
       Armed, ExecutorPc, TypeOK, fileVars
  <2>9. EvidenceHonest'
    BY <1>4, <2>0 DEF HandoffPublish, Command, EvidenceHonest, Owner, Fresh,
       Armed, Pending, ExecutorPc, TypeOK, fileVars
  <2> QED
    BY <2>1, <2>2, <2>3, <2>4, <2>5, <2>6, <2>7, <2>8, <2>9
<1>5. ASSUME NEW s \in Supervisors, BindRun(s) PROVE SupInv'
  <2>0. idx[s] \in Transitions
    BY <1>5 DEF BindRun, Owner, Armed, TypeOK, ExecutorPc
  <2>1. TypeOK'
    <3>1. bound' \subseteq Transitions
      BY <1>5, <2>0 DEF BindRun, Command, TypeOK, CmdPc
    <3>2. cmd' \in [Supervisors -> CmdPc]
      BY <1>5 DEF BindRun, Command, TypeOK, CmdPc
    <3> QED
      BY <1>5, <3>1, <3>2 DEF BindRun, TypeOK
  <2>2. InStep'
    BY <1>5, <2>0 DEF BindRun, Command, InStep, ExecutorPc, Transitions, TypeOK,
       fileVars
  <2>3. Owner'
    BY <1>5, <2>0 DEF BindRun, Command, Owner, Armed, InStep, ExecutorPc,
       Transitions, TypeOK, fileVars
  <2>4. Fresh'
    BY <1>5, <2>0 DEF BindRun, Command, Fresh, Owner, Armed, Published, InStep,
       ExecutorPc, Transitions, TypeOK, fileVars
  <2>5. Pending'
    BY <1>5, <2>0 DEF BindRun, Command, Pending, Fresh, Owner, Armed, InStep,
       ExecutorPc, Transitions, TypeOK, fileVars
  <2>6. Published' /\ Past' /\ AtMostOneTrigger' /\ EvidenceHonest'
    BY <1>5 DEF BindRun, Published, Past, AtMostOneTrigger, EvidenceHonest,
       fileVars
  <2> QED
    BY <2>1, <2>2, <2>3, <2>4, <2>5, <2>6
<1>6. ASSUME NEW s \in Supervisors, ExecutorGate(s) PROVE SupInv'
  <2>1. TypeOK'
    BY <1>6 DEF ExecutorGate, Command, TypeOK, Report, SupPc, CmdPc, fileVars
  <2>2. InStep'
    BY <1>6 DEF ExecutorGate, Command, InStep, ExecutorPc, Transitions, TypeOK,
       fileVars
  <2>3. Owner'
    BY <1>6 DEF ExecutorGate, Command, Owner, Armed, InStep, ExecutorPc,
       Transitions, TypeOK, fileVars
  <2>4. Fresh'
    BY <1>6 DEF ExecutorGate, Command, Fresh, Owner, Armed, Published, InStep,
       ExecutorPc, Transitions, TypeOK, fileVars
  <2>5. Pending'
    BY <1>6 DEF ExecutorGate, Command, Pending, Fresh, Owner, Armed, InStep,
       ExecutorPc, Transitions, TypeOK, fileVars
  <2>6. Published' /\ Past' /\ AtMostOneTrigger' /\ EvidenceHonest'
    BY <1>6 DEF ExecutorGate, Published, Past, AtMostOneTrigger, EvidenceHonest,
       fileVars
  <2> QED
    BY <2>1, <2>2, <2>3, <2>4, <2>5, <2>6
<1>7. ASSUME NEW s \in Supervisors, ExecutorWrite(s) PROVE SupInv'
  <2>0. idx[s] \in Transitions
    BY <1>7 DEF ExecutorWrite, Owner, Armed, TypeOK, ExecutorPc
  <2>1. TypeOK'
    <3>1. written' \in [Transitions -> Nat]
      BY <1>7, <2>0 DEF ExecutorWrite, Command, TypeOK, CmdPc
    <3>2. cmd' \in [Supervisors -> CmdPc]
      BY <1>7 DEF ExecutorWrite, Command, TypeOK, CmdPc
    <3> QED
      BY <1>7, <3>1, <3>2 DEF ExecutorWrite, TypeOK
  <2>2. InStep'
    BY <1>7, <2>0 DEF ExecutorWrite, Command, InStep, ExecutorPc, Transitions,
       TypeOK, fileVars
  <2>3. Owner'
    BY <1>7, <2>0 DEF ExecutorWrite, Command, Owner, Armed, InStep, ExecutorPc,
       Transitions, TypeOK, fileVars
  <2>4. Fresh'
    <3> SUFFICES ASSUME NEW q \in Supervisors, idx'[q] \in Transitions,
                        pre'[idx'[q]] = q,
                        \/ sup'[q] \in {"none", "observe", "bind"}
                        \/ cmd'[q] \in {"b_run", "x_gate", "x_write"}
                 PROVE  written'[idx'[q]] = 0 /\ evidence'[idx'[q]] = "None"
      BY DEF Fresh
    <3>1. CASE q = s
      BY <1>7, <2>0, <3>1 DEF ExecutorWrite, Command, InStep, Fresh, ExecutorPc,
         TypeOK
    <3>2. CASE q # s
      BY <1>7, <2>0, <3>2 DEF ExecutorWrite, Command, Fresh, Owner, Armed,
         ExecutorPc, TypeOK
    <3> QED
      BY <3>1, <3>2
  <2>5. Pending'
    BY <1>7, <2>0 DEF ExecutorWrite, Command, Pending, Fresh, Owner, Armed,
       InStep, ExecutorPc, Transitions, TypeOK, fileVars
  <2>6. Published'
    BY <1>7, <2>0 DEF ExecutorWrite, Command, Published, Owner, Armed, InStep,
       ExecutorPc, Transitions, TypeOK, fileVars
  <2>7. Past'
    BY <1>7, <2>0 DEF ExecutorWrite, Command, Past, Owner, Pending, Armed,
       Published, ExecutorPc, Transitions, TypeOK, fileVars
  <2>8. AtMostOneTrigger'
    BY <1>7, <2>0 DEF ExecutorWrite, Command, AtMostOneTrigger, Owner, Fresh,
       Armed, ExecutorPc, TypeOK, fileVars
  <2>9. EvidenceHonest'
    BY <1>7, <2>0 DEF ExecutorWrite, Command, EvidenceHonest, Owner, Fresh,
       Armed, Pending, ExecutorPc, TypeOK, fileVars
  <2> QED
    BY <2>1, <2>2, <2>3, <2>4, <2>5, <2>6, <2>7, <2>8, <2>9
<1>8. ASSUME NEW s \in Supervisors, ExecutorResult(s) PROVE SupInv'
  <2>0. idx[s] \in Transitions
    BY <1>8 DEF ExecutorResult, Owner, Armed, TypeOK, ExecutorPc, Verdict
  <2>1. TypeOK'
    <3>1. evidence' \in [Transitions -> {"None", "NO", "UNKNOWN", "YES"}]
      BY <1>8, <2>0 DEF ExecutorResult, Command, TypeOK, CmdPc, Verdict
    <3>2. cmd' \in [Supervisors -> CmdPc]
      BY <1>8 DEF ExecutorResult, Command, TypeOK, CmdPc
    <3> QED
      BY <1>8, <3>1, <3>2 DEF ExecutorResult, TypeOK
  <2>2. InStep'
    BY <1>8, <2>0 DEF ExecutorResult, Command, Verdict, InStep, ExecutorPc,
       Transitions, TypeOK, fileVars
  <2>3. Owner'
    BY <1>8, <2>0 DEF ExecutorResult, Command, Verdict, Owner, Armed, InStep,
       ExecutorPc, Transitions, TypeOK, fileVars
  <2>4. Fresh'
    <3> SUFFICES ASSUME NEW q \in Supervisors, idx'[q] \in Transitions,
                        pre'[idx'[q]] = q,
                        \/ sup'[q] \in {"none", "observe", "bind"}
                        \/ cmd'[q] \in {"b_run", "x_gate", "x_write"}
                 PROVE  written'[idx'[q]] = 0 /\ evidence'[idx'[q]] = "None"
      BY DEF Fresh
    <3>1. CASE q = s
      BY <1>8, <2>0, <3>1 DEF ExecutorResult, Command, InStep, Fresh,
         ExecutorPc, TypeOK, Verdict
    <3>2. CASE q # s
      BY <1>8, <2>0, <3>2 DEF ExecutorResult, Command, Fresh, Owner, Armed,
         ExecutorPc, TypeOK, Verdict
    <3> QED
      BY <3>1, <3>2
  <2>5. Pending'
    BY <1>8, <2>0 DEF ExecutorResult, Command, Verdict, Pending, Fresh, Owner,
       Armed, InStep, ExecutorPc, Transitions, TypeOK, fileVars
  <2>6. Published'
    BY <1>8, <2>0 DEF ExecutorResult, Command, Verdict, Published, Owner, Armed,
       InStep, ExecutorPc, Transitions, TypeOK, fileVars
  <2>7. Past'
    BY <1>8, <2>0 DEF ExecutorResult, Command, Verdict, Past, Owner, Pending,
       Armed, Published, ExecutorPc, Transitions, TypeOK, fileVars
  <2>8. AtMostOneTrigger'
    BY <1>8, <2>0 DEF ExecutorResult, Command, Verdict, AtMostOneTrigger, Owner,
       Fresh, Armed, ExecutorPc, TypeOK, fileVars
  <2>9. EvidenceHonest'
    BY <1>8, <2>0 DEF ExecutorResult, Command, Verdict, EvidenceHonest, Owner,
       Fresh, Armed, Pending, ExecutorPc, TypeOK, fileVars
  <2> QED
    BY <2>1, <2>2, <2>3, <2>4, <2>5, <2>6, <2>7, <2>8, <2>9
<1>9. ASSUME NEW s \in Supervisors, FinalizeRun(s) PROVE SupInv'
  <2>1. TypeOK'
    BY <1>9 DEF FinalizeRun, Command, TypeOK, Report, SupPc, CmdPc, fileVars
  <2>2. InStep'
    BY <1>9 DEF FinalizeRun, Command, InStep, ExecutorPc, Transitions, TypeOK,
       fileVars
  <2>3. Owner'
    <3> SUFFICES ASSUME NEW q \in Supervisors, Armed(q)'
                 PROVE  idx[q] \in Transitions /\ pre[idx[q]] = q
      BY <1>9 DEF Owner, FinalizeRun, fileVars
    <3>1. Armed(q)
      BY <1>9 DEF FinalizeRun, Command, Armed, InStep, ExecutorPc, TypeOK
    <3> QED
      BY <3>1 DEF Owner
  <2>4. Fresh'
    BY <1>9 DEF FinalizeRun, Command, Fresh, Owner, Armed, Published, InStep,
       ExecutorPc, Transitions, TypeOK, fileVars
  <2>5. Pending'
    BY <1>9 DEF FinalizeRun, Command, Pending, Fresh, Owner, Armed, InStep,
       ExecutorPc, Transitions, TypeOK, fileVars
  <2>6. Published' /\ Past' /\ AtMostOneTrigger' /\ EvidenceHonest'
    BY <1>9 DEF FinalizeRun, Published, Past, AtMostOneTrigger, EvidenceHonest,
       fileVars
  <2> QED
    BY <2>1, <2>2, <2>3, <2>4, <2>5, <2>6
<1>10. ASSUME NEW s \in Supervisors, SupStart(s) PROVE SupInv'
  <2>1. TypeOK'
    BY <1>10 DEF SupStart, Command, TypeOK, Report, SupPc, CmdPc, fileVars
  <2>2. InStep'
    BY <1>10 DEF SupStart, Command, InStep, ExecutorPc, Transitions, TypeOK,
       fileVars
  <2>3. Owner'
    BY <1>10 DEF SupStart, Command, Owner, Armed, InStep, ExecutorPc,
       Transitions, TypeOK, fileVars
  <2>4. Fresh'
    BY <1>10 DEF SupStart, Command, Fresh, Owner, Armed, Published, InStep,
       ExecutorPc, Transitions, TypeOK, fileVars
  <2>5. Pending'
    BY <1>10 DEF SupStart, Command, Pending, Fresh, Owner, Armed, InStep,
       ExecutorPc, Transitions, TypeOK, fileVars
  <2>6. Published' /\ Past' /\ AtMostOneTrigger' /\ EvidenceHonest'
    BY <1>10 DEF SupStart, Published, Past, AtMostOneTrigger, EvidenceHonest,
       fileVars
  <2> QED
    BY <2>1, <2>2, <2>3, <2>4, <2>5, <2>6
<1>11. ASSUME NEW s \in Supervisors, Extend(s) PROVE SupInv'
  <2>1. TypeOK'
    BY <1>11 DEF Extend, Command, TypeOK, Report, SupPc, CmdPc, fileVars
  <2>2. InStep'
    BY <1>11 DEF Extend, Command, InStep, ExecutorPc, Transitions, TypeOK,
       fileVars
  <2>3. Owner'
    BY <1>11 DEF Extend, Command, Owner, Armed, InStep, ExecutorPc, Transitions,
       TypeOK, fileVars
  <2>4. Fresh'
    BY <1>11 DEF Extend, Command, Fresh, Owner, Armed, Published, InStep,
       ExecutorPc, Transitions, TypeOK, fileVars
  <2>5. Pending'
    BY <1>11 DEF Extend, Command, Pending, Fresh, Owner, Armed, InStep,
       ExecutorPc, Transitions, TypeOK, fileVars
  <2>6. Published' /\ Past' /\ AtMostOneTrigger' /\ EvidenceHonest'
    BY <1>11 DEF Extend, Published, Past, AtMostOneTrigger, EvidenceHonest,
       fileVars
  <2> QED
    BY <2>1, <2>2, <2>3, <2>4, <2>5, <2>6
<1>12. ASSUME NEW s \in Supervisors, NextTransition(s) PROVE SupInv'
  <2>1. TypeOK'
    BY <1>12 DEF NextTransition, Command, TypeOK, Report, SupPc, CmdPc, fileVars
  <2>2. InStep'
    BY <1>12 DEF NextTransition, Command, InStep, ExecutorPc, Transitions,
       TypeOK, fileVars
  <2>3. Owner'
    BY <1>12 DEF NextTransition, Command, Owner, Armed, InStep, ExecutorPc,
       Transitions, TypeOK, fileVars
  <2>4. Fresh'
    BY <1>12 DEF NextTransition, Command, Fresh, Owner, Armed, Published,
       InStep, ExecutorPc, Transitions, TypeOK, fileVars
  <2>5. Pending'
    BY <1>12 DEF NextTransition, Command, Pending, Fresh, Owner, Armed, InStep,
       ExecutorPc, Transitions, TypeOK, fileVars
  <2>6. Published' /\ Past' /\ AtMostOneTrigger' /\ EvidenceHonest'
    BY <1>12 DEF NextTransition, Published, Past, AtMostOneTrigger,
       EvidenceHonest, fileVars
  <2> QED
    BY <2>1, <2>2, <2>3, <2>4, <2>5, <2>6
<1>13. ASSUME NEW s \in Supervisors, StartTrigger(s) PROVE SupInv'
  <2>0. report[s].attempts \in Nat
    BY <1>13 DEF TypeOK, Report
  <2>1. TypeOK'
    <3>1. report' \in [Supervisors -> Report]
      BY <1>13, <2>0 DEF StartTrigger, TypeOK, Report
    <3> QED
      BY <1>13, <3>1 DEF StartTrigger, Command, TypeOK, SupPc, CmdPc, fileVars
  <2>2. InStep'
    BY <1>13, <2>0 DEF StartTrigger, Command, InStep, ExecutorPc, Transitions,
       TypeOK, fileVars
  <2>3. Owner'
    BY <1>13, <2>0 DEF StartTrigger, Command, Owner, Armed, InStep, ExecutorPc,
       Transitions, TypeOK, fileVars
  <2>4. Fresh'
    BY <1>13, <2>0 DEF StartTrigger, Command, Fresh, Owner, Armed, Published,
       InStep, ExecutorPc, Transitions, TypeOK, fileVars
  <2>5. Pending'
    BY <1>13, <2>0 DEF StartTrigger, Command, Pending, Fresh, Owner, Armed,
       InStep, ExecutorPc, Transitions, TypeOK, fileVars
  <2>6. Published' /\ Past' /\ AtMostOneTrigger' /\ EvidenceHonest'
    BY <1>13 DEF StartTrigger, Published, Past, AtMostOneTrigger,
       EvidenceHonest, fileVars
  <2> QED
    BY <2>1, <2>2, <2>3, <2>4, <2>5, <2>6
<1>14. ASSUME NEW s \in Supervisors, TriggerDone(s) PROVE SupInv'
  <2>0. idx[s] \in Transitions /\ report[s].successes \in Nat
    BY <1>14 DEF TriggerDone, TypeOK, Report, Owner, Armed
  <2>1. TypeOK'
    <3> DEFINE counted == [report[s] EXCEPT !.successes = @ + 1]
               new == [counted EXCEPT !.control = TRUE]
    <3>0. new \in Report
      <4>1. counted \in Report
        <5>1. report[s] \in Report
          BY DEF TypeOK
        <5> QED
          BY <5>1 DEF Report
      <4> HIDE DEF counted
      <4> QED
        BY <4>1 DEF Report
    <3>1. report' \in [Supervisors -> Report]
      <4>1. report' = [report EXCEPT ![s] = new]
        BY <1>14 DEF TriggerDone, TypeOK
      <4> QED
        BY <4>1, <3>0 DEF TypeOK
    <3>2. idx' \in [Supervisors -> 1..(LastTransition + 1)]
      BY <1>14, <2>0 DEF TriggerDone, TypeOK, Transitions
    <3> QED
      BY <1>14, <3>1, <3>2 DEF TriggerDone, Command, TypeOK, SupPc, CmdPc,
         fileVars
  <2>2. InStep'
    BY <1>14, <2>0 DEF TriggerDone, Command, InStep, ExecutorPc, Transitions,
       TypeOK, fileVars
  <2>3. Owner'
    BY <1>14, <2>0 DEF TriggerDone, Command, Owner, Armed, InStep, ExecutorPc,
       Transitions, TypeOK, fileVars
  <2>4. Fresh'
    BY <1>14, <2>0 DEF TriggerDone, Command, Fresh, Owner, Armed, Published,
       InStep, ExecutorPc, Transitions, TypeOK, fileVars
  <2>5. Pending'
    BY <1>14, <2>0 DEF TriggerDone, Command, Pending, Fresh, Owner, Armed,
       InStep, ExecutorPc, Transitions, TypeOK, fileVars
  <2>6. Published'
    BY <1>14, <2>0 DEF TriggerDone, Command, Published, Owner, Armed, InStep,
       ExecutorPc, Transitions, TypeOK, fileVars
  <2>7. Past'
    BY <1>14, <2>0 DEF TriggerDone, Command, Past, Owner, Pending, Armed,
       Published, ExecutorPc, Transitions, TypeOK, fileVars
  <2>8. AtMostOneTrigger'
    BY <1>14, <2>0 DEF TriggerDone, Command, AtMostOneTrigger, Owner, Fresh,
       Armed, ExecutorPc, TypeOK, fileVars
  <2>9. EvidenceHonest'
    BY <1>14, <2>0 DEF TriggerDone, Command, EvidenceHonest, Owner, Fresh,
       Armed, Pending, ExecutorPc, TypeOK, fileVars
  <2> QED
    BY <2>1, <2>2, <2>3, <2>4, <2>5, <2>6, <2>7, <2>8, <2>9
<1>15. ASSUME NEW s \in Supervisors, StartFinalize(s) PROVE SupInv'
  <2>1. TypeOK'
    BY <1>15 DEF StartFinalize, Command, TypeOK, Report, SupPc, CmdPc, fileVars
  <2>2. InStep'
    BY <1>15 DEF StartFinalize, Command, InStep, ExecutorPc, Transitions,
       TypeOK, fileVars
  <2>3. Owner'
    BY <1>15 DEF StartFinalize, Command, Owner, Armed, InStep, ExecutorPc,
       Transitions, TypeOK, fileVars
  <2>4. Fresh'
    BY <1>15 DEF StartFinalize, Command, Fresh, Owner, Armed, Published, InStep,
       ExecutorPc, Transitions, TypeOK, fileVars
  <2>5. Pending'
    BY <1>15 DEF StartFinalize, Command, Pending, Fresh, Owner, Armed, InStep,
       ExecutorPc, Transitions, TypeOK, fileVars
  <2>6. Published' /\ Past' /\ AtMostOneTrigger' /\ EvidenceHonest'
    BY <1>15 DEF StartFinalize, Published, Past, AtMostOneTrigger,
       EvidenceHonest, fileVars
  <2> QED
    BY <2>1, <2>2, <2>3, <2>4, <2>5, <2>6
<1>16. ASSUME NEW s \in Supervisors, FinalizeDone(s) PROVE SupInv'
  <2>1. TypeOK'
    BY <1>16 DEF FinalizeDone, Command, TypeOK, Report, SupPc, CmdPc, fileVars
  <2>2. InStep'
    BY <1>16 DEF FinalizeDone, Command, InStep, ExecutorPc, Transitions, TypeOK,
       fileVars
  <2>3. Owner'
    BY <1>16 DEF FinalizeDone, Command, Owner, Armed, InStep, ExecutorPc,
       Transitions, TypeOK, fileVars
  <2>4. Fresh'
    BY <1>16 DEF FinalizeDone, Command, Fresh, Owner, Armed, Published, InStep,
       ExecutorPc, Transitions, TypeOK, fileVars
  <2>5. Pending'
    BY <1>16 DEF FinalizeDone, Command, Pending, Fresh, Owner, Armed, InStep,
       ExecutorPc, Transitions, TypeOK, fileVars
  <2>6. Published' /\ Past' /\ AtMostOneTrigger' /\ EvidenceHonest'
    BY <1>16 DEF FinalizeDone, Published, Past, AtMostOneTrigger,
       EvidenceHonest, fileVars
  <2> QED
    BY <2>1, <2>2, <2>3, <2>4, <2>5, <2>6
<1>17. ASSUME NEW s \in Supervisors, CommandFailed(s) PROVE SupInv'
  <2>1. TypeOK'
    BY <1>17 DEF CommandFailed, Command, Fail, TypeOK, Report, SupPc, CmdPc,
       fileVars
  <2>2. InStep'
    BY <1>17 DEF CommandFailed, Command, Fail, InStep, ExecutorPc, Transitions,
       TypeOK, fileVars
  <2>3. Owner'
    BY <1>17 DEF CommandFailed, Command, Fail, Owner, Armed, InStep, ExecutorPc,
       Transitions, TypeOK, fileVars
  <2>4. Fresh'
    BY <1>17 DEF CommandFailed, Command, Fail, Fresh, Owner, Armed, Published,
       InStep, ExecutorPc, Transitions, TypeOK, fileVars
  <2>5. Pending'
    BY <1>17 DEF CommandFailed, Command, Fail, Pending, Fresh, Owner, Armed,
       InStep, ExecutorPc, Transitions, TypeOK, fileVars
  <2>6. Published' /\ Past' /\ AtMostOneTrigger' /\ EvidenceHonest'
    BY <1>17 DEF CommandFailed, Fail, Published, Past, AtMostOneTrigger,
       EvidenceHonest, fileVars
  <2> QED
    BY <2>1, <2>2, <2>3, <2>4, <2>5, <2>6
<1>18. ASSUME NEW s \in Supervisors, Timeout(s) PROVE SupInv'
  <2>1. TypeOK'
    BY <1>18 DEF Timeout, Command, Fail, TypeOK, Report, SupPc, CmdPc, fileVars
  <2>2. InStep'
    BY <1>18 DEF Timeout, Command, Fail, InStep, ExecutorPc, Transitions,
       TypeOK, fileVars
  <2>3. Owner'
    BY <1>18 DEF Timeout, Command, Fail, Owner, Armed, InStep, ExecutorPc,
       Transitions, TypeOK, fileVars
  <2>4. Fresh'
    BY <1>18 DEF Timeout, Command, Fail, Fresh, Owner, Armed, Published, InStep,
       ExecutorPc, Transitions, TypeOK, fileVars
  <2>5. Pending'
    BY <1>18 DEF Timeout, Command, Fail, Pending, Fresh, Owner, Armed, InStep,
       ExecutorPc, Transitions, TypeOK, fileVars
  <2>6. Published' /\ Past' /\ AtMostOneTrigger' /\ EvidenceHonest'
    BY <1>18 DEF Timeout, Fail, Published, Past, AtMostOneTrigger,
       EvidenceHonest, fileVars
  <2> QED
    BY <2>1, <2>2, <2>3, <2>4, <2>5, <2>6
<1>19. ASSUME NEW s \in Supervisors, WriteReport(s) PROVE SupInv'
  <2>1. TypeOK'
    BY <1>19 DEF WriteReport, Command, TypeOK, Report, SupPc, CmdPc, fileVars
  <2>2. InStep'
    BY <1>19 DEF WriteReport, Command, InStep, ExecutorPc, Transitions, TypeOK,
       fileVars
  <2>3. Owner'
    BY <1>19 DEF WriteReport, Command, Owner, Armed, InStep, ExecutorPc,
       Transitions, TypeOK, fileVars
  <2>4. Fresh'
    BY <1>19 DEF WriteReport, Command, Fresh, Owner, Armed, Published, InStep,
       ExecutorPc, Transitions, TypeOK, fileVars
  <2>5. Pending'
    BY <1>19 DEF WriteReport, Command, Pending, Fresh, Owner, Armed, InStep,
       ExecutorPc, Transitions, TypeOK, fileVars
  <2>6. Published' /\ Past' /\ AtMostOneTrigger' /\ EvidenceHonest'
    BY <1>19 DEF WriteReport, Published, Past, AtMostOneTrigger, EvidenceHonest,
       fileVars
  <2> QED
    BY <2>1, <2>2, <2>3, <2>4, <2>5, <2>6
<1>20. ASSUME NEW s \in Supervisors, Uncaught(s) PROVE SupInv'
  <2>1. TypeOK'
    BY <1>20 DEF Uncaught, Command, TypeOK, Report, SupPc, CmdPc, fileVars
  <2>2. InStep'
    BY <1>20 DEF Uncaught, Command, InStep, ExecutorPc, Transitions, TypeOK,
       fileVars
  <2>3. Owner'
    BY <1>20 DEF Uncaught, Command, Owner, Armed, InStep, ExecutorPc,
       Transitions, TypeOK, fileVars
  <2>4. Fresh'
    BY <1>20 DEF Uncaught, Command, Fresh, Owner, Armed, Published, InStep,
       ExecutorPc, Transitions, TypeOK, fileVars
  <2>5. Pending'
    BY <1>20 DEF Uncaught, Command, Pending, Fresh, Owner, Armed, InStep,
       ExecutorPc, Transitions, TypeOK, fileVars
  <2>6. Published' /\ Past' /\ AtMostOneTrigger' /\ EvidenceHonest'
    BY <1>20 DEF Uncaught, Published, Past, AtMostOneTrigger, EvidenceHonest,
       fileVars
  <2> QED
    BY <2>1, <2>2, <2>3, <2>4, <2>5, <2>6
<1>21. ASSUME NEW s \in Supervisors, Killed(s) PROVE SupInv'
  <2>1. TypeOK'
    BY <1>21 DEF Killed, Command, TypeOK, Report, SupPc, CmdPc, fileVars
  <2>2. InStep'
    BY <1>21 DEF Killed, Command, InStep, ExecutorPc, Transitions, TypeOK,
       fileVars
  <2>3. Owner'
    BY <1>21 DEF Killed, Command, Owner, Armed, InStep, ExecutorPc, Transitions,
       TypeOK, fileVars
  <2>4. Fresh'
    BY <1>21 DEF Killed, Command, Fresh, Owner, Armed, Published, InStep,
       ExecutorPc, Transitions, TypeOK, fileVars
  <2>5. Pending'
    BY <1>21 DEF Killed, Command, Pending, Fresh, Owner, Armed, InStep,
       ExecutorPc, Transitions, TypeOK, fileVars
  <2>6. Published' /\ Past' /\ AtMostOneTrigger' /\ EvidenceHonest'
    BY <1>21 DEF Killed, Published, Past, AtMostOneTrigger, EvidenceHonest,
       fileVars
  <2> QED
    BY <2>1, <2>2, <2>3, <2>4, <2>5, <2>6
<1>22. ASSUME NEW s \in Supervisors, TrafficEnds(s) PROVE SupInv'
  <2>1. TypeOK'
    BY <1>22 DEF TrafficEnds, Command, TypeOK, Report, SupPc, CmdPc, fileVars
  <2>2. InStep'
    BY <1>22 DEF TrafficEnds, Command, InStep, ExecutorPc, Transitions, TypeOK,
       fileVars
  <2>3. Owner'
    BY <1>22 DEF TrafficEnds, Command, Owner, Armed, InStep, ExecutorPc,
       Transitions, TypeOK, fileVars
  <2>4. Fresh'
    BY <1>22 DEF TrafficEnds, Command, Fresh, Owner, Armed, Published, InStep,
       ExecutorPc, Transitions, TypeOK, fileVars
  <2>5. Pending'
    BY <1>22 DEF TrafficEnds, Command, Pending, Fresh, Owner, Armed, InStep,
       ExecutorPc, Transitions, TypeOK, fileVars
  <2>6. Published' /\ Past' /\ AtMostOneTrigger' /\ EvidenceHonest'
    BY <1>22 DEF TrafficEnds, Published, Past, AtMostOneTrigger, EvidenceHonest,
       fileVars
  <2> QED
    BY <2>1, <2>2, <2>3, <2>4, <2>5, <2>6
<1>23. ASSUME NEW s \in Supervisors, NEW g \in {"PASS", "FAIL_CLOSED"}, SupNoRun(s, g)
      PROVE  SupInv'
  <2>1. TypeOK'
    BY <1>23 DEF SupNoRun, TypeOK, Report, SupPc, CmdPc, fileVars
  <2>2. InStep'
    BY <1>23 DEF SupNoRun, InStep, ExecutorPc, Transitions, TypeOK, fileVars
  <2>3. Owner'
    BY <1>23 DEF SupNoRun, Owner, Armed, InStep, ExecutorPc, Transitions,
       TypeOK, fileVars
  <2>4. Fresh'
    BY <1>23 DEF SupNoRun, Fresh, Owner, Armed, Published, InStep, ExecutorPc,
       Transitions, TypeOK, fileVars
  <2>5. Pending'
    BY <1>23 DEF SupNoRun, Pending, Fresh, Owner, Armed, InStep, ExecutorPc,
       Transitions, TypeOK, fileVars
  <2>6. Published' /\ Past' /\ AtMostOneTrigger' /\ EvidenceHonest'
    BY <1>23 DEF SupNoRun, Published, Past, AtMostOneTrigger, EvidenceHonest,
       fileVars
  <2> QED
    BY <2>1, <2>2, <2>3, <2>4, <2>5, <2>6
<1>24. ASSUME NEW t \in Transitions, BindingConsumed(t) PROVE SupInv'
  <2>1. TypeOK'
    BY <1>24 DEF BindingConsumed, TypeOK
  <2>2. InStep' /\ Owner' /\ Fresh' /\ Pending'
    BY <1>24 DEF BindingConsumed, InStep, Owner, Armed, Fresh, Pending
  <2>3. Published' /\ Past' /\ AtMostOneTrigger' /\ EvidenceHonest'
    BY <1>24 DEF BindingConsumed, Published, Past, AtMostOneTrigger,
       EvidenceHonest
  <2> QED
    BY <2>1, <2>2, <2>3
<1>25. CASE UNCHANGED vars
  BY <1>25 DEF vars, fileVars, TypeOK, InStep, Owner, Armed, Fresh, Pending,
     Published,
     Past, AtMostOneTrigger, EvidenceHonest
<1> QED
  BY <1>1, <1>2, <1>3, <1>4, <1>5, <1>6, <1>7, <1>8, <1>9, <1>10, <1>11, <1>12,
     <1>13, <1>14, <1>15, <1>16, <1>17, <1>18, <1>19, <1>20, <1>21, <1>22,
     <1>23, <1>24, <1>25 DEF Next, SupervisorStep, CommandStep

\* The variables keep their types: extensions and transition index stay within
\* the bounds of the plan.
THEOREM SupervisorTypes == Spec => []TypeOK
<1>1. SupInv => TypeOK
  BY DEF SupInv
<1> QED
  BY <1>1, SupInit, SupStep, PTL DEF Spec

\* No transition of a run directory is ever triggered twice.
THEOREM TriggeredAtMostOnce == Spec => []AtMostOneTrigger
<1>1. SupInv => AtMostOneTrigger
  BY DEF SupInv
<1> QED
  BY <1>1, SupInit, SupStep, PTL DEF Spec

\* Triggers come in transition order, all from one run of the supervisor, each
\* with evidence before the next.
THEOREM TriggeredInOrder == Spec => []TriggersInOrder
<1>1. SupInv => TriggersInOrder
  <2> SUFFICES ASSUME SupInv, NEW t \in Transitions, NEW u \in Transitions,
                      u < t, written[t] > 0
               PROVE  written[u] > 0 /\ pre[u] = pre[t] /\ evidence[u] = "YES"
    BY DEF TriggersInOrder
  <2>1. pre[t] \in Supervisors /\ t <= idx[pre[t]]
    BY SupervisorAssumption DEF SupInv, TypeOK, Published
  <2>2. u < idx[pre[t]]
    BY <2>1 DEF SupInv, TypeOK, Transitions
  <2> QED
    BY <2>1, <2>2 DEF SupInv, Past
<1> QED
  BY <1>1, SupInit, SupStep, PTL DEF Spec

\* Evidence on disk agrees with what was delivered to the FIFO.
THEOREM EvidenceIsHonest == Spec => []EvidenceHonest
<1>1. SupInv => EvidenceHonest
  BY DEF SupInv
<1> QED
  BY <1>1, SupInit, SupStep, PTL DEF Spec

-----------------------------------------------------------------------------
(* The report. Past and Published put the triggers of s between the          *)
(* transitions before idx[s] and those up to it; Counted says the same of    *)
(* the counters, before anything of it is visible to the executor.           *)

\* Successes are the transitions passed; the current one is an attempt exactly
\* from the start of its executor on, also when the supervisor dies or fails.
Counted ==
  \A s \in Supervisors :
    /\ report[s].successes = idx[s] - 1
    /\ report[s].attempts \in {idx[s] - 1, idx[s]}
    /\ sup[s] \in {"none", "observe", "bind", "finalize"} =>
         report[s].attempts = idx[s] - 1
    /\ sup[s] = "trigger" \/ cmd[s] \in ExecutorPc => report[s].attempts = idx[s]
    /\ idx[s] \in Transitions /\ pre[idx[s]] = s /\ written[idx[s]] > 0 =>
         report[s].attempts = idx[s]

\* A live run says PASS only after its finalization, which comes after the last
\* transition; a run that never went live attempted nothing.
Gated ==
  \A s \in Supervisors :
    /\ sup[s] \in {"none", "observe", "bind", "trigger", "finalize"} =>
         report[s].gate = "FAIL_CLOSED"
    /\ sup[s] = "finalize" => idx[s] = LastTransition + 1
    /\ report[s].gate = "PASS" =>
         report[s].attempts = 0 \/ report[s].successes = LastTransition

\* The report on disk is still the report of its run.
Filed ==
  reportFile # None =>
    /\ sup[reportFile.by] = "done"
    /\ reportFile.body = report[reportFile.by]

ReportInv == Counted /\ Gated /\ Filed

\* The initial state satisfies the report's invariant.
LEMMA ReportInit == Init => ReportInv
BY SupervisorAssumption
   DEF Init, ReportInv, Counted, Gated, Filed, BaseReport, ExecutorPc, Transitions

\* Every step preserves it.
LEMMA ReportStep == SupInv /\ SupInv' /\ ReportInv /\ [Next]_vars => ReportInv'
<1> SUFFICES ASSUME SupInv, SupInv', ReportInv, [Next]_vars PROVE ReportInv'
  OBVIOUS
<1> USE SupervisorAssumption DEF ReportInv
<1>0. TypeOK /\ TypeOK'
  BY DEF SupInv
<1>1. ASSUME NEW s \in Supervisors,
             \/ HandoffCheck(s) \/ HandoffStationarity(s) \/ HandoffFreshness(s)
             \/ BindRun(s) \/ FinalizeRun(s)
      PROVE  ReportInv'
  <2>1. /\ UNCHANGED <<sup, idx, report, reportFile, pre, written>>
        /\ \A q \in Supervisors : cmd'[q] \in ExecutorPc => cmd[q] \in ExecutorPc
    BY <1>0, <1>1
       DEF HandoffCheck, HandoffStationarity, HandoffFreshness, BindRun,
           FinalizeRun, Command, TypeOK, fileVars, ExecutorPc
  <2> QED
    BY <1>0, <2>1 DEF Counted, Gated, Filed
<1>2. ASSUME NEW s \in Supervisors, HandoffPublish(s)
      PROVE  ReportInv'
  <2>1. idx[s] \in Transitions
    BY <1>2 DEF HandoffPublish, SupInv, InStep
  <2>2. /\ UNCHANGED <<sup, idx, report, reportFile, written>>
        /\ \A q \in Supervisors : cmd'[q] \in ExecutorPc => cmd[q] \in ExecutorPc
    BY <1>0, <1>2 DEF HandoffPublish, Command, TypeOK, ExecutorPc
  <2>3. ASSUME NEW t \in Transitions, written[t] > 0
        PROVE  pre'[t] = pre[t]
    BY <1>0, <1>2, <2>1, <2>3 DEF HandoffPublish, SupInv, Published, TypeOK
  <2> QED
    BY <1>0, <2>2, <2>3 DEF Counted, Gated, Filed
<1>3. ASSUME NEW s \in Supervisors, ExecutorGate(s) \/ ExecutorResult(s)
      PROVE  ReportInv'
  <2>1. /\ UNCHANGED <<sup, idx, report, reportFile, pre, written>>
        /\ \A q \in Supervisors : cmd'[q] \in ExecutorPc => cmd[q] \in ExecutorPc
    BY <1>0, <1>3
       DEF ExecutorGate, ExecutorResult, Verdict, Command, TypeOK, fileVars, ExecutorPc
  <2> QED
    BY <1>0, <2>1 DEF Counted, Gated, Filed
<1>4. ASSUME NEW s \in Supervisors, ExecutorWrite(s)
      PROVE  ReportInv'
  <2>1. /\ UNCHANGED <<sup, idx, report, reportFile, pre>>
        /\ \A q \in Supervisors : cmd'[q] \in ExecutorPc => cmd[q] \in ExecutorPc
        /\ \A t \in Transitions : t # idx[s] => written'[t] = written[t]
    BY <1>0, <1>4 DEF ExecutorWrite, Command, TypeOK, ExecutorPc
  <2>2. report[s].attempts = idx[s] /\ pre[idx[s]] = s
    BY <1>4 DEF ExecutorWrite, Counted, ExecutorPc, SupInv, Owner, Armed
  <2> QED
    BY <1>0, <2>1, <2>2 DEF Counted, Gated, Filed
<1>5. ASSUME NEW s \in Supervisors, SupStart(s)
      PROVE  ReportInv'
  <2>1. UNCHANGED <<idx, report, reportFile, pre, written>>
    BY <1>5 DEF SupStart, fileVars
  <2>2. /\ sup[s] = "none" /\ sup' = [sup EXCEPT ![s] = "observe"]
        /\ cmd' = [cmd EXCEPT ![s] = "h_check"]
    BY <1>5 DEF SupStart, Command
  <2>3. Counted'
    BY <1>0, <2>1, <2>2 DEF Counted, TypeOK, ExecutorPc
  <2>4. Gated' /\ Filed'
    BY <1>0, <2>1, <2>2 DEF Gated, Filed, TypeOK
  <2> QED
    BY <2>3, <2>4
<1>6. ASSUME NEW s \in Supervisors, NEW g \in {"PASS", "FAIL_CLOSED"}, SupNoRun(s, g)
      PROVE  ReportInv'
  <2>1. UNCHANGED <<cmd, idx, reportFile, pre, written>>
    BY <1>6 DEF SupNoRun, fileVars
  <2>2. /\ sup[s] = "none" /\ sup' = [sup EXCEPT ![s] = "report"]
        /\ report' = [report EXCEPT ![s].gate = g]
    BY <1>6 DEF SupNoRun
  <2>3. /\ \A q \in Supervisors : /\ report'[q].attempts = report[q].attempts
                                  /\ report'[q].successes = report[q].successes
                                  /\ q # s => report'[q] = report[q]
    BY <1>0, <2>2 DEF TypeOK, Report
  <2>4. idx[s] = 1 /\ report[s].attempts = 0
    BY <1>0, <2>2 DEF SupInv, InStep, Counted
  <2>5. Counted'
    BY <1>0, <2>1, <2>2, <2>3 DEF Counted, TypeOK
  <2>6. Gated'
    BY <1>0, <2>1, <2>2, <2>3, <2>4 DEF Gated, TypeOK
  <2>7. Filed'
    BY <1>0, <2>1, <2>2, <2>3 DEF Filed, TypeOK
  <2> QED
    BY <2>5, <2>6, <2>7
<1>7. ASSUME NEW s \in Supervisors,
             Extend(s) \/ NextTransition(s) \/ StartFinalize(s)
      PROVE  ReportInv'
  <2>1. UNCHANGED <<idx, report, reportFile, pre, written>>
    BY <1>7 DEF Extend, NextTransition, StartFinalize, fileVars
  <2>2. \E p \in {"observe", "bind", "finalize"}, c \in {"h_check", "b_run", "f_run"} :
          /\ sup[s] = "observe" /\ sup' = [sup EXCEPT ![s] = p]
          /\ cmd' = [cmd EXCEPT ![s] = c]
          /\ p = "finalize" => idx[s] > LastTransition
    BY <1>0, <1>7 DEF Extend, NextTransition, StartFinalize, Command, TypeOK
  <2>3. Counted'
    BY <1>0, <2>1, <2>2 DEF Counted, TypeOK, ExecutorPc
  <2>4. Gated' /\ Filed'
    BY <1>0, <2>1, <2>2 DEF Gated, Filed, TypeOK
  <2> QED
    BY <2>3, <2>4
<1>8. ASSUME NEW s \in Supervisors, StartTrigger(s)
      PROVE  ReportInv'
  <2>1. UNCHANGED <<idx, reportFile, pre, written>>
    BY <1>8 DEF StartTrigger, fileVars
  <2>2. /\ sup[s] = "bind" /\ sup' = [sup EXCEPT ![s] = "trigger"]
        /\ cmd' = [cmd EXCEPT ![s] = "x_gate"]
        /\ report' = [report EXCEPT ![s].attempts = @ + 1]
    BY <1>8 DEF StartTrigger, Command
  <2>3. /\ report'[s].attempts = report[s].attempts + 1
        /\ \A q \in Supervisors : /\ report'[q].gate = report[q].gate
                                  /\ report'[q].successes = report[q].successes
                                  /\ q # s => report'[q] = report[q]
    BY <1>0, <2>2 DEF TypeOK, Report
  <2>4. report'[s].attempts = idx[s]
    BY <1>0, <2>2, <2>3 DEF Counted, TypeOK
  <2>5. Counted'
    BY <1>0, <2>1, <2>2, <2>3, <2>4 DEF Counted, TypeOK
  <2>6. Gated'
    BY <1>0, <2>1, <2>2, <2>3 DEF Gated, TypeOK
  <2>7. Filed'
    BY <1>0, <2>1, <2>2, <2>3 DEF Filed, TypeOK
  <2> QED
    BY <2>5, <2>6, <2>7
<1>9. ASSUME NEW s \in Supervisors, TriggerDone(s)
      PROVE  ReportInv'
  <2>1. UNCHANGED <<reportFile, pre, written>>
    BY <1>9 DEF TriggerDone, fileVars
  <2>2. /\ sup[s] = "trigger" /\ sup' = [sup EXCEPT ![s] = "observe"]
        /\ idx' = [idx EXCEPT ![s] = @ + 1]
        /\ cmd' = [cmd EXCEPT ![s] = "h_check"]
        /\ report' = [report EXCEPT ![s].successes = @ + 1, ![s].control = TRUE]
    BY <1>9 DEF TriggerDone, Command
  <2>3. /\ report'[s].successes = report[s].successes + 1
        /\ \A q \in Supervisors : /\ report'[q].gate = report[q].gate
                                  /\ report'[q].attempts = report[q].attempts
                                  /\ q # s => report'[q] = report[q]
    BY <1>0, <2>2 DEF TypeOK, Report
  <2>4. ASSUME idx[s] + 1 \in Transitions
        PROVE  pre[idx[s] + 1] # s
    BY <1>0, <2>4 DEF SupInv, Published, TypeOK
  <2>5. Counted'
    BY <1>0, <2>1, <2>2, <2>3, <2>4 DEF Counted, TypeOK, ExecutorPc
  <2>6. Gated'
    BY <1>0, <2>1, <2>2, <2>3 DEF Gated, TypeOK
  <2>7. Filed'
    BY <1>0, <2>1, <2>2, <2>3 DEF Filed, TypeOK
  <2> QED
    BY <2>5, <2>6, <2>7
<1>10. ASSUME NEW s \in Supervisors, FinalizeDone(s)
      PROVE  ReportInv'
  <2>1. UNCHANGED <<idx, reportFile, pre, written>>
    BY <1>10 DEF FinalizeDone, fileVars
  <2>2. /\ sup[s] = "finalize" /\ sup' = [sup EXCEPT ![s] = "report"]
        /\ cmd' = [cmd EXCEPT ![s] = "none"]
        /\ report' = [report EXCEPT ![s].gate = "PASS"]
    BY <1>10 DEF FinalizeDone, Command
  <2>3. \A q \in Supervisors : /\ report'[q].attempts = report[q].attempts
                               /\ report'[q].successes = report[q].successes
                               /\ q # s => report'[q] = report[q]
    BY <1>0, <2>2 DEF TypeOK, Report
  <2>4. report[s].successes = LastTransition
    BY <1>0, <2>2 DEF Gated, Counted, TypeOK
  <2>5. Counted'
    BY <1>0, <2>1, <2>2, <2>3 DEF Counted, TypeOK, ExecutorPc
  <2>6. Gated'
    BY <1>0, <2>1, <2>2, <2>3, <2>4 DEF Gated, TypeOK
  <2>7. Filed'
    BY <1>0, <2>1, <2>2, <2>3 DEF Filed, TypeOK
  <2> QED
    BY <2>5, <2>6, <2>7
<1>11. ASSUME NEW s \in Supervisors,
              CommandFailed(s) \/ Timeout(s) \/ Uncaught(s)
      PROVE  ReportInv'
  <2>1. UNCHANGED <<idx, report, reportFile, pre, written>>
    BY <1>11 DEF CommandFailed, Timeout, Uncaught, Fail, fileVars
  <2>2. \E p \in {"report", "dead"} :
          /\ sup[s] # "done" /\ sup' = [sup EXCEPT ![s] = p]
          /\ cmd' = [cmd EXCEPT ![s] = "none"]
    BY <1>11 DEF CommandFailed, Timeout, Uncaught, Fail, Command
  <2>3. Counted'
    BY <1>0, <2>1, <2>2 DEF Counted, TypeOK, ExecutorPc
  <2>4. Gated' /\ Filed'
    BY <1>0, <2>1, <2>2 DEF Gated, Filed, TypeOK
  <2> QED
    BY <2>3, <2>4
<1>12. ASSUME NEW s \in Supervisors, WriteReport(s)
      PROVE  ReportInv'
  <2>1. UNCHANGED <<cmd, idx, report, pre, written>>
    BY <1>12 DEF WriteReport
  <2>2. /\ sup' = [sup EXCEPT ![s] = "done"]
        /\ reportFile' = [by |-> s, body |-> report[s]]
    BY <1>12 DEF WriteReport
  <2>3. Counted' /\ Gated'
    BY <1>0, <2>1, <2>2 DEF Counted, Gated, TypeOK
  <2>4. Filed'
    BY <1>0, <2>1, <2>2 DEF Filed, TypeOK
  <2> QED
    BY <2>3, <2>4
<1>13. ASSUME NEW s \in Supervisors, Killed(s)
      PROVE  ReportInv'
  <2>1. UNCHANGED <<cmd, idx, report, reportFile, pre, written>>
    BY <1>13 DEF Killed, fileVars
  <2>2. sup[s] # "done" /\ sup' = [sup EXCEPT ![s] = "dead"]
    BY <1>13 DEF Killed
  <2>3. Counted'
    BY <1>0, <2>1, <2>2 DEF Counted, TypeOK
  <2>4. Gated' /\ Filed'
    BY <1>0, <2>1, <2>2 DEF Gated, Filed, TypeOK
  <2> QED
    BY <2>3, <2>4
<1>14. ASSUME \/ \E s \in Supervisors : TrafficEnds(s)
              \/ \E t \in Transitions : BindingConsumed(t)
              \/ UNCHANGED vars
      PROVE  ReportInv'
  <2>1. UNCHANGED <<sup, cmd, idx, report, reportFile, pre, written>>
    BY <1>14 DEF TrafficEnds, BindingConsumed, vars, fileVars
  <2> QED
    BY <2>1 DEF Counted, Gated, Filed
<1> QED
  BY <1>1, <1>2, <1>3, <1>4, <1>5, <1>6, <1>7, <1>8, <1>9, <1>10, <1>11, <1>12,
     <1>13, <1>14 DEF Next, SupervisorStep, CommandStep

\* The set of transitions a run triggered is an initial segment that ends at
\* the transition before its current one, or at the current one.
LEMMA TriggeredSegment ==
  ASSUME SupInv, NEW s \in Supervisors
  PROVE  \/ TriggeredBy(s) = 1..(idx[s] - 1)
         \/ /\ TriggeredBy(s) = 1..idx[s]
            /\ idx[s] \in Transitions
            /\ pre[idx[s]] = s
            /\ written[idx[s]] > 0
<1> USE SupervisorAssumption DEF TriggeredBy, Transitions
<1>0. idx[s] \in 1..(LastTransition + 1)
  BY DEF SupInv, TypeOK
<1>1. 1..(idx[s] - 1) \subseteq TriggeredBy(s)
  BY <1>0 DEF SupInv, Past
<1>2. ASSUME NEW t \in TriggeredBy(s)
      PROVE  t \in 1..idx[s]
  BY <1>0, <1>2 DEF SupInv, Published
<1>3. CASE idx[s] \in TriggeredBy(s)
  <2>1. TriggeredBy(s) = 1..idx[s]
    BY <1>0, <1>1, <1>2, <1>3
  <2> QED
    BY <1>3, <2>1
<1>4. CASE idx[s] \notin TriggeredBy(s)
  BY <1>0, <1>1, <1>2, <1>4
<1> QED
  BY <1>3, <1>4

\* A report on disk claims no more successes than its run delivered triggers
\* and no fewer attempts, and PASS after an attempt means that all transitions
\* were triggered.
THEOREM ReportsBracketTriggers == Spec => []ReportBrackets
<1>1. SupInv /\ ReportInv => ReportBrackets
  <2> SUFFICES ASSUME SupInv, ReportInv, reportFile # None
               PROVE  LET b == reportFile.body
                          n == Cardinality(TriggeredBy(reportFile.by)) IN
                      /\ b.successes <= n /\ n <= b.attempts
                      /\ b.gate = "PASS" /\ b.attempts > 0 =>
                           b.successes = LastTransition
    BY DEF ReportBrackets
  <2> DEFINE s == reportFile.by
             n == Cardinality(TriggeredBy(s))
  <2>1. s \in Supervisors /\ reportFile.body = report[s]
    BY DEF SupInv, TypeOK, ReportInv, Filed
  <2>2. idx[s] \in Nat \ {0}
    BY <2>1, SupervisorAssumption DEF SupInv, TypeOK
  <2>3. \/ n = idx[s] - 1
        \/ n = idx[s] /\ report[s].attempts = idx[s]
    <3>1. CASE TriggeredBy(s) = 1..(idx[s] - 1)
      <4>1. 1 \in Int /\ idx[s] - 1 \in Int /\ idx[s] - 1 >= 0
        BY <2>2
      <4>2. Cardinality(1..(idx[s] - 1)) = idx[s] - 1
        BY <4>1, FS_Interval
      <4> QED
        BY <3>1, <4>2
    <3>2. CASE /\ TriggeredBy(s) = 1..idx[s]
               /\ idx[s] \in Transitions
               /\ pre[idx[s]] = s
               /\ written[idx[s]] > 0
      <4>1. n = idx[s]
        BY <2>2, <3>2, FS_Interval
      <4>2. report[s].attempts = idx[s]
        BY <2>1, <3>2 DEF ReportInv, Counted
      <4> QED
        BY <4>1, <4>2
    <3> QED
      BY <2>1, <3>1, <3>2, TriggeredSegment
  <2>4. /\ report[s].successes = idx[s] - 1
        /\ report[s].attempts \in {idx[s] - 1, idx[s]}
        /\ report[s].gate = "PASS" =>
             report[s].attempts = 0 \/ report[s].successes = LastTransition
    BY <2>1 DEF ReportInv, Counted, Gated
  <2> HIDE DEF n, s
  <2>5. /\ report[s].successes <= n
        /\ n <= report[s].attempts
        /\ report[s].gate = "PASS" /\ report[s].attempts > 0 =>
             report[s].successes = LastTransition
    BY <2>2, <2>3, <2>4
  <2> QED
    BY <2>1, <2>5 DEF s, n
<1> QED
  BY <1>1, SupInit, SupStep, ReportInit, ReportStep, PTL DEF Spec
=============================================================================
