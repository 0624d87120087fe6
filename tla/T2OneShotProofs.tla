-------------------------- MODULE T2OneShotProofs --------------------------
EXTENDS T2OneShot, TLAPS

(***************************************************************************)
(* Places of a process: between the intent and the token; where it holds   *)
(* the intent of its run; where it has claimed an operation identifier.    *)
(***************************************************************************)
BeforeToken ==
    {"claim", "precontrol", "ratio", "dispatch", "poll", "gate", "write"}
Holding == BeforeToken \union {"trigger", "written", "outcome", "returned"}
AfterDispatch == {"trigger", "outcome", "done", "returned"}

\* A trigger child goes on holding the intent of its parent.
Holds(p) == pc[p] \in Holding \/ child[p] # "none"
CanWrite(p) == pc[p] \in BeforeToken \/ child[p] = "started"
HoldsOperationAt == {"precontrol", "ratio", "dispatch", "poll"}
HoldsOperation(p) == pc[p] \in HoldsOperationAt
HoldsRun(p) == pc[p] \in {"ctl_mkdir", "ctl_play"}
HoldsReady(p) == pc[p] \in {"rd_smoke", "rd_doctor", "rd_outcome"}

\* A process is in the part of the program it was started as.
Kinds ==
    \A p \in Procs :
        /\ pc[p] \in {"ctl_check", "ctl_claim", "ctl_mkdir", "ctl_play",
                      "ctl_wait"} =>
               job[p].run \in Runs /\ job[p].exp \in Exps
        /\ pc[p] \in {"rd_mkdir", "rd_smoke", "rd_doctor", "rd_outcome"} =>
               job[p].op \in Ops
        /\ Holds(p) \/ pc[p] \in {"check", "intent"} =>
               /\ job[p].kind \in {"critical", "postval"}
               /\ job[p].run \in Runs /\ job[p].op \in Ops
        /\ pc[p] \in {"poll", "gate", "write", "written"} =>
               job[p].kind = "postval"
        /\ pc[p] \in {"precontrol", "ratio", "dispatch", "trigger"}
             \/ child[p] # "none" => job[p].kind = "critical"

Types == TypeOK /\ Kinds

\* The intent of a run is held by one process, and a child runs beside its
\* parent or after its end.
Claims ==
    /\ \A p \in Procs : Holds(p) => <<"intent", job[p].run>> \in files
    /\ \A p, q \in Procs :
          Holds(p) /\ Holds(q) /\ p # q => job[p].run # job[q].run
    /\ \A p \in Procs :
          /\ child[p] # "none" => pc[p] \in AfterDispatch
          /\ pc[p] \in {"outcome", "returned"} =>
                 child[p] \notin {"started", "wrote"}

\* What a process knows of the token of its run.
TokenOf(p) ==
    /\ CanWrite(p) => tokens[job[p].run] = 0
    /\ child[p] \in {"wrote", "passed"} => tokens[job[p].run] = 1
    /\ pc[p] = "written" => tokens[job[p].run] = 1
    /\ pc[p] # "done" /\ status[p].executed = "YES" => tokens[job[p].run] = 1
    /\ pc[p] = "returned" => status[p].executed = "YES"
    /\ pc[p] \notin {"outcome", "returned", "done"} => status[p].executed = "NO"

\* Who holds the intent and has not written yet knows that nobody has.
Tokens ==
    /\ \A r \in Runs : /\ tokens[r] <= 1
                       /\ tokens[r] > 0 => <<"intent", r>> \in files
    /\ \A p \in Procs : TokenOf(p)

\* The operation identifier is claimed before the dispatch, by one process,
\* which has not dispatched yet.
Dispatches ==
    /\ \A r \in Runs, o \in Ops :
          <<r, o>> \in dispatched => /\ <<"intent", r>> \in files
                                    /\ <<"op_claim", o>> \in files
    /\ \A p \in Procs :
          /\ HoldsOperation(p) => <<"op_claim", job[p].op>> \in files
          /\ HoldsOperation(p) \/ pc[p] = "claim" =>
                 \A o \in Ops : <<job[p].run, o>> \notin dispatched
          /\ HoldsOperation(p) =>
                 \A r \in Runs : <<r, job[p].op>> \notin dispatched
    /\ \A p, q \in Procs :
          HoldsOperation(p) /\ HoldsOperation(q) /\ p # q =>
              job[p].op # job[q].op
    /\ \A r, s \in Runs, o, m \in Ops :
          <<r, o>> \in dispatched /\ <<s, m>> \in dispatched =>
              (r = s <=> o = m)

\* A run is claimed before it is played, by one controller.
Plays ==
    /\ \A r \in Runs : /\ plays[r] <= 1
                       /\ plays[r] > 0 => <<"run_claim", r>> \in files
    /\ \A p \in Procs :
          HoldsRun(p) => /\ <<"run_claim", job[p].run>> \in files
                         /\ plays[job[p].run] = 0
    /\ \A p, q \in Procs :
          HoldsRun(p) /\ HoldsRun(q) /\ p # q => job[p].run # job[q].run

\* What a readiness handoff knows of its operation identifier.
StageOf(p) ==
    /\ HoldsReady(p) => <<"ready", job[p].op>> \in files
    /\ pc[p] = "rd_smoke" => checks[job[p].op].smoke = 0
    /\ pc[p] \in {"rd_smoke", "rd_doctor"} =>
           /\ checks[job[p].op].doctor = 0
           /\ <<"handoff", job[p].op>> \notin files
    /\ pc[p] = "rd_doctor" => checks[job[p].op].smoke = 1
    /\ pc[p] = "rd_outcome" => checks[job[p].op].doctor = 1

\* A handoff's operation directory is created by one process, which runs the
\* stages in order.
Checks ==
    /\ \A o \in Ops :
          /\ <<"ready", o>> \notin files =>
                 /\ checks[o].smoke = 0 /\ checks[o].doctor = 0
                 /\ <<"handoff", o>> \notin files
          /\ checks[o].smoke <= 1 /\ checks[o].doctor <= checks[o].smoke
          /\ <<"handoff", o>> \in files => checks[o].doctor = 1
    /\ \A p \in Procs : StageOf(p)
    /\ \A p, q \in Procs :
          HoldsReady(p) /\ HoldsReady(q) /\ p # q => job[p].op # job[q].op

\* The status in memory is as honest as the outcome it becomes.
Honest ==
    /\ \A p \in Procs :
          /\ pc[p] \in {"trigger", "gate", "write", "written"}
               \/ child[p] # "none" => status[p].attempted
          /\ Holds(p) /\ ~status[p].attempted => tokens[job[p].run] = 0
          /\ pc[p] = "written" /\ job[p].run \in stale => age[p] > MaxAge
          /\ pc[p] = "outcome" /\ job[p].kind = "postval"
               /\ status[p].executed = "YES" => job[p].run \notin stale
    /\ \A r \in stale : tokens[r] > 0
    /\ \A k \in {"critical", "postval"}, r \in Runs, t \in Status :
          <<k, r, t>> \in outcomes =>
              /\ <<"intent", r>> \in files
              /\ \A p \in Procs : CanWrite(p) => job[p].run # r
              /\ t.executed = "YES" => tokens[r] = 1
              /\ k = "postval" /\ t.executed = "YES" => r \notin stale
              /\ ~t.attempted => tokens[r] = 0

\* A PASS is told of a run that has its token.
Passes ==
    \A e \in Exps, r \in Runs : <<"pass", <<e, r>>>> \in files =>
        tokens[r] = 1

-----------------------------------------------------------------------------
\* Setting one part of a status gives a status.
LEMMA StatusUpdate ==
    ASSUME NEW s \in Status
    PROVE  /\ [s EXCEPT !.attempted = TRUE] \in Status
           /\ [s EXCEPT !.executed = "UNKNOWN"] \in Status
BY DEF Status

\* Every step keeps the types.
LEMMA TypeStep == Types /\ [Next]_vars => TypeOK'
<1> SUFFICES ASSUME Types, [Next]_vars
             PROVE  TypeOK'
  OBVIOUS
<1> USE MaxAgeAssumption DEF Types, Kinds, TypeOK, Status, Labels, InTry,
        Goto, memory, histories, Holds, Holding, BeforeToken
<1>1. CASE UNCHANGED vars
  BY <1>1 DEF vars
<1>2. ASSUME NEW p \in Procs, Start(p) PROVE TypeOK'
  BY <1>2, SMTT(30) DEF Start
<1>3. ASSUME NEW p \in Procs, CtlCheck(p) PROVE TypeOK'
  BY <1>3, SMTT(30) DEF CtlCheck, Exists
<1>4. ASSUME NEW p \in Procs, CtlClaimRun(p) PROVE TypeOK'
  BY <1>4, SMTT(30) DEF CtlClaimRun, CreateExclusive, Exists
<1>5. ASSUME NEW p \in Procs, CtlClaimOperation(p) PROVE TypeOK'
  BY <1>5, SMTT(30) DEF CtlClaimOperation, CreateExclusive, Exists, Operation
<1>6. ASSUME NEW p \in Procs, CtlPlay(p) PROVE TypeOK'
  BY <1>6, SMTT(30) DEF CtlPlay
<1>7. ASSUME NEW p \in Procs, CtlOutcome(p) PROVE TypeOK'
  BY <1>7, SMTT(30) DEF CtlOutcome, Operation, PlaybookPasses, Exists
<1>8. ASSUME NEW p \in Procs, CtlFailure(p) PROVE TypeOK'
  BY <1>8, SMTT(30) DEF CtlFailure, Operation
<1>9. ASSUME NEW p \in Procs, RdMkdir(p) PROVE TypeOK'
  BY <1>9, SMTT(30) DEF RdMkdir, CreateExclusive, Exists
<1>10. ASSUME NEW p \in Procs, RdSmoke(p) PROVE TypeOK'
  <2>1. checks' \in [Ops -> [smoke : Nat, doctor : Nat]]
    BY <1>10 DEF RdSmoke, RdStage
  <2>2. UNCHANGED <<job, status, child, age, outcomes, tokens, stale,
                    dispatched, plays>>
    BY <1>10 DEF RdSmoke, RdStage
  <2>3. pc' \in [Procs -> Labels]
    BY <1>10 DEF RdSmoke, RdStage
  <2> QED
    BY <2>1, <2>2, <2>3
<1>11. ASSUME NEW p \in Procs, RdDoctor(p) PROVE TypeOK'
  <2>1. checks' \in [Ops -> [smoke : Nat, doctor : Nat]]
    BY <1>11 DEF RdDoctor, RdStage
  <2>2. UNCHANGED <<job, status, child, age, outcomes, tokens, stale,
                    dispatched, plays>>
    BY <1>11 DEF RdDoctor, RdStage
  <2>3. pc' \in [Procs -> Labels]
    BY <1>11 DEF RdDoctor, RdStage
  <2> QED
    BY <2>1, <2>2, <2>3
<1>12. ASSUME NEW p \in Procs, RdOutcome(p) PROVE TypeOK'
  BY <1>12, SMTT(30) DEF RdOutcome
<1>13. ASSUME NEW p \in Procs, Check(p) PROVE TypeOK'
  <2>1. pc' \in [Procs -> Labels]
    BY <1>13 DEF Check, Exists
  <2>2. UNCHANGED <<job, status, child, age, outcomes, tokens, stale,
                    dispatched, plays, checks>>
    BY <1>13 DEF Check, Exists
  <2> QED
    BY <2>1, <2>2
<1>14. ASSUME NEW p \in Procs, Intent(p) PROVE TypeOK'
  BY <1>14, SMTT(30) DEF Intent, CreateExclusive, Exists
<1>15. ASSUME NEW p \in Procs, Claim(p) PROVE TypeOK'
  BY <1>15, SMTT(30) DEF Claim, CreateExclusive, Exists
<1>16. ASSUME NEW p \in Procs, CritPrecontrol(p) PROVE TypeOK'
  BY <1>16, SMTT(30) DEF CritPrecontrol, CritChild
<1>17. ASSUME NEW p \in Procs, CritRatio(p) PROVE TypeOK'
  BY <1>17, SMTT(30) DEF CritRatio, CritChild
<1>18. ASSUME NEW p \in Procs, CritDispatch(p) PROVE TypeOK'
  <2>1. status' \in [Procs -> Status]
    <3>1. \/ status' = status
          \/ status' = [status EXCEPT
                          ![p] = [status[p] EXCEPT !.attempted = TRUE]]
      BY <1>18 DEF CritDispatch
    <3>2. status[p] \in Status
      OBVIOUS
    <3> HIDE DEF Status
    <3>3. [status[p] EXCEPT !.attempted = TRUE] \in Status
      BY <3>2, StatusUpdate
    <3> QED
      BY <3>1, <3>3
  <2>2. dispatched' \subseteq Runs \X Ops
    BY <1>18 DEF CritDispatch
  <2>3. /\ pc' \in [Procs -> Labels]
        /\ child' \in [Procs -> {"none", "started", "wrote", "passed",
                                 "failed"}]
        /\ UNCHANGED <<job, age, outcomes, tokens, stale, plays, checks>>
    BY <1>18 DEF CritDispatch
  <2> QED
    BY <2>1, <2>2, <2>3
<1>19. ASSUME NEW p \in Procs, ChildRefuse(p) PROVE TypeOK'
  BY <1>19, SMTT(30) DEF ChildRefuse
<1>20. ASSUME NEW p \in Procs, ChildWrite(p) PROVE TypeOK'
  BY <1>20, SMTT(30) DEF ChildWrite
<1>21. ASSUME NEW p \in Procs, ChildReport(p) PROVE TypeOK'
  BY <1>21, SMTT(30) DEF ChildReport
<1>22. ASSUME NEW p \in Procs, CritVerify(p) PROVE TypeOK'
  BY <1>22, SMTT(30) DEF CritVerify
<1>23. ASSUME NEW p \in Procs, CritTimeout(p) PROVE TypeOK'
  BY <1>23, SMTT(30) DEF CritTimeout
<1>24. ASSUME NEW p \in Procs, PvSource(p) PROVE TypeOK'
  <2>1. status' \in [Procs -> Status]
    <3>1. \/ status' = status
          \/ status' = [status EXCEPT
                          ![p] = [status[p] EXCEPT !.attempted = TRUE]]
      BY <1>24 DEF PvSource
    <3>2. status[p] \in Status
      OBVIOUS
    <3> HIDE DEF Status
    <3>3. [status[p] EXCEPT !.attempted = TRUE] \in Status
      BY <3>2, StatusUpdate
    <3> QED
      BY <3>1, <3>3
  <2>2. dispatched' \subseteq Runs \X Ops
    BY <1>24 DEF PvSource
  <2>3. age' \in [Procs -> 0..(MaxAge + 1)]
    BY <1>24 DEF PvSource
  <2>4. /\ pc' \in [Procs -> Labels]
        /\ UNCHANGED <<job, child, outcomes, tokens, stale, plays, checks>>
    BY <1>24 DEF PvSource
  <2> QED
    BY <2>1, <2>2, <2>3, <2>4
<1>25. ASSUME NEW p \in Procs, PvGate(p) PROVE TypeOK'
  BY <1>25, SMTT(30) DEF PvGate
<1>26. ASSUME NEW p \in Procs, PvWrite(p) PROVE TypeOK'
  <2>1. status' \in [Procs -> Status]
    <3>1. \/ status' = status
          \/ status' = [status EXCEPT
                          ![p] = [status[p] EXCEPT !.executed = "UNKNOWN"]]
      BY <1>26 DEF PvWrite
    <3>2. status[p] \in Status
      OBVIOUS
    <3> HIDE DEF Status
    <3>3. [status[p] EXCEPT !.executed = "UNKNOWN"] \in Status
      BY <3>2, StatusUpdate
    <3> QED
      BY <3>1, <3>3
  <2>2. tokens' \in [Runs -> Nat] /\ stale' \subseteq Runs
    BY <1>26 DEF PvWrite
  <2>3. /\ pc' \in [Procs -> Labels]
        /\ UNCHANGED <<job, child, age, outcomes, dispatched, plays, checks>>
    BY <1>26 DEF PvWrite
  <2> QED
    BY <2>1, <2>2, <2>3
<1>27. ASSUME NEW p \in Procs, PvComplete(p) PROVE TypeOK'
  BY <1>27, SMTT(30) DEF PvComplete
<1>28. ASSUME NEW p \in Procs, Tick(p) PROVE TypeOK'
  BY <1>28, SMTT(30) DEF Tick
<1>29. ASSUME NEW p \in Procs, Outcome(p) PROVE TypeOK'
  BY <1>29, SMTT(30) DEF Outcome, Exists
<1>30. ASSUME NEW p \in Procs, Interrupt(p) PROVE TypeOK'
  BY <1>30, SMTT(30) DEF Interrupt, InTry
<1>31. ASSUME NEW p \in Procs, Crash(p) PROVE TypeOK'
  BY <1>31, SMTT(30) DEF Crash
<1>32. QED
  BY <1>1, <1>2, <1>3, <1>4, <1>5, <1>6, <1>7, <1>8, <1>9, <1>10, <1>11,
     <1>12, <1>13, <1>14, <1>15, <1>16, <1>17, <1>18, <1>19, <1>20, <1>21,
     <1>22, <1>23, <1>24, <1>25, <1>26, <1>27, <1>28, <1>29, <1>30, <1>31
     DEF Next, Controller, Readiness, Critical, Postval

\* ... and keeps a process in the part it was started as.
LEMMA KindsStep == Types /\ [Next]_vars => Kinds'
<1> SUFFICES ASSUME Types, [Next]_vars
             PROVE  Kinds'
  OBVIOUS
<1> USE MaxAgeAssumption DEF Types, Kinds, TypeOK, Jobs, Goto, memory,
        histories, Holds, Holding, BeforeToken
<1>1. CASE UNCHANGED vars
  BY <1>1 DEF vars
<1>2. ASSUME NEW p \in Procs, Start(p) PROVE Kinds'
  BY <1>2, SMTT(30) DEF Start
<1>3. ASSUME NEW p \in Procs, CtlCheck(p) PROVE Kinds'
  BY <1>3, SMTT(30) DEF CtlCheck, Exists
<1>4. ASSUME NEW p \in Procs, CtlClaimRun(p) PROVE Kinds'
  BY <1>4, SMTT(30) DEF CtlClaimRun, CreateExclusive, Exists
<1>5. ASSUME NEW p \in Procs, CtlClaimOperation(p) PROVE Kinds'
  BY <1>5, SMTT(30) DEF CtlClaimOperation, CreateExclusive, Exists, Operation
<1>6. ASSUME NEW p \in Procs, CtlPlay(p) PROVE Kinds'
  BY <1>6, SMTT(30) DEF CtlPlay
<1>7. ASSUME NEW p \in Procs, CtlOutcome(p) PROVE Kinds'
  BY <1>7, SMTT(30) DEF CtlOutcome, Operation, PlaybookPasses, Exists
<1>8. ASSUME NEW p \in Procs, CtlFailure(p) PROVE Kinds'
  BY <1>8, SMTT(30) DEF CtlFailure, Operation
<1>9. ASSUME NEW p \in Procs, RdMkdir(p) PROVE Kinds'
  BY <1>9, SMTT(30) DEF RdMkdir, CreateExclusive, Exists
<1>10. ASSUME NEW p \in Procs, RdSmoke(p) PROVE Kinds'
  BY <1>10, SMTT(30) DEF RdSmoke, RdStage
<1>11. ASSUME NEW p \in Procs, RdDoctor(p) PROVE Kinds'
  BY <1>11, SMTT(30) DEF RdDoctor, RdStage
<1>12. ASSUME NEW p \in Procs, RdOutcome(p) PROVE Kinds'
  BY <1>12, SMTT(30) DEF RdOutcome
<1>13. ASSUME NEW p \in Procs, Check(p) PROVE Kinds'
  BY <1>13, SMTT(30) DEF Check, Exists
<1>14. ASSUME NEW p \in Procs, Intent(p) PROVE Kinds'
  BY <1>14, SMTT(30) DEF Intent, CreateExclusive, Exists
<1>15. ASSUME NEW p \in Procs, Claim(p) PROVE Kinds'
  BY <1>15, SMTT(30) DEF Claim, CreateExclusive, Exists
<1>16. ASSUME NEW p \in Procs, CritPrecontrol(p) PROVE Kinds'
  BY <1>16, SMTT(30) DEF CritPrecontrol, CritChild
<1>17. ASSUME NEW p \in Procs, CritRatio(p) PROVE Kinds'
  BY <1>17, SMTT(30) DEF CritRatio, CritChild
<1>18. ASSUME NEW p \in Procs, CritDispatch(p) PROVE Kinds'
  BY <1>18, SMTT(30) DEF CritDispatch
<1>19. ASSUME NEW p \in Procs, ChildRefuse(p) PROVE Kinds'
  BY <1>19, SMTT(30) DEF ChildRefuse
<1>20. ASSUME NEW p \in Procs, ChildWrite(p) PROVE Kinds'
  BY <1>20, SMTT(30) DEF ChildWrite
<1>21. ASSUME NEW p \in Procs, ChildReport(p) PROVE Kinds'
  BY <1>21, SMTT(30) DEF ChildReport
<1>22. ASSUME NEW p \in Procs, CritVerify(p) PROVE Kinds'
  BY <1>22, SMTT(30) DEF CritVerify
<1>23. ASSUME NEW p \in Procs, CritTimeout(p) PROVE Kinds'
  BY <1>23, SMTT(30) DEF CritTimeout
<1>24. ASSUME NEW p \in Procs, PvSource(p) PROVE Kinds'
  BY <1>24, SMTT(30) DEF PvSource
<1>25. ASSUME NEW p \in Procs, PvGate(p) PROVE Kinds'
  BY <1>25, SMTT(30) DEF PvGate
<1>26. ASSUME NEW p \in Procs, PvWrite(p) PROVE Kinds'
  BY <1>26, SMTT(30) DEF PvWrite
<1>27. ASSUME NEW p \in Procs, PvComplete(p) PROVE Kinds'
  BY <1>27, SMTT(30) DEF PvComplete
<1>28. ASSUME NEW p \in Procs, Tick(p) PROVE Kinds'
  BY <1>28, SMTT(30) DEF Tick
<1>29. ASSUME NEW p \in Procs, Outcome(p) PROVE Kinds'
  BY <1>29, SMTT(30) DEF Outcome, Exists
<1>30. ASSUME NEW p \in Procs, Interrupt(p) PROVE Kinds'
  BY <1>30, SMTT(30) DEF Interrupt, InTry
<1>31. ASSUME NEW p \in Procs, Crash(p) PROVE Kinds'
  BY <1>31, SMTT(30) DEF Crash
<1>32. QED
  BY <1>1, <1>2, <1>3, <1>4, <1>5, <1>6, <1>7, <1>8, <1>9, <1>10, <1>11,
     <1>12, <1>13, <1>14, <1>15, <1>16, <1>17, <1>18, <1>19, <1>20, <1>21,
     <1>22, <1>23, <1>24, <1>25, <1>26, <1>27, <1>28, <1>29, <1>30, <1>31
     DEF Next, Controller, Readiness, Critical, Postval

\* The intent is created exclusively, so at most one process comes to hold it.
LEMMA ClaimsStep == Types /\ Claims /\ [Next]_vars => Claims'
<1> SUFFICES ASSUME Types /\ Claims, [Next]_vars
             PROVE  Claims'
  OBVIOUS
<1> USE MaxAgeAssumption DEF Types, Kinds, TypeOK, Claims, AfterDispatch,
        InTry, Goto, memory, histories, Holds, Holding, BeforeToken
<1>1. CASE UNCHANGED vars
  BY <1>1 DEF vars
<1>2. ASSUME NEW p \in Procs, Start(p) PROVE Claims'
  BY <1>2, SMTT(30) DEF Start
<1>3. ASSUME NEW p \in Procs, CtlCheck(p) PROVE Claims'
  BY <1>3, SMTT(30) DEF CtlCheck, Exists
<1>4. ASSUME NEW p \in Procs, CtlClaimRun(p) PROVE Claims'
  BY <1>4, SMTT(30) DEF CtlClaimRun, CreateExclusive, Exists
<1>5. ASSUME NEW p \in Procs, CtlClaimOperation(p) PROVE Claims'
  BY <1>5, SMTT(30) DEF CtlClaimOperation, CreateExclusive, Exists, Operation
<1>6. ASSUME NEW p \in Procs, CtlPlay(p) PROVE Claims'
  BY <1>6, SMTT(30) DEF CtlPlay
<1>7. ASSUME NEW p \in Procs, CtlOutcome(p) PROVE Claims'
  BY <1>7, SMTT(30) DEF CtlOutcome, Operation, PlaybookPasses, Exists
<1>8. ASSUME NEW p \in Procs, CtlFailure(p) PROVE Claims'
  BY <1>8, SMTT(30) DEF CtlFailure, Operation
<1>9. ASSUME NEW p \in Procs, RdMkdir(p) PROVE Claims'
  BY <1>9, SMTT(30) DEF RdMkdir, CreateExclusive, Exists
<1>10. ASSUME NEW p \in Procs, RdSmoke(p) PROVE Claims'
  <2>1. UNCHANGED <<job, child>> /\ files \subseteq files'
    BY <1>10 DEF RdSmoke, RdStage
  <2>2. \A q \in Procs : \/ pc'[q] = pc[q]
                         \/ /\ pc[q] = "rd_smoke"
                            /\ pc'[q] \in {"rd_doctor", "done"}
    BY <1>10 DEF RdSmoke, RdStage
  <2> HIDE DEF Types, Kinds, TypeOK
  <2> QED
    BY <2>1, <2>2
<1>11. ASSUME NEW p \in Procs, RdDoctor(p) PROVE Claims'
  BY <1>11, SMTT(30) DEF RdDoctor, RdStage
<1>12. ASSUME NEW p \in Procs, RdOutcome(p) PROVE Claims'
  BY <1>12, SMTT(30) DEF RdOutcome
<1>13. ASSUME NEW p \in Procs, Check(p) PROVE Claims'
  BY <1>13, SMTT(30) DEF Check, Exists
<1>14. ASSUME NEW p \in Procs, Intent(p) PROVE Claims'
  BY <1>14, SMTT(30) DEF Intent, CreateExclusive, Exists
<1>15. ASSUME NEW p \in Procs, Claim(p) PROVE Claims'
  BY <1>15, SMTT(30) DEF Claim, CreateExclusive, Exists
<1>16. ASSUME NEW p \in Procs, CritPrecontrol(p) PROVE Claims'
  BY <1>16, SMTT(30) DEF CritPrecontrol, CritChild
<1>17. ASSUME NEW p \in Procs, CritRatio(p) PROVE Claims'
  BY <1>17, SMTT(30) DEF CritRatio, CritChild
<1>18. ASSUME NEW p \in Procs, CritDispatch(p) PROVE Claims'
  BY <1>18, SMTT(30) DEF CritDispatch
<1>19. ASSUME NEW p \in Procs, ChildRefuse(p) PROVE Claims'
  BY <1>19, SMTT(30) DEF ChildRefuse
<1>20. ASSUME NEW p \in Procs, ChildWrite(p) PROVE Claims'
  BY <1>20, SMTT(30) DEF ChildWrite
<1>21. ASSUME NEW p \in Procs, ChildReport(p) PROVE Claims'
  BY <1>21, SMTT(30) DEF ChildReport
<1>22. ASSUME NEW p \in Procs, CritVerify(p) PROVE Claims'
  BY <1>22, SMTT(30) DEF CritVerify
<1>23. ASSUME NEW p \in Procs, CritTimeout(p) PROVE Claims'
  BY <1>23, SMTT(30) DEF CritTimeout
<1>24. ASSUME NEW p \in Procs, PvSource(p) PROVE Claims'
  BY <1>24, SMTT(30) DEF PvSource
<1>25. ASSUME NEW p \in Procs, PvGate(p) PROVE Claims'
  BY <1>25, SMTT(30) DEF PvGate
<1>26. ASSUME NEW p \in Procs, PvWrite(p) PROVE Claims'
  BY <1>26, SMTT(30) DEF PvWrite
<1>27. ASSUME NEW p \in Procs, PvComplete(p) PROVE Claims'
  BY <1>27, SMTT(30) DEF PvComplete
<1>28. ASSUME NEW p \in Procs, Tick(p) PROVE Claims'
  BY <1>28, SMTT(30) DEF Tick
<1>29. ASSUME NEW p \in Procs, Outcome(p) PROVE Claims'
  BY <1>29, SMTT(30) DEF Outcome, Exists
<1>30. ASSUME NEW p \in Procs, Interrupt(p) PROVE Claims'
  BY <1>30, SMTT(30) DEF Interrupt, InTry
<1>31. ASSUME NEW p \in Procs, Crash(p) PROVE Claims'
  BY <1>31, SMTT(30) DEF Crash
<1>32. QED
  BY <1>1, <1>2, <1>3, <1>4, <1>5, <1>6, <1>7, <1>8, <1>9, <1>10, <1>11,
     <1>12, <1>13, <1>14, <1>15, <1>16, <1>17, <1>18, <1>19, <1>20, <1>21,
     <1>22, <1>23, <1>24, <1>25, <1>26, <1>27, <1>28, <1>29, <1>30, <1>31
     DEF Next, Controller, Readiness, Critical, Postval

\* Only the holder of the intent writes a token, and it writes one.
LEMMA TokensStep == Types /\ Claims /\ Tokens /\ [Next]_vars => Tokens'
<1> SUFFICES ASSUME Types /\ Claims /\ Tokens, [Next]_vars
             PROVE  Tokens'
  OBVIOUS
<1> USE MaxAgeAssumption DEF Types, Kinds, TypeOK, Claims, Tokens, TokenOf,
        CanWrite, BaseStatus, InTry, Goto, memory, histories, Holds, Holding,
        BeforeToken
<1>1. CASE UNCHANGED vars
  BY <1>1 DEF vars
<1>2. ASSUME NEW p \in Procs, Start(p) PROVE Tokens'
  BY <1>2, SMTT(30) DEF Start
<1>3. ASSUME NEW p \in Procs, CtlCheck(p) PROVE Tokens'
  BY <1>3, SMTT(30) DEF CtlCheck, Exists
<1>4. ASSUME NEW p \in Procs, CtlClaimRun(p) PROVE Tokens'
  BY <1>4, SMTT(30) DEF CtlClaimRun, CreateExclusive, Exists
<1>5. ASSUME NEW p \in Procs, CtlClaimOperation(p) PROVE Tokens'
  BY <1>5, SMTT(30) DEF CtlClaimOperation, CreateExclusive, Exists, Operation
<1>6. ASSUME NEW p \in Procs, CtlPlay(p) PROVE Tokens'
  BY <1>6, SMTT(30) DEF CtlPlay
<1>7. ASSUME NEW p \in Procs, CtlOutcome(p) PROVE Tokens'
  BY <1>7, SMTT(30) DEF CtlOutcome, Operation, PlaybookPasses, Exists
<1>8. ASSUME NEW p \in Procs, CtlFailure(p) PROVE Tokens'
  BY <1>8, SMTT(30) DEF CtlFailure, Operation
<1>9. ASSUME NEW p \in Procs, RdMkdir(p) PROVE Tokens'
  BY <1>9, SMTT(30) DEF RdMkdir, CreateExclusive, Exists
<1>10. ASSUME NEW p \in Procs, RdSmoke(p) PROVE Tokens'
  BY <1>10, SMTT(30) DEF RdSmoke, RdStage
<1>11. ASSUME NEW p \in Procs, RdDoctor(p) PROVE Tokens'
  BY <1>11, SMTT(30) DEF RdDoctor, RdStage
<1>12. ASSUME NEW p \in Procs, RdOutcome(p) PROVE Tokens'
  BY <1>12, SMTT(30) DEF RdOutcome
<1>13. ASSUME NEW p \in Procs, Check(p) PROVE Tokens'
  BY <1>13, SMTT(30) DEF Check, Exists
<1>14. ASSUME NEW p \in Procs, Intent(p) PROVE Tokens'
  BY <1>14, SMTT(30) DEF Intent, CreateExclusive, Exists
<1>15. ASSUME NEW p \in Procs, Claim(p) PROVE Tokens'
  BY <1>15, SMTT(30) DEF Claim, CreateExclusive, Exists
<1>16. ASSUME NEW p \in Procs, CritPrecontrol(p) PROVE Tokens'
  BY <1>16, SMTT(30) DEF CritPrecontrol, CritChild
<1>17. ASSUME NEW p \in Procs, CritRatio(p) PROVE Tokens'
  BY <1>17, SMTT(30) DEF CritRatio, CritChild
<1>18. ASSUME NEW p \in Procs, CritDispatch(p) PROVE Tokens'
  BY <1>18, SMTT(30) DEF CritDispatch
<1>19. ASSUME NEW p \in Procs, ChildRefuse(p) PROVE Tokens'
  BY <1>19, SMTT(30) DEF ChildRefuse
<1>20. ASSUME NEW p \in Procs, ChildWrite(p) PROVE Tokens'
  <2>1. /\ job[p].run \in Runs /\ tokens[job[p].run] = 0
        /\ <<"intent", job[p].run>> \in files
        /\ tokens' = [tokens EXCEPT ![job[p].run] = tokens[job[p].run] + 1]
    BY <1>20 DEF ChildWrite
  <2>2. UNCHANGED <<pc, job, status, files>>
    BY <1>20 DEF ChildWrite
  <2>3. \A q \in Procs : q # p /\ Holds(q)' =>
            /\ Holds(q) /\ job[q].run # job[p].run
            /\ child'[q] = child[q]
    BY <1>20 DEF ChildWrite
  <2>4. /\ child'[p] = "wrote" /\ pc[p] \in AfterDispatch
        /\ pc[p] \notin {"outcome", "returned"}
    BY <1>20 DEF ChildWrite
  <2>5. /\ tokens'[job[p].run] = 1
        /\ \A r \in Runs : r # job[p].run => tokens'[r] = tokens[r]
    BY <2>1
  <2>6. \A q \in Procs : Holds(q) => job[q].run \in Runs
    OBVIOUS
  <2> HIDE DEF Types, Kinds, TypeOK, Claims
  <2>7. \A r \in Runs : /\ tokens'[r] <= 1
                        /\ tokens'[r] > 0 => <<"intent", r>> \in files'
    <3> TAKE r \in Runs
    <3>1. CASE r = job[p].run
      BY <3>1, <2>1, <2>2, <2>5
    <3>2. CASE r # job[p].run
      BY <3>2, <2>2, <2>5
    <3> QED
      BY <3>1, <3>2
  <2>8. ASSUME NEW q \in Procs PROVE TokenOf(q)'
    <3>1. CASE q = p
      BY <3>1, <2>2, <2>4, <2>5 DEF AfterDispatch
    <3>2. CASE q # p
      BY <3>2, <2>2, <2>3, <2>5, <2>6
    <3> QED
      BY <3>1, <3>2
  <2> QED
    BY <2>7, <2>8
<1>21. ASSUME NEW p \in Procs, ChildReport(p) PROVE Tokens'
  BY <1>21, SMTT(30) DEF ChildReport
<1>22. ASSUME NEW p \in Procs, CritVerify(p) PROVE Tokens'
  BY <1>22, SMTT(30) DEF CritVerify
<1>23. ASSUME NEW p \in Procs, CritTimeout(p) PROVE Tokens'
  BY <1>23, SMTT(30) DEF CritTimeout
<1>24. ASSUME NEW p \in Procs, PvSource(p) PROVE Tokens'
  <2>1. /\ UNCHANGED <<job, child, files, tokens>>
        /\ pc[p] = "poll" /\ pc'[p] \in {"gate", "outcome"}
        /\ \A q \in Procs : q # p => pc'[q] = pc[q] /\ status'[q] = status[q]
    BY <1>24 DEF PvSource
  <2>2. status'[p].executed = status[p].executed
    BY <1>24 DEF PvSource, Status
  <2> HIDE DEF Types, Kinds, TypeOK, Claims
  <2> QED
    BY <2>1, <2>2
<1>25. ASSUME NEW p \in Procs, PvGate(p) PROVE Tokens'
  BY <1>25, SMTT(30) DEF PvGate
<1>26. ASSUME NEW p \in Procs, PvWrite(p) PROVE Tokens'
  <2>1. /\ UNCHANGED <<job, child, files>>
        /\ job[p].run \in Runs /\ <<"intent", job[p].run>> \in files
        /\ pc[p] = "write" /\ tokens[job[p].run] = 0
    BY <1>26 DEF PvWrite
  <2>2. /\ pc'[p] \in {"written", "outcome"}
        /\ \A q \in Procs : q # p => pc'[q] = pc[q] /\ status'[q] = status[q]
        /\ status'[p].executed # "YES"
        /\ pc'[p] = "written" => status'[p].executed = "NO"
    BY <1>26 DEF PvWrite, Status
  <2>3. /\ \A r \in Runs : r # job[p].run => tokens'[r] = tokens[r]
        /\ tokens'[job[p].run] = IF pc'[p] = "written" THEN 1 ELSE 0
    BY <1>26 DEF PvWrite
  <2>4. /\ child[p] = "none"
        /\ \A q \in Procs : q # p /\ Holds(q) =>
               job[q].run \in Runs /\ job[q].run # job[p].run
    BY <2>1 DEF AfterDispatch
  <2>5. \A q \in Procs :
            q # p /\ status[q].executed = "YES" /\ pc[q] # "done" => Holds(q)
    OBVIOUS
  <2> HIDE DEF Types, Kinds, TypeOK, Claims
  <2>6. \A r \in Runs : /\ tokens'[r] <= 1
                        /\ tokens'[r] > 0 => <<"intent", r>> \in files'
    <3> TAKE r \in Runs
    <3>1. CASE r = job[p].run
      BY <3>1, <2>1, <2>3
    <3>2. CASE r # job[p].run
      BY <3>2, <2>1, <2>3
    <3> QED
      BY <3>1, <3>2
  <2>7. ASSUME NEW q \in Procs PROVE TokenOf(q)'
    <3>1. CASE q = p
      BY <3>1, <2>1, <2>2, <2>3, <2>4
    <3>2. CASE q # p
      BY <3>2, <2>1, <2>2, <2>3, <2>4, <2>5
    <3> QED
      BY <3>1, <3>2
  <2> QED
    BY <2>6, <2>7
<1>27. ASSUME NEW p \in Procs, PvComplete(p) PROVE Tokens'
  BY <1>27, SMTT(30) DEF PvComplete
<1>28. ASSUME NEW p \in Procs, Tick(p) PROVE Tokens'
  BY <1>28, SMTT(30) DEF Tick
<1>29. ASSUME NEW p \in Procs, Outcome(p) PROVE Tokens'
  BY <1>29, SMTT(30) DEF Outcome, Exists
<1>30. ASSUME NEW p \in Procs, Interrupt(p) PROVE Tokens'
  BY <1>30, SMTT(30) DEF Interrupt, InTry
<1>31. ASSUME NEW p \in Procs, Crash(p) PROVE Tokens'
  BY <1>31, SMTT(30) DEF Crash
<1>32. QED
  BY <1>1, <1>2, <1>3, <1>4, <1>5, <1>6, <1>7, <1>8, <1>9, <1>10, <1>11,
     <1>12, <1>13, <1>14, <1>15, <1>16, <1>17, <1>18, <1>19, <1>20, <1>21,
     <1>22, <1>23, <1>24, <1>25, <1>26, <1>27, <1>28, <1>29, <1>30, <1>31
     DEF Next, Controller, Readiness, Critical, Postval

\* Only the holder of the intent and of the operation identifier dispatches.
LEMMA DispatchesStep ==
    Types /\ Claims /\ Dispatches /\ [Next]_vars => Dispatches'
<1> SUFFICES ASSUME Types /\ Claims /\ Dispatches, [Next]_vars
             PROVE  Dispatches'
  OBVIOUS
<1> USE MaxAgeAssumption DEF Types, Kinds, TypeOK, Claims, Dispatches,
        HoldsOperation, HoldsOperationAt, Goto, memory, histories, Holds,
        Holding, BeforeToken
<1>1. CASE UNCHANGED vars
  BY <1>1 DEF vars
<1>2. ASSUME NEW p \in Procs, Start(p) PROVE Dispatches'
  BY <1>2, SMTT(30) DEF Start
<1>3. ASSUME NEW p \in Procs, CtlCheck(p) PROVE Dispatches'
  BY <1>3, SMTT(30) DEF CtlCheck, Exists
<1>4. ASSUME NEW p \in Procs, CtlClaimRun(p) PROVE Dispatches'
  BY <1>4, SMTT(30) DEF CtlClaimRun, CreateExclusive, Exists
<1>5. ASSUME NEW p \in Procs, CtlClaimOperation(p) PROVE Dispatches'
  BY <1>5, SMTT(30) DEF CtlClaimOperation, CreateExclusive, Exists, Operation
<1>6. ASSUME NEW p \in Procs, CtlPlay(p) PROVE Dispatches'
  BY <1>6, SMTT(30) DEF CtlPlay
<1>7. ASSUME NEW p \in Procs, CtlOutcome(p) PROVE Dispatches'
  BY <1>7, SMTT(30) DEF CtlOutcome, Operation, PlaybookPasses, Exists
<1>8. ASSUME NEW p \in Procs, CtlFailure(p) PROVE Dispatches'
  BY <1>8, SMTT(30) DEF CtlFailure, Operation
<1>9. ASSUME NEW p \in Procs, RdMkdir(p) PROVE Dispatches'
  BY <1>9, SMTT(30) DEF RdMkdir, CreateExclusive, Exists
<1>10. ASSUME NEW p \in Procs, RdSmoke(p) PROVE Dispatches'
  <2>1. UNCHANGED <<job, dispatched>> /\ files \subseteq files'
    BY <1>10 DEF RdSmoke, RdStage
  <2>2. \A q \in Procs : \/ pc'[q] = pc[q]
                         \/ pc'[q] \in {"rd_doctor", "done"}
    BY <1>10 DEF RdSmoke, RdStage
  <2> HIDE DEF Types, Kinds, TypeOK, Claims
  <2> QED
    BY <2>1, <2>2
<1>11. ASSUME NEW p \in Procs, RdDoctor(p) PROVE Dispatches'
  <2>1. UNCHANGED <<job, dispatched>> /\ files \subseteq files'
    BY <1>11 DEF RdDoctor, RdStage
  <2>2. \A q \in Procs : \/ pc'[q] = pc[q]
                         \/ pc'[q] \in {"rd_outcome", "done"}
    BY <1>11 DEF RdDoctor, RdStage
  <2> HIDE DEF Types, Kinds, TypeOK, Claims
  <2> QED
    BY <2>1, <2>2
<1>12. ASSUME NEW p \in Procs, RdOutcome(p) PROVE Dispatches'
  BY <1>12, SMTT(30) DEF RdOutcome
<1>13. ASSUME NEW p \in Procs, Check(p) PROVE Dispatches'
  BY <1>13, SMTT(30) DEF Check, Exists
<1>14. ASSUME NEW p \in Procs, Intent(p) PROVE Dispatches'
  <2>1. UNCHANGED <<job, dispatched>> /\ files \subseteq files'
    BY <1>14 DEF Intent, CreateExclusive, Exists
  <2>2. /\ \A q \in Procs : q # p => pc'[q] = pc[q]
        /\ pc'[p] \in {"claim", "done"} /\ job[p].run \in Runs
        /\ pc'[p] = "claim" => <<"intent", job[p].run>> \notin files
    BY <1>14 DEF Intent, CreateExclusive, Exists
  <2> HIDE DEF Types, Kinds, TypeOK, Claims
  <2>3. \A q \in Procs : HoldsOperation(q)' => HoldsOperation(q)
    BY <2>2
  <2>4. \A q \in Procs : HoldsOperation(q)' \/ pc'[q] = "claim" =>
            \A o \in Ops : <<job[q].run, o>> \notin dispatched
    BY <2>2
  <2> QED
    BY <2>1, <2>3, <2>4
<1>15. ASSUME NEW p \in Procs, Claim(p) PROVE Dispatches'
  <2>1. /\ UNCHANGED <<job, dispatched>> /\ files \subseteq files'
        /\ pc[p] = "claim" /\ job[p].op \in Ops
        /\ \A q \in Procs : q # p => pc'[q] = pc[q]
        /\ pc'[p] # "claim"
    BY <1>15 DEF Claim, CreateExclusive, Exists
  <2>2. HoldsOperation(p)' => /\ <<"op_claim", job[p].op>> \notin files
                              /\ <<"op_claim", job[p].op>> \in files'
    BY <1>15 DEF Claim, CreateExclusive, Exists
  <2> HIDE DEF Types, Kinds, TypeOK, Claims
  <2>3. \A q \in Procs : HoldsOperation(q)' =>
            \A r \in Runs : <<r, job[q].op>> \notin dispatched
    BY <2>1, <2>2
  <2> QED
    BY <2>1, <2>2, <2>3
<1>16. ASSUME NEW p \in Procs, CritPrecontrol(p) PROVE Dispatches'
  BY <1>16, SMTT(30) DEF CritPrecontrol, CritChild
<1>17. ASSUME NEW p \in Procs, CritRatio(p) PROVE Dispatches'
  BY <1>17, SMTT(30) DEF CritRatio, CritChild
<1>18. ASSUME NEW p \in Procs, CritDispatch(p) PROVE Dispatches'
  <2>1. /\ UNCHANGED <<job, files>> /\ HoldsOperation(p)
        /\ job[p].run \in Runs /\ job[p].op \in Ops
        /\ <<"intent", job[p].run>> \in files
    BY <1>18 DEF CritDispatch
  <2>2. dispatched' = dispatched \union {<<job[p].run, job[p].op>>}
    BY <1>18 DEF CritDispatch
  <2>3. /\ pc'[p] \notin HoldsOperationAt \union {"claim"}
        /\ \A q \in Procs : q # p => pc'[q] = pc[q]
    BY <1>18 DEF CritDispatch, HoldsOperationAt
  <2>4. \A q \in Procs : q # p /\ (HoldsOperation(q) \/ pc[q] = "claim") =>
            job[q].run # job[p].run
    BY <1>18 DEF CritDispatch
  <2> HIDE DEF Types, Kinds, TypeOK, Claims
  <2>5. \A q \in Procs : HoldsOperation(q)' \/ pc'[q] = "claim" =>
            /\ q # p
            /\ (HoldsOperation(q) \/ pc[q] = "claim")
            /\ job'[q].run # job[p].run
    BY <2>1, <2>3, <2>4 DEF HoldsOperationAt
  <2>6. \A q \in Procs : HoldsOperation(q)' =>
            HoldsOperation(q) /\ job'[q].op # job[p].op
    BY <2>1, <2>3 DEF HoldsOperationAt
  <2>7. \A o \in Ops : <<job[p].run, o>> \notin dispatched
    BY <2>1
  <2>8. \A r \in Runs : <<r, job[p].op>> \notin dispatched
    BY <2>1
  <2>9. <<"op_claim", job[p].op>> \in files
    BY <2>1
  <2>10. \A r \in Runs, o \in Ops : <<r, o>> \in dispatched' =>
             \/ <<r, o>> \in dispatched
             \/ r = job[p].run /\ o = job[p].op
    BY <2>2
  <2>11. \A r \in Runs, o \in Ops : <<r, o>> \in dispatched' =>
             /\ <<"intent", r>> \in files'
             /\ <<"op_claim", o>> \in files'
    BY <2>1, <2>9, <2>10
  <2>12. \A q \in Procs :
             /\ HoldsOperation(q)' => <<"op_claim", job'[q].op>> \in files'
             /\ HoldsOperation(q)' \/ pc'[q] = "claim" =>
                    \A o \in Ops : <<job'[q].run, o>> \notin dispatched'
             /\ HoldsOperation(q)' =>
                    \A r \in Runs : <<r, job'[q].op>> \notin dispatched'
    BY <2>1, <2>2, <2>5, <2>6
  <2>13. \A q, m \in Procs :
             HoldsOperation(q)' /\ HoldsOperation(m)' /\ q # m =>
                 job'[q].op # job'[m].op
    BY <2>1, <2>6
  <2>14. \A r, m \in Runs, o, n \in Ops :
             <<r, o>> \in dispatched' /\ <<m, n>> \in dispatched' =>
                 (r = m <=> o = n)
    BY <2>7, <2>8, <2>10
  <2> QED
    BY <2>11, <2>12, <2>13, <2>14
<1>19. ASSUME NEW p \in Procs, ChildRefuse(p) PROVE Dispatches'
  BY <1>19, SMTT(30) DEF ChildRefuse
<1>20. ASSUME NEW p \in Procs, ChildWrite(p) PROVE Dispatches'
  BY <1>20, SMTT(30) DEF ChildWrite
<1>21. ASSUME NEW p \in Procs, ChildReport(p) PROVE Dispatches'
  BY <1>21, SMTT(30) DEF ChildReport
<1>22. ASSUME NEW p \in Procs, CritVerify(p) PROVE Dispatches'
  BY <1>22, SMTT(30) DEF CritVerify
<1>23. ASSUME NEW p \in Procs, CritTimeout(p) PROVE Dispatches'
  BY <1>23, SMTT(30) DEF CritTimeout
<1>24. ASSUME NEW p \in Procs, PvSource(p) PROVE Dispatches'
  <2>1. /\ UNCHANGED <<job, files>> /\ HoldsOperation(p)
        /\ job[p].run \in Runs /\ job[p].op \in Ops
        /\ <<"intent", job[p].run>> \in files
    BY <1>24 DEF PvSource
  <2>2. \/ dispatched' = dispatched
        \/ dispatched' = dispatched \union {<<job[p].run, job[p].op>>}
    BY <1>24 DEF PvSource
  <2>3. /\ pc'[p] \notin HoldsOperationAt \union {"claim"}
        /\ \A q \in Procs : q # p => pc'[q] = pc[q]
    BY <1>24 DEF PvSource, HoldsOperationAt
  <2>4. \A q \in Procs : q # p /\ (HoldsOperation(q) \/ pc[q] = "claim") =>
            job[q].run # job[p].run
    BY <1>24 DEF PvSource
  <2> HIDE DEF Types, Kinds, TypeOK, Claims
  <2>5. \A q \in Procs : HoldsOperation(q)' \/ pc'[q] = "claim" =>
            /\ q # p
            /\ (HoldsOperation(q) \/ pc[q] = "claim")
            /\ job'[q].run # job[p].run
    BY <2>1, <2>3, <2>4 DEF HoldsOperationAt
  <2>6. \A q \in Procs : HoldsOperation(q)' =>
            HoldsOperation(q) /\ job'[q].op # job[p].op
    BY <2>1, <2>3 DEF HoldsOperationAt
  <2>7. \A o \in Ops : <<job[p].run, o>> \notin dispatched
    BY <2>1
  <2>8. \A r \in Runs : <<r, job[p].op>> \notin dispatched
    BY <2>1
  <2>9. <<"op_claim", job[p].op>> \in files
    BY <2>1
  <2>10. \A r \in Runs, o \in Ops : <<r, o>> \in dispatched' =>
             \/ <<r, o>> \in dispatched
             \/ r = job[p].run /\ o = job[p].op
    BY <2>2
  <2>11. \A r \in Runs, o \in Ops : <<r, o>> \in dispatched' =>
             /\ <<"intent", r>> \in files'
             /\ <<"op_claim", o>> \in files'
    BY <2>1, <2>9, <2>10
  <2>12. \A q \in Procs :
             /\ HoldsOperation(q)' => <<"op_claim", job'[q].op>> \in files'
             /\ HoldsOperation(q)' \/ pc'[q] = "claim" =>
                    \A o \in Ops : <<job'[q].run, o>> \notin dispatched'
             /\ HoldsOperation(q)' =>
                    \A r \in Runs : <<r, job'[q].op>> \notin dispatched'
    BY <2>1, <2>2, <2>5, <2>6
  <2>13. \A q, m \in Procs :
             HoldsOperation(q)' /\ HoldsOperation(m)' /\ q # m =>
                 job'[q].op # job'[m].op
    BY <2>1, <2>6
  <2>14. \A r, m \in Runs, o, n \in Ops :
             <<r, o>> \in dispatched' /\ <<m, n>> \in dispatched' =>
                 (r = m <=> o = n)
    BY <2>7, <2>8, <2>10
  <2> QED
    BY <2>11, <2>12, <2>13, <2>14
<1>25. ASSUME NEW p \in Procs, PvGate(p) PROVE Dispatches'
  BY <1>25, SMTT(30) DEF PvGate
<1>26. ASSUME NEW p \in Procs, PvWrite(p) PROVE Dispatches'
  BY <1>26, SMTT(30) DEF PvWrite
<1>27. ASSUME NEW p \in Procs, PvComplete(p) PROVE Dispatches'
  BY <1>27, SMTT(30) DEF PvComplete
<1>28. ASSUME NEW p \in Procs, Tick(p) PROVE Dispatches'
  BY <1>28, SMTT(30) DEF Tick
<1>29. ASSUME NEW p \in Procs, Outcome(p) PROVE Dispatches'
  BY <1>29, SMTT(30) DEF Outcome, Exists
<1>30. ASSUME NEW p \in Procs, Interrupt(p) PROVE Dispatches'
  BY <1>30, SMTT(30) DEF Interrupt, InTry
<1>31. ASSUME NEW p \in Procs, Crash(p) PROVE Dispatches'
  BY <1>31, SMTT(30) DEF Crash
<1>32. QED
  BY <1>1, <1>2, <1>3, <1>4, <1>5, <1>6, <1>7, <1>8, <1>9, <1>10, <1>11,
     <1>12, <1>13, <1>14, <1>15, <1>16, <1>17, <1>18, <1>19, <1>20, <1>21,
     <1>22, <1>23, <1>24, <1>25, <1>26, <1>27, <1>28, <1>29, <1>30, <1>31
     DEF Next, Controller, Readiness, Critical, Postval

\* Only the creator of the run claim plays the run, once.
LEMMA PlaysStep == Types /\ Plays /\ [Next]_vars => Plays'
<1> SUFFICES ASSUME Types /\ Plays, [Next]_vars
             PROVE  Plays'
  OBVIOUS
<1> USE MaxAgeAssumption DEF Types, Kinds, TypeOK, Plays, HoldsRun, Goto,
        memory, histories, Holds, Holding, BeforeToken
<1>1. CASE UNCHANGED vars
  BY <1>1 DEF vars
<1>2. ASSUME NEW p \in Procs, Start(p) PROVE Plays'
  BY <1>2, SMTT(30) DEF Start
<1>3. ASSUME NEW p \in Procs, CtlCheck(p) PROVE Plays'
  BY <1>3, SMTT(30) DEF CtlCheck, Exists
<1>4. ASSUME NEW p \in Procs, CtlClaimRun(p) PROVE Plays'
  BY <1>4, SMTT(30) DEF CtlClaimRun, CreateExclusive, Exists
<1>5. ASSUME NEW p \in Procs, CtlClaimOperation(p) PROVE Plays'
  BY <1>5, SMTT(30) DEF CtlClaimOperation, CreateExclusive, Exists, Operation
<1>6. ASSUME NEW p \in Procs, CtlPlay(p) PROVE Plays'
  BY <1>6, SMTT(30) DEF CtlPlay
<1>7. ASSUME NEW p \in Procs, CtlOutcome(p) PROVE Plays'
  BY <1>7, SMTT(30) DEF CtlOutcome, Operation, PlaybookPasses, Exists
<1>8. ASSUME NEW p \in Procs, CtlFailure(p) PROVE Plays'
  BY <1>8, SMTT(30) DEF CtlFailure, Operation
<1>9. ASSUME NEW p \in Procs, RdMkdir(p) PROVE Plays'
  BY <1>9, SMTT(30) DEF RdMkdir, CreateExclusive, Exists
<1>10. ASSUME NEW p \in Procs, RdSmoke(p) PROVE Plays'
  BY <1>10, SMTT(30) DEF RdSmoke, RdStage
<1>11. ASSUME NEW p \in Procs, RdDoctor(p) PROVE Plays'
  BY <1>11, SMTT(30) DEF RdDoctor, RdStage
<1>12. ASSUME NEW p \in Procs, RdOutcome(p) PROVE Plays'
  BY <1>12, SMTT(30) DEF RdOutcome
<1>13. ASSUME NEW p \in Procs, Check(p) PROVE Plays'
  BY <1>13, SMTT(30) DEF Check, Exists
<1>14. ASSUME NEW p \in Procs, Intent(p) PROVE Plays'
  BY <1>14, SMTT(30) DEF Intent, CreateExclusive, Exists
<1>15. ASSUME NEW p \in Procs, Claim(p) PROVE Plays'
  BY <1>15, SMTT(30) DEF Claim, CreateExclusive, Exists
<1>16. ASSUME NEW p \in Procs, CritPrecontrol(p) PROVE Plays'
  BY <1>16, SMTT(30) DEF CritPrecontrol, CritChild
<1>17. ASSUME NEW p \in Procs, CritRatio(p) PROVE Plays'
  BY <1>17, SMTT(30) DEF CritRatio, CritChild
<1>18. ASSUME NEW p \in Procs, CritDispatch(p) PROVE Plays'
  BY <1>18, SMTT(30) DEF CritDispatch
<1>19. ASSUME NEW p \in Procs, ChildRefuse(p) PROVE Plays'
  BY <1>19, SMTT(30) DEF ChildRefuse
<1>20. ASSUME NEW p \in Procs, ChildWrite(p) PROVE Plays'
  BY <1>20, SMTT(30) DEF ChildWrite
<1>21. ASSUME NEW p \in Procs, ChildReport(p) PROVE Plays'
  BY <1>21, SMTT(30) DEF ChildReport
<1>22. ASSUME NEW p \in Procs, CritVerify(p) PROVE Plays'
  BY <1>22, SMTT(30) DEF CritVerify
<1>23. ASSUME NEW p \in Procs, CritTimeout(p) PROVE Plays'
  BY <1>23, SMTT(30) DEF CritTimeout
<1>24. ASSUME NEW p \in Procs, PvSource(p) PROVE Plays'
  BY <1>24, SMTT(30) DEF PvSource
<1>25. ASSUME NEW p \in Procs, PvGate(p) PROVE Plays'
  BY <1>25, SMTT(30) DEF PvGate
<1>26. ASSUME NEW p \in Procs, PvWrite(p) PROVE Plays'
  BY <1>26, SMTT(30) DEF PvWrite
<1>27. ASSUME NEW p \in Procs, PvComplete(p) PROVE Plays'
  BY <1>27, SMTT(30) DEF PvComplete
<1>28. ASSUME NEW p \in Procs, Tick(p) PROVE Plays'
  BY <1>28, SMTT(30) DEF Tick
<1>29. ASSUME NEW p \in Procs, Outcome(p) PROVE Plays'
  BY <1>29, SMTT(30) DEF Outcome, Exists
<1>30. ASSUME NEW p \in Procs, Interrupt(p) PROVE Plays'
  BY <1>30, SMTT(30) DEF Interrupt, InTry
<1>31. ASSUME NEW p \in Procs, Crash(p) PROVE Plays'
  BY <1>31, SMTT(30) DEF Crash
<1>32. QED
  BY <1>1, <1>2, <1>3, <1>4, <1>5, <1>6, <1>7, <1>8, <1>9, <1>10, <1>11,
     <1>12, <1>13, <1>14, <1>15, <1>16, <1>17, <1>18, <1>19, <1>20, <1>21,
     <1>22, <1>23, <1>24, <1>25, <1>26, <1>27, <1>28, <1>29, <1>30, <1>31
     DEF Next, Controller, Readiness, Critical, Postval

\* Only the creator of the operation directory runs the stages, in order.
LEMMA ChecksStep == Types /\ Checks /\ [Next]_vars => Checks'
<1> SUFFICES ASSUME Types /\ Checks, [Next]_vars
             PROVE  Checks'
  OBVIOUS
<1> USE MaxAgeAssumption DEF Types, Kinds, TypeOK, Checks, StageOf,
        HoldsReady, Goto, memory, histories, Holds, Holding, BeforeToken
<1>1. CASE UNCHANGED vars
  BY <1>1 DEF vars
<1>2. ASSUME NEW p \in Procs, Start(p) PROVE Checks'
  BY <1>2, SMTT(30) DEF Start
<1>3. ASSUME NEW p \in Procs, CtlCheck(p) PROVE Checks'
  BY <1>3, SMTT(30) DEF CtlCheck, Exists
<1>4. ASSUME NEW p \in Procs, CtlClaimRun(p) PROVE Checks'
  BY <1>4, SMTT(30) DEF CtlClaimRun, CreateExclusive, Exists
<1>5. ASSUME NEW p \in Procs, CtlClaimOperation(p) PROVE Checks'
  BY <1>5, SMTT(30) DEF CtlClaimOperation, CreateExclusive, Exists, Operation
<1>6. ASSUME NEW p \in Procs, CtlPlay(p) PROVE Checks'
  BY <1>6, SMTT(30) DEF CtlPlay
<1>7. ASSUME NEW p \in Procs, CtlOutcome(p) PROVE Checks'
  BY <1>7, SMTT(30) DEF CtlOutcome, Operation, PlaybookPasses, Exists
<1>8. ASSUME NEW p \in Procs, CtlFailure(p) PROVE Checks'
  BY <1>8, SMTT(30) DEF CtlFailure, Operation
<1>9. ASSUME NEW p \in Procs, RdMkdir(p) PROVE Checks'
  <2>1. /\ UNCHANGED <<job, checks>> /\ job[p].op \in Ops
        /\ \/ files' = files
           \/ files' = files \union {<<"ready", job[p].op>>}
        /\ \A q \in Procs : q # p => pc'[q] = pc[q]
        /\ pc'[p] \in {"rd_smoke", "done"}
    BY <1>9 DEF RdMkdir, CreateExclusive, Exists
  <2>2. pc'[p] = "rd_smoke" => /\ <<"ready", job[p].op>> \notin files
                               /\ <<"ready", job[p].op>> \in files'
    BY <1>9 DEF RdMkdir, CreateExclusive, Exists
  <2>3. \A q \in Procs : HoldsReady(q) => job[q].op \in Ops
    OBVIOUS
  <2> HIDE DEF Types, Kinds, TypeOK
  <2>4. ASSUME NEW q \in Procs, HoldsReady(q)'
        PROVE  \/ q # p /\ HoldsReady(q) /\ pc'[q] = pc[q]
               \/ /\ q = p /\ pc'[p] = "rd_smoke" /\ job[p].op \in Ops
                  /\ <<"ready", job[p].op>> \notin files
                  /\ <<"ready", job[p].op>> \in files'
    BY <2>1, <2>2, <2>4
  <2>5. \A o \in Ops :
            /\ <<"ready", o>> \in files => <<"ready", o>> \in files'
            /\ <<"handoff", o>> \in files' <=> <<"handoff", o>> \in files
    <3> HIDE DEF Checks, StageOf
    <3> QED
      BY <2>1
  <2>6. \A o \in Ops :
            /\ <<"ready", o>> \notin files' =>
                   /\ checks'[o].smoke = 0 /\ checks'[o].doctor = 0
                   /\ <<"handoff", o>> \notin files'
            /\ checks'[o].smoke <= 1 /\ checks'[o].doctor <= checks'[o].smoke
            /\ <<"handoff", o>> \in files' => checks'[o].doctor = 1
    BY <2>1, <2>5
  <2>7. ASSUME NEW q \in Procs PROVE StageOf(q)'
    <3>1. CASE ~HoldsReady(q)'
      BY <3>1 DEF StageOf
    <3>2. CASE HoldsReady(q)'
      BY <3>2, <2>1, <2>3, <2>4, <2>5 DEF StageOf
    <3> QED
      BY <3>1, <3>2
  <2>8. \A q, r \in Procs : HoldsReady(q)' /\ HoldsReady(r)' /\ q # r =>
                                 job'[q].op # job'[r].op
    <3> SUFFICES ASSUME NEW q \in Procs, NEW r \in Procs,
                        HoldsReady(q)', HoldsReady(r)', q # r
                 PROVE  job[q].op # job[r].op
      BY <2>1
    <3>1. \A x \in Procs : HoldsReady(x) => <<"ready", job[x].op>> \in files
      OBVIOUS
    <3>2. CASE q # p /\ r # p
      <4>1. HoldsReady(q) /\ HoldsReady(r)
        BY <3>2, <2>4
      <4> QED
        BY <4>1
    <3>3. CASE q = p
      <4>1. HoldsReady(r) /\ <<"ready", job[p].op>> \notin files
        BY <3>3, <2>4
      <4> QED
        BY <3>1, <3>3, <4>1
    <3>4. CASE r = p
      <4>1. HoldsReady(q) /\ <<"ready", job[p].op>> \notin files
        BY <3>4, <2>4
      <4> QED
        BY <3>1, <3>4, <4>1
    <3> QED
      BY <3>2, <3>3, <3>4
  <2> QED
    BY <2>6, <2>7, <2>8
<1>10. ASSUME NEW p \in Procs, RdSmoke(p) PROVE Checks'
  BY <1>10, SMTT(30) DEF RdSmoke, RdStage
<1>11. ASSUME NEW p \in Procs, RdDoctor(p) PROVE Checks'
  <2>1. /\ UNCHANGED job /\ job[p].op \in Ops
        /\ files' \in {files, files \union {<<"not_ready", job[p].op>>}}
        /\ \A q \in Procs : q # p => pc'[q] = pc[q]
        /\ pc[p] = "rd_doctor" /\ pc'[p] \in {"rd_outcome", "done"}
    BY <1>11 DEF RdDoctor, RdStage
  <2>2. /\ checks'[job[p].op].smoke = checks[job[p].op].smoke
        /\ checks'[job[p].op].doctor = checks[job[p].op].doctor + 1
        /\ \A o \in Ops : o # job[p].op => checks'[o] = checks[o]
    BY <1>11 DEF RdDoctor, RdStage
  <2>3. \A q \in Procs : HoldsReady(q) => job[q].op \in Ops
    OBVIOUS
  <2> HIDE DEF Types, Kinds, TypeOK
  <2> QED
    BY <2>1, <2>2, <2>3
<1>12. ASSUME NEW p \in Procs, RdOutcome(p) PROVE Checks'
  BY <1>12, SMTT(30) DEF RdOutcome
<1>13. ASSUME NEW p \in Procs, Check(p) PROVE Checks'
  BY <1>13, SMTT(30) DEF Check, Exists
<1>14. ASSUME NEW p \in Procs, Intent(p) PROVE Checks'
  BY <1>14, SMTT(30) DEF Intent, CreateExclusive, Exists
<1>15. ASSUME NEW p \in Procs, Claim(p) PROVE Checks'
  BY <1>15, SMTT(30) DEF Claim, CreateExclusive, Exists
<1>16. ASSUME NEW p \in Procs, CritPrecontrol(p) PROVE Checks'
  BY <1>16, SMTT(30) DEF CritPrecontrol, CritChild
<1>17. ASSUME NEW p \in Procs, CritRatio(p) PROVE Checks'
  BY <1>17, SMTT(30) DEF CritRatio, CritChild
<1>18. ASSUME NEW p \in Procs, CritDispatch(p) PROVE Checks'
  BY <1>18, SMTT(30) DEF CritDispatch
<1>19. ASSUME NEW p \in Procs, ChildRefuse(p) PROVE Checks'
  BY <1>19, SMTT(30) DEF ChildRefuse
<1>20. ASSUME NEW p \in Procs, ChildWrite(p) PROVE Checks'
  BY <1>20, SMTT(30) DEF ChildWrite
<1>21. ASSUME NEW p \in Procs, ChildReport(p) PROVE Checks'
  BY <1>21, SMTT(30) DEF ChildReport
<1>22. ASSUME NEW p \in Procs, CritVerify(p) PROVE Checks'
  BY <1>22, SMTT(30) DEF CritVerify
<1>23. ASSUME NEW p \in Procs, CritTimeout(p) PROVE Checks'
  BY <1>23, SMTT(30) DEF CritTimeout
<1>24. ASSUME NEW p \in Procs, PvSource(p) PROVE Checks'
  BY <1>24, SMTT(30) DEF PvSource
<1>25. ASSUME NEW p \in Procs, PvGate(p) PROVE Checks'
  BY <1>25, SMTT(30) DEF PvGate
<1>26. ASSUME NEW p \in Procs, PvWrite(p) PROVE Checks'
  BY <1>26, SMTT(30) DEF PvWrite
<1>27. ASSUME NEW p \in Procs, PvComplete(p) PROVE Checks'
  BY <1>27, SMTT(30) DEF PvComplete
<1>28. ASSUME NEW p \in Procs, Tick(p) PROVE Checks'
  BY <1>28, SMTT(30) DEF Tick
<1>29. ASSUME NEW p \in Procs, Outcome(p) PROVE Checks'
  BY <1>29, SMTT(30) DEF Outcome, Exists
<1>30. ASSUME NEW p \in Procs, Interrupt(p) PROVE Checks'
  BY <1>30, SMTT(30) DEF Interrupt, InTry
<1>31. ASSUME NEW p \in Procs, Crash(p) PROVE Checks'
  BY <1>31, SMTT(30) DEF Crash
<1>32. QED
  BY <1>1, <1>2, <1>3, <1>4, <1>5, <1>6, <1>7, <1>8, <1>9, <1>10, <1>11,
     <1>12, <1>13, <1>14, <1>15, <1>16, <1>17, <1>18, <1>19, <1>20, <1>21,
     <1>22, <1>23, <1>24, <1>25, <1>26, <1>27, <1>28, <1>29, <1>30, <1>31
     DEF Next, Controller, Readiness, Critical, Postval

\* The status is made before the token and its outcome after it.
LEMMA HonestStep ==
    Types /\ Claims /\ Tokens /\ Honest /\ [Next]_vars => Honest'
<1> SUFFICES ASSUME Types /\ Claims /\ Tokens /\ Honest, [Next]_vars
             PROVE  Honest'
  OBVIOUS
<1> USE MaxAgeAssumption DEF Types, Kinds, TypeOK, Claims, Tokens, TokenOf,
        Honest, CanWrite, BaseStatus, Goto, memory, histories, Holds, Holding,
        BeforeToken
<1>1. CASE UNCHANGED vars
  BY <1>1 DEF vars
<1>2. ASSUME NEW p \in Procs, Start(p) PROVE Honest'
  BY <1>2, SMTT(30) DEF Start
<1>3. ASSUME NEW p \in Procs, CtlCheck(p) PROVE Honest'
  BY <1>3, SMTT(30) DEF CtlCheck, Exists
<1>4. ASSUME NEW p \in Procs, CtlClaimRun(p) PROVE Honest'
  BY <1>4, SMTT(30) DEF CtlClaimRun, CreateExclusive, Exists
<1>5. ASSUME NEW p \in Procs, CtlClaimOperation(p) PROVE Honest'
  BY <1>5, SMTT(30) DEF CtlClaimOperation, CreateExclusive, Exists, Operation
<1>6. ASSUME NEW p \in Procs, CtlPlay(p) PROVE Honest'
  BY <1>6, SMTT(30) DEF CtlPlay
<1>7. ASSUME NEW p \in Procs, CtlOutcome(p) PROVE Honest'
  BY <1>7, SMTT(30) DEF CtlOutcome, Operation, PlaybookPasses, Exists
<1>8. ASSUME NEW p \in Procs, CtlFailure(p) PROVE Honest'
  BY <1>8, SMTT(30) DEF CtlFailure, Operation
<1>9. ASSUME NEW p \in Procs, RdMkdir(p) PROVE Honest'
  BY <1>9, SMTT(30) DEF RdMkdir, CreateExclusive, Exists
<1>10. ASSUME NEW p \in Procs, RdSmoke(p) PROVE Honest'
  BY <1>10, SMTT(30) DEF RdSmoke, RdStage
<1>11. ASSUME NEW p \in Procs, RdDoctor(p) PROVE Honest'
  BY <1>11, SMTT(30) DEF RdDoctor, RdStage
<1>12. ASSUME NEW p \in Procs, RdOutcome(p) PROVE Honest'
  BY <1>12, SMTT(30) DEF RdOutcome
<1>13. ASSUME NEW p \in Procs, Check(p) PROVE Honest'
  BY <1>13, SMTT(30) DEF Check, Exists
<1>14. ASSUME NEW p \in Procs, Intent(p) PROVE Honest'
  BY <1>14, SMTT(30) DEF Intent, CreateExclusive, Exists
<1>15. ASSUME NEW p \in Procs, Claim(p) PROVE Honest'
  BY <1>15, SMTT(30) DEF Claim, CreateExclusive, Exists
<1>16. ASSUME NEW p \in Procs, CritPrecontrol(p) PROVE Honest'
  BY <1>16, SMTT(30) DEF CritPrecontrol, CritChild
<1>17. ASSUME NEW p \in Procs, CritRatio(p) PROVE Honest'
  BY <1>17, SMTT(30) DEF CritRatio, CritChild
<1>18. ASSUME NEW p \in Procs, CritDispatch(p) PROVE Honest'
  BY <1>18, SMTT(30) DEF CritDispatch
<1>19. ASSUME NEW p \in Procs, ChildRefuse(p) PROVE Honest'
  BY <1>19, SMTT(30) DEF ChildRefuse
<1>20. ASSUME NEW p \in Procs, ChildWrite(p) PROVE Honest'
  BY <1>20, SMTT(30) DEF ChildWrite
<1>21. ASSUME NEW p \in Procs, ChildReport(p) PROVE Honest'
  BY <1>21, SMTT(30) DEF ChildReport
<1>22. ASSUME NEW p \in Procs, CritVerify(p) PROVE Honest'
  <2>1. /\ UNCHANGED <<job, child, age, files, outcomes, tokens, stale>>
        /\ pc[p] = "trigger" /\ pc'[p] = "outcome" /\ job[p].kind = "critical"
        /\ \A q \in Procs : q # p => pc'[q] = pc[q] /\ status'[q] = status[q]
    BY <1>22 DEF CritVerify
  <2>2. status'[p].attempted <=> status[p].attempted
    BY <1>22 DEF CritVerify, Status
  <2>3. Holds(p) /\ ~CanWrite(p)' /\ (child[p] # "started" \/ CanWrite(p))
    BY <1>22 DEF CritVerify
  <2> HIDE DEF Types, Kinds, TypeOK, Claims, Tokens, TokenOf
  <2> QED
    BY <2>1, <2>2, <2>3
<1>23. ASSUME NEW p \in Procs, CritTimeout(p) PROVE Honest'
  BY <1>23, SMTT(30) DEF CritTimeout
<1>24. ASSUME NEW p \in Procs, PvSource(p) PROVE Honest'
  <2>1. /\ UNCHANGED <<job, child, files, outcomes, tokens, stale>>
        /\ pc[p] = "poll" /\ pc'[p] \in {"gate", "outcome"}
        /\ \A q \in Procs : q # p => /\ pc'[q] = pc[q] /\ status'[q] = status[q]
                                     /\ age'[q] = age[q]
    BY <1>24 DEF PvSource
  <2>2. /\ status'[p].executed = status[p].executed
        /\ status[p].executed = "NO"
        /\ status'[p].attempted <=> status[p].attempted \/ pc'[p] = "gate"
    BY <1>24 DEF PvSource, Status
  <2> HIDE DEF Types, Kinds, TypeOK, Claims, Tokens, TokenOf
  <2> QED
    BY <2>1, <2>2
<1>25. ASSUME NEW p \in Procs, PvGate(p) PROVE Honest'
  BY <1>25, SMTT(30) DEF PvGate
<1>26. ASSUME NEW p \in Procs, PvWrite(p) PROVE Honest'
  BY <1>26, SMTT(30) DEF PvWrite
<1>27. ASSUME NEW p \in Procs, PvComplete(p) PROVE Honest'
  BY <1>27, SMTT(30) DEF PvComplete
<1>28. ASSUME NEW p \in Procs, Tick(p) PROVE Honest'
  BY <1>28, SMTT(30) DEF Tick
<1>29. ASSUME NEW p \in Procs, Outcome(p) PROVE Honest'
  BY <1>29, SMTT(30) DEF Outcome, Exists
<1>30. ASSUME NEW p \in Procs, Interrupt(p) PROVE Honest'
  BY <1>30, SMTT(30) DEF Interrupt, InTry
<1>31. ASSUME NEW p \in Procs, Crash(p) PROVE Honest'
  BY <1>31, SMTT(30) DEF Crash
<1>32. QED
  BY <1>1, <1>2, <1>3, <1>4, <1>5, <1>6, <1>7, <1>8, <1>9, <1>10, <1>11,
     <1>12, <1>13, <1>14, <1>15, <1>16, <1>17, <1>18, <1>19, <1>20, <1>21,
     <1>22, <1>23, <1>24, <1>25, <1>26, <1>27, <1>28, <1>29, <1>30, <1>31
     DEF Next, Controller, Readiness, Critical, Postval

\* The controller passes on a tool that has returned.
LEMMA PassesStep == Types /\ Tokens /\ Passes /\ [Next]_vars => Passes'
<1> SUFFICES ASSUME Types /\ Tokens /\ Passes, [Next]_vars
             PROVE  Passes'
  OBVIOUS
<1> USE MaxAgeAssumption DEF Types, Kinds, TypeOK, Tokens, TokenOf, Passes,
        CanWrite, Goto, memory, histories, Holds, Holding, BeforeToken
<1>1. CASE UNCHANGED vars
  BY <1>1 DEF vars
<1>2. ASSUME NEW p \in Procs, Start(p) PROVE Passes'
  BY <1>2, SMTT(30) DEF Start
<1>3. ASSUME NEW p \in Procs, CtlCheck(p) PROVE Passes'
  BY <1>3, SMTT(30) DEF CtlCheck, Exists
<1>4. ASSUME NEW p \in Procs, CtlClaimRun(p) PROVE Passes'
  BY <1>4, SMTT(30) DEF CtlClaimRun, CreateExclusive, Exists
<1>5. ASSUME NEW p \in Procs, CtlClaimOperation(p) PROVE Passes'
  BY <1>5, SMTT(30) DEF CtlClaimOperation, CreateExclusive, Exists, Operation
<1>6. ASSUME NEW p \in Procs, CtlPlay(p) PROVE Passes'
  BY <1>6, SMTT(30) DEF CtlPlay
<1>7. ASSUME NEW p \in Procs, CtlOutcome(p) PROVE Passes'
  BY <1>7, SMTT(30) DEF CtlOutcome, Operation, PlaybookPasses, Exists
<1>8. ASSUME NEW p \in Procs, CtlFailure(p) PROVE Passes'
  BY <1>8, SMTT(30) DEF CtlFailure, Operation
<1>9. ASSUME NEW p \in Procs, RdMkdir(p) PROVE Passes'
  BY <1>9, SMTT(30) DEF RdMkdir, CreateExclusive, Exists
<1>10. ASSUME NEW p \in Procs, RdSmoke(p) PROVE Passes'
  BY <1>10, SMTT(30) DEF RdSmoke, RdStage
<1>11. ASSUME NEW p \in Procs, RdDoctor(p) PROVE Passes'
  BY <1>11, SMTT(30) DEF RdDoctor, RdStage
<1>12. ASSUME NEW p \in Procs, RdOutcome(p) PROVE Passes'
  BY <1>12, SMTT(30) DEF RdOutcome
<1>13. ASSUME NEW p \in Procs, Check(p) PROVE Passes'
  BY <1>13, SMTT(30) DEF Check, Exists
<1>14. ASSUME NEW p \in Procs, Intent(p) PROVE Passes'
  BY <1>14, SMTT(30) DEF Intent, CreateExclusive, Exists
<1>15. ASSUME NEW p \in Procs, Claim(p) PROVE Passes'
  BY <1>15, SMTT(30) DEF Claim, CreateExclusive, Exists
<1>16. ASSUME NEW p \in Procs, CritPrecontrol(p) PROVE Passes'
  BY <1>16, SMTT(30) DEF CritPrecontrol, CritChild
<1>17. ASSUME NEW p \in Procs, CritRatio(p) PROVE Passes'
  BY <1>17, SMTT(30) DEF CritRatio, CritChild
<1>18. ASSUME NEW p \in Procs, CritDispatch(p) PROVE Passes'
  BY <1>18, SMTT(30) DEF CritDispatch
<1>19. ASSUME NEW p \in Procs, ChildRefuse(p) PROVE Passes'
  BY <1>19, SMTT(30) DEF ChildRefuse
<1>20. ASSUME NEW p \in Procs, ChildWrite(p) PROVE Passes'
  BY <1>20, SMTT(30) DEF ChildWrite
<1>21. ASSUME NEW p \in Procs, ChildReport(p) PROVE Passes'
  BY <1>21, SMTT(30) DEF ChildReport
<1>22. ASSUME NEW p \in Procs, CritVerify(p) PROVE Passes'
  BY <1>22, SMTT(30) DEF CritVerify
<1>23. ASSUME NEW p \in Procs, CritTimeout(p) PROVE Passes'
  BY <1>23, SMTT(30) DEF CritTimeout
<1>24. ASSUME NEW p \in Procs, PvSource(p) PROVE Passes'
  BY <1>24, SMTT(30) DEF PvSource
<1>25. ASSUME NEW p \in Procs, PvGate(p) PROVE Passes'
  BY <1>25, SMTT(30) DEF PvGate
<1>26. ASSUME NEW p \in Procs, PvWrite(p) PROVE Passes'
  BY <1>26, SMTT(30) DEF PvWrite
<1>27. ASSUME NEW p \in Procs, PvComplete(p) PROVE Passes'
  BY <1>27, SMTT(30) DEF PvComplete
<1>28. ASSUME NEW p \in Procs, Tick(p) PROVE Passes'
  BY <1>28, SMTT(30) DEF Tick
<1>29. ASSUME NEW p \in Procs, Outcome(p) PROVE Passes'
  BY <1>29, SMTT(30) DEF Outcome, Exists
<1>30. ASSUME NEW p \in Procs, Interrupt(p) PROVE Passes'
  BY <1>30, SMTT(30) DEF Interrupt, InTry
<1>31. ASSUME NEW p \in Procs, Crash(p) PROVE Passes'
  BY <1>31, SMTT(30) DEF Crash
<1>32. QED
  BY <1>1, <1>2, <1>3, <1>4, <1>5, <1>6, <1>7, <1>8, <1>9, <1>10, <1>11,
     <1>12, <1>13, <1>14, <1>15, <1>16, <1>17, <1>18, <1>19, <1>20, <1>21,
     <1>22, <1>23, <1>24, <1>25, <1>26, <1>27, <1>28, <1>29, <1>30, <1>31
     DEF Next, Controller, Readiness, Critical, Postval

-----------------------------------------------------------------------------
\* The inductive invariant.
IndInv == /\ Types /\ Claims /\ Tokens /\ Dispatches
          /\ Plays /\ Checks /\ Honest /\ Passes

\* Nothing has been claimed, written or dispatched at the start.
LEMMA InitInv == Init => IndInv
<1> SUFFICES ASSUME Init PROVE IndInv
  OBVIOUS
<1> USE MaxAgeAssumption DEF Init
<1>1. TypeOK
  BY DEF TypeOK, Labels, Status, BaseStatus
<1>2. Kinds
  BY DEF Kinds, Holds, Holding, BeforeToken
<1>3. Claims /\ Tokens
  BY DEF Claims, Tokens, TokenOf, CanWrite, Holds, Holding, BeforeToken,
         AfterDispatch, BaseStatus
<1>4. Dispatches /\ Plays
  BY DEF Dispatches, Plays, HoldsOperation, HoldsOperationAt, HoldsRun
<1>5. Checks
  BY DEF Checks, StageOf, HoldsReady
<1>6. Honest /\ Passes
  BY DEF Honest, Passes, Holds, Holding, BeforeToken, BaseStatus, CanWrite
<1> QED
  BY <1>1, <1>2, <1>3, <1>4, <1>5, <1>6 DEF IndInv, Types

\* The invariant holds in every reachable state.
LEMMA Invariance == Spec => []IndInv
<1>1. IndInv /\ [Next]_vars => IndInv'
  BY TypeStep, KindsStep, ClaimsStep, TokensStep, DispatchesStep, PlaysStep,
     ChecksStep, HonestStep, PassesStep DEF IndInv, Types
<1> QED
  BY InitInv, <1>1, PTL DEF Spec

\* The invariant says of pairs and triples what the properties say of members.
LEMMA Consequences ==
    IndInv => /\ TypeOK /\ AtMostOneTrigger /\ OneRunPerOperation
              /\ OutcomeHonest /\ PassMeansTriggered
              /\ PlayedOnce /\ ReadinessOnce
<1> SUFFICES ASSUME IndInv
             PROVE  /\ TypeOK /\ AtMostOneTrigger /\ OneRunPerOperation
                    /\ OutcomeHonest /\ PassMeansTriggered
                    /\ PlayedOnce /\ ReadinessOnce
  OBVIOUS
<1>1. TypeOK
  BY DEF IndInv, Types
<1>2. AtMostOneTrigger
  BY DEF IndInv, Tokens, AtMostOneTrigger
<1>3. OneRunPerOperation
  <2> SUFFICES ASSUME NEW d1 \in dispatched, NEW d2 \in dispatched
               PROVE  d1[1] = d2[1] <=> d1[2] = d2[2]
    BY DEF OneRunPerOperation
  <2>1. d1 \in Runs \X Ops /\ d2 \in Runs \X Ops
    BY <1>1 DEF TypeOK
  <2>2. d1 = <<d1[1], d1[2]>> /\ d2 = <<d2[1], d2[2]>>
    BY <2>1
  <2> QED
    BY <2>1, <2>2 DEF IndInv, Dispatches
<1>4. OutcomeHonest
  <2> SUFFICES ASSUME NEW x \in outcomes
               PROVE  /\ x[3].executed = "YES" => tokens[x[2]] = 1
                      /\ x[1] = "postval" /\ x[3].executed = "YES" =>
                             x[2] \notin stale
                      /\ ~x[3].attempted => tokens[x[2]] = 0
    BY DEF OutcomeHonest
  <2>1. x \in {"critical", "postval"} \X Runs \X Status
    BY <1>1 DEF TypeOK
  <2>2. x = <<x[1], x[2], x[3]>>
    BY <2>1
  <2> QED
    BY <2>1, <2>2 DEF IndInv, Honest
<1>5. PassMeansTriggered
  BY DEF IndInv, Passes, PassMeansTriggered, Exists
<1>6. PlayedOnce
  BY DEF IndInv, Plays, PlayedOnce
<1>7. ReadinessOnce
  BY DEF IndInv, Checks, ReadinessOnce, Exists
<1> QED
  BY <1>1, <1>2, <1>3, <1>4, <1>5, <1>6, <1>7

\* The variables keep their types.
THEOREM TypeCorrect == Spec => []TypeOK
<1> QED
  BY Invariance, Consequences, PTL

\* However often and however concurrently the two trigger tools are started
\* (prompt12-t2-critical-section.py, prompt12-t2-postval-fast-trigger.py), a run
\* gets at most one token.
THEOREM TriggeredAtMostOnce == Spec => []AtMostOneTrigger
<1> QED
  BY Invariance, Consequences, PTL

\* An operation identifier that reached the trigger is that of one run.
THEOREM OperationsAreOfOneRun == Spec => []OneRunPerOperation
<1> QED
  BY Invariance, Consequences, PTL

\* The outcome files of both trigger tools say what happened to the token.
THEOREM OutcomesAreHonest == Spec => []OutcomeHonest
<1> QED
  BY Invariance, Consequences, PTL

\* The controller (prompt12-t2-experiment.py) writes PASS for triggered runs.
THEOREM PassIsTriggered == Spec => []PassMeansTriggered
<1> QED
  BY Invariance, Consequences, PTL

\* The controller plays a run once, in whatever experiment.
THEOREM PlayedAtMostOnce == Spec => []PlayedOnce
<1> QED
  BY Invariance, Consequences, PTL

\* prompt12-t2-readiness-sequence.py checks an operation once, smoke before
\* doctor, and hands off after both.
THEOREM ReadyOnce == Spec => []ReadinessOnce
<1> QED
  BY Invariance, Consequences, PTL

=============================================================================
