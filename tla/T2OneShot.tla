----------------------------- MODULE T2OneShot -----------------------------
(***************************************************************************)
(* The one-shot T2 experiment: the controller that plays a run once        *)
(* (prompt12-t2-experiment.py), the readiness handoff, and the two ways to *)
(* send the one trigger of a run: the legacy critical section and the      *)
(* POSTVAL fast trigger.  Each program may be started at any time, by the  *)
(* playbook or by hand, with any identifiers, concurrently with itself and *)
(* with the others, and be killed or interrupted at any step.  What keeps  *)
(* a run from being triggered twice are files created exclusively and      *)
(* never removed: they are `files', everything else is lost in a crash.    *)
(*                                                                         *)
(* A file is <<kind, identifier>>.  A process that has been started keeps  *)
(* its arguments in job; pc "done" is its end.  The trigger child of the   *)
(* critical section is a process of its own: it outlives its parent.       *)
(***************************************************************************)
EXTENDS Naturals, FiniteSets

CONSTANTS Procs,    \* invocations of any of the four programs
          Exps,     \* experiment identifiers of the controller
          Runs,     \* run identifiers
          Ops,      \* operation identifiers
          MaxAge    \* MAX_AGE_NS, in ticks of the clock

ASSUME MaxAgeAssumption == MaxAge \in Nat

VARIABLES pc,         \* where each process is
          job,        \* its arguments
          status,     \* the outcome record it holds in memory
          child,      \* the trigger child of a critical section
          age,        \* age of the sample a fast trigger holds
          files,      \* the evidence files
          outcomes,   \* contents of the outcome files: <<kind, run, status>>
          tokens,     \* history: trigger tokens written for a run
          stale,      \* history: runs whose token was written on an old sample
          dispatched, \* history: <<run, op>> pairs that reached the trigger
          plays,      \* history: ansible calls of a run
          checks      \* history: smokes and doctors of an operation

vars == <<pc, job, status, child, age, files, outcomes, tokens, stale,
          dispatched, plays, checks>>

\* What a program is started with.
Jobs == [kind : {"controller"}, exp : Exps, run : Runs]
          \union [kind : {"readiness"}, op : Ops]
          \union [kind : {"critical", "postval"}, run : Runs, op : Ops]

\* trigger_dispatch_attempted, and CONTROL_EXECUTED; for the critical section
\* YES stands for trigger_execution_confirmed, NO for its absence.
Status == [attempted : BOOLEAN, executed : {"NO", "YES", "UNKNOWN"}]

BaseStatus == [attempted |-> FALSE, executed |-> "NO"]

Init ==
    /\ pc = [p \in Procs |-> "idle"]
    /\ job \in [Procs -> Jobs]
    /\ status = [p \in Procs |-> BaseStatus]
    /\ child = [p \in Procs |-> "none"]
    /\ age = [p \in Procs |-> 0]
    /\ files = {} /\ outcomes = {}
    /\ tokens = [r \in Runs |-> 0]
    /\ stale = {} /\ dispatched = {}
    /\ plays = [r \in Runs |-> 0]
    /\ checks = [o \in Ops |-> [smoke |-> 0, doctor |-> 0]]

Goto(p, l) == pc' = [pc EXCEPT ![p] = l]

Exists(kind, id) == <<kind, id>> \in files

\* open(O_CREAT | O_EXCL) or mkdir: succeeds for one process only.
CreateExclusive(p, kind, id, next) ==
    IF Exists(kind, id)
    THEN Goto(p, "done") /\ UNCHANGED files
    ELSE Goto(p, next) /\ files' = files \union {<<kind, id>>}

histories == <<tokens, stale, dispatched, plays, checks>>
memory == <<job, status, child, age>>

Start(p) ==
    /\ pc[p] = "idle"
    /\ Goto(p, CASE job[p].kind = "controller" -> "ctl_check"
                 [] job[p].kind = "readiness" -> "rd_mkdir"
                 [] OTHER -> "check")
    /\ UNCHANGED <<memory, files, outcomes, histories>>

(***************************************************************************)
(* The controller (live).                                                  *)
(***************************************************************************)
Operation(p) == <<job[p].exp, job[p].run>>

CtlCheck(p) ==
    /\ pc[p] = "ctl_check"
    /\ Goto(p, IF Exists("operation", Operation(p)) THEN "done"
               ELSE "ctl_claim")
    /\ UNCHANGED <<memory, files, outcomes, histories>>

CtlClaimRun(p) ==
    /\ pc[p] = "ctl_claim"
    /\ CreateExclusive(p, "run_claim", job[p].run, "ctl_mkdir")
    /\ UNCHANGED <<memory, outcomes, histories>>

\* The operation directory, with the intent file in it.
CtlClaimOperation(p) ==
    /\ pc[p] = "ctl_mkdir"
    /\ CreateExclusive(p, "operation", Operation(p), "ctl_play")
    /\ UNCHANGED <<memory, outcomes, histories>>

CtlPlay(p) ==
    /\ pc[p] = "ctl_play"
    /\ plays' = [plays EXCEPT ![job[p].run] = @ + 1]
    /\ Goto(p, "ctl_wait")
    /\ UNCHANGED <<memory, files, outcomes, tokens, stale, dispatched, checks>>

\* The playbook stops at the first task that fails, so both markers are only
\* seen after a trigger tool of this run has returned 0.
PlaybookPasses(r) ==
    \E q \in Procs : /\ job[q].kind \in {"critical", "postval"}
                     /\ job[q].run = r /\ pc[q] = "returned"

\* Mutant: the gate markers are not required, the exit of ansible is enough.
CtlOutcomeOnExit(p) ==
    /\ pc[p] = "ctl_wait"
    /\ files' = files \union {<<"pass", Operation(p)>>}
    /\ Goto(p, "done")
    /\ UNCHANGED <<memory, outcomes, histories>>

CtlOutcome(p) ==
    /\ pc[p] = "ctl_wait"
    /\ PlaybookPasses(job[p].run)
    /\ files' = files \union {<<"pass", Operation(p)>>}
    /\ Goto(p, "done")
    /\ UNCHANGED <<memory, outcomes, histories>>

\* Any exception, a signal of the operator included.
CtlFailure(p) ==
    /\ pc[p] \in {"ctl_play", "ctl_wait"}
    /\ files' = files \union {<<"failure", Operation(p)>>}
    /\ Goto(p, "done")
    /\ UNCHANGED <<memory, outcomes, histories>>

(***************************************************************************)
(* The readiness handoff (run_sequence).                                   *)
(***************************************************************************)
RdMkdir(p) ==
    /\ pc[p] = "rd_mkdir"
    /\ CreateExclusive(p, "ready", job[p].op, "rd_smoke")
    /\ UNCHANGED <<memory, outcomes, histories>>

\* run_one and the gates on what it printed: the next stage or failure.json.
RdStage(p, from, what, next) ==
    /\ pc[p] = from
    /\ checks' = [checks EXCEPT ![job[p].op][what] = @ + 1]
    /\ \/ Goto(p, next) /\ UNCHANGED files
       \/ /\ Goto(p, "done")
          /\ files' = files \union {<<"not_ready", job[p].op>>}
    /\ UNCHANGED <<memory, outcomes, tokens, stale, dispatched, plays>>

RdSmoke(p) == RdStage(p, "rd_smoke", "smoke", "rd_doctor")

RdDoctor(p) == RdStage(p, "rd_doctor", "doctor", "rd_outcome")

RdOutcome(p) ==
    /\ pc[p] = "rd_outcome"
    /\ files' = files \union {<<"handoff", job[p].op>>}
    /\ Goto(p, "done")
    /\ UNCHANGED <<memory, outcomes, histories>>

(***************************************************************************)
(* The claims both trigger tools make before anything else.                *)
(***************************************************************************)
\* run_live / claim_once: any trace of an earlier attempt refuses; the fast
\* trigger, which reads the ratio binding first, may also fail on that.
Check(p) ==
    /\ pc[p] = "check"
    /\ \/ /\ ~Exists("intent", job[p].run)
          /\ ~Exists("critical", job[p].run)
          /\ ~Exists("executor", job[p].run)
          /\ job[p].kind = "postval" => ~Exists("postval", job[p].run)
          /\ Goto(p, "intent")
       \/ Goto(p, "done")
    /\ UNCHANGED <<memory, files, outcomes, histories>>

\* Mutant: the intent is written over an existing one.
IntentReplace(p) ==
    /\ pc[p] = "intent"
    /\ Goto(p, "claim")
    /\ files' = files \union {<<"intent", job[p].run>>}
    /\ UNCHANGED <<memory, outcomes, histories>>

Intent(p) ==
    /\ pc[p] = "intent"
    /\ CreateExclusive(p, "intent", job[p].run, "claim")
    /\ UNCHANGED <<memory, outcomes, histories>>

\* Mutant: a run may go on with an operation identifier that is taken.
ClaimShared(p) ==
    /\ pc[p] = "claim"
    /\ files' = files \union {<<"op_claim", job[p].op>>}
    /\ Goto(p, IF job[p].kind = "critical" THEN "precontrol" ELSE "poll")
    /\ UNCHANGED <<memory, outcomes, histories>>

Claim(p) ==
    /\ pc[p] = "claim"
    /\ CreateExclusive(p, "op_claim", job[p].op,
           IF job[p].kind = "critical" THEN "precontrol" ELSE "poll")
    /\ UNCHANGED <<memory, outcomes, histories>>

(***************************************************************************)
(* The critical section: precontrol, ratio binding, trigger child.         *)
(***************************************************************************)
\* run_child and the checks on what it printed: the next stage or the outcome.
CritChild(p, from, next) ==
    /\ pc[p] = from
    /\ Goto(p, next) \/ Goto(p, "outcome")
    /\ UNCHANGED <<memory, files, outcomes, histories>>

CritPrecontrol(p) == CritChild(p, "precontrol", "ratio")

CritRatio(p) == CritChild(p, "ratio", "dispatch")

CritDispatch(p) ==
    /\ pc[p] = "dispatch"
    /\ status' = [status EXCEPT ![p].attempted = TRUE]
    /\ child' = [child EXCEPT ![p] = "started"]
    /\ dispatched' = dispatched \union {<<job[p].run, job[p].op>>}
    /\ Goto(p, "trigger")
    /\ UNCHANGED <<job, age, files, outcomes, tokens, stale, plays, checks>>

\* The trigger child: it refuses, or writes the token and then its report.
ChildRefuse(p) ==
    /\ child[p] = "started"
    /\ child' = [child EXCEPT ![p] = "failed"]
    /\ files' = files \union {<<"executor", job[p].run>>}
    /\ UNCHANGED <<pc, job, status, age, outcomes, histories>>

ChildWrite(p) ==
    /\ child[p] = "started"
    /\ child' = [child EXCEPT ![p] = "wrote"]
    /\ tokens' = [tokens EXCEPT ![job[p].run] = @ + 1]
    /\ UNCHANGED <<pc, job, status, age, files, outcomes, stale, dispatched,
                   plays, checks>>

ChildReport(p) ==
    /\ child[p] = "wrote"
    /\ child' = [child EXCEPT ![p] = "passed"]
    /\ files' = files \union {<<"executor", job[p].run>>}
    /\ UNCHANGED <<pc, job, status, age, outcomes, histories>>

\* The child has ended and its report was read.
CritVerify(p) ==
    /\ pc[p] = "trigger"
    /\ \/ /\ child[p] = "passed"
          /\ status' = [status EXCEPT ![p].executed = "YES"]
       \/ /\ child[p] \in {"passed", "failed"}
          /\ UNCHANGED status
    /\ Goto(p, "outcome")
    /\ UNCHANGED <<job, child, age, files, outcomes, histories>>

\* 35 s have passed: subprocess.run kills the child, wherever it is.
CritTimeout(p) ==
    /\ pc[p] = "trigger" /\ child[p] \in {"started", "wrote"}
    /\ child' = [child EXCEPT ![p] = "none"]
    /\ Goto(p, "outcome")
    /\ UNCHANGED <<job, status, age, files, outcomes, histories>>

(***************************************************************************)
(* The fast trigger: source_at_90, fifo_once and the end of live.          *)
(***************************************************************************)
\* The bounded wait ends with a fresh sample of the control window, or fails.
PvSource(p) ==
    /\ pc[p] = "poll"
    /\ \/ \E a \in 0..MaxAge :
             /\ age' = [age EXCEPT ![p] = a]
             /\ status' = [status EXCEPT ![p].attempted = TRUE]
             /\ dispatched' = dispatched \union {<<job[p].run, job[p].op>>}
             /\ Goto(p, "gate")
       \/ Goto(p, "outcome") /\ UNCHANGED <<age, status, dispatched>>
    /\ UNCHANGED <<job, child, files, outcomes, tokens, stale, plays, checks>>

\* The FIFO is opened, then the age is compared once more.
PvGate(p) ==
    /\ pc[p] = "gate"
    /\ \/ age[p] <= MaxAge /\ Goto(p, "write")
       \/ Goto(p, "outcome")
    /\ UNCHANGED <<memory, files, outcomes, histories>>

\* os.write: the whole token or an error (a short token is written at once).
PvWrite(p) ==
    /\ pc[p] = "write"
    /\ \/ /\ tokens' = [tokens EXCEPT ![job[p].run] = @ + 1]
          /\ stale' = IF age[p] > MaxAge THEN stale \union {job[p].run}
                      ELSE stale
          /\ Goto(p, "written") /\ UNCHANGED status
       \/ /\ status' = [status EXCEPT ![p].executed = "UNKNOWN"]
          /\ Goto(p, "outcome") /\ UNCHANGED <<tokens, stale>>
    /\ UNCHANGED <<job, child, age, files, outcomes, dispatched, plays, checks>>

\* Mutant: the age is not looked at again when the write has completed.
PvCompleteUnchecked(p) ==
    /\ pc[p] = "written"
    /\ status' = [status EXCEPT ![p].executed = "YES"]
    /\ Goto(p, "outcome")
    /\ UNCHANGED <<job, child, age, files, outcomes, histories>>

PvComplete(p) ==
    /\ pc[p] = "written"
    /\ status' = [status EXCEPT ![p].executed =
                     IF age[p] <= MaxAge THEN "YES" ELSE "UNKNOWN"]
    /\ Goto(p, "outcome")
    /\ UNCHANGED <<job, child, age, files, outcomes, histories>>

\* Time passes for the sample in use; one step beyond the limit is enough.
Tick(p) ==
    /\ pc[p] \in {"gate", "write", "written"} /\ age[p] <= MaxAge
    /\ age' = [age EXCEPT ![p] = @ + 1]
    /\ UNCHANGED <<pc, job, status, child, files, outcomes, histories>>

(***************************************************************************)
(* The outcome is written in the finally clause, and never over another.   *)
(***************************************************************************)
Outcome(p) ==
    /\ pc[p] = "outcome"
    /\ IF Exists(job[p].kind, job[p].run)
       THEN Goto(p, "done") /\ UNCHANGED <<files, outcomes>>
       ELSE /\ files' = files \union {<<job[p].kind, job[p].run>>}
            /\ outcomes' = outcomes \union
                             {<<job[p].kind, job[p].run, status[p]>>}
            /\ Goto(p, IF status[p].executed = "YES" THEN "returned"
                       ELSE "done")
    /\ UNCHANGED <<memory, histories>>

\* The try block whose finally clause writes the outcome.
InTry == {"precontrol", "ratio", "dispatch", "trigger",
          "poll", "gate", "write", "written"}

\* SIGINT: except Exception does not see it, the finally clause does; a child
\* that is running is killed with it.
Interrupt(p) ==
    /\ pc[p] \in InTry
    /\ child' = [child EXCEPT ![p] = IF @ \in {"started", "wrote"}
                                     THEN "none" ELSE @]
    /\ Goto(p, "outcome")
    /\ UNCHANGED <<job, status, age, files, outcomes, histories>>

\* SIGKILL, power loss, or an error outside the try block: nothing is written.
\* A trigger child goes on.
Crash(p) ==
    /\ pc[p] \notin {"idle", "done", "returned"}
    /\ Goto(p, "done")
    /\ UNCHANGED <<memory, files, outcomes, histories>>

-----------------------------------------------------------------------------
Controller(p) == \/ CtlCheck(p) \/ CtlClaimRun(p) \/ CtlClaimOperation(p)
                 \/ CtlPlay(p) \/ CtlOutcome(p) \/ CtlFailure(p)
Readiness(p) == RdMkdir(p) \/ RdSmoke(p) \/ RdDoctor(p) \/ RdOutcome(p)
Critical(p) == \/ CritPrecontrol(p) \/ CritRatio(p) \/ CritDispatch(p)
               \/ ChildRefuse(p) \/ ChildWrite(p) \/ ChildReport(p)
               \/ CritVerify(p) \/ CritTimeout(p)
Postval(p) == PvSource(p) \/ PvGate(p) \/ PvWrite(p) \/ PvComplete(p) \/ Tick(p)

Next == \E p \in Procs : \/ Start(p) \/ Controller(p) \/ Readiness(p)
                         \/ Check(p) \/ Intent(p) \/ Claim(p)
                         \/ Critical(p) \/ Postval(p) \/ Outcome(p)
                         \/ Interrupt(p) \/ Crash(p)

Spec == Init /\ [][Next]_vars

-----------------------------------------------------------------------------
(***************************************************************************)
(* Properties.                                                             *)
(***************************************************************************)
Labels == {"idle", "done", "returned", "ctl_check", "ctl_claim", "ctl_mkdir",
           "ctl_play", "ctl_wait", "rd_mkdir", "rd_smoke", "rd_doctor",
           "rd_outcome", "check", "intent", "claim", "outcome"} \union InTry

\* Types of the variables.
TypeOK ==
    /\ pc \in [Procs -> Labels]
    /\ job \in [Procs -> Jobs]
    /\ status \in [Procs -> Status]
    /\ child \in [Procs -> {"none", "started", "wrote", "passed", "failed"}]
    /\ age \in [Procs -> 0..(MaxAge + 1)]
    /\ outcomes \subseteq {"critical", "postval"} \X Runs \X Status
    /\ tokens \in [Runs -> Nat]
    /\ stale \subseteq Runs
    /\ dispatched \subseteq Runs \X Ops
    /\ plays \in [Runs -> Nat]
    /\ checks \in [Ops -> [smoke : Nat, doctor : Nat]]

\* However the two trigger tools are started, together, again after a crash or
\* with other operation identifiers, a run gets at most one trigger token.
AtMostOneTrigger == \A r \in Runs : tokens[r] <= 1

\* An operation identifier that reached the trigger belongs to one run, and a
\* run to one operation.
OneRunPerOperation ==
    \A d1, d2 \in dispatched : d1[1] = d2[1] <=> d1[2] = d2[2]

\* What an outcome file says happened to the token, did: confirmed means
\* written, and by the fast trigger written while the sample was fresh; no
\* attempt means not written.
OutcomeHonest ==
    \A x \in outcomes :
        /\ x[3].executed = "YES" => tokens[x[2]] = 1
        /\ x[1] = "postval" /\ x[3].executed = "YES" => x[2] \notin stale
        /\ ~x[3].attempted => tokens[x[2]] = 0

\* A run identifier is played once, in whatever experiment.
PlayedOnce == \A r \in Runs : plays[r] <= 1

\* The controller reports PASS only for a run that was triggered.
PassMeansTriggered ==
    \A e \in Exps, r \in Runs : Exists("pass", <<e, r>>) => tokens[r] = 1

\* An operation identifier gets one smoke and one doctor, in that order, and a
\* handoff only after both.
ReadinessOnce ==
    \A o \in Ops : /\ checks[o].smoke <= 1
                   /\ checks[o].doctor <= checks[o].smoke
                   /\ Exists("handoff", o) => checks[o].doctor = 1

\* Does not hold (README, Divergences).
\* docs/12r-experiment-transaction-state-machine.md:681-697: a write that was
\* attempted and whose delivery cannot be proved is UNKNOWN.  An outcome with
\* CONTROL_EXECUTED=NO is one of a run that got no token.
NoMeansNotSent ==
    \A x \in outcomes : x[1] = "postval" /\ x[3].executed = "NO" =>
        tokens[x[2]] = 0

=============================================================================
