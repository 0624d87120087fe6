-------------------------- MODULE SequenceSupervisor --------------------------
(***************************************************************************)
(* The producing half of the scientific trigger path: the bounded           *)
(* orchestration supervisor and the commands it runs, one at a time, for    *)
(* each transition of one run directory.                                    *)
(*                                                                          *)
(*   handoff(1) { bind(t) trigger(t) handoff(t+1) }* stationarity finalize  *)
(*                                                                          *)
(* handoff(t) evaluates stationarity and freshness and publishes            *)
(* precontrol/T<t>.json exclusively; the trigger executor reads it, writes  *)
(* one TRIGGER line to the reader's FIFO and then its evidence file.        *)
(*                                                                          *)
(* A supervisor waits for its command with subprocess.run(timeout=...), and *)
(* a timeout kills the command wherever it is. A supervisor that is killed  *)
(* itself leaves its command and its traffic running. Nothing stops an      *)
(* operator from running the same plan again, even while an earlier run is  *)
(* still alive.                                                             *)
(*                                                                          *)
(* A precontrol file is named by the supervisor whose handoff created it.   *)
(* Durations are in module PhaseBudget; here any wait may run out.          *)
(***************************************************************************)
EXTENDS Naturals, FiniteSets

CONSTANTS
  Supervisors,     \* runs of the supervisor over the one plan
  LastTransition,  \* TRANSITION_COUNT
  MaxExtensions,   \* MAX_EXTENSIONS
  None             \* no file

ASSUME SupervisorAssumption ==
  /\ LastTransition \in Nat \ {0}
  /\ MaxExtensions \in Nat
  /\ None \notin Supervisors

Transitions == 1..LastTransition

\* Where a supervisor is: the command it waits for, or what it does next.
SupPc == {"none", "observe", "bind", "trigger", "finalize", "report", "done",
          "dead"}

\* Where its command is. "ok", "gatefail" and "error" are exits not yet seen.
CmdPc == {"none", "h_check", "h_stationarity", "h_freshness", "h_publish",
          "b_run", "x_gate", "x_write", "x_yes", "x_unknown", "x_no", "f_run",
          "ok", "gatefail", "error"}
Exited(pc) == pc \in {"none", "ok", "gatefail", "error"}

Report == [attempts : Nat, successes : Nat, control : BOOLEAN,
           gate : {"PASS", "FAIL_CLOSED"}]
BaseReport == [attempts |-> 0, successes |-> 0, control |-> FALSE,
               gate |-> "FAIL_CLOSED"]

VARIABLES
  sup,         \* sup[s]: where supervisor s is
  cmd,         \* cmd[s]: where its command is
  idx,         \* idx[s]: the transition being prepared, bound or triggered
  ext,         \* ext[s]: stationarity extensions of this phase
  traffic,     \* traffic[s]: none, running or ended
  report,      \* report[s]: the report in memory
  reportFile,  \* --output: [by, body] or None
  pre,         \* pre[t]: precontrol/T<t>.json
  bound,       \* transitions whose T<t>.binding.json exists
  evidence,    \* evidence[t]: control/T<t>.executor.json: None, NO, UNKNOWN, YES
  written      \* history: written[t]: TRIGGER lines delivered for t

fileVars == <<pre, bound, evidence, written, reportFile>>
vars == <<sup, cmd, idx, ext, traffic, report, fileVars>>

Init ==
  /\ sup = [s \in Supervisors |-> "none"]
  /\ cmd = [s \in Supervisors |-> "none"]
  /\ idx = [s \in Supervisors |-> 1]
  /\ ext = [s \in Supervisors |-> 0]
  /\ traffic = [s \in Supervisors |-> "none"]
  /\ report = [s \in Supervisors |-> BaseReport]
  /\ reportFile = None
  /\ pre = [t \in Transitions |-> None]
  /\ bound = {}
  /\ evidence = [t \in Transitions |-> "None"]
  /\ written = [t \in Transitions |-> 0]

\* The supervisor's subprocess reaches pc without touching a file.
Command(s, pc) == cmd' = [cmd EXCEPT ![s] = pc]

-----------------------------------------------------------------------------
(* The precontrol handoff of transition idx[s]; after the last transition   *)
(* the plan has a plain stationarity command, which publishes nothing.      *)

Publishes(s) == idx[s] <= LastTransition

\* execute: the output must be absent.
HandoffCheck(s) ==
  /\ cmd[s] = "h_check"
  /\ Command(s, IF Publishes(s) /\ pre[idx[s]] # None
                THEN "error" ELSE "h_stationarity")
  /\ UNCHANGED <<sup, idx, ext, traffic, report, fileVars>>

\* The stationarity command passes, fails its gate, or fails. A FAIL gate is
\* passed on without publishing.
HandoffStationarity(s) ==
  /\ cmd[s] = "h_stationarity"
  /\ \/ Command(s, IF Publishes(s) THEN "h_freshness" ELSE "ok")
     \/ Command(s, "gatefail")
     \/ Command(s, "error")
  /\ UNCHANGED <<sup, idx, ext, traffic, report, fileVars>>

\* The freshness command admits the latest 50 samples (return code 0) or not.
HandoffFreshness(s) ==
  /\ cmd[s] = "h_freshness"
  /\ Command(s, "h_publish") \/ Command(s, "error")
  /\ UNCHANGED <<sup, idx, ext, traffic, report, fileVars>>

\* Mutant: open("wb").
HandoffPublishOverwrites(s) ==
  /\ cmd[s] = "h_publish"
  /\ pre' = [pre EXCEPT ![idx[s]] = s]
  /\ Command(s, "ok")
  /\ UNCHANGED <<sup, idx, ext, traffic, report, bound, evidence, written,
                 reportFile>>

\* publish_exclusive: open("xb"), write, fsync. A failure after the open
\* leaves the file behind.
HandoffPublish(s) ==
  /\ cmd[s] = "h_publish"
  /\ \/ /\ pre[idx[s]] = None
        /\ pre' = [pre EXCEPT ![idx[s]] = s]
        /\ Command(s, "ok") \/ Command(s, "error")
     \/ /\ pre[idx[s]] # None
        /\ Command(s, "error")
        /\ UNCHANGED pre
  /\ UNCHANGED <<sup, idx, ext, traffic, report, bound, evidence, written,
                 reportFile>>

-----------------------------------------------------------------------------
(* The ratio binding writer and the trigger executor.                       *)

\* The writer creates T<t>.binding.json exclusively (module RatioReader).
BindRun(s) ==
  /\ cmd[s] = "b_run"
  /\ \/ /\ idx[s] \notin bound
        /\ bound' = bound \cup {idx[s]}
        /\ Command(s, "ok") \/ Command(s, "error")
     \/ /\ Command(s, "error")
        /\ UNCHANGED bound
  /\ UNCHANGED <<sup, idx, ext, traffic, report, pre, evidence, written,
                 reportFile>>

\* A reader that was triggered removes the binding when it claims it.
BindingConsumed(t) ==
  /\ t \in bound
  /\ \E u \in Transitions : written[u] > 0
  /\ bound' = bound \ {t}
  /\ UNCHANGED <<sup, cmd, idx, ext, traffic, report, pre, evidence, written,
                 reportFile>>

\* Every gate up to the age gate: fail_closed before anything is written.
ExecutorGate(s) ==
  /\ cmd[s] = "x_gate"
  /\ \/ pre[idx[s]] # None /\ Command(s, "x_write")
     \/ Command(s, "x_no")
  /\ UNCHANGED <<sup, idx, ext, traffic, report, fileVars>>

\* Mutant: an exception after the write (the close) is reported as NO.
ExecutorWriteDenies(s) ==
  /\ cmd[s] = "x_write"
  /\ \/ /\ written' = [written EXCEPT ![idx[s]] = @ + 1]
        /\ Command(s, "x_yes") \/ Command(s, "x_no")
     \/ /\ Command(s, "x_unknown") \/ Command(s, "x_no")
        /\ UNCHANGED written
  /\ UNCHANGED <<sup, idx, ext, traffic, report, pre, bound, evidence,
                 reportFile>>

\* os.open fails (no reader): nothing attempted. os.write of eight bytes is
\* atomic: it delivers the line or fails, and a failure is reported UNKNOWN.
ExecutorWrite(s) ==
  /\ cmd[s] = "x_write"
  /\ \/ /\ written' = [written EXCEPT ![idx[s]] = @ + 1]
        /\ Command(s, "x_yes")
     \/ /\ Command(s, "x_unknown") \/ Command(s, "x_no")
        /\ UNCHANGED written
  /\ UNCHANGED <<sup, idx, ext, traffic, report, pre, bound, evidence,
                 reportFile>>

Verdict == [x_yes |-> "YES", x_unknown |-> "UNKNOWN", x_no |-> "NO"]

\* write_result: raises when the file exists, else stores the verdict.
ExecutorResult(s) ==
  /\ cmd[s] \in DOMAIN Verdict
  /\ IF evidence[idx[s]] = "None"
     THEN /\ evidence' = [evidence EXCEPT ![idx[s]] = Verdict[cmd[s]]]
          /\ Command(s, IF cmd[s] = "x_yes" THEN "ok" ELSE "error")
     ELSE Command(s, "error") /\ UNCHANGED evidence
  /\ UNCHANGED <<sup, idx, ext, traffic, report, pre, bound, written,
                 reportFile>>

\* The finalization command.
FinalizeRun(s) ==
  /\ cmd[s] = "f_run"
  /\ Command(s, "ok") \/ Command(s, "error")
  /\ UNCHANGED <<sup, idx, ext, traffic, report, fileVars>>

CommandStep(s) ==
  \/ HandoffCheck(s) \/ HandoffStationarity(s) \/ HandoffFreshness(s)
  \/ HandoffPublish(s) \/ BindRun(s) \/ ExecutorGate(s) \/ ExecutorWrite(s)
  \/ ExecutorResult(s) \/ FinalizeRun(s)

-----------------------------------------------------------------------------
(* The supervisor.                                                          *)

\* run_live: traffic starts, then the initial handoff.
SupStart(s) ==
  /\ sup[s] = "none"
  /\ sup' = [sup EXCEPT ![s] = "observe"]
  /\ traffic' = [traffic EXCEPT ![s] = "running"]
  /\ Command(s, "h_check")
  /\ UNCHANGED <<idx, ext, report, fileVars>>

\* No live run: the plan or its authorisation is refused, or the mode is
\* no-control, whose report says PASS.
SupNoRun(s, g) ==
  /\ sup[s] = "none"
  /\ sup' = [sup EXCEPT ![s] = "report"]
  /\ report' = [report EXCEPT ![s].gate = g]
  /\ UNCHANGED <<cmd, idx, ext, traffic, fileVars>>

\* SupervisorError: finally ends the traffic, main writes the report.
Fail(s) ==
  /\ sup' = [sup EXCEPT ![s] = "report"]
  /\ traffic' = [traffic EXCEPT ![s] = "ended"]
  /\ Command(s, "none")
  /\ UNCHANGED <<idx, ext, report, fileVars>>

\* A gate FAIL is retried after EXTENSION_S, at most MAX_EXTENSIONS times.
Extend(s) ==
  /\ sup[s] = "observe"
  /\ cmd[s] = "gatefail"
  /\ ext[s] < MaxExtensions
  /\ ext' = [ext EXCEPT ![s] = @ + 1]
  /\ Command(s, "h_check")
  /\ UNCHANGED <<sup, idx, traffic, report, fileVars>>

\* The phase passed: bind the next transition while traffic is alive.
NextTransition(s) ==
  /\ sup[s] = "observe"
  /\ cmd[s] = "ok"
  /\ idx[s] <= LastTransition
  /\ traffic[s] = "running"
  /\ sup' = [sup EXCEPT ![s] = "bind"]
  /\ Command(s, "b_run")
  /\ UNCHANGED <<idx, ext, traffic, report, fileVars>>

\* Mutant: the attempt is not counted before the executor runs.
StartTriggerUncounted(s) ==
  /\ sup[s] = "bind"
  /\ cmd[s] = "ok"
  /\ sup' = [sup EXCEPT ![s] = "trigger"]
  /\ Command(s, "x_gate")
  /\ UNCHANGED <<idx, ext, traffic, report, fileVars>>

\* RATIO_BOUND=PASS: the attempt is counted before the executor starts.
StartTrigger(s) ==
  /\ sup[s] = "bind"
  /\ cmd[s] = "ok"
  /\ sup' = [sup EXCEPT ![s] = "trigger"]
  /\ report' = [report EXCEPT ![s].attempts = @ + 1]
  /\ Command(s, "x_gate")
  /\ UNCHANGED <<idx, ext, traffic, fileVars>>

\* Mutant: the executor's return code is ignored.
TriggerDoneAnyCode(s) ==
  /\ sup[s] = "trigger"
  /\ cmd[s] \in {"ok", "error"}
  /\ sup' = [sup EXCEPT ![s] = "observe"]
  /\ report' = [report EXCEPT ![s].successes = @ + 1, ![s].control = TRUE]
  /\ idx' = [idx EXCEPT ![s] = @ + 1]
  /\ ext' = [ext EXCEPT ![s] = 0]
  /\ Command(s, "h_check")
  /\ UNCHANGED <<traffic, fileVars>>

\* The executor returned 0: success and control are counted, the post phase
\* observes with the next transition's handoff.
TriggerDone(s) ==
  /\ sup[s] = "trigger"
  /\ cmd[s] = "ok"
  /\ sup' = [sup EXCEPT ![s] = "observe"]
  /\ report' = [report EXCEPT ![s].successes = @ + 1, ![s].control = TRUE]
  /\ idx' = [idx EXCEPT ![s] = @ + 1]
  /\ ext' = [ext EXCEPT ![s] = 0]
  /\ Command(s, "h_check")
  /\ UNCHANGED <<traffic, fileVars>>

\* After the last post phase: end the traffic, run the finalization.
StartFinalize(s) ==
  /\ sup[s] = "observe"
  /\ cmd[s] = "ok"
  /\ idx[s] > LastTransition
  /\ traffic[s] = "running"
  /\ sup' = [sup EXCEPT ![s] = "finalize"]
  /\ traffic' = [traffic EXCEPT ![s] = "ended"]
  /\ Command(s, "f_run")
  /\ UNCHANGED <<idx, ext, report, fileVars>>

FinalizeDone(s) ==
  /\ sup[s] = "finalize"
  /\ cmd[s] = "ok"
  /\ sup' = [sup EXCEPT ![s] = "report"]
  /\ report' = [report EXCEPT ![s].gate = "PASS"]
  /\ Command(s, "none")
  /\ UNCHANGED <<idx, ext, traffic, fileVars>>

\* Mutant: nothing is done when the extensions are exhausted.
CommandFailedNotExhausted(s) ==
  /\ sup[s] \in {"observe", "bind", "trigger", "finalize"}
  /\ \/ cmd[s] = "error"
     \/ cmd[s] = "ok" /\ sup[s] = "observe" /\ traffic[s] # "running"
  /\ Fail(s)

\* Non-zero return code, extensions exhausted, or traffic gone.
CommandFailed(s) ==
  /\ sup[s] \in {"observe", "bind", "trigger", "finalize"}
  /\ \/ cmd[s] = "error"
     \/ cmd[s] = "gatefail" /\ ext[s] >= MaxExtensions
     \/ cmd[s] = "ok" /\ sup[s] = "observe" /\ traffic[s] # "running"
  /\ Fail(s)

\* TimeoutExpired: the command is killed wherever it is.
Timeout(s) ==
  /\ sup[s] \in {"observe", "bind", "trigger", "finalize"}
  /\ ~Exited(cmd[s])
  /\ Fail(s)

\* write_report replaces whatever report the path had.
WriteReport(s) ==
  /\ sup[s] = "report"
  /\ sup' = [sup EXCEPT ![s] = "done"]
  /\ reportFile' = [by |-> s, body |-> report[s]]
  /\ UNCHANGED <<cmd, idx, ext, traffic, report, pre, bound, evidence, written>>

\* An exception main does not catch (the command cannot be started, Ctrl-C
\* while it runs): the command is killed, finally ends the traffic, no report.
Uncaught(s) ==
  /\ sup[s] \in {"observe", "bind", "trigger", "finalize"}
  /\ sup' = [sup EXCEPT ![s] = "dead"]
  /\ traffic' = [traffic EXCEPT ![s] = "ended"]
  /\ Command(s, "none")
  /\ UNCHANGED <<idx, ext, report, fileVars>>

\* SIGTERM or SIGKILL of the supervisor alone: command and traffic go on.
Killed(s) ==
  /\ sup[s] \notin {"none", "done", "dead"}
  /\ sup' = [sup EXCEPT ![s] = "dead"]
  /\ UNCHANGED <<cmd, idx, ext, traffic, report, fileVars>>

\* The traffic process ends on its own.
TrafficEnds(s) ==
  /\ traffic[s] = "running"
  /\ traffic' = [traffic EXCEPT ![s] = "ended"]
  /\ UNCHANGED <<sup, cmd, idx, ext, report, fileVars>>

SupervisorStep(s) ==
  \/ Extend(s) \/ NextTransition(s) \/ StartTrigger(s) \/ TriggerDone(s)
  \/ StartFinalize(s) \/ FinalizeDone(s) \/ CommandFailed(s) \/ Timeout(s)
  \/ WriteReport(s)

Next ==
  \/ \E s \in Supervisors :
       \/ SupStart(s) \/ \E g \in {"PASS", "FAIL_CLOSED"} : SupNoRun(s, g)
       \/ SupervisorStep(s) \/ CommandStep(s)
       \/ Uncaught(s) \/ Killed(s) \/ TrafficEnds(s)
  \/ \E t \in Transitions : BindingConsumed(t)

\* The supervisor is scheduled and its timeouts expire; its commands may hang.
Fairness == \A s \in Supervisors : WF_vars(SupervisorStep(s))

Spec == Init /\ [][Next]_vars
FairSpec == Spec /\ Fairness

-----------------------------------------------------------------------------
(* Properties.                                                              *)

\* Every variable stays in its type; extensions never exceed their maximum and
\* the transition index never passes the last post phase.
TypeOK ==
  /\ sup \in [Supervisors -> SupPc]
  /\ cmd \in [Supervisors -> CmdPc]
  /\ idx \in [Supervisors -> 1..(LastTransition + 1)]
  /\ ext \in [Supervisors -> 0..MaxExtensions]
  /\ traffic \in [Supervisors -> {"none", "running", "ended"}]
  /\ report \in [Supervisors -> Report]
  /\ reportFile \in [by : Supervisors, body : Report] \cup {None}
  /\ pre \in [Transitions -> Supervisors \cup {None}]
  /\ bound \subseteq Transitions
  /\ evidence \in [Transitions -> {"None", "NO", "UNKNOWN", "YES"}]
  /\ written \in [Transitions -> Nat]

\* A transition is triggered at most once in a run directory, whatever
\* supervisors are started on it, killed, or running side by side: the
\* exclusive publication of T<t>.json admits one executor.
AtMostOneTrigger == \A t \in Transitions : written[t] <= 1

\* A transition is triggered only after every earlier one was, by the same
\* run of the supervisor, with the executor's evidence on disk.
TriggersInOrder ==
  \A t, u \in Transitions :
    u < t /\ written[t] > 0 =>
      written[u] > 0 /\ pre[u] = pre[t] /\ evidence[u] = "YES"

\* The executor's evidence never denies a delivered trigger and never claims
\* an undelivered one.
EvidenceHonest ==
  \A t \in Transitions :
    /\ evidence[t] = "NO" => written[t] = 0
    /\ evidence[t] = "YES" => written[t] = 1

TriggeredBy(s) == {t \in Transitions : pre[t] = s /\ written[t] > 0}

\* A report on disk brackets what its run did: no more successes than triggers
\* delivered, no fewer attempts, and PASS with an attempt means all of them.
ReportBrackets ==
  reportFile # None =>
    LET b == reportFile.body
        n == Cardinality(TriggeredBy(reportFile.by)) IN
    /\ b.successes <= n /\ n <= b.attempts
    /\ b.gate = "PASS" /\ b.attempts > 0 => b.successes = LastTransition

\* Does not hold (README, Divergences).
\* A report that says CONTROL_EXECUTED=NO is of a run that delivered no trigger
\* ("EXISTING_TRIGGER_STATE_MUST_BE_REPORTED=YES").
ReportedControlIsTrue ==
  reportFile # None /\ ~reportFile.body.control =>
    TriggeredBy(reportFile.by) = {}

\* A live run ends with its traffic stopped and a report on disk, or is killed,
\* even when a command hangs.
RunEnds ==
  \A s \in Supervisors :
    (sup[s] = "observe") ~>
      \/ sup[s] = "done" /\ traffic[s] # "running" /\ reportFile # None
      \/ sup[s] = "dead"
=============================================================================
