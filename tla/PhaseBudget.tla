----------------------------- MODULE PhaseBudget -----------------------------
(***************************************************************************)
(* The time side of one live run of the bounded orchestration supervisor:   *)
(* when phases are observed, how long they may be extended, which clock     *)
(* readings are checked before a command, and how old the samples are on    *)
(* which a trigger is admitted.                                             *)
(*                                                                          *)
(*   budget       DurationBudget: every command gets what is left of        *)
(*                EXPERIMENT_MAX_S as its subprocess timeout                *)
(*   observation  wait_for_observation: sleep until the phase is            *)
(*                minimum + extensions * EXTENSION_S old                    *)
(*   age          freshness and executor compare the latest sample with the *)
(*                clock, FINAL_GATE_MAX_AGE_AT_DOCKER_START_MS              *)
(*                                                                          *)
(* Time passes between any two steps. Only a subprocess timeout is punctual *)
(* (a command is never running later than ExperimentMax); a sleep may       *)
(* oversleep. Who else runs, and what is written to disk, is in module      *)
(* SequenceSupervisor.                                                      *)
(***************************************************************************)
EXTENDS Naturals

CONSTANTS
  LastTransition,  \* TRANSITION_COUNT
  PreMin, PreMax,  \* PRE_MIN_S, PRE_MAX_S
  PostMin, PostMax,\* POST_MIN_S, POST_MAX_S
  Extension,       \* EXTENSION_S
  MaxExtensions,   \* MAX_EXTENSIONS
  ExperimentMax,   \* EXPERIMENT_MAX_S
  MaxAge,          \* the 800 ms of the freshness policy
  Horizon          \* bound: the clock stops here

ASSUME BudgetAssumption ==
  /\ LastTransition \in Nat \ {0}
  /\ PreMin \in Nat \ {0} /\ PostMin \in Nat \ {0}
  /\ Extension \in Nat /\ MaxExtensions \in Nat
  /\ PreMax = PreMin + MaxExtensions * Extension
  /\ PostMax = PostMin + MaxExtensions * Extension
  /\ ExperimentMax \in Nat /\ MaxAge \in Nat /\ Horizon \in Nat

Transitions == 1..LastTransition

\* phase_limit and the minimum of a phase; the phase before T1 is "pre".
Minimum(t) == IF t = 1 THEN PreMin ELSE PostMin
Limit(t) == IF t = 1 THEN PreMax ELSE PostMax

VARIABLES
  now,         \* seconds since run_live read its start time
  pc,          \* where the run is
  idx,         \* the transition this phase leads to
  ext,         \* extensions of this phase
  phaseStart,  \* pre_started, post_started
  wake,        \* end of the observation sleep
  sample,      \* latest sample of the admitted window
  at,          \* history: at[t]: when t's TRIGGER was written, 0 before
  from,        \* history: from[t]: start of the phase t's trigger ended
  seen,        \* history: seen[t]: latest sample t was admitted on
  launched,    \* history: launched[t]: when t's docker run started, 0 before
  ended        \* when the run ended

history == <<at, from, seen, launched>>
vars == <<now, pc, idx, ext, phaseStart, wake, sample, history, ended>>

\* The states in which a subprocess of the supervisor is running.
Running == {"evaluate", "publish", "bind", "gate", "write", "posted",
            "finalize"}
Pc == Running \cup {"start", "arm", "sleep", "passed", "bound", "stopping",
                    "done", "failed"}

Init ==
  /\ now = 0
  /\ pc = "start"
  /\ idx = 1
  /\ ext = 0
  /\ phaseStart = 0
  /\ wake = 0
  /\ sample = 0
  /\ at = [t \in Transitions |-> 0]
  /\ from = [t \in Transitions |-> 0]
  /\ seen = [t \in Transitions |-> 0]
  /\ launched = [t \in Transitions |-> 0]
  /\ ended = 0

\* require_remaining
Remaining == now < ExperimentMax

\* SupervisorError
Fail ==
  /\ pc' = "failed"
  /\ ended' = now
  /\ UNCHANGED <<now, idx, ext, phaseStart, wake, sample, history>>

Goto(p) == pc' = p /\ UNCHANGED ended

\* Time passes; the subprocess timeout is punctual.
Tick ==
  /\ now < Horizon
  /\ pc \in Running => now < ExperimentMax
  /\ now' = now + 1
  /\ UNCHANGED <<pc, idx, ext, phaseStart, wake, sample, history, ended>>

\* The traffic runs; the pre phase begins.
BeginPre ==
  /\ pc = "start"
  /\ Goto("arm")
  /\ phaseStart' = now
  /\ UNCHANGED <<now, idx, ext, wake, sample, history>>

-----------------------------------------------------------------------------
(* The stationarity gate.                                                   *)

Target == Minimum(idx) + ext * Extension
Elapsed == now - phaseStart
SleepFor == IF Target > Elapsed THEN Target - Elapsed ELSE 0

\* Mutant: the extensions alone are waited for.
ArmWaitNoMinimum ==
  /\ pc = "arm"
  /\ Goto("sleep")
  /\ wake' = now + ext * Extension
  /\ UNCHANGED <<now, idx, ext, phaseStart, sample, history>>

\* wait_for_observation: the target is within the phase limit and the sleep
\* within the experiment.
ArmWait ==
  /\ pc = "arm"
  /\ Target <= Limit(idx)
  /\ Remaining
  /\ SleepFor <= ExperimentMax - now
  /\ Goto("sleep")
  /\ wake' = now + SleepFor
  /\ UNCHANGED <<now, idx, ext, phaseStart, sample, history>>

ArmFail ==
  /\ pc = "arm"
  /\ \/ Target > Limit(idx)
     \/ ~Remaining
     \/ SleepFor > ExperimentMax - now
  /\ Fail

\* The sleep is over: run the handoff (or the last stationarity command).
StartEvaluate ==
  /\ pc = "sleep"
  /\ now >= wake
  /\ Remaining
  /\ Goto("evaluate")
  /\ UNCHANGED <<now, idx, ext, phaseStart, wake, sample, history>>

\* The handoff decides: stationarity passed, and the latest sample x of the
\* snapshot is at most MaxAge old at the decision time.
Decide(x) ==
  /\ pc = "evaluate"
  /\ idx <= LastTransition
  /\ x <= now /\ now - x <= MaxAge
  /\ sample' = x
  /\ Goto("publish")
  /\ UNCHANGED <<now, idx, ext, phaseStart, wake, history>>

\* The freshness command takes its time; then T<idx>.json is published.
Publish ==
  /\ pc = "publish"
  /\ Goto("passed")
  /\ UNCHANGED <<now, idx, ext, phaseStart, wake, sample, history>>

\* The stationarity command after the last transition passed.
LastPassed ==
  /\ pc = "evaluate"
  /\ idx > LastTransition
  /\ Goto("passed")
  /\ UNCHANGED <<now, idx, ext, phaseStart, wake, sample, history>>

\* The gate says FAIL and an extension is left.
Extend ==
  /\ pc = "evaluate"
  /\ ext < MaxExtensions
  /\ ext' = ext + 1
  /\ Goto("arm")
  /\ UNCHANGED <<now, idx, phaseStart, wake, sample, history>>

-----------------------------------------------------------------------------
(* Binding and trigger.                                                     *)

StartBind ==
  /\ pc = "passed"
  /\ idx <= LastTransition
  /\ Remaining
  /\ Goto("bind")
  /\ UNCHANGED <<now, idx, ext, phaseStart, wake, sample, history>>

BindDone ==
  /\ pc = "bind"
  /\ Goto("bound")
  /\ UNCHANGED <<now, idx, ext, phaseStart, wake, sample, history>>

\* Mutant: the trigger command is started without require_remaining.
StartTriggerUnchecked ==
  /\ pc = "bound"
  /\ Goto("gate")
  /\ UNCHANGED <<now, idx, ext, phaseStart, wake, sample, history>>

StartTrigger ==
  /\ pc = "bound"
  /\ Remaining
  /\ Goto("gate")
  /\ UNCHANGED <<now, idx, ext, phaseStart, wake, sample, history>>

\* EXECUTOR_START_SAMPLE_AGE_GATE
AgeGate ==
  /\ pc = "gate"
  /\ now - sample <= MaxAge
  /\ Goto("write")
  /\ UNCHANGED <<now, idx, ext, phaseStart, wake, sample, history>>

\* The TRIGGER line goes into the FIFO.
WriteTrigger ==
  /\ pc = "write"
  /\ Goto("posted")
  /\ at' = [at EXCEPT ![idx] = now]
  /\ from' = [from EXCEPT ![idx] = phaseStart]
  /\ seen' = [seen EXCEPT ![idx] = sample]
  /\ UNCHANGED <<now, idx, ext, phaseStart, wake, sample, launched>>

\* The reader answers a trigger with docker run, whenever it gets there.
DockerStart(t) ==
  /\ at[t] > 0
  /\ launched[t] = 0
  /\ launched' = [launched EXCEPT ![t] = now]
  /\ UNCHANGED <<now, pc, idx, ext, phaseStart, wake, sample, at, from, seen,
                 ended>>

\* Mutant: the post phase is measured from the start of the previous one.
TriggerDoneKeepsPhase ==
  /\ pc = "posted"
  /\ Goto("arm")
  /\ idx' = idx + 1
  /\ ext' = 0
  /\ UNCHANGED <<now, phaseStart, wake, sample, history>>

\* The executor returned 0: the post phase begins.
TriggerDone ==
  /\ pc = "posted"
  /\ Goto("arm")
  /\ idx' = idx + 1
  /\ ext' = 0
  /\ phaseStart' = now
  /\ UNCHANGED <<now, wake, sample, history>>

-----------------------------------------------------------------------------
(* The end of the run.                                                      *)

\* terminate_process(traffic) takes as long as it takes.
StopTraffic ==
  /\ pc = "passed"
  /\ idx > LastTransition
  /\ Goto("stopping")
  /\ UNCHANGED <<now, idx, ext, phaseStart, wake, sample, history>>

StartFinalize ==
  /\ pc = "stopping"
  /\ Remaining
  /\ Goto("finalize")
  /\ UNCHANGED <<now, idx, ext, phaseStart, wake, sample, history>>

FinalizeDone ==
  /\ pc = "finalize"
  /\ pc' = "done"
  /\ ended' = now
  /\ UNCHANGED <<now, idx, ext, phaseStart, wake, sample, history>>

\* require_remaining refuses the next command.
OutOfTime ==
  /\ \/ pc = "sleep" /\ now >= wake
     \/ pc = "passed" /\ idx <= LastTransition
     \/ pc \in {"bound", "stopping"}
  /\ ~Remaining
  /\ Fail

\* A command fails or runs into its timeout, which is all that remains.
CommandFails == pc \in Running /\ Fail

Next ==
  \/ Tick \/ BeginPre \/ ArmWait \/ ArmFail \/ StartEvaluate
  \/ \E x \in 0..Horizon : Decide(x)
  \/ Publish \/ LastPassed \/ Extend \/ StartBind \/ BindDone \/ StartTrigger
  \/ AgeGate \/ WriteTrigger \/ TriggerDone \/ StopTraffic \/ StartFinalize
  \/ FinalizeDone \/ OutOfTime \/ CommandFails
  \/ \E t \in Transitions : DockerStart(t)

Spec == Init /\ [][Next]_vars

-----------------------------------------------------------------------------
(* Properties.                                                              *)

\* Every variable stays in its type, the extension counter in its bound.
TypeOK ==
  /\ now \in Nat /\ phaseStart \in Nat /\ wake \in Nat /\ sample \in Nat
  /\ ended \in Nat
  /\ pc \in Pc
  /\ idx \in 1..(LastTransition + 1)
  /\ ext \in 0..MaxExtensions
  /\ at \in [Transitions -> Nat] /\ from \in [Transitions -> Nat]
  /\ seen \in [Transitions -> Nat] /\ launched \in [Transitions -> Nat]

\* Two triggers are at least a minimum post phase apart, and the first one
\* comes after the minimum pre phase, however the commands are delayed.
ControlsSeparated ==
  \A t \in Transitions : at[t] > 0 =>
    IF t = 1 THEN at[t] >= PreMin ELSE at[t] >= at[t - 1] + PostMin

\* The sample that admits a trigger was taken after the previous trigger: the
\* whole post phase less the admitted age lies between them.
AdmittedOnNewSamples ==
  \A t \in Transitions : at[t] > 0 /\ t > 1 =>
    seen[t] + MaxAge >= at[t - 1] + PostMin

\* No trigger is written, and no run passes, after EXPERIMENT_MAX_S.
WithinExperiment ==
  /\ \A t \in Transitions : at[t] <= ExperimentMax
  /\ pc = "done" => ended <= ExperimentMax

\* Does not hold (README, Divergences).
\* "POST_STEP_MAXIMUM_DURATION_S=20", "NEXT_TRIGGER_AFTER_TIMEOUT=PROHIBITED":
\* no trigger ends a phase that lasted longer than its maximum.
TriggerWithinPhase ==
  \A t \in Transitions : at[t] > 0 => at[t] - from[t] <= Limit(t)

\* Does not hold (README, Divergences).
\* "FINAL_GATE_MAX_AGE_AT_DOCKER_START_MS=800": the admitted sample is at most
\* MaxAge old when docker starts.
FreshAtDockerStart ==
  \A t \in Transitions : launched[t] > 0 => launched[t] - seen[t] <= MaxAge
=============================================================================
