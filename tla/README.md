# TLA+ models of the TCD O-RAN testbed: triggers, evidence and the KPM collector

The repository runs bounded radio-resource experiments on an O-RAN testbed. A
supervisor admits and triggers six PRB-ratio transitions, one at a time; a
prearmed reader turns each trigger into one E2 control request; a read-only KPM
collector records what the gNB reports meanwhile. Around them a validator keeps
the transaction record of each experiment, a second, one-shot path triggers
single transitions, the output of the traffic receiver decides when a control
may be sent, and a retention tool copies the evidence away. The documents ask
for one thing above all: a control is sent at most once, in order, on fresh
evidence, and nothing is repeated when the outcome is uncertain.

This directory models those programs, checks them with TLC and proves their
safety properties with TLAPS. Source paths below are relative to `src/`;
`harness/` is short for `scripts/experiment-harness/`, `collector/` for
`components/kpm-readonly-collector/`.

- [Inventory](#inventory)
- [Modules](#modules-and-how-they-correspond-to-the-code)
- [Runs](#runs)
- [Proofs](#proofs)
- [Findings and divergences](#findings-and-divergences)
- [Not modelled, and the plan](#not-modelled-and-the-plan)

`PROJECT.json` has the machine-readable side: every definition with its source
lines, every hazard with its properties, a mutant for every property.

## Inventory

### The parts and how they interact

```
 supervisor --spawns--> handoff (stationarity + freshness) --> precontrol/T<n>.json   (exclusive)
     |      --spawns--> binding writer --> ratio-bindings/T<n>.binding.json           (exclusive)
     |      --spawns--> trigger executor --TRIGGER--> FIFO --> reader --> actuator wrapper --> xApp --> gNB
     |      --spawns--> finalize                       ^          |
     '------spawns--> traffic session                  |          '--link/unlink--> T<n>.binding.json.consumed.json
                                                       |
 launcher --spawns--> provider manager --spawns, holds the FIFO open--> reader
          <--provider-admission.json--'        cleanup --SIGTERM/SIGKILL--> reader

 gNB --E2--> FlexRIC threads --callback--> bounded ring --> worker --> CSV, JSONL, Prometheus text
                                             main: subscribe, poll, stop, drain

 playbook --> controller --> readiness handoff --> critical section | fast trigger --TRIGGER--> FIFO
                                                          |              |
 iperf --> capture wrapper --> raw + timestamp file --> snapshot --> parser --> canonicalizer --> evaluator
                                          '--> tail reader of the fast trigger      (handoff above) <--'

 each step of an experiment --proposed record--> transaction validator --> chain of accepted records
 acquisition --transfer--> .incoming/<operation> --verify--> PASS --promote--> <operation>
```

| Part | State it keeps | Operations | What is hard | What makes it correct |
| --- | --- | --- | --- | --- |
| Binding writer (`harness/prompt12-pretrigger-ratio-binding-writer.py`) | the binding file, visible from `O_EXCL` creation on | build, create, write, fsync, unlink on failure | a reader sees the file half written, or validates it before the fsync fails | a binding is actuated only for its own transition and once |
| FIFO reader (`harness/prompt12-production-local-fifo-reader.py`) | next transition, consumed ids, FIFO position | open, read a token, validate, link, unlink, run | a second reader over the same directory; a crash between link, unlink and run; surplus triggers | at most one launch per transition, ever; in order; no launch without a trigger |
| Actuator wrapper and xApp | one container | refuse, run, send one control | runs without timeout; may die before or after the control | at most one control per launch |
| Trigger executor and handoff | `precontrol/T<n>.json`, `control/T<n>.executor.json` | admit exclusively, gate, write TRIGGER, write evidence | killed by a timeout between FIFO write and evidence; a decision gone stale | one trigger per transition; evidence that never denies a delivered trigger |
| Supervisor (`harness/prompt12-bounded-orchestration-supervisor.py`) | report, traffic process, phase, clock | observe, extend, bind, trigger, finalize, report | a second run over the same plan; a command that hangs; being killed and leaving its commands behind | triggers in order by one run, an honest report, an end within the budget |
| Launcher, provider manager, cleanup | runtime root, FIFO, admission, failure and record files, the child | spawn, wait, admit, watch, terminate, clean up | two launches of one allocation; an admission seen before it is written; SIGKILL meeting a slow manager | one reader per allocation, honest admissions, no process left by a reported end |
| Receiver output: capture wrapper, snapshot, parser, canonicalizer, evaluator, freshness gate, tail reader (`harness/prompt12-bounded-stationarity-command.py` and what it runs) | two growing files, one observation's snapshot, timeline, rows and report | capture, snapshot, parse, classify, select, gate, poll | two files grow between two reads; rows from before the last control; a run cut by a gap | windows and samples all follow the last control; a sound receiver is never declared bad |
| One-shot T2 tools (`harness/prompt12-t2-*.py`) | claims, intents, outcomes and handoffs, each an exclusive file | play, check readiness, dispatch, gate, write TRIGGER, write the outcome | a child that outlives its killed parent; the same run or operation given to two tools; a sample ageing between gate and write | one trigger per run, an outcome that never denies it, PASS only after it |
| Transaction validator (`harness/prompt12r-validate-transaction-transition.py`) | none; the chain of records is the state | accept or refuse one proposed record | what only a chain of several legal records can reach | trigger tuple, identities and failures are kept; VALID means complete |
| Evidence retention (`sci-oran/ansible/lifecycle/bin/sci-oran-retain-evidence.py`) | `.incoming/<operation>`, `<operation>`, manifests and results | transfer, verify, promote | the source grows under the copy; invocations overlap or die anywhere | what is retained was in the source, is what its manifest says, and stays |
| KPM collector (`collector/src/`) | lifecycle, subscription, callback context, ring, sinks, counters | init, subscribe, callback, submit, write, snapshot, stop, drain | callbacks on foreign threads during shutdown; `trylock` contention; a sink failing alone; a full ring | exit 0 means complete files; files are gapless prefixes; the subscription never outlives main |

The parts communicate only through files created exclusively, a FIFO, signals
and exit codes; inside the collector through one mutex, one condition variable
and atomics. There is no database and no retry: every program fails closed.

### Where it can go wrong

`hazards` in `PROJECT.json` lists forty places, each at its line and each with the
properties that cover it. They fall into six groups:

- *claim and crash*: a process dies between the two halves of an operation that
  is meant to be one (link and unlink, FIFO write and evidence, open and write);
- *two of a kind*: nothing locks a run directory, a ratio-bindings directory or
  an allocation, so two supervisors, readers or launches may share it;
- *seen too early*: a file exists before its content does;
- *stale by the time it is used*: ages, windows and identities are compared
  first and acted on later;
- *growing files*: a snapshot, a tail or a manifest is taken while another process
  appends;
- *shutdown*: callbacks, the worker, main and a stop timeout meet in any order.

Four more places were looked at and state no promise that could be broken, so no
property covers them: the supervisor's report path is shared by every invocation of
a plan and replaced (`harness/prompt12-bounded-orchestration-supervisor.py:96`); the
traffic is polled once, before the ratio bind, and may end before the trigger
(line 236 there); the collector prints `COLLECTOR_RESULT=PASS` before the pipeline is
shut down (`collector/src/main.c:505`), while its exit status, which
`ExitZeroIsComplete` is about, comes after; and the records of two indications
interleave in the queue when two callbacks run at once
(`collector/src/output_pipeline.c:158`), so one indication's rows need not be adjacent.

## Modules and how they correspond to the code

| Module | Models | Composition |
| --- | --- | --- |
| `RatioReader` | binding writer, FIFO, reader, actuator | implements `ExactlyOnceActuation` |
| `ExactlyOnceActuation` | nothing in the code: the promise of the trigger path | abstract specification |
| `SequenceSupervisor` | supervisor, handoff, executor, their files | supplies the triggers that `RatioReader` takes as an input |
| `PhaseBudget` | the clock of one live run: phases, budget, ages | the time side of `SequenceSupervisor` |
| `ProviderAdmission` | launcher, manager, child, cleanup | brings up the reader of `RatioReader` |
| `ReceiverPipeline` | capture wrapper, stationarity command, its tools, freshness gate, tail reader | decides when `SequenceSupervisor` may admit and `T2OneShot` may write, which take its verdicts as inputs |
| `T2OneShot` | controller, readiness handoff, critical section, fast trigger | the one-shot alternative to `SequenceSupervisor` |
| `ExperimentTransaction` | transaction validator | the record both paths are reported in |
| `EvidenceRetention` | retention tool | after the experiment |
| `OutputPipeline` | ring, worker, sinks, metrics | extended by `KpmCollector` |
| `KpmCollector` | main, lifecycle, callbacks | composes the pipeline with its threads |

Each has an `MC...` module for TLC. Theorems are in `RatioReaderProofs`,
`SequenceSupervisorProofs`, `PhaseBudgetProofs`, `ProviderAdmissionProofs`,
`AcceptanceProofs` (for `ExperimentTransaction` and `ReceiverPipeline`),
`T2OneShotProofs`, `EvidenceRetentionProofs` and `KpmCollectorProofs`. Definitions whose comment starts with *Mutant* are
deliberately wrong versions of the definition after them; no specification uses
them.

### RatioReader and ExactlyOnceActuation

A file is named by the writer invocation that created it, so `file[p]` and
`consumed[p]` hold inodes: `link` makes two entries share one, and an unlink by
path may remove another writer's file; a writer whose write or fsync failed is `failed`.
The content of the file is the binding
its writer built, readable once the writer is in `complete`. The path a writer
is given and the label it writes are chosen apart, as on its command line.

The reader's program counter has one value for every point at which another
process can see a difference: `opening` (the blocking `open` of the FIFO),
`reading`, `loading` (the token is read, the binding is not), `linking`,
`unlinking`, `claimed`, `actuating`, `dead`. Every error path leads to `dead`, as in
`run_reader`, and an operator may start another reader at any time from any
transition. `runs` and `applied` are histories of launches and of controls.
`created_utc` and the reader's start are whole seconds; a binding more than
five seconds in the future is refused.

`ExactlyOnceActuation` has three actions: claim, launch after the claim, control
after the launch, each at most once per transition. The refinement mapping takes
a transition as claimed when its consumed file exists (`ClaimedTransitions`), and
reads launches and controls off the histories (`LaunchLog`, `ControlLog`). The
actuator, docker and the gNB are external.

### SequenceSupervisor

A supervisor (`sup`) waits for one command (`cmd`) at a time. A command is
stepped separately, so that `subprocess.run`'s timeout (`Timeout`) or the death of
the supervisor (`Killed`) can come between any two of its steps; a killed
supervisor leaves its command running, and a second supervisor may start on the
same directory. `pre[t]` names the supervisor whose handoff published
`precontrol/T<t>.json`; the executor reads it, writes the FIFO (`ExecutorWrite`, with
the outcomes written, refused and unknown) and then its evidence. The reader is
one action, `BindingConsumed`, which removes a binding. Durations are left to
`PhaseBudget`: any wait may run out.

### PhaseBudget

One live run over a discrete clock. Time passes between any two steps (`Tick`),
except that a subprocess is not running after `ExperimentMax`: that timeout is
the one thing the code makes punctual. `ArmWait` computes the observation target and the
sleep, `Decide` picks the latest sample of the admitted window, `AgeGate` compares
it with the clock in the executor, `DockerStart` comes at any later time.
`at`, `from`, `seen` and `launched` are histories.

### ProviderAdmission

Launches of one allocation, each with its launcher (`lpc`), manager (`mpc`) and
child (`cpc`). The runtime root is created by an exclusive `mkdir`, the admission
file is two steps (created, complete), SIGTERM sets a flag that the manager
reads where the code does, SIGKILL is immediate, whether it comes from the launcher
(`killed`) or from outside (`lost`). The cleanup command identifies
the child from the admission before SIGTERM and again before SIGKILL. PID reuse
is left out: the code compares boot id, PID and start ticks of `/proc`.

### ReceiverPipeline

Time is in ticks of half a receiver interval. The plant (`plant`) gives a throughput
after each control; a line of iperf is delivered up to `MaxDelay` after its interval
and may be irregular. The capture wrapper appends a line to the raw file and then to
the timestamp file in two steps (`CaptureRead`, `CaptureWrite`), so every reader can
meet the files one line apart. `index` is the `--control-index` of the handoff; the
commands, readbacks and acknowledgements of the controls before it are in the logs.

The adapter follows the stationarity command: it builds the timeline, reads the size
of the raw file (`AdStatRaw`) and of the timestamp file (`AdStatStamps`), takes the pair only when
the sizes have not moved (`AdCheckStamps`), and then runs parser, canonicalizer and
evaluator on its private copy (`AdTools`). The evaluator's run selection
(`latest_eligible_run`), window pair and gates are operators. Means and the coefficient of
variation are compared as exact integers; on FAIL the adapter observes again, and on
PASS the freshness gate picks the latest rows, which it does without an origin. The
tail consumer opens the raw file, then the timestamp file, and applies the checks of
`inspect` in their order; reasons the code calls retryable are polled again.

### T2OneShot

A process is an invocation of one of the four programs with arbitrary run, operation and
experiment identifiers, and may be killed at any step. What lasts is `files`, pairs of
kind and identifier that are created exclusively and never removed. The trigger child of
the critical section has a counter of its own (`child`), because a SIGKILL of its parent
leaves it running. `age` is the age of the sample a fast trigger holds; one tick beyond
`MaxAge` is as good as any. The playbook between the controller and the tools is
external: its PASS marker appears only after a trigger tool of that run returned 0.

### ExperimentTransaction

The state is the last accepted record and a step is an accepted proposal; a refused one
changes nothing. A proposal is any combination of the fields the JSON Schema allows, put
through the code's checks: legal transition, state invariants, failure rules,
write-once fields, trigger tuple, adjudication. The functions keep the names they
have in the script. `visited` and `admitted` are histories: the states of the chain and
the identities at the record that was admitted.

### EvidenceRetention

`place` maps the three paths an operation has (`.incoming/<operation>`, `<operation>`
and `<operation>/<operation>`) to directories. A transfer walks the source entry by entry
for its manifest, rsync copies in an order of its own, and a promotion renames. `where`
is the directory a process holds open, which follows the directory when it is moved.
`held` and `left` are histories: the files of the source when its manifest was complete and the
directories when rsync ended. A file is known by its length, which only grows; a symlink or
special object is `Link`.

### OutputPipeline and KpmCollector

A critical section is two steps, taking the mutex and the body with the release,
so a callback's `trylock` can meet it taken, which drops the record. A record is
`<<indication, position>>`. `accepted` is the history of what the ring stored; its
length is the code's counter. `rows[s]` is what is in the file of sink `s`. The
Prometheus text is what `published` shows: rows per sink, depth and subscription
counters.

Main's place (`main`) follows `main.c` through configuration, discovery,
selection, subscription, polling, removal, bounded stop and teardown, with each
failure branch. The lifecycle table is `CanTransition`. A callback passes through
entering, taking its sequence number, making records and submitting each;
`stop_xapp_bounded` may give up while callbacks run, main then destroys the
context under them, and a late callback either only ends (`CallbackEnd`) or uses
the zeroed context and crashes the process (`CallbackCrash`, exit 139). FlexRIC is external and assumed to run callbacks only
between accepting a subscription and a successful `try_stop_xapp_api`.

## Runs

All runs set `CHECK_DEADLOCK FALSE`: these are programs that end. Liveness is
stated where an end, or an answer, is due.

| Run | Instance | Shows |
| --- | --- | --- |
| `reader_race` | 2 readers, 2 writers, 2 transitions | every interleaving of two readers over one directory, with crashes and failing writers: `AtMostOneRunPerTransition`, `ArchiveIsWhatRan`, and the refinement `ImplementsExactlyOnce` |
| `reader_sequence` | 1 reader, 2 writers, 2 transitions, 3 triggers, clock 0..1 | `RunBindingAddressed`, `ReaderInOrder`; with fairness `TriggerAnswered` |
| `supervisor_run` | 2 supervisors, 3 transitions, 1 extension | `AtMostOneTrigger`, `TriggersInOrder`, `EvidenceHonest`, `ReportBrackets`; with fairness `RunEnds` |
| `budget_safety` | 2 transitions, phases 2..3 and 3..4, budget 9, age 2, clock 0..11 | `ControlsSeparated`, `AdmittedOnNewSamples`, `WithinExperiment` |
| `provider_launches` | 2 launches | `OneReader`, `NoOrphan`, `AdmittedWasReading`, `FailureEndsManager`; with fairness of one launch `WatchedLaunchEnds` |
| `receiver_pipeline` | up to 7 lines, windows of 2, up to 2 controls, 1 irregular line | `SnapshotParses`, `RunIsLatest` (against a reference definition, `LatestRun`), `WindowsAfterLastStep`, `AdmittedAfterLastStep`, `TailFailsOnBadSource` |
| `t2_one_shot` | 3 processes; 2 experiments, runs, operations | `AtMostOneTrigger`, `OneRunPerOperation`, `OutcomeHonest`, `PassMeansTriggered` |
| `transaction_chain` | 2 PRB values, 1 name, 1 reason | `TriggerTupleHonest`, `ValidMeansComplete`, `AdmittedIdentitiesKept` over all chains |
| `transaction_disposition` | the same | violation of `ClosingKeepsInvalid` |
| `retention_races` | 3 invocations, 1 file of length 0..2 or special, 1 directory | `RetainedIsSource`, `ManifestDescribesPayload`, `RetainedStays` |
| `collector_output` | 1 callback thread, ring of 2, 2 sinks and the text file, up to 3 records | `SinksHoldPrefix`, `MetricsAreTrue`, `MetricsNeverGoBack` |
| `collector_threads` | 2 callback threads, ring of 1, 1 sink | `ExitZeroIsComplete`, `NoCallbackAfterDestroy`; with fairness `CollectorEnds` |

The type invariants and `AtMostOneControlPerRun`, `ClaimsArePermanent`, `CleanupDone`,
`RingIsFifo`, `SubscriptionEnds`, `FailureKept`, `NeverBack`, `PlayedOnce` and
`ReadinessOnce` are proved for every instance and have no run of their own.

### Bounds

- *Readers and writers*: two of each is the smallest number that races for one
  entry, and two writers are what it takes to put a second inode under a path
  that was validated. A second writer may also store the first one's label under
  the wrong path. `reader_race` fixes the clock, since a race for the claim does
  not depend on it; `reader_sequence` moves it, so a binding older than its reader
  exists. With three triggers for two transitions one is always surplus.
  `FifoCapacity` 1 makes a second line meet a full pipe.
- *Symmetry*: `reader_race` permutes readers and writers, `t2_one_shot` processes and
  identifiers, `transaction_chain` PRB values, `retention_races` invocations. They check
  safety only, and no property tells the permuted values apart.
- *Transitions*: two show order and a successor; `supervisor_run` has three so that
  a run may stop after a transition that is neither the first nor the last. One
  extension distinguishes "extend", "exhausted" and "not needed".
- *Clock*: `Horizon` 11 lies beyond `ExperimentMax` 9, so a run can be late at
  every step; 9 is enough for the two phases (2 + 3), with an extension each, to
  be followed by a trigger inside the budget and for a slow run to miss it.
- *Launches*: two launches contend for the root; a third could only lose as the
  second does, since the root is never removed.
- *Receiver*: windows of two samples need a run of four rows, an index of two a phase
  that follows another one; with seven lines a gap, a late line or an irregular one can
  lie before, inside or after the run that counts. Two throughputs make a
  window steady or not; a third would add nothing the comparisons can tell.
- *One-shot tools*: two tools race for one run and a third process is the controller, the
  handoff, or a second tool of the same operation. Two identifiers of each kind let the
  same one be given to different runs.
- *Transaction*: a chain is at most twelve records long, since the order of states has no
  cycle; the instance is its complete state space.
- *Retention*: transfer, verify and promote overlap with three invocations, and so do two
  of one kind with a third; one file that grows twice is different at every walk that
  could see it.
- *Collector*: three records against a ring of two wrap the indexes and overflow
  it; two sinks let one fail alone; two callbacks contend for the mutex; one
  indication reaches `MaxIndications` and stops the poll, and `HasDuration` lets the
  clock stop it instead.

### Fairness

- `RatioReader`: weak fairness of each reader's own steps. Nothing is assumed of
  the actuator, which `subprocess.run` waits for without a timeout: that is why
  `TriggerAnswered` has a third way out.
- `SequenceSupervisor`: weak fairness of the supervisor's steps, `Timeout` included,
  as every command is given the remaining budget. Commands may hang.
- `ProviderAdmission`: weak fairness of one launch's launcher and manager, whose
  waits are all bounded. The other launch, the reader and the cleanup may stop.
- `KpmCollector`: weak fairness of main, worker, callbacks in flight and the clock;
  strong fairness of main's two mutex acquisitions, because callbacks and the
  worker take and release the mutex meanwhile and `pthread_mutex_lock` does not wait for
  ever on a mutex that keeps being released. FlexRIC may never accept and never
  call back.
- `ReceiverPipeline`, `T2OneShot`, `ExperimentTransaction`, `EvidenceRetention`: none. Any
  process may stop anywhere, and these programs promise safety only.

## Proofs

Each theorem is for every value of the constants, under the named assumption of
its module. `tlapm` checks them with Z3, Zenon and LS4.

| Module | Assumption | Theorems |
| --- | --- | --- |
| `RatioReaderProofs` | `ReaderAssumption`: at least one transition, `NoFile` is no writer | `TypeCorrect`, `LaunchedAtMostOnce`, `ControlledAtMostOnce`, `RunsAddressedBindings`, `ClaimsStay`, `Refinement`, `LaunchesInOrder`, `ArchiveCorrect` |
| `SequenceSupervisorProofs` | `SupervisorAssumption` | `SupervisorTypes`, `TriggeredAtMostOnce`, `TriggeredInOrder`, `EvidenceIsHonest`, `ReportsBracketTriggers` |
| `PhaseBudgetProofs` | `BudgetAssumption`: positive minima, maximum = minimum + extensions, as in the supervisor's constants | `BudgetTypes`, `Separated`, `NewSamples`, `InTime` |
| `ProviderAdmissionProofs` | `LaunchAssumption` | `AdmissionTypes`, `AtMostOneReader`, `ManagersLeaveNoReader`, `AdmissionIsHonest`, `FailedLaunchLeavesNoManager`, `CleanupIsComplete` |
| `AcceptanceProofs`, transactions | `NullAssumption`, `ReasonAssumption`: null is no value, `NONE` no reason | `TypeCorrect`, `TriggerTupleCorrect`, `ValidCorrect`, `AdmittedCorrect`, `FailureCorrect`, `NeverBackCorrect` |
| `AcceptanceProofs`, samples | `ReceiverPipeline`'s `PipelineAssumption`: durations, rates and bounds are natural numbers, a period and a window positive | `PipelineTypes`, `SnapshotsParse`, `RunComputed`, `WindowsFollowLastStep`, `AdmittedFollowLastStep`, `TailFailures` |
| `T2OneShotProofs` | `MaxAgeAssumption` | `TypeCorrect`, `TriggeredAtMostOnce`, `OperationsAreOfOneRun`, `OutcomesAreHonest`, `PassIsTriggered`, `PlayedAtMostOnce`, `ReadyOnce` |
| `EvidenceRetentionProofs` | `RetentionAssumption`, `NoneAssumption`: finite sets of files and directories, `None` is no tree, manifest or directory | `TypeCorrect`, `RetainedCorrect`, `ManifestCorrect`, `RetainedForGood` |
| `KpmCollectorProofs` | `PipelineAssumption` (a positive capacity, at least one output, distinct threads), `CollectorAssumption` (a finite limit, finitely many callback threads) | `TypeCorrect`, `RingFifo`, `FilesArePrefixes`, `ZeroIsComplete`, `MetricsTrue`, `MetricsMonotone`, `SubscriptionAlwaysEnds`, `DestroyIsQuiet` |

The arguments, and why the properties are not inductive by themselves:

- **RatioReader** (`IndInv`). That a transition is launched at most once depends on
  who may launch: `OwnersAreAlone` says that between the link and the launch
  one reader owns the consumed entry, because `link` fails on an existing name;
  `RunsAreClaimed` that every launch is of a claimed transition and an owner that
  has not launched yet is the first to. `HeldIsValid` and `CompleteIsStored` carry the validation of a
  binding from the parse to the launch, `DockerHasRun` ties a live container to
  its launch. The refinement follows step by step: the link is `Claim`, the launch
  is `Launch`, the control is `Control`, everything else stutters.
  Order needs the reader's loop (`OrderInv`): `nextIndex` moves on only after the
  actuator of its transition returned 0, so the launches of a reader are the transitions
  from its first one to the present one without a gap (`InSequence`), and a live
  container is its reader's newest launch (`ContainerIsNewest`), so no control of an
  earlier one can follow. `Asked` counts: the launches of a reader, the TRIGGER it is
  answering and those waiting in its FIFO are never more than were written. The archive
  (`ArchiveInv`) compares directory entries with open files. A failing writer unlinks
  whatever its path names; but as long as nothing has been claimed there, that is its own
  file (`CreatedIsListed`), because the exclusive create kept everybody else out. So what a
  reader has read stays the entry it will link unless the writer of that very file fails
  (`HeldIsListed`), and that is the exception `ArchiveIsWhatRan` makes.
- **SequenceSupervisor** (`SupInv`). Exclusive publication makes one supervisor the
  owner of a transition (`Owner`); `InStep` ties its command to its place;
  `Fresh` says that a transition still to be triggered has neither trigger nor
  evidence; `Pending` that the executor's verdict is true in the gap between FIFO write and
  evidence; `Published` and
  `Past` carry the order of triggers over the loop. The report adds `ReportInv`: the
  counters are the place in the loop, with the attempt counted from the start of the
  executor on (`Counted`), so the triggers of a run, those of the transitions it has
  passed and perhaps the present one, lie between the two by cardinality; PASS comes
  only from the finalization (`Gated`), and the report on disk is not changed once its
  run has ended (`Filed`).
- **PhaseBudget** (`BudgetInv`). `Observed`: past the sleep, the phase is at least
  its minimum old. `Chained`: a phase starts no earlier than the trigger before it.
  `Punctual`: nothing is running after the experiment's budget.
- **ProviderAdmission** (`AdmissionInv`). `Ownership`: past `mkdir`, a manager is the
  root's creator. `Children`: a manager has no child before its `Popen` and none
  alive once it is done, unless it was killed. `Admissions`, `Ends` and `Cleaning` relate the
  admission, the launcher's verdict and the cleanup to those.
- **ReceiverPipeline** (`Deciding`). The files: the timestamp file is the raw file but for
  the line the wrapper holds (`Copied`), lines are stamped in order and each interval
  begins where the last ended (`Timed`, `Linked`). `SizesSeen` compares what the
  adapter has seen of the two sizes with the files and with each other: the raw file is
  looked at first, and only two equal pairs let it copy, so every copied record has its line
  (`SnapshotParses`). While a consumer works the environment goes on, and what keeps a
  decision true is that the log of controls is complete (`AllApplied`: nothing more can be
  applied in this phase) and is the timeline the tools got (`TimelineIsLog`). A report
  that passes leaves `BlockFound`, a block of eligible rows of two windows' length that no
  eligible row follows. The freshness tool knows of no origin, but its latest complete rows
  are among the last ones, and that block is long enough to contain them: that is
  why its samples lie after the last control. The tail reader needs that
  complete intervals are linked, so that none of its permanent reasons can arise
  (`CompleteSourceIsRetried`).
- **Folds over sequences.** The parser's filter and the loop of `latest_eligible_run` are
  recursive functions over positions. That such a function exists (`RecursionExists`)
  and what it returns for every input (`KeptFrom`, `KeptAll`, `ScanStep`, `RunIsLatestRun`)
  are proved by the least position at which it would not be so (`LeastElement`,
  `IntervalInduction`), from the library's theorem that `<` is well-founded; that is
  an induction over positions without the library's induction theorems. `RunIsLatestRun`
  holds for every sequence of rows, not only those the wrapper can produce.
- **ExperimentTransaction**. The validator sees two records at a time, the properties
  are about the chain. The invariant ties the history to the record: which states can have
  been visited given the present one, what the trigger tuple must be once the
  trigger state was visited, and which identities were fixed at admission.
- **T2OneShot** (`IndInv`). `Claims` says which files exist given where a process is,
  so that an exclusive file has one creator still on its way. `Tokens` bounds the tokens
  of a run by its intent, whoever holds the pen, tool or orphaned child;
  `Dispatches` ties an operation to its run; `Honest` keeps outcome records and the status
  held in memory true; `Plays`, `Checks` and `Passes` do the same for the controller
  and the handoff.
- **EvidenceRetention** (`IndInv`). Until something is retained (`Staging`) the exclusive
  `mkdir`s leave one invocation that transfers (`Alone`), and sizes only grow in the order
  in which they are read: source manifest, source, copy (`Grows`, `Complete`). A
  passing comparison closes that chain to equalities; for directories, which no
  manifest names, cardinalities do (`SameDirectories`). That is `Proved`, which a promotion
  carries to the retained directory; after that (`Kept`) nobody copies into it any more.
- **KpmCollector** (`FullInv`), in four layers. `CoreInv` is control: where main is
  decides lifecycle, subscription, context and exit (`MainPlace`, `ContextPlace`,
  `ExitPlace`, `QuietPlace`), the worker holds a record exactly while it processes one
  (`Holding`), and the ring is a queue (`Counted`, `RingIsFifo`), by modular arithmetic
  in lemmas of its own. `RowsInv` says how many rows are due at each place of the
  worker. `CompleteInv` counts: records made are accepted, counted as dropped, or in
  flight (`Conserved`, by cardinality of the callbacks in flight); the worker ends
  only on an empty ring after the stop (`DrainInv`), main passes the join only
  after it (`JoinInv`, `LeaveInv`). `MetricInv` bounds what is shown by what is
  counted and that by what is written.

Only model-checked:

- the liveness properties `TriggerAnswered`, `RunEnds`, `WatchedLaunchEnds` and
  `CollectorEnds`: they need fairness and `ENABLED`, which this version of TLAPS does
  not reason about.

Every invariant and every action property of the runs is proved. What the
evaluator's means and variation compute (`Total`, `SteadyWindow`) is not the subject of
a theorem: the proofs use only that a report that fails a gate does not pass.

## Findings and divergences

`transaction_disposition` shows a disagreement of document and code. The transaction's
document says that "Closing a scientifically invalid run does not make it valid"
(`docs/12r-experiment-transaction-state-machine.md:587`). The validator checks the
adjudication when a record enters `SCIENTIFICALLY_ADJUDICATED` only: a `CLOSED` record
that says VALID is accepted after one that said INVALID (`ClosingKeepsInvalid`).

The modules define these further properties, stated as the documents or the code's own
contracts put them, which the code does not have either. Each can be added to
the configuration of its module's run to see TLC's counterexample.

| Property | Where | What happens |
| --- | --- | --- |
| `ConsumptionAttributable` | `harness/prompt12-pretrigger-ratio-binding-writer.py:118`, against `docs/control/prompt12-v2-ratio-binding-implementation-plan-v1.md:291` | a failed fsync after the write loop unlinks by path; a reader that validated the file links whatever the path names next, so the archived binding is not the one that was actuated. `ArchiveIsWhatRan` says that this is the only way |
| `ReportedControlIsTrue` | `harness/prompt12-bounded-orchestration-supervisor.py:262` | a trigger written by an executor that then failed or timed out is reported as not executed; the attempt counter still shows it (`ReportBrackets`) |
| `TriggerWithinPhase` | `harness/prompt12-bounded-orchestration-supervisor.py:129` | the maximum of a phase bounds the planned target; a slow stationarity command lets the next trigger come later |
| `FreshAtDockerStart` | `harness/prompt12-precontrol-trigger-executor.py:431` | the age named *at docker start* is compared at executor start |
| `AcceptsItsProvider` | `harness/prompt12-production-provider-manager-launcher.py:681` | a launcher that looks between `open("x")` and the write fails to parse the admission and terminates a healthy manager |
| `PostStepMinimum` | `harness/prompt12-bounded-precontrol-handoff.py:245`, against `docs/12-siso-system-identification-design.md:861` | a control may follow the previous one before the minimum of the post-step phase is over |
| `NoMeansNotSent` | `harness/prompt12-t2-postval-fast-trigger.py:268`, against `docs/12r-experiment-transaction-state-machine.md:684` | an outcome that says no control was sent although the token had been written |
| `NeverMerged` | `sci-oran/ansible/lifecycle/bin/sci-oran-retain-evidence.py:957`, against line 169 of the retention contract | a promotion that meets a directory at its final path, because another promotion was faster and a transfer has started again, moves its own into it (`EvidenceRetention`'s third place) |

Two further behaviours of the retention tool differ from its contract
(`sci-oran/ansible/lifecycle/docs/r6-d-evidence-transfer-integrity-implementation-contract.md`)
without a property that states them. A promotion accepts any earlier PASS of the
operation, also one from before a newer transfer (line 951 of the tool). A verification
that was started before a promotion recreates an empty `.incoming/<operation>` afterwards.

## Not modelled, and the plan

Abstracted inside the modelled parts: JSON layout, hashes and path checks (a file is
valid or it is not), the docker command line and image probes, the ASN.1 of the
control and of the indications, log text, the collector's debug print, and its
`wait_idle` and `snapshot` calls, which only tests make. In `SequenceSupervisor` the
floating-point thresholds of the stationarity decision are an arbitrary verdict; in
`ReceiverPipeline` they are exact integer comparisons. There the syntax of a line is its
shape (complete interval, possible terminal line, anything else), and the provenance
blocks of the canonical rows are left out. `T2OneShot` leaves the content of policies,
observations and readiness reports to a verdict. `ExperimentTransaction` keeps the
immutable identities as one value and timestamps as order. `EvidenceRetention` leaves
out modes, owners, and the ssh transport.

Planned next, in this order:

1. `TriggerPipeline`: `SequenceSupervisor` and `RatioReader` composed over the FIFO and
   the ratio-bindings directory, with the end-to-end promise of `ExactlyOnceActuation`.
2. `AtomicPrestart`: prestart guard and atomic prestart of the T2 run, before the tools
   of `T2OneShot`.
3. `TrafficSession`: the traps of `harness/adapters/prompt12-bounded-traffic-session.sh`, its
   detached receiver container, and the SIGKILL of the supervisor's
   `terminate_process` five seconds after its SIGTERM, which may meet a cleanup
   that needs longer.
4. `HarnessRun`: phases, traps and finalization of `run-experiment.sh`; the
   six-transition orchestrator's append-only state; stale-runtime retirement beside a
   live provider.
5. `LifecycleOperation`: the lifecycle command and its lock.

Theorem worth adding: the refinement of `ExactlyOnceActuation` by that composition.

Left out for good: the adjudicators and the Parquet conversion (sequential, over finished
files), argument and plan materializers (one JSON in, one JSON out), read-only
diagnostics, preflight lists, image builds and deployment files, schemas and data.
