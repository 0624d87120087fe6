-------------------------- MODULE ProviderAdmission --------------------------
(***************************************************************************)
(* How a prearmed actuator provider comes up and goes down in one allocated *)
(* runtime root.                                                            *)
(*                                                                          *)
(*   launcher l  starts manager l in a session of its own and waits for     *)
(*               provider-admission.json; on any failure it terminates its  *)
(*               manager (SIGTERM, two seconds, SIGKILL)                    *)
(*   manager l   creates the runtime root and the FIFO exclusively, starts  *)
(*               child l (the reader of module RatioReader), waits until    *)
(*               the child has the FIFO open, writes the admission and      *)
(*               watches the child                                          *)
(*   cleanup     reads the admission and terminates exactly that child      *)
(*                                                                          *)
(* A launch is named by its launcher. Nothing stops an operator from        *)
(* launching the same allocation twice. The admission file is visible from  *)
(* its open("x") on, and complete only when it is written. SIGTERM only     *)
(* sets a flag in the manager, so a slow manager meets the SIGKILL of its   *)
(* launcher; SIGKILL ends a process at once.                                *)
(***************************************************************************)
EXTENDS Naturals, FiniteSets

CONSTANTS
  Launches,  \* launches of the one allocation
  None

ASSUME LaunchAssumption ==
  None \notin Launches \cup [by : Launches, complete : BOOLEAN]

LauncherPc == {"none", "spawn", "wait", "read", "verify", "record", "kill",
               "killwait", "ok", "failed", "crashed"}
ManagerPc == {"none", "boot", "check", "mkdir", "mkfifo", "popen", "ready",
              "admit", "admitting", "monitor", "stop", "stopkill", "note",
              "exited", "killed", "lost"}
ChildPc == {"none", "starting", "reading", "dead"}
CleanupPc == {"none", "assert", "term", "reassert", "done", "failed"}

VARIABLES
  lpc,        \* lpc[l]: the launcher
  mpc,        \* mpc[l]: its manager
  sig,        \* managers with _termination_signal set
  failing,    \* failing[l]: the manager is in its except branch
  cpc,        \* cpc[l]: the child of manager l
  root,       \* the manager that created the runtime root
  fifo,       \* the FIFO exists
  admission,  \* provider-admission.json: [by, complete]
  failure,    \* provider-failure.json: the manager that wrote it
  record,     \* record[l]: the provider named in l's launcher record
  clean       \* the cleanup command

launcherVars == <<lpc, record>>
rootVars == <<root, fifo, admission, failure>>
vars == <<launcherVars, mpc, sig, failing, cpc, rootVars, clean>>

Gone(l) == mpc[l] \in {"exited", "killed", "lost"}
ChildAlive(l) == cpc[l] \in {"starting", "reading"}

\* provider-admission.json parses.
Admitted == IF admission = None THEN FALSE ELSE admission.complete

Init ==
  /\ lpc = [l \in Launches |-> "none"]
  /\ mpc = [l \in Launches |-> "none"]
  /\ sig = {}
  /\ failing = [l \in Launches |-> FALSE]
  /\ cpc = [l \in Launches |-> "none"]
  /\ root = None
  /\ fifo = FALSE
  /\ admission = None
  /\ failure = None
  /\ record = [l \in Launches |-> None]
  /\ clean = "none"

-----------------------------------------------------------------------------
(* The launcher.                                                            *)

Launcher(l, pc) ==
  /\ lpc' = [lpc EXCEPT ![l] = pc]
  /\ UNCHANGED <<failing, cpc, rootVars, clean>>

\* validate_allocation and the other inputs: the runtime root must be absent.
LaunchStart(l) ==
  /\ lpc[l] = "none"
  /\ \/ root = None /\ Launcher(l, "spawn")
     \/ Launcher(l, "failed")
  /\ UNCHANGED <<mpc, sig, record>>

\* Popen of the manager.
LaunchSpawn(l) ==
  /\ lpc[l] = "spawn"
  /\ Launcher(l, "wait")
  /\ mpc' = [mpc EXCEPT ![l] = "boot"]
  /\ UNCHANGED <<sig, record>>

\* Mutant: the loop polls neither the manager nor the clock.
SeeAdmissionForever(l) ==
  /\ lpc[l] = "wait"
  /\ admission # None
  /\ Launcher(l, "read")
  /\ UNCHANGED <<mpc, sig, record>>

\* The wait loop ends when the admission is a file, complete or not, or
\* without one: the manager is gone or the deadline is over.
SeeAdmission(l) ==
  /\ lpc[l] = "wait"
  /\ \/ admission # None /\ Launcher(l, "read")
     \/ admission = None /\ Launcher(l, "kill")
  /\ UNCHANGED <<mpc, sig, record>>

\* validate_admission: the JSON parses, the process it names exists (a zombie
\* until its manager reaps it) and the FIFO is there.
ReadAdmission(l) ==
  /\ lpc[l] = "read"
  /\ \/ admission.complete /\ ~Gone(admission.by) /\ Launcher(l, "verify")
     \/ admission.complete /\ ChildAlive(admission.by) /\ Launcher(l, "verify")
     \/ ~admission.complete /\ Launcher(l, "kill")
     \/ ~ChildAlive(admission.by) /\ Launcher(l, "kill")
  /\ UNCHANGED <<mpc, sig, record>>

\* PROVIDER_MANAGER_EXITED_AFTER_ADMISSION
VerifyManager(l) ==
  /\ lpc[l] = "verify"
  /\ Launcher(l, IF Gone(l) THEN "kill" ELSE "record")
  /\ UNCHANGED <<mpc, sig, record>>

\* The launcher record names the admitted provider and the launcher exits.
\* Writing it, or printing it afterwards, may fail.
WriteRecord(l) ==
  /\ lpc[l] = "record"
  /\ \/ Launcher(l, "kill") /\ UNCHANGED record
     \/ /\ Launcher(l, "ok") \/ Launcher(l, "kill")
        /\ record' = [record EXCEPT ![l] = admission.by]
  /\ UNCHANGED <<mpc, sig>>

\* terminate_manager. Before the handler is installed SIGTERM is fatal.
TerminateManager(l) ==
  /\ lpc[l] = "kill"
  /\ IF Gone(l) \/ mpc[l] = "boot"
     THEN /\ Launcher(l, "failed")
          /\ mpc' = [mpc EXCEPT ![l] = IF @ = "boot" THEN "killed" ELSE @]
          /\ UNCHANGED sig
     ELSE /\ Launcher(l, "killwait")
          /\ sig' = sig \cup {l}
          /\ UNCHANGED mpc
  /\ UNCHANGED record

\* Mutant: the launcher gives up after two seconds.
KillWaitPatient(l) ==
  /\ lpc[l] = "killwait"
  /\ Launcher(l, "failed")
  /\ UNCHANGED <<mpc, sig, record>>

\* The manager ended within two seconds, or is killed.
KillWait(l) ==
  /\ lpc[l] = "killwait"
  /\ Launcher(l, "failed")
  /\ mpc' = [mpc EXCEPT ![l] = IF Gone(l) THEN @ ELSE "killed"]
  /\ UNCHANGED <<sig, record>>

\* The launcher itself is killed.
LauncherKilled(l) ==
  /\ lpc[l] \notin {"none", "ok", "failed", "crashed"}
  /\ Launcher(l, "crashed")
  /\ UNCHANGED <<mpc, sig, record>>

LauncherStep(l) ==
  \/ LaunchSpawn(l) \/ SeeAdmission(l) \/ ReadAdmission(l) \/ VerifyManager(l)
  \/ WriteRecord(l) \/ TerminateManager(l) \/ KillWait(l)

-----------------------------------------------------------------------------
(* The manager.                                                             *)

Manager(l, pc) ==
  /\ mpc' = [mpc EXCEPT ![l] = pc]
  /\ UNCHANGED <<launcherVars, sig, clean>>

\* The except branch: the child is terminated before the failure is recorded.
Abort(l) == Manager(l, "stop") /\ failing' = [failing EXCEPT ![l] = TRUE]

ManagerBoot(l) ==
  /\ mpc[l] = "boot"
  /\ Manager(l, "check")
  /\ UNCHANGED <<failing, cpc, rootVars>>

\* validate_run: a runtime root that exists is refused without a record.
ManagerCheck(l) ==
  /\ mpc[l] = "check"
  /\ \/ root = None /\ Manager(l, "mkdir")
     \/ Manager(l, "exited")
  /\ UNCHANGED <<failing, cpc, rootVars>>

\* Mutant: mkdir(exist_ok=True).
ManagerMkdirShared(l) ==
  /\ mpc[l] = "mkdir"
  /\ Manager(l, "mkfifo")
  /\ root' = l
  /\ UNCHANGED <<failing, cpc, fifo, admission, failure>>

\* The exclusive mkdir decides which manager owns the root; the chmod after
\* it may fail.
ManagerMkdir(l) ==
  /\ mpc[l] = "mkdir"
  /\ \/ root = None /\ Manager(l, "mkfifo") /\ root' = l /\ UNCHANGED failing
     \/ Abort(l) /\ root' \in {root, IF root = None THEN l ELSE root}
  /\ UNCHANGED <<cpc, fifo, admission, failure>>

\* mkfifo, its chmod and the log files.
ManagerMkfifo(l) ==
  /\ mpc[l] = "mkfifo"
  /\ \/ Manager(l, "popen") /\ fifo' = TRUE /\ UNCHANGED failing
     \/ Abort(l) /\ fifo' \in {fifo, TRUE}
  /\ UNCHANGED <<cpc, root, admission, failure>>

\* Popen of the reader.
ManagerPopen(l) ==
  /\ mpc[l] = "popen"
  /\ \/ /\ Manager(l, "ready")
        /\ cpc' = [cpc EXCEPT ![l] = "starting"]
        /\ UNCHANGED failing
     \/ Abort(l) /\ UNCHANGED cpc
  /\ UNCHANGED rootVars

\* Mutant: readiness is taken from the process, not from the FIFO.
ManagerReadyEarly(l) ==
  /\ mpc[l] = "ready"
  /\ \/ /\ l \notin sig /\ ChildAlive(l)
        /\ Manager(l, "admit") /\ UNCHANGED failing
     \/ Abort(l)
  /\ UNCHANGED <<cpc, rootVars>>

\* The readiness loop: the non-blocking open succeeds when the child reads;
\* a signal, a dead child or the deadline end it.
ManagerReady(l) ==
  /\ mpc[l] = "ready"
  /\ \/ /\ l \notin sig /\ cpc[l] = "reading"
        /\ Manager(l, "admit") /\ UNCHANGED failing
     \/ Abort(l)
  /\ UNCHANGED <<cpc, rootVars>>

\* write_json_exclusive of the admission: open("x") ...
AdmissionOpen(l) ==
  /\ mpc[l] = "admit"
  /\ \/ /\ admission = None
        /\ admission' = [by |-> l, complete |-> FALSE]
        /\ Manager(l, "admitting")
        /\ UNCHANGED failing
     \/ Abort(l) /\ UNCHANGED admission
  /\ UNCHANGED <<cpc, root, fifo, failure>>

\* ... then the text, flush, fsync and the copy to stdout.
AdmissionWrite(l) ==
  /\ mpc[l] = "admitting"
  /\ \/ /\ admission' = [by |-> l, complete |-> TRUE]
        /\ Manager(l, "monitor")
        /\ UNCHANGED failing
     \/ /\ Abort(l)
        /\ admission' \in {admission, [by |-> l, complete |-> TRUE]}
  /\ UNCHANGED <<cpc, root, fifo, failure>>

\* Mutant: a signalled manager returns without terminating its child.
ManagerMonitorLeaves(l) ==
  /\ mpc[l] = "monitor"
  /\ l \in sig \/ ~ChildAlive(l)
  /\ Manager(l, "exited")
  /\ UNCHANGED <<failing, cpc, rootVars>>

\* The monitor loop: return when the child is gone, stop it on a signal.
ManagerMonitor(l) ==
  /\ mpc[l] = "monitor"
  /\ \/ ~ChildAlive(l) /\ Manager(l, "exited")
     \/ l \in sig /\ Manager(l, "stop")
  /\ UNCHANGED <<failing, cpc, rootVars>>

AfterStop(l) == IF failing[l] THEN "note" ELSE "exited"

\* terminate_exact_process_group: SIGTERM, which the child obeys or not ...
StopTerm(l) ==
  /\ mpc[l] = "stop"
  /\ \/ /\ Manager(l, AfterStop(l))
        /\ cpc' = [cpc EXCEPT ![l] = IF @ = "none" THEN @ ELSE "dead"]
     \/ ChildAlive(l) /\ Manager(l, "stopkill") /\ UNCHANGED cpc
  /\ UNCHANGED <<failing, rootVars>>

\* ... and after two seconds SIGKILL.
StopKill(l) ==
  /\ mpc[l] = "stopkill"
  /\ Manager(l, AfterStop(l))
  /\ cpc' = [cpc EXCEPT ![l] = "dead"]
  /\ UNCHANGED <<failing, rootVars>>

\* failure_record: exclusive, in whatever directory is at the path.
ManagerNote(l) ==
  /\ mpc[l] = "note"
  /\ Manager(l, "exited")
  /\ failure' = IF root # None /\ failure = None THEN l ELSE failure
  /\ UNCHANGED <<failing, cpc, root, fifo, admission>>

\* SIGTERM or SIGINT from outside; fatal until the handler is installed.
ManagerSignalled(l) ==
  /\ mpc[l] # "none" /\ ~Gone(l)
  /\ IF mpc[l] = "boot"
     THEN mpc' = [mpc EXCEPT ![l] = "killed"] /\ UNCHANGED sig
     ELSE sig' = sig \cup {l} /\ UNCHANGED mpc
  /\ UNCHANGED <<launcherVars, failing, cpc, rootVars, clean>>

\* SIGKILL from outside, or out of memory.
ManagerLost(l) ==
  /\ mpc[l] # "none" /\ ~Gone(l)
  /\ Manager(l, "lost")
  /\ UNCHANGED <<failing, cpc, rootVars>>

ManagerStep(l) ==
  \/ ManagerBoot(l) \/ ManagerCheck(l) \/ ManagerMkdir(l) \/ ManagerMkfifo(l)
  \/ ManagerPopen(l) \/ ManagerReady(l) \/ AdmissionOpen(l)
  \/ AdmissionWrite(l) \/ ManagerMonitor(l) \/ StopTerm(l) \/ StopKill(l)
  \/ ManagerNote(l)

-----------------------------------------------------------------------------
(* The child and the cleanup.                                               *)

Child(l, pc) ==
  /\ cpc' = [cpc EXCEPT ![l] = pc]
  /\ UNCHANGED <<launcherVars, mpc, sig, failing, rootVars>>

\* run_reader opens the FIFO.
ChildOpens(l) ==
  /\ cpc[l] = "starting"
  /\ Child(l, "reading")
  /\ UNCHANGED clean

\* The reader ends by itself.
ChildEnds(l) ==
  /\ ChildAlive(l)
  /\ Child(l, "dead")
  /\ UNCHANGED clean

CleanupGoto(pc) ==
  /\ clean' = pc
  /\ UNCHANGED <<launcherVars, mpc, sig, failing, rootVars>>

\* load_admission of a new cleanup
CleanupLoad ==
  /\ clean \in {"none", "done", "failed"}
  /\ CleanupGoto(IF Admitted THEN "assert" ELSE "failed")
  /\ UNCHANGED cpc

\* assert_exact_process, then SIGTERM of its group.
CleanupAssert ==
  /\ clean = "assert"
  /\ \/ /\ ChildAlive(admission.by)
        /\ CleanupGoto("term")
        /\ \/ cpc' = [cpc EXCEPT ![admission.by] = "dead"]
           \/ UNCHANGED cpc
     \/ ~ChildAlive(admission.by) /\ CleanupGoto("failed") /\ UNCHANGED cpc

\* wait_until_gone
CleanupWait ==
  /\ clean = "term"
  /\ CleanupGoto(IF ChildAlive(admission.by) THEN "reassert" ELSE "done")
  /\ UNCHANGED cpc

\* The identity is asserted again before SIGKILL.
CleanupKill ==
  /\ clean = "reassert"
  /\ IF ChildAlive(admission.by)
     THEN CleanupGoto("done") /\ cpc' = [cpc EXCEPT ![admission.by] = "dead"]
     ELSE CleanupGoto("failed") /\ UNCHANGED cpc

CleanupStep == CleanupAssert \/ CleanupWait \/ CleanupKill

Next ==
  \/ \E l \in Launches :
       \/ LaunchStart(l) \/ LauncherStep(l) \/ LauncherKilled(l)
       \/ ManagerStep(l) \/ ManagerSignalled(l) \/ ManagerLost(l)
       \/ ChildOpens(l) \/ ChildEnds(l)
  \/ CleanupLoad \/ CleanupStep

Spec == Init /\ [][Next]_vars

\* The launcher and the manager of launch l are scheduled and their timeouts
\* expire. Nothing is assumed of the readers, the cleanup or other launches.
LaunchFairness(l) == WF_vars(LauncherStep(l)) /\ WF_vars(ManagerStep(l))

-----------------------------------------------------------------------------
(* Properties.                                                              *)

\* Every variable stays in its type.
TypeOK ==
  /\ lpc \in [Launches -> LauncherPc]
  /\ mpc \in [Launches -> ManagerPc]
  /\ sig \subseteq Launches
  /\ failing \in [Launches -> BOOLEAN]
  /\ cpc \in [Launches -> ChildPc]
  /\ root \in Launches \cup {None}
  /\ fifo \in BOOLEAN
  /\ admission \in [by : Launches, complete : BOOLEAN] \cup {None}
  /\ failure \in Launches \cup {None}
  /\ record \in [Launches -> Launches \cup {None}]
  /\ clean \in CleanupPc

\* Whatever is launched, killed or signalled, one allocation has at most one
\* reader, a child of the manager that created the root.
OneReader == \A l \in Launches : cpc[l] # "none" => root = l

\* The programs leave a reader without a manager in one way only: the launcher
\* killed a manager that needed more than two seconds to end its reader, and
\* reports failure. A manager that ends by itself, whatever it was told and
\* wherever it failed, leaves none; one that is killed from outside may.
NoOrphan ==
  \A l \in Launches :
    Gone(l) /\ ChildAlive(l) =>
      mpc[l] = "lost" \/ (mpc[l] = "killed" /\ lpc[l] = "failed")

\* An admission is of a child that had the FIFO open, and a launcher record
\* names the provider of a complete admission.
AdmittedWasReading ==
  /\ admission # None => cpc[admission.by] \in {"reading", "dead"}
  /\ \A l \in Launches : record[l] # None =>
       Admitted /\ record[l] = admission.by

\* A cleanup that reports success has ended the admitted reader, the only one
\* the root had, and the root, its FIFO and its admission are preserved.
CleanupDone ==
  clean = "done" => /\ Admitted
                    /\ \A l \in Launches : ~ChildAlive(l)
                    /\ root = admission.by
                    /\ fifo

\* A launcher that reports failure leaves no manager running, whatever the
\* manager was doing when it was terminated.
FailureEndsManager ==
  \A l \in Launches : lpc[l] = "failed" => mpc[l] = "none" \/ Gone(l)

\* Every launch ends: with a record, with a failure or with a dead launcher.
LaunchEnds(l) == (lpc[l] = "spawn") ~> (lpc[l] \in {"ok", "failed", "crashed"})

\* A reader that dies, before its admission or after it, does not keep its
\* manager up.
ManagerFollows(l) == (cpc[l] = "dead") ~> Gone(l)

\* Does not hold (README, Divergences).
\* "MANAGER_SURVIVES_LAUNCHER_EXIT_AFTER_ADMISSION=YES": a launcher that sees
\* the admission of its own healthy manager does not terminate it.
AcceptsItsProvider ==
  [][\A l \in Launches :
       lpc[l] = "read" /\ lpc'[l] = "kill" =>
         ~(/\ admission.by = l
           /\ mpc[l] \in {"admitting", "monitor"}
           /\ l \notin sig
           /\ cpc[l] = "reading")]_vars
=============================================================================
