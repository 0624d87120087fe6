----------------------- MODULE ProviderAdmissionProofs -----------------------
(***************************************************************************)
(* Proofs about ProviderAdmission for any number of launches of one         *)
(* allocation. Everything rests on who owns the root (Ownership): only the  *)
(* manager that created it gets past the mkdir, so only its child exists.   *)
(***************************************************************************)
EXTENDS ProviderAdmission, TLAPS

Before == {"none", "boot", "check", "mkdir", "mkfifo", "popen"}
Owning == {"mkfifo", "popen", "ready", "admit", "admitting", "monitor"}

\* A manager past its mkdir owns the root, and its child reads from the FIFO
\* in it.
Ownership ==
  \A l \in Launches : /\ mpc[l] \in Owning => root = l
                      /\ mpc[l] = "popen" => fifo
                      /\ cpc[l] # "none" => root = l /\ fifo

\* A manager has no child before its Popen, and none alive when it is done,
\* unless its launcher killed it and failed.
Children ==
  \A l \in Launches : /\ mpc[l] \in Before => cpc[l] = "none"
                      /\ mpc[l] \in {"note", "exited"} => ~ChildAlive(l)
                      /\ mpc[l] = "killed" /\ ChildAlive(l) => lpc[l] = "failed"
                      /\ mpc[l] = "stopkill" => cpc[l] # "none"

\* What the manager has seen when it writes the admission, and what its
\* readers know.
Admissions ==
  /\ \A l \in Launches :
       /\ mpc[l] \in {"admit", "admitting"} => cpc[l] \in {"reading", "dead"}
       /\ mpc[l] = "admitting" => admission # None /\ admission.by = l
       /\ lpc[l] = "read" => admission # None
       /\ lpc[l] \in {"verify", "record"} => Admitted
  /\ AdmittedWasReading

\* The manager of a launcher that failed is gone, of one that has not spawned
\* it is not there.
Ends ==
  /\ \A l \in Launches : lpc[l] \in {"none", "spawn"} => mpc[l] = "none"
  /\ FailureEndsManager

\* A running cleanup has a complete admission.
Cleaning ==
  /\ clean \in {"assert", "term", "reassert"} => Admitted
  /\ CleanupDone

AdmissionInv ==
  TypeOK /\ Ownership /\ Children /\ Admissions /\ Ends /\ Cleaning

\* What write_json_exclusive leaves in the file is an admission.
LEMMA FreshAdmission ==
  ASSUME NEW l \in Launches, NEW done \in BOOLEAN
  PROVE  /\ [by |-> l, complete |-> done] \in [by : Launches, complete : BOOLEAN]
         /\ [by |-> l, complete |-> done] # None
BY LaunchAssumption

\* The initial state satisfies the invariant.
LEMMA AdmissionInit == Init => AdmissionInv
BY LaunchAssumption
   DEF Init, AdmissionInv, TypeOK, Ownership, Children, Admissions, Ends,
       Cleaning, AdmittedWasReading, FailureEndsManager, CleanupDone,
       ChildAlive, Gone, Admitted, Before, Owning, LauncherPc, ManagerPc,
       ChildPc, CleanupPc


\* LaunchStart preserves the invariant.
LEMMA KeepLaunchStart ==
  ASSUME NEW l \in Launches, AdmissionInv, LaunchStart(l) PROVE AdmissionInv'
<1> USE LaunchAssumption DEF AdmissionInv
<1>1. TypeOK'
  BY DEF LaunchStart, Launcher, launcherVars, rootVars, TypeOK, LauncherPc,
     ManagerPc, ChildPc, CleanupPc, Gone, Admissions, ChildAlive
<1>2. Ownership'
  BY <1>1 DEF LaunchStart, Launcher, launcherVars, rootVars, Ownership,
     Owning, TypeOK, ChildAlive
<1>3. Children'
  BY <1>1 DEF LaunchStart, Launcher, launcherVars, rootVars, Children, Before,
     ChildAlive, TypeOK
<1>4. Admissions'
  BY <1>1 DEF LaunchStart, Launcher, launcherVars, rootVars, Admissions,
     AdmittedWasReading, Admitted, ChildAlive, TypeOK
<1>5. Ends'
  BY <1>1 DEF LaunchStart, Launcher, launcherVars, rootVars, Ends,
     FailureEndsManager, Gone, TypeOK
<1>6. Cleaning'
  BY <1>1 DEF LaunchStart, Launcher, launcherVars, rootVars, Cleaning,
     CleanupDone, Admitted, ChildAlive, TypeOK
<1> QED
  BY <1>1, <1>2, <1>3, <1>4, <1>5, <1>6

\* LaunchSpawn preserves the invariant.
LEMMA KeepLaunchSpawn ==
  ASSUME NEW l \in Launches, AdmissionInv, LaunchSpawn(l) PROVE AdmissionInv'
<1> USE LaunchAssumption DEF AdmissionInv
<1>1. TypeOK'
  BY DEF LaunchSpawn, Launcher, launcherVars, rootVars, TypeOK, LauncherPc,
     ManagerPc, ChildPc, CleanupPc, Gone, Admissions, ChildAlive
<1>2. Ownership'
  BY <1>1 DEF LaunchSpawn, Launcher, launcherVars, rootVars, Ownership,
     Owning, TypeOK, ChildAlive
<1>3. Children'
  BY <1>1 DEF LaunchSpawn, Launcher, launcherVars, rootVars, Children, Before,
     ChildAlive, TypeOK, Ends
<1>4. Admissions'
  BY <1>1 DEF LaunchSpawn, Launcher, launcherVars, rootVars, Admissions,
     AdmittedWasReading, Admitted, ChildAlive, TypeOK
<1>5. Ends'
  BY <1>1 DEF LaunchSpawn, Launcher, launcherVars, rootVars, Ends,
     FailureEndsManager, Gone, TypeOK
<1>6. Cleaning'
  BY <1>1 DEF LaunchSpawn, Launcher, launcherVars, rootVars, Cleaning,
     CleanupDone, Admitted, ChildAlive, TypeOK
<1> QED
  BY <1>1, <1>2, <1>3, <1>4, <1>5, <1>6

\* SeeAdmission preserves the invariant.
LEMMA KeepSeeAdmission ==
  ASSUME NEW l \in Launches, AdmissionInv, SeeAdmission(l) PROVE AdmissionInv'
<1> USE LaunchAssumption DEF AdmissionInv
<1>1. TypeOK'
  BY DEF SeeAdmission, Launcher, launcherVars, rootVars, TypeOK, LauncherPc,
     ManagerPc, ChildPc, CleanupPc, Gone, Admissions, ChildAlive
<1>2. Ownership'
  BY <1>1 DEF SeeAdmission, Launcher, launcherVars, rootVars, Ownership,
     Owning, TypeOK, ChildAlive
<1>3. Children'
  BY <1>1 DEF SeeAdmission, Launcher, launcherVars, rootVars, Children,
     Before, ChildAlive, TypeOK
<1>4. Admissions'
  BY <1>1 DEF SeeAdmission, Launcher, launcherVars, rootVars, Admissions,
     AdmittedWasReading, Admitted, ChildAlive, TypeOK
<1>5. Ends'
  BY <1>1 DEF SeeAdmission, Launcher, launcherVars, rootVars, Ends,
     FailureEndsManager, Gone, TypeOK
<1>6. Cleaning'
  BY <1>1 DEF SeeAdmission, Launcher, launcherVars, rootVars, Cleaning,
     CleanupDone, Admitted, ChildAlive, TypeOK
<1> QED
  BY <1>1, <1>2, <1>3, <1>4, <1>5, <1>6

\* ReadAdmission preserves the invariant.
LEMMA KeepReadAdmission ==
  ASSUME NEW l \in Launches, AdmissionInv, ReadAdmission(l) PROVE AdmissionInv'
<1> USE LaunchAssumption DEF AdmissionInv
<1>1. TypeOK'
  BY DEF ReadAdmission, Launcher, launcherVars, rootVars, TypeOK, LauncherPc,
     ManagerPc, ChildPc, CleanupPc, Gone, Admissions, ChildAlive
<1>2. Ownership'
  BY <1>1 DEF ReadAdmission, Launcher, launcherVars, rootVars, Ownership,
     Owning, TypeOK, ChildAlive
<1>3. Children'
  BY <1>1 DEF ReadAdmission, Launcher, launcherVars, rootVars, Children,
     Before, ChildAlive, TypeOK
<1>4. Admissions'
  BY <1>1 DEF ReadAdmission, Launcher, launcherVars, rootVars, Admissions,
     AdmittedWasReading, Admitted, ChildAlive, TypeOK
<1>5. Ends'
  BY <1>1 DEF ReadAdmission, Launcher, launcherVars, rootVars, Ends,
     FailureEndsManager, Gone, TypeOK
<1>6. Cleaning'
  BY <1>1 DEF ReadAdmission, Launcher, launcherVars, rootVars, Cleaning,
     CleanupDone, Admitted, ChildAlive, TypeOK
<1> QED
  BY <1>1, <1>2, <1>3, <1>4, <1>5, <1>6

\* VerifyManager preserves the invariant.
LEMMA KeepVerifyManager ==
  ASSUME NEW l \in Launches, AdmissionInv, VerifyManager(l) PROVE AdmissionInv'
<1> USE LaunchAssumption DEF AdmissionInv
<1>1. TypeOK'
  BY DEF VerifyManager, Launcher, launcherVars, rootVars, TypeOK, LauncherPc,
     ManagerPc, ChildPc, CleanupPc, Gone, Admissions, ChildAlive
<1>2. Ownership'
  BY <1>1 DEF VerifyManager, Launcher, launcherVars, rootVars, Ownership,
     Owning, TypeOK, ChildAlive
<1>3. Children'
  BY <1>1 DEF VerifyManager, Launcher, launcherVars, rootVars, Children,
     Before, ChildAlive, TypeOK
<1>4. Admissions'
  BY <1>1 DEF VerifyManager, Launcher, launcherVars, rootVars, Admissions,
     AdmittedWasReading, Admitted, ChildAlive, TypeOK
<1>5. Ends'
  BY <1>1 DEF VerifyManager, Launcher, launcherVars, rootVars, Ends,
     FailureEndsManager, Gone, TypeOK
<1>6. Cleaning'
  BY <1>1 DEF VerifyManager, Launcher, launcherVars, rootVars, Cleaning,
     CleanupDone, Admitted, ChildAlive, TypeOK
<1> QED
  BY <1>1, <1>2, <1>3, <1>4, <1>5, <1>6

\* WriteRecord preserves the invariant.
LEMMA KeepWriteRecord ==
  ASSUME NEW l \in Launches, AdmissionInv, WriteRecord(l) PROVE AdmissionInv'
<1> USE LaunchAssumption DEF AdmissionInv
<1>0. admission.by \in Launches
  BY DEF WriteRecord, Admissions, Admitted, TypeOK
<1>1. TypeOK'
  BY <1>0 DEF WriteRecord, Launcher, launcherVars, rootVars, TypeOK,
     LauncherPc, ManagerPc, ChildPc, CleanupPc, Gone, Admissions, ChildAlive
<1>2. Ownership'
  BY <1>0, <1>1 DEF WriteRecord, Launcher, launcherVars, rootVars, Ownership,
     Owning, TypeOK, ChildAlive
<1>3. Children'
  BY <1>0, <1>1 DEF WriteRecord, Launcher, launcherVars, rootVars, Children,
     Before, ChildAlive, TypeOK
<1>4. Admissions'
  BY <1>0, <1>1 DEF WriteRecord, Launcher, launcherVars, rootVars, Admissions,
     AdmittedWasReading, Admitted, ChildAlive, TypeOK
<1>5. Ends'
  BY <1>0, <1>1 DEF WriteRecord, Launcher, launcherVars, rootVars, Ends,
     FailureEndsManager, Gone, TypeOK
<1>6. Cleaning'
  BY <1>0, <1>1 DEF WriteRecord, Launcher, launcherVars, rootVars, Cleaning,
     CleanupDone, Admitted, ChildAlive, TypeOK
<1> QED
  BY <1>1, <1>2, <1>3, <1>4, <1>5, <1>6

\* TerminateManager preserves the invariant.
LEMMA KeepTerminateManager ==
  ASSUME NEW l \in Launches, AdmissionInv, TerminateManager(l) PROVE AdmissionInv'
<1> USE LaunchAssumption DEF AdmissionInv
<1>1. TypeOK'
  BY DEF TerminateManager, Launcher, launcherVars, rootVars, TypeOK,
     LauncherPc, ManagerPc, ChildPc, CleanupPc, Gone, Admissions, ChildAlive
<1>2. Ownership'
  BY <1>1 DEF TerminateManager, Launcher, launcherVars, rootVars, Ownership,
     Owning, TypeOK, ChildAlive
<1>3. Children'
  BY <1>1 DEF TerminateManager, Launcher, launcherVars, rootVars, Children,
     Before, ChildAlive, TypeOK
<1>4. Admissions'
  BY <1>1 DEF TerminateManager, Launcher, launcherVars, rootVars, Admissions,
     AdmittedWasReading, Admitted, ChildAlive, TypeOK
<1>5. Ends'
  BY <1>1 DEF TerminateManager, Launcher, launcherVars, rootVars, Ends,
     FailureEndsManager, Gone, TypeOK
<1>6. Cleaning'
  BY <1>1 DEF TerminateManager, Launcher, launcherVars, rootVars, Cleaning,
     CleanupDone, Admitted, ChildAlive, TypeOK
<1> QED
  BY <1>1, <1>2, <1>3, <1>4, <1>5, <1>6

\* KillWait preserves the invariant.
LEMMA KeepKillWait ==
  ASSUME NEW l \in Launches, AdmissionInv, KillWait(l) PROVE AdmissionInv'
<1> USE LaunchAssumption DEF AdmissionInv
<1>1. TypeOK'
  BY DEF KillWait, Launcher, launcherVars, rootVars, TypeOK, LauncherPc,
     ManagerPc, ChildPc, CleanupPc, Gone, Admissions, ChildAlive
<1>2. Ownership'
  BY <1>1 DEF KillWait, Launcher, launcherVars, rootVars, Ownership, Owning,
     TypeOK, ChildAlive
<1>3. Children'
  BY <1>1 DEF KillWait, Launcher, launcherVars, rootVars, Children, Before,
     ChildAlive, TypeOK
<1>4. Admissions'
  BY <1>1 DEF KillWait, Launcher, launcherVars, rootVars, Admissions,
     AdmittedWasReading, Admitted, ChildAlive, TypeOK
<1>5. Ends'
  BY <1>1 DEF KillWait, Launcher, launcherVars, rootVars, Ends,
     FailureEndsManager, Gone, TypeOK
<1>6. Cleaning'
  BY <1>1 DEF KillWait, Launcher, launcherVars, rootVars, Cleaning,
     CleanupDone, Admitted, ChildAlive, TypeOK
<1> QED
  BY <1>1, <1>2, <1>3, <1>4, <1>5, <1>6

\* LauncherKilled preserves the invariant.
LEMMA KeepLauncherKilled ==
  ASSUME NEW l \in Launches, AdmissionInv, LauncherKilled(l) PROVE AdmissionInv'
<1> USE LaunchAssumption DEF AdmissionInv
<1>1. TypeOK'
  BY DEF LauncherKilled, Launcher, launcherVars, rootVars, TypeOK,
     LauncherPc, ManagerPc, ChildPc, CleanupPc, Gone, Admissions, ChildAlive
<1>2. Ownership'
  BY <1>1 DEF LauncherKilled, Launcher, launcherVars, rootVars, Ownership,
     Owning, TypeOK, ChildAlive
<1>3. Children'
  BY <1>1 DEF LauncherKilled, Launcher, launcherVars, rootVars, Children,
     Before, ChildAlive, TypeOK
<1>4. Admissions'
  BY <1>1 DEF LauncherKilled, Launcher, launcherVars, rootVars, Admissions,
     AdmittedWasReading, Admitted, ChildAlive, TypeOK
<1>5. Ends'
  BY <1>1 DEF LauncherKilled, Launcher, launcherVars, rootVars, Ends,
     FailureEndsManager, Gone, TypeOK
<1>6. Cleaning'
  BY <1>1 DEF LauncherKilled, Launcher, launcherVars, rootVars, Cleaning,
     CleanupDone, Admitted, ChildAlive, TypeOK
<1> QED
  BY <1>1, <1>2, <1>3, <1>4, <1>5, <1>6

\* ManagerBoot preserves the invariant.
LEMMA KeepManagerBoot ==
  ASSUME NEW l \in Launches, AdmissionInv, ManagerBoot(l) PROVE AdmissionInv'
<1> USE LaunchAssumption DEF AdmissionInv
<1>1. TypeOK'
  BY DEF ManagerBoot, Manager, launcherVars, rootVars, TypeOK, LauncherPc,
     ManagerPc, ChildPc, CleanupPc, Gone, Admissions, ChildAlive
<1>2. Ownership'
  BY <1>1 DEF ManagerBoot, Manager, launcherVars, rootVars, Ownership, Owning,
     TypeOK, ChildAlive
<1>3. Children'
  BY <1>1 DEF ManagerBoot, Manager, launcherVars, rootVars, Children, Before,
     ChildAlive, TypeOK
<1>4. Admissions'
  BY <1>1 DEF ManagerBoot, Manager, launcherVars, rootVars, Admissions,
     AdmittedWasReading, Admitted, ChildAlive, TypeOK
<1>5. Ends'
  BY <1>1 DEF ManagerBoot, Manager, launcherVars, rootVars, Ends,
     FailureEndsManager, Gone, TypeOK
<1>6. Cleaning'
  BY <1>1 DEF ManagerBoot, Manager, launcherVars, rootVars, Cleaning,
     CleanupDone, Admitted, ChildAlive, TypeOK, Ownership, Admissions,
     AdmittedWasReading, Children, Before, Owning
<1> QED
  BY <1>1, <1>2, <1>3, <1>4, <1>5, <1>6

\* ManagerCheck preserves the invariant.
LEMMA KeepManagerCheck ==
  ASSUME NEW l \in Launches, AdmissionInv, ManagerCheck(l) PROVE AdmissionInv'
<1> USE LaunchAssumption DEF AdmissionInv
<1>1. TypeOK'
  BY DEF ManagerCheck, Manager, launcherVars, rootVars, TypeOK, LauncherPc,
     ManagerPc, ChildPc, CleanupPc, Gone, Admissions, ChildAlive
<1>2. Ownership'
  BY <1>1 DEF ManagerCheck, Manager, launcherVars, rootVars, Ownership,
     Owning, TypeOK, ChildAlive
<1>3. Children'
  BY <1>1 DEF ManagerCheck, Manager, launcherVars, rootVars, Children, Before,
     ChildAlive, TypeOK
<1>4. Admissions'
  BY <1>1 DEF ManagerCheck, Manager, launcherVars, rootVars, Admissions,
     AdmittedWasReading, Admitted, ChildAlive, TypeOK
<1>5. Ends'
  BY <1>1 DEF ManagerCheck, Manager, launcherVars, rootVars, Ends,
     FailureEndsManager, Gone, TypeOK
<1>6. Cleaning'
  BY <1>1 DEF ManagerCheck, Manager, launcherVars, rootVars, Cleaning,
     CleanupDone, Admitted, ChildAlive, TypeOK, Ownership, Admissions,
     AdmittedWasReading, Children, Before, Owning
<1> QED
  BY <1>1, <1>2, <1>3, <1>4, <1>5, <1>6

\* ManagerMkdir preserves the invariant.
LEMMA KeepManagerMkdir ==
  ASSUME NEW l \in Launches, AdmissionInv, ManagerMkdir(l) PROVE AdmissionInv'
<1> USE LaunchAssumption DEF AdmissionInv
<1>1. TypeOK'
  BY DEF ManagerMkdir, Manager, Abort, launcherVars, rootVars, TypeOK,
     LauncherPc, ManagerPc, ChildPc, CleanupPc, Gone, Admissions, ChildAlive
<1>2. Ownership'
  BY <1>1 DEF ManagerMkdir, Manager, Abort, launcherVars, rootVars, Ownership,
     Owning, TypeOK, ChildAlive
<1>3. Children'
  BY <1>1 DEF ManagerMkdir, Manager, Abort, launcherVars, rootVars, Children,
     Before, ChildAlive, TypeOK
<1>4. Admissions'
  BY <1>1 DEF ManagerMkdir, Manager, Abort, launcherVars, rootVars,
     Admissions, AdmittedWasReading, Admitted, ChildAlive, TypeOK
<1>5. Ends'
  BY <1>1 DEF ManagerMkdir, Manager, Abort, launcherVars, rootVars, Ends,
     FailureEndsManager, Gone, TypeOK
<1>6. Cleaning'
  BY <1>1 DEF ManagerMkdir, Manager, Abort, launcherVars, rootVars, Cleaning,
     CleanupDone, Admitted, ChildAlive, TypeOK, Ownership, Admissions,
     AdmittedWasReading, Children, Before, Owning
<1> QED
  BY <1>1, <1>2, <1>3, <1>4, <1>5, <1>6

\* ManagerMkfifo preserves the invariant.
LEMMA KeepManagerMkfifo ==
  ASSUME NEW l \in Launches, AdmissionInv, ManagerMkfifo(l) PROVE AdmissionInv'
<1> USE LaunchAssumption DEF AdmissionInv
<1>a. /\ UNCHANGED <<lpc, cpc, record, clean, root>>
      /\ \E pc \in {"popen", "stop"} : mpc' = [mpc EXCEPT ![l] = pc]
  BY DEF ManagerMkfifo, Manager, Abort, launcherVars, rootVars
<1>b. UNCHANGED admission
  BY DEF ManagerMkfifo
<1>1. TypeOK'
  BY DEF ManagerMkfifo, Manager, Abort, launcherVars, rootVars, TypeOK,
     LauncherPc, ManagerPc, ChildPc, CleanupPc, Gone, Admissions, ChildAlive
<1>2. Ownership'
  BY <1>a, <1>b, <1>1 DEF ManagerMkfifo, Manager, Abort, launcherVars,
     rootVars, Ownership, Owning, TypeOK, ChildAlive
<1>3. Children'
  BY <1>a, <1>b, <1>1 DEF ManagerMkfifo, Manager, Abort, launcherVars,
     rootVars, Children, Before, ChildAlive, TypeOK
<1>4. Admissions'
  BY <1>a, <1>b, <1>1 DEF ManagerMkfifo, Admissions, AdmittedWasReading,
     Admitted, ChildAlive, TypeOK
<1>5. Ends'
  BY <1>a, <1>b, <1>1 DEF ManagerMkfifo, Manager, Abort, launcherVars,
     rootVars, Ends, FailureEndsManager, Gone, TypeOK
<1>6. Cleaning'
  BY <1>a, <1>b, <1>1 DEF ManagerMkfifo, Manager, Abort, launcherVars,
     rootVars, Cleaning, CleanupDone, Admitted, ChildAlive, TypeOK, Ownership,
     Admissions, AdmittedWasReading, Children, Before, Owning
<1> QED
  BY <1>1, <1>2, <1>3, <1>4, <1>5, <1>6

\* ManagerPopen preserves the invariant.
LEMMA KeepManagerPopen ==
  ASSUME NEW l \in Launches, AdmissionInv, ManagerPopen(l) PROVE AdmissionInv'
<1> USE LaunchAssumption DEF AdmissionInv
<1>1. TypeOK'
  BY DEF ManagerPopen, Manager, Abort, launcherVars, rootVars, TypeOK,
     LauncherPc, ManagerPc, ChildPc, CleanupPc, Gone, Admissions, ChildAlive
<1>2. Ownership'
  BY <1>1 DEF ManagerPopen, Manager, Abort, launcherVars, rootVars, Ownership,
     Owning, TypeOK, ChildAlive, Children, Before
<1>3. Children'
  BY <1>1 DEF ManagerPopen, Manager, Abort, launcherVars, rootVars, Children,
     Before, ChildAlive, TypeOK
<1>4. Admissions'
  BY <1>1 DEF ManagerPopen, Manager, Abort, launcherVars, rootVars,
     Admissions, AdmittedWasReading, Admitted, ChildAlive, TypeOK, Children,
     Before
<1>5. Ends'
  BY <1>1 DEF ManagerPopen, Manager, Abort, launcherVars, rootVars, Ends,
     FailureEndsManager, Gone, TypeOK
<1>6. Cleaning'
  BY <1>1 DEF ManagerPopen, Manager, Abort, launcherVars, rootVars, Cleaning,
     CleanupDone, Admitted, ChildAlive, TypeOK, Ownership, Admissions,
     AdmittedWasReading, Children, Before, Owning
<1> QED
  BY <1>1, <1>2, <1>3, <1>4, <1>5, <1>6

\* ManagerReady preserves the invariant.
LEMMA KeepManagerReady ==
  ASSUME NEW l \in Launches, AdmissionInv, ManagerReady(l) PROVE AdmissionInv'
<1> USE LaunchAssumption DEF AdmissionInv
<1>1. TypeOK'
  BY DEF ManagerReady, Manager, Abort, launcherVars, rootVars, TypeOK,
     LauncherPc, ManagerPc, ChildPc, CleanupPc, Gone, Admissions, ChildAlive
<1>2. Ownership'
  BY <1>1 DEF ManagerReady, Manager, Abort, launcherVars, rootVars, Ownership,
     Owning, TypeOK, ChildAlive
<1>3. Children'
  BY <1>1 DEF ManagerReady, Manager, Abort, launcherVars, rootVars, Children,
     Before, ChildAlive, TypeOK
<1>4. Admissions'
  BY <1>1 DEF ManagerReady, Manager, Abort, launcherVars, rootVars,
     Admissions, AdmittedWasReading, Admitted, ChildAlive, TypeOK
<1>5. Ends'
  BY <1>1 DEF ManagerReady, Manager, Abort, launcherVars, rootVars, Ends,
     FailureEndsManager, Gone, TypeOK
<1>6. Cleaning'
  BY <1>1 DEF ManagerReady, Manager, Abort, launcherVars, rootVars, Cleaning,
     CleanupDone, Admitted, ChildAlive, TypeOK, Ownership, Admissions,
     AdmittedWasReading, Children, Before, Owning
<1> QED
  BY <1>1, <1>2, <1>3, <1>4, <1>5, <1>6

\* AdmissionOpen preserves the invariant.
LEMMA KeepAdmissionOpen ==
  ASSUME NEW l \in Launches, AdmissionInv, AdmissionOpen(l) PROVE AdmissionInv'
<1> USE LaunchAssumption DEF AdmissionInv
<1>a. /\ UNCHANGED <<lpc, cpc, record, clean, root>>
      /\ \E pc \in {"admitting", "stop"} : mpc' = [mpc EXCEPT ![l] = pc]
  BY DEF AdmissionOpen, Manager, Abort, launcherVars, rootVars
<1>b. \/ admission = None /\ admission' = [by |-> l, complete |-> FALSE]
      \/ admission' = admission /\ mpc'[l] # "admitting"
  BY DEF AdmissionOpen, Manager, Abort, launcherVars, rootVars, TypeOK
<1>c. admission' \in [by : Launches, complete : BOOLEAN] \cup {None}
  BY <1>b, FreshAdmission DEF TypeOK
<1>d. admission # None => admission' = admission
  BY <1>b
<1>1. TypeOK'
  BY <1>a, <1>b, <1>c, <1>d DEF AdmissionOpen, Manager, Abort, launcherVars,
     rootVars, TypeOK, LauncherPc, ManagerPc, ChildPc, CleanupPc, Gone,
     Admissions, ChildAlive
<1>2. Ownership'
  BY <1>a, <1>b, <1>c, <1>d, <1>1 DEF AdmissionOpen, Manager, Abort,
     launcherVars, rootVars, Ownership, Owning, TypeOK, ChildAlive
<1>3. Children'
  BY <1>a, <1>b, <1>c, <1>d, <1>1 DEF AdmissionOpen, Manager, Abort,
     launcherVars, rootVars, Children, Before, ChildAlive, TypeOK
<1>4. Admissions'
  <2>1. CASE admission' = admission /\ mpc'[l] # "admitting"
    BY <1>a, <2>1 DEF AdmissionOpen, Admissions, AdmittedWasReading, Admitted,
       TypeOK
  <2>2. CASE admission = None /\ admission' = [by |-> l, complete |-> FALSE]
    <3>1. /\ admission' # None /\ admission'.by = l
          /\ cpc[l] \in {"reading", "dead"}
      BY <2>2, FreshAdmission DEF AdmissionOpen, Admissions
    <3>2. ~Admitted /\ \A k \in Launches : record[k] = None
      BY <2>2 DEF Admitted, Admissions, AdmittedWasReading
    <3> QED
      BY <1>a, <2>2, <3>1, <3>2 DEF Admissions, AdmittedWasReading, TypeOK
  <2> QED
    BY <1>b, <2>1, <2>2
<1>5. Ends'
  BY <1>a, <1>b, <1>c, <1>d, <1>1 DEF AdmissionOpen, Manager, Abort,
     launcherVars, rootVars, Ends, FailureEndsManager, Gone, TypeOK
<1>6. Cleaning'
  BY <1>a, <1>b, <1>c, <1>d, <1>1 DEF AdmissionOpen, Manager, Abort,
     launcherVars, rootVars, Cleaning, CleanupDone, Admitted, ChildAlive,
     TypeOK, Ownership, Admissions, AdmittedWasReading, Children, Before,
     Owning
<1> QED
  BY <1>1, <1>2, <1>3, <1>4, <1>5, <1>6

\* AdmissionWrite preserves the invariant.
LEMMA KeepAdmissionWrite ==
  ASSUME NEW l \in Launches, AdmissionInv, AdmissionWrite(l) PROVE AdmissionInv'
<1> USE LaunchAssumption DEF AdmissionInv
<1>a. /\ UNCHANGED <<lpc, cpc, record, clean, root>>
      /\ \E pc \in {"monitor", "stop"} : mpc' = [mpc EXCEPT ![l] = pc]
  BY DEF AdmissionWrite, Manager, Abort, launcherVars, rootVars
<1>b. /\ admission # None /\ admission.by = l
      /\ admission' = admission \/ admission' = [by |-> l, complete |-> TRUE]
  BY DEF AdmissionWrite, Admissions
<1>c. admission' \in [by : Launches, complete : BOOLEAN] \cup {None}
  BY <1>b, FreshAdmission DEF TypeOK
<1>d. admission' # None /\ admission'.by = l /\ (Admitted => Admitted')
  <2>1. CASE admission' = admission
    BY <1>b, <2>1 DEF Admitted
  <2>2. CASE admission' = [by |-> l, complete |-> TRUE]
    <3>1. admission' # None
      BY <2>2, FreshAdmission
    <3>2. admission'.by = l /\ admission'.complete = TRUE
      BY <2>2
    <3>3. Admitted'
      BY <3>1, <3>2 DEF Admitted
    <3> QED
      BY <3>1, <3>2, <3>3
  <2> QED
    BY <1>b, <2>1, <2>2
<1>1. TypeOK'
  <2>1. mpc' \in [Launches -> ManagerPc]
    BY <1>a DEF TypeOK, ManagerPc
  <2>2. failing' \in [Launches -> BOOLEAN]
    BY DEF AdmissionWrite, Abort, TypeOK
  <2>3. UNCHANGED <<lpc, sig, cpc, root, fifo, failure, record, clean>>
    BY <1>a DEF AdmissionWrite, Manager, Abort
  <2> QED
    BY <1>c, <2>1, <2>2, <2>3 DEF TypeOK
<1>2. Ownership'
  BY <1>a, <1>b, <1>c, <1>d, <1>1 DEF AdmissionWrite, Manager, Abort,
     launcherVars, rootVars, Ownership, Owning, TypeOK, ChildAlive
<1>3. Children'
  BY <1>a, <1>b, <1>c, <1>d, <1>1 DEF AdmissionWrite, Manager, Abort,
     launcherVars, rootVars, Children, Before, ChildAlive, TypeOK
<1>4. Admissions'
  BY <1>a, <1>b, <1>c, <1>d, <1>1 DEF AdmissionWrite, Admissions,
     AdmittedWasReading, Admitted, ChildAlive, TypeOK
<1>5. Ends'
  BY <1>a, <1>b, <1>c, <1>d, <1>1 DEF AdmissionWrite, Manager, Abort,
     launcherVars, rootVars, Ends, FailureEndsManager, Gone, TypeOK
<1>6. Cleaning'
  BY <1>a, <1>b, <1>c, <1>d, <1>1 DEF AdmissionWrite, Manager, Abort,
     launcherVars, rootVars, Cleaning, CleanupDone, Admitted, ChildAlive,
     TypeOK, Ownership, Admissions, AdmittedWasReading, Children, Before,
     Owning
<1> QED
  BY <1>1, <1>2, <1>3, <1>4, <1>5, <1>6

\* ManagerMonitor preserves the invariant.
LEMMA KeepManagerMonitor ==
  ASSUME NEW l \in Launches, AdmissionInv, ManagerMonitor(l) PROVE AdmissionInv'
<1> USE LaunchAssumption DEF AdmissionInv
<1>1. TypeOK'
  BY DEF ManagerMonitor, Manager, launcherVars, rootVars, TypeOK, LauncherPc,
     ManagerPc, ChildPc, CleanupPc, Gone, Admissions, ChildAlive
<1>2. Ownership'
  BY <1>1 DEF ManagerMonitor, Manager, launcherVars, rootVars, Ownership,
     Owning, TypeOK, ChildAlive
<1>3. Children'
  BY <1>1 DEF ManagerMonitor, Manager, launcherVars, rootVars, Children,
     Before, ChildAlive, TypeOK
<1>4. Admissions'
  BY <1>1 DEF ManagerMonitor, Manager, launcherVars, rootVars, Admissions,
     AdmittedWasReading, Admitted, ChildAlive, TypeOK
<1>5. Ends'
  BY <1>1 DEF ManagerMonitor, Manager, launcherVars, rootVars, Ends,
     FailureEndsManager, Gone, TypeOK
<1>6. Cleaning'
  BY <1>1 DEF ManagerMonitor, Manager, launcherVars, rootVars, Cleaning,
     CleanupDone, Admitted, ChildAlive, TypeOK, Ownership, Admissions,
     AdmittedWasReading, Children, Before, Owning
<1> QED
  BY <1>1, <1>2, <1>3, <1>4, <1>5, <1>6

\* StopTerm preserves the invariant.
LEMMA KeepStopTerm ==
  ASSUME NEW l \in Launches, AdmissionInv, StopTerm(l) PROVE AdmissionInv'
<1> USE LaunchAssumption DEF AdmissionInv
<1>1. TypeOK'
  BY DEF StopTerm, Manager, AfterStop, launcherVars, rootVars, TypeOK,
     LauncherPc, ManagerPc, ChildPc, CleanupPc, Gone, Admissions, ChildAlive
<1>2. Ownership'
  BY <1>1 DEF StopTerm, Manager, AfterStop, launcherVars, rootVars, Ownership,
     Owning, TypeOK, ChildAlive, Children, Before
<1>3. Children'
  BY <1>1 DEF StopTerm, Manager, AfterStop, launcherVars, rootVars, Children,
     Before, ChildAlive, TypeOK
<1>4. Admissions'
  BY <1>1 DEF StopTerm, Manager, AfterStop, launcherVars, rootVars,
     Admissions, AdmittedWasReading, Admitted, ChildAlive, TypeOK
<1>5. Ends'
  BY <1>1 DEF StopTerm, Manager, AfterStop, launcherVars, rootVars, Ends,
     FailureEndsManager, Gone, TypeOK
<1>6. Cleaning'
  BY <1>1 DEF StopTerm, Manager, AfterStop, launcherVars, rootVars, Cleaning,
     CleanupDone, Admitted, ChildAlive, TypeOK, Ownership, Admissions,
     AdmittedWasReading, Children, Before, Owning
<1> QED
  BY <1>1, <1>2, <1>3, <1>4, <1>5, <1>6

\* StopKill preserves the invariant.
LEMMA KeepStopKill ==
  ASSUME NEW l \in Launches, AdmissionInv, StopKill(l) PROVE AdmissionInv'
<1> USE LaunchAssumption DEF AdmissionInv
<1>1. TypeOK'
  BY DEF StopKill, Manager, AfterStop, launcherVars, rootVars, TypeOK,
     LauncherPc, ManagerPc, ChildPc, CleanupPc, Gone, Admissions, ChildAlive
<1>2. Ownership'
  BY <1>1 DEF StopKill, Manager, AfterStop, launcherVars, rootVars, Ownership,
     Owning, TypeOK, ChildAlive, Children, Before
<1>3. Children'
  BY <1>1 DEF StopKill, Manager, AfterStop, launcherVars, rootVars, Children,
     Before, ChildAlive, TypeOK
<1>4. Admissions'
  BY <1>1 DEF StopKill, Manager, AfterStop, launcherVars, rootVars,
     Admissions, AdmittedWasReading, Admitted, ChildAlive, TypeOK
<1>5. Ends'
  BY <1>1 DEF StopKill, Manager, AfterStop, launcherVars, rootVars, Ends,
     FailureEndsManager, Gone, TypeOK
<1>6. Cleaning'
  BY <1>1 DEF StopKill, Manager, AfterStop, launcherVars, rootVars, Cleaning,
     CleanupDone, Admitted, ChildAlive, TypeOK, Ownership, Admissions,
     AdmittedWasReading, Children, Before, Owning
<1> QED
  BY <1>1, <1>2, <1>3, <1>4, <1>5, <1>6

\* ManagerNote preserves the invariant.
LEMMA KeepManagerNote ==
  ASSUME NEW l \in Launches, AdmissionInv, ManagerNote(l) PROVE AdmissionInv'
<1> USE LaunchAssumption DEF AdmissionInv
<1>1. TypeOK'
  BY DEF ManagerNote, Manager, launcherVars, rootVars, TypeOK, LauncherPc,
     ManagerPc, ChildPc, CleanupPc, Gone, Admissions, ChildAlive
<1>2. Ownership'
  BY <1>1 DEF ManagerNote, Manager, launcherVars, rootVars, Ownership, Owning,
     TypeOK, ChildAlive
<1>3. Children'
  BY <1>1 DEF ManagerNote, Manager, launcherVars, rootVars, Children, Before,
     ChildAlive, TypeOK
<1>4. Admissions'
  BY <1>1 DEF ManagerNote, Manager, launcherVars, rootVars, Admissions,
     AdmittedWasReading, Admitted, ChildAlive, TypeOK
<1>5. Ends'
  BY <1>1 DEF ManagerNote, Manager, launcherVars, rootVars, Ends,
     FailureEndsManager, Gone, TypeOK
<1>6. Cleaning'
  BY <1>1 DEF ManagerNote, Manager, launcherVars, rootVars, Cleaning,
     CleanupDone, Admitted, ChildAlive, TypeOK, Ownership, Admissions,
     AdmittedWasReading, Children, Before, Owning
<1> QED
  BY <1>1, <1>2, <1>3, <1>4, <1>5, <1>6

\* ManagerSignalled preserves the invariant.
LEMMA KeepManagerSignalled ==
  ASSUME NEW l \in Launches, AdmissionInv, ManagerSignalled(l) PROVE AdmissionInv'
<1> USE LaunchAssumption DEF AdmissionInv
<1>1. TypeOK'
  BY DEF ManagerSignalled, launcherVars, rootVars, TypeOK, LauncherPc,
     ManagerPc, ChildPc, CleanupPc, Gone, Admissions, ChildAlive
<1>2. Ownership'
  BY <1>1 DEF ManagerSignalled, launcherVars, rootVars, Ownership, Owning,
     TypeOK, ChildAlive
<1>3. Children'
  BY <1>1 DEF ManagerSignalled, launcherVars, rootVars, Children, Before,
     ChildAlive, TypeOK
<1>4. Admissions'
  BY <1>1 DEF ManagerSignalled, launcherVars, rootVars, Admissions,
     AdmittedWasReading, Admitted, ChildAlive, TypeOK
<1>5. Ends'
  BY <1>1 DEF ManagerSignalled, launcherVars, rootVars, Ends,
     FailureEndsManager, Gone, TypeOK
<1>6. Cleaning'
  BY <1>1 DEF ManagerSignalled, launcherVars, rootVars, Cleaning, CleanupDone,
     Admitted, ChildAlive, TypeOK, Ownership, Admissions, AdmittedWasReading,
     Children, Before, Owning
<1> QED
  BY <1>1, <1>2, <1>3, <1>4, <1>5, <1>6

\* ManagerLost preserves the invariant.
LEMMA KeepManagerLost ==
  ASSUME NEW l \in Launches, AdmissionInv, ManagerLost(l) PROVE AdmissionInv'
<1> USE LaunchAssumption DEF AdmissionInv
<1>1. TypeOK'
  BY DEF ManagerLost, Manager, launcherVars, rootVars, TypeOK, LauncherPc,
     ManagerPc, ChildPc, CleanupPc, Gone, Admissions, ChildAlive
<1>2. Ownership'
  BY <1>1 DEF ManagerLost, Manager, launcherVars, rootVars, Ownership, Owning,
     TypeOK, ChildAlive
<1>3. Children'
  BY <1>1 DEF ManagerLost, Manager, launcherVars, rootVars, Children, Before,
     ChildAlive, TypeOK
<1>4. Admissions'
  BY <1>1 DEF ManagerLost, Manager, launcherVars, rootVars, Admissions,
     AdmittedWasReading, Admitted, ChildAlive, TypeOK
<1>5. Ends'
  BY <1>1 DEF ManagerLost, Manager, launcherVars, rootVars, Ends,
     FailureEndsManager, Gone, TypeOK
<1>6. Cleaning'
  BY <1>1 DEF ManagerLost, Manager, launcherVars, rootVars, Cleaning,
     CleanupDone, Admitted, ChildAlive, TypeOK, Ownership, Admissions,
     AdmittedWasReading, Children, Before, Owning
<1> QED
  BY <1>1, <1>2, <1>3, <1>4, <1>5, <1>6

\* ChildOpens preserves the invariant.
LEMMA KeepChildOpens ==
  ASSUME NEW l \in Launches, AdmissionInv, ChildOpens(l) PROVE AdmissionInv'
<1> USE LaunchAssumption DEF AdmissionInv
<1>1. TypeOK'
  BY DEF ChildOpens, Child, launcherVars, rootVars, TypeOK, LauncherPc,
     ManagerPc, ChildPc, CleanupPc, Gone, Admissions, ChildAlive
<1>2. Ownership'
  BY <1>1 DEF ChildOpens, Child, launcherVars, rootVars, Ownership, Owning,
     TypeOK, ChildAlive
<1>3. Children'
  BY <1>1 DEF ChildOpens, Child, launcherVars, rootVars, Children, Before,
     ChildAlive, TypeOK
<1>4. Admissions'
  BY <1>1 DEF ChildOpens, Child, launcherVars, rootVars, Admissions,
     AdmittedWasReading, Admitted, ChildAlive, TypeOK
<1>5. Ends'
  BY <1>1 DEF ChildOpens, Child, launcherVars, rootVars, Ends,
     FailureEndsManager, Gone, TypeOK
<1>6. Cleaning'
  BY <1>1 DEF ChildOpens, Child, launcherVars, rootVars, Cleaning,
     CleanupDone, Admitted, ChildAlive, TypeOK
<1> QED
  BY <1>1, <1>2, <1>3, <1>4, <1>5, <1>6

\* ChildEnds preserves the invariant.
LEMMA KeepChildEnds ==
  ASSUME NEW l \in Launches, AdmissionInv, ChildEnds(l) PROVE AdmissionInv'
<1> USE LaunchAssumption DEF AdmissionInv
<1>1. TypeOK'
  BY DEF ChildEnds, Child, launcherVars, rootVars, TypeOK, LauncherPc,
     ManagerPc, ChildPc, CleanupPc, Gone, Admissions, ChildAlive
<1>2. Ownership'
  BY <1>1 DEF ChildEnds, Child, launcherVars, rootVars, Ownership, Owning,
     TypeOK, ChildAlive
<1>3. Children'
  BY <1>1 DEF ChildEnds, Child, launcherVars, rootVars, Children, Before,
     ChildAlive, TypeOK
<1>4. Admissions'
  BY <1>1 DEF ChildEnds, Child, launcherVars, rootVars, Admissions,
     AdmittedWasReading, Admitted, ChildAlive, TypeOK
<1>5. Ends'
  BY <1>1 DEF ChildEnds, Child, launcherVars, rootVars, Ends,
     FailureEndsManager, Gone, TypeOK
<1>6. Cleaning'
  BY <1>1 DEF ChildEnds, Child, launcherVars, rootVars, Cleaning, CleanupDone,
     Admitted, ChildAlive, TypeOK
<1> QED
  BY <1>1, <1>2, <1>3, <1>4, <1>5, <1>6

\* CleanupLoad preserves the invariant.
LEMMA KeepCleanupLoad == AdmissionInv /\ CleanupLoad => AdmissionInv'
<1> SUFFICES ASSUME AdmissionInv, CleanupLoad PROVE AdmissionInv'
  OBVIOUS
<1> USE LaunchAssumption DEF AdmissionInv
<1>1. TypeOK'
  BY DEF CleanupLoad, CleanupGoto, launcherVars, rootVars, TypeOK,
     LauncherPc, ManagerPc, ChildPc, CleanupPc, Gone, Admissions, ChildAlive,
     Cleaning, Admitted
<1>2. Ownership'
  BY <1>1 DEF CleanupLoad, CleanupGoto, launcherVars, rootVars, Ownership,
     Owning, TypeOK, ChildAlive
<1>3. Children'
  BY <1>1 DEF CleanupLoad, CleanupGoto, launcherVars, rootVars, Children,
     Before, ChildAlive, TypeOK
<1>4. Admissions'
  BY <1>1 DEF CleanupLoad, CleanupGoto, launcherVars, rootVars, Admissions,
     AdmittedWasReading, Admitted, ChildAlive, TypeOK
<1>5. Ends'
  BY <1>1 DEF CleanupLoad, CleanupGoto, launcherVars, rootVars, Ends,
     FailureEndsManager, Gone, TypeOK
<1>6. Cleaning'
  BY <1>1 DEF CleanupLoad, CleanupGoto, launcherVars, rootVars, Cleaning,
     CleanupDone, Admitted, ChildAlive, TypeOK, Ownership, Admissions,
     AdmittedWasReading, Children, Before, Owning
<1> QED
  BY <1>1, <1>2, <1>3, <1>4, <1>5, <1>6

\* CleanupAssert preserves the invariant.
LEMMA KeepCleanupAssert == AdmissionInv /\ CleanupAssert => AdmissionInv'
<1> SUFFICES ASSUME AdmissionInv, CleanupAssert PROVE AdmissionInv'
  OBVIOUS
<1> USE LaunchAssumption DEF AdmissionInv
<1>1. TypeOK'
  BY DEF CleanupAssert, CleanupGoto, launcherVars, rootVars, TypeOK,
     LauncherPc, ManagerPc, ChildPc, CleanupPc, Gone, Admissions, ChildAlive,
     Cleaning, Admitted
<1>2. Ownership'
  BY <1>1 DEF CleanupAssert, CleanupGoto, launcherVars, rootVars, Ownership,
     Owning, TypeOK, ChildAlive
<1>3. Children'
  BY <1>1 DEF CleanupAssert, CleanupGoto, launcherVars, rootVars, Children,
     Before, ChildAlive, TypeOK
<1>4. Admissions'
  BY <1>1 DEF CleanupAssert, CleanupGoto, launcherVars, rootVars, Admissions,
     AdmittedWasReading, Admitted, ChildAlive, TypeOK
<1>5. Ends'
  BY <1>1 DEF CleanupAssert, CleanupGoto, launcherVars, rootVars, Ends,
     FailureEndsManager, Gone, TypeOK
<1>6. Cleaning'
  BY <1>1 DEF CleanupAssert, CleanupGoto, launcherVars, rootVars, Cleaning,
     CleanupDone, Admitted, ChildAlive, TypeOK, Ownership, Admissions,
     AdmittedWasReading, Children, Before, Owning
<1> QED
  BY <1>1, <1>2, <1>3, <1>4, <1>5, <1>6

\* CleanupWait preserves the invariant.
LEMMA KeepCleanupWait == AdmissionInv /\ CleanupWait => AdmissionInv'
<1> SUFFICES ASSUME AdmissionInv, CleanupWait PROVE AdmissionInv'
  OBVIOUS
<1> USE LaunchAssumption DEF AdmissionInv
<1>1. TypeOK'
  BY DEF CleanupWait, CleanupGoto, launcherVars, rootVars, TypeOK,
     LauncherPc, ManagerPc, ChildPc, CleanupPc, Gone, Admissions, ChildAlive,
     Cleaning, Admitted
<1>2. Ownership'
  BY <1>1 DEF CleanupWait, CleanupGoto, launcherVars, rootVars, Ownership,
     Owning, TypeOK, ChildAlive
<1>3. Children'
  BY <1>1 DEF CleanupWait, CleanupGoto, launcherVars, rootVars, Children,
     Before, ChildAlive, TypeOK
<1>4. Admissions'
  BY <1>1 DEF CleanupWait, CleanupGoto, launcherVars, rootVars, Admissions,
     AdmittedWasReading, Admitted, ChildAlive, TypeOK
<1>5. Ends'
  BY <1>1 DEF CleanupWait, CleanupGoto, launcherVars, rootVars, Ends,
     FailureEndsManager, Gone, TypeOK
<1>6. Cleaning'
  BY <1>1 DEF CleanupWait, CleanupGoto, launcherVars, rootVars, Cleaning,
     CleanupDone, Admitted, ChildAlive, TypeOK, Ownership, Admissions,
     AdmittedWasReading, Children, Before, Owning
<1> QED
  BY <1>1, <1>2, <1>3, <1>4, <1>5, <1>6

\* CleanupKill preserves the invariant.
LEMMA KeepCleanupKill == AdmissionInv /\ CleanupKill => AdmissionInv'
<1> SUFFICES ASSUME AdmissionInv, CleanupKill PROVE AdmissionInv'
  OBVIOUS
<1> USE LaunchAssumption DEF AdmissionInv
<1>1. TypeOK'
  BY DEF CleanupKill, CleanupGoto, launcherVars, rootVars, TypeOK,
     LauncherPc, ManagerPc, ChildPc, CleanupPc, Gone, Admissions, ChildAlive,
     Cleaning, Admitted
<1>2. Ownership'
  BY <1>1 DEF CleanupKill, CleanupGoto, launcherVars, rootVars, Ownership,
     Owning, TypeOK, ChildAlive
<1>3. Children'
  BY <1>1 DEF CleanupKill, CleanupGoto, launcherVars, rootVars, Children,
     Before, ChildAlive, TypeOK
<1>4. Admissions'
  BY <1>1 DEF CleanupKill, CleanupGoto, launcherVars, rootVars, Admissions,
     AdmittedWasReading, Admitted, ChildAlive, TypeOK
<1>5. Ends'
  BY <1>1 DEF CleanupKill, CleanupGoto, launcherVars, rootVars, Ends,
     FailureEndsManager, Gone, TypeOK
<1>6. Cleaning'
  BY <1>1 DEF CleanupKill, CleanupGoto, launcherVars, rootVars, Cleaning,
     CleanupDone, Admitted, ChildAlive, TypeOK, Ownership, Admissions,
     AdmittedWasReading, Children, Before, Owning
<1> QED
  BY <1>1, <1>2, <1>3, <1>4, <1>5, <1>6

\* Every step preserves the invariant.
LEMMA AdmissionStep == AdmissionInv /\ [Next]_vars => AdmissionInv'
<1> SUFFICES ASSUME AdmissionInv, [Next]_vars PROVE AdmissionInv'
  OBVIOUS
<1>1. CASE UNCHANGED vars
  BY <1>1 DEF vars, launcherVars, rootVars, AdmissionInv, TypeOK, Ownership,
     Children, Admissions, Ends, Cleaning, AdmittedWasReading,
     FailureEndsManager, CleanupDone, ChildAlive, Gone, Admitted
<1>2. ASSUME NEW l \in Launches, LaunchStart(l) \/ LauncherStep(l) \/ LauncherKilled(l)
      PROVE  AdmissionInv'
  BY <1>2, KeepLaunchStart, KeepLaunchSpawn, KeepSeeAdmission,
     KeepReadAdmission, KeepVerifyManager, KeepWriteRecord,
     KeepTerminateManager, KeepKillWait, KeepLauncherKilled DEF LauncherStep
<1>3. ASSUME NEW l \in Launches,
             ManagerStep(l) \/ ManagerSignalled(l) \/ ManagerLost(l)
      PROVE  AdmissionInv'
  BY <1>3, KeepManagerBoot, KeepManagerCheck, KeepManagerMkdir,
     KeepManagerMkfifo, KeepManagerPopen, KeepManagerReady, KeepAdmissionOpen,
     KeepAdmissionWrite, KeepManagerMonitor, KeepStopTerm, KeepStopKill,
     KeepManagerNote, KeepManagerSignalled, KeepManagerLost DEF ManagerStep
<1>4. ASSUME NEW l \in Launches, ChildOpens(l) \/ ChildEnds(l)
      PROVE  AdmissionInv'
  BY <1>4, KeepChildOpens, KeepChildEnds
<1>5. CASE CleanupLoad \/ CleanupStep
  BY <1>5, KeepCleanupLoad, KeepCleanupAssert, KeepCleanupWait,
     KeepCleanupKill DEF CleanupStep
<1> QED
  BY <1>1, <1>2, <1>3, <1>4, <1>5 DEF Next

\* Types, for any number of launches.
THEOREM AdmissionTypes == Spec => []TypeOK
<1>1. AdmissionInv => TypeOK
  BY DEF AdmissionInv
<1> QED
  BY <1>1, AdmissionInit, AdmissionStep, PTL DEF Spec

\* However often an allocation is launched, only the manager whose mkdir made
\* the root has a reader.
THEOREM AtMostOneReader == Spec => []OneReader
<1>1. AdmissionInv => OneReader
  BY DEF AdmissionInv, Ownership, OneReader
<1> QED
  BY <1>1, AdmissionInit, AdmissionStep, PTL DEF Spec

\* A reader without a manager is one whose manager was killed from outside, or
\* by a launcher that reports failure.
THEOREM ManagersLeaveNoReader == Spec => []NoOrphan
<1>1. AdmissionInv => NoOrphan
  BY DEF AdmissionInv, Children, NoOrphan, Gone
<1> QED
  BY <1>1, AdmissionInit, AdmissionStep, PTL DEF Spec

\* An admission names a reader that had the FIFO open, a launcher record the
\* provider of a complete admission.
THEOREM AdmissionIsHonest == Spec => []AdmittedWasReading
<1>1. AdmissionInv => AdmittedWasReading
  BY DEF AdmissionInv, Admissions
<1> QED
  BY <1>1, AdmissionInit, AdmissionStep, PTL DEF Spec

\* A launcher that reports failure leaves no manager running.
THEOREM FailedLaunchLeavesNoManager == Spec => []FailureEndsManager
<1>1. AdmissionInv => FailureEndsManager
  BY DEF AdmissionInv, Ends
<1> QED
  BY <1>1, AdmissionInit, AdmissionStep, PTL DEF Spec

\* A successful cleanup leaves no reader, and the root as it was.
THEOREM CleanupIsComplete == Spec => []CleanupDone
<1>1. AdmissionInv => CleanupDone
  BY DEF AdmissionInv, Cleaning
<1> QED
  BY <1>1, AdmissionInit, AdmissionStep, PTL DEF Spec
=============================================================================
