----------------------------- MODULE RatioReader -----------------------------
(***************************************************************************)
(* The consuming half of the scientific trigger path: the pretrigger ratio  *)
(* binding writer, the persistent FIFO reader and the actuator it launches. *)
(*                                                                          *)
(* A reader blocks in open(O_RDONLY) on the FIFO of its own provider        *)
(* runtime root until a writer appears, then reads tokens one line at a     *)
(* time.  For every TRIGGER it validates the binding file of its next       *)
(* transition, claims it with link + unlink and runs the actuator once.     *)
(* Every error ends the process: nothing restarts a reader, but an operator *)
(* may launch another one (a new provider, a new FIFO) over the same        *)
(* ratio-bindings directory, at any time and from any transition.           *)
(*                                                                          *)
(* A file is named by the writer invocation that created it, so a directory *)
(* entry holds an inode: a hard link shares it, and its content is that     *)
(* writer's binding once the write loop is through.                         *)
(***************************************************************************)
EXTENDS Naturals, Sequences, FiniteSets

CONSTANTS
  Readers,         \* reader processes, each with the FIFO of its own provider
  Writers,         \* invocations of the binding writer; also the binding ids
  LastTransition,  \* 6 in the code
  NoFile,          \* a directory entry that does not exist
  MaxClock,        \* bound: seconds that may elapse
  MaxTriggers,     \* bound: TRIGGER lines written to one FIFO
  FifoCapacity     \* lines a pipe holds before write fails with EAGAIN

ASSUME ReaderAssumption ==
  /\ LastTransition \in Nat \ {0}
  /\ {MaxClock, MaxTriggers, FifoCapacity} \subseteq Nat
  /\ NoFile \notin Writers

Transitions == 1..LastTransition
FutureSkew == 5

\* What a binding file says. The path T<p>.binding.json it is stored under
\* is not part of it: the writer takes path and label apart. The requested
\* ratio is fixed by the binding's id.
Binding == [idx : Transitions, created : Nat]
Inode == Writers \cup {NoFile}

WriterPc == {"idle", "built", "created", "stored", "ended", "failed"}
ReaderPc == {"none", "opening", "reading", "loading", "linking", "unlinking",
             "claimed", "actuating", "dead"}
Live(pc) == pc \notin {"none", "dead"}

VARIABLES
  now,        \* UTC in whole seconds (both programs drop the microseconds)
  wpc,        \* wpc[w]: where writer invocation w is
  wpath,      \* wpath[w]: the path index --output names
  bind,       \* bind[w]: the binding w built
  complete,   \* writers whose file holds the whole JSON document
  file,       \* file[p]: T<p>.binding.json
  consumed,   \* consumed[p]: T<p>.binding.json.consumed.json
  fifo,       \* fifo[r]: lines written and not yet read
  triggers,   \* triggers[r]: TRIGGER lines ever written
  held,       \* held[r]: the provider manager has the write end open
  rpc,        \* rpc[r]: where reader r is
  nextIndex,  \* next_transition_index
  started,    \* reader_started_utc
  seenIds,    \* consumed_binding_ids
  cur,        \* id of the validated binding, NoFile when there is none
  docker,     \* docker[r]: position in runs of the live container, 0 if none
  runs,       \* history: actuator launches, in order
  applied     \* history: positions in runs, as the gNB received the controls

writerVars == <<wpc, wpath, bind, complete>>
entryVars == <<file, consumed>>
fifoVars == <<fifo, triggers, held>>
readerVars == <<rpc, nextIndex, started, seenIds, cur>>
plantVars == <<docker, runs, applied>>
vars == <<now, writerVars, entryVars, fifoVars, readerVars, plantVars>>

Init ==
  /\ now = 0
  /\ wpc = [w \in Writers |-> "idle"]
  /\ wpath = [w \in Writers |-> 1]
  /\ bind = [w \in Writers |-> [idx |-> 1, created |-> 0]]
  /\ complete = {}
  /\ file = [p \in Transitions |-> NoFile]
  /\ consumed = [p \in Transitions |-> NoFile]
  /\ fifo = [r \in Readers |-> <<>>]
  /\ triggers = [r \in Readers |-> 0]
  /\ held = [r \in Readers |-> FALSE]
  /\ rpc = [r \in Readers |-> "none"]
  /\ nextIndex = [r \in Readers |-> 1]
  /\ started = [r \in Readers |-> 0]
  /\ seenIds = [r \in Readers |-> {}]
  /\ cur = [r \in Readers |-> NoFile]
  /\ docker = [r \in Readers |-> 0]
  /\ runs = <<>>
  /\ applied = <<>>

Tick ==
  /\ now < MaxClock
  /\ now' = now + 1
  /\ UNCHANGED <<writerVars, entryVars, fifoVars, readerVars, plantVars>>

-----------------------------------------------------------------------------
(* The binding writer: build_binding, then write_exclusive.                 *)

\* build_binding: label and index agree, the id is fresh, created_utc is
\* taken before the file exists. The path is not compared with the label.
WriterBuild(w, p, i) ==
  /\ wpc[w] = "idle"
  /\ wpc' = [wpc EXCEPT ![w] = "built"]
  /\ wpath' = [wpath EXCEPT ![w] = p]
  /\ bind' = [bind EXCEPT ![w] = [idx |-> i, created |-> now]]
  /\ UNCHANGED <<now, complete, entryVars, fifoVars, readerVars, plantVars>>

\* Mutant: no O_EXCL.
WriterCreateClobbers(w) ==
  /\ wpc[w] = "built"
  /\ file' = [file EXCEPT ![wpath[w]] = w]
  /\ wpc' = [wpc EXCEPT ![w] = "created"]
  /\ UNCHANGED <<now, wpath, bind, complete, consumed, fifoVars, readerVars,
                 plantVars>>

\* os.open(O_CREAT | O_EXCL): the file appears, still empty.
WriterCreate(w) ==
  /\ wpc[w] = "built"
  /\ file[wpath[w]] = NoFile
  /\ file' = [file EXCEPT ![wpath[w]] = w]
  /\ wpc' = [wpc EXCEPT ![w] = "created"]
  /\ UNCHANGED <<now, wpath, bind, complete, consumed, fifoVars, readerVars,
                 plantVars>>

\* FileExistsError: OUTPUT_ALREADY_EXISTS, the existing file is left alone.
WriterRefused(w) ==
  /\ wpc[w] = "built"
  /\ file[wpath[w]] # NoFile
  /\ wpc' = [wpc EXCEPT ![w] = "ended"]
  /\ UNCHANGED <<now, wpath, bind, complete, entryVars, fifoVars, readerVars,
                 plantVars>>

\* The write loop stores the last byte: readers can parse the file now.
WriterStore(w) ==
  /\ wpc[w] = "created"
  /\ complete' = complete \cup {w}
  /\ wpc' = [wpc EXCEPT ![w] = "stored"]
  /\ UNCHANGED <<now, wpath, bind, entryVars, fifoVars, readerVars, plantVars>>

\* write fails, or fsync does after the whole document is visible: the except
\* branch unlinks its path, whatever inode the path names by then
\* (FileNotFoundError is ignored), and the writer ends by raising.
WriterAbort(w) ==
  /\ wpc[w] \in {"created", "stored"}
  /\ file' = [file EXCEPT ![wpath[w]] = NoFile]
  /\ wpc' = [wpc EXCEPT ![w] = "failed"]
  /\ UNCHANGED <<now, wpath, bind, complete, consumed, fifoVars, readerVars,
                 plantVars>>

\* fsync, close, read back, RATIO_BOUND=PASS; or the process dies at any
\* point. Either way what it stored so far stays.
WriterEnd(w) ==
  /\ wpc[w] \in {"built", "created", "stored"}
  /\ wpc' = [wpc EXCEPT ![w] = "ended"]
  /\ UNCHANGED <<now, wpath, bind, complete, entryVars, fifoVars, readerVars,
                 plantVars>>

-----------------------------------------------------------------------------
(* The FIFO endpoints that are not the reader's.                            *)

\* The manager's nonblocking open for write succeeds once the reader is in
\* its own open; both opens complete. The descriptor is never written to.
ManagerOpen(r) ==
  /\ rpc[r] = "opening"
  /\ held' = [held EXCEPT ![r] = TRUE]
  /\ rpc' = [rpc EXCEPT ![r] = "reading"]
  /\ UNCHANGED <<now, writerVars, entryVars, fifo, triggers, nextIndex, started,
                 seenIds, cur, plantVars>>

\* The manager process ends, however it ends, and its descriptor is closed.
ManagerExit(r) ==
  /\ held[r]
  /\ held' = [held EXCEPT ![r] = FALSE]
  /\ UNCHANGED <<now, writerVars, entryVars, fifo, triggers, readerVars,
                 plantVars>>

\* An executor's os.write of token + newline: needs a reader (else ENXIO or
\* EPIPE) and room (else EAGAIN). Any number of executors may write, and a
\* reader still blocked in open is released by it.
WriteToken(r, tok) ==
  /\ Live(rpc[r])
  /\ tok = "TRIGGER" => triggers[r] < MaxTriggers
  /\ Len(fifo[r]) < FifoCapacity
  /\ fifo' = [fifo EXCEPT ![r] = Append(@, tok)]
  /\ triggers' = [triggers EXCEPT ![r] = IF tok = "TRIGGER" THEN @ + 1 ELSE @]
  /\ rpc' = [rpc EXCEPT ![r] = IF @ = "opening" THEN "reading" ELSE @]
  /\ UNCHANGED <<now, writerVars, entryVars, held, nextIndex, started, seenIds,
                 cur, plantVars>>

-----------------------------------------------------------------------------
(* The reader.                                                              *)

\* run_reader up to the open: start time truncated to the second.
ReaderStart(r, i) ==
  /\ rpc[r] = "none"
  /\ rpc' = [rpc EXCEPT ![r] = "opening"]
  /\ nextIndex' = [nextIndex EXCEPT ![r] = i]
  /\ started' = [started EXCEPT ![r] = now]
  /\ UNCHANGED <<now, writerVars, entryVars, fifoVars, seenIds, cur, plantVars>>

\* The process is gone: its FIFO has no reader and loses what it held.
Die(r) ==
  /\ rpc' = [rpc EXCEPT ![r] = "dead"]
  /\ fifo' = [fifo EXCEPT ![r] = <<>>]
  /\ cur' = [cur EXCEPT ![r] = NoFile]
  /\ UNCHANGED <<now, writerVars, triggers, held, nextIndex, started, seenIds>>

\* readline returns a line: anything but TRIGGER is reported and skipped.
ReadToken(r) ==
  /\ rpc[r] = "reading"
  /\ fifo[r] # <<>>
  /\ fifo' = [fifo EXCEPT ![r] = Tail(@)]
  /\ rpc' = [rpc EXCEPT ![r] =
               IF Head(fifo[r]) = "TRIGGER" THEN "loading" ELSE "reading"]
  /\ UNCHANGED <<now, writerVars, entryVars, triggers, held, nextIndex, started,
                 seenIds, cur, plantVars>>

\* readline returns "": no writer is left. A restart is prohibited.
ReadEof(r) ==
  /\ rpc[r] = "reading"
  /\ fifo[r] = <<>>
  /\ ~held[r]
  /\ Die(r)
  /\ UNCHANGED <<entryVars, plantVars>>

\* Mutant: the transition label is not compared.
AcceptableAnyLabel(r, i) ==
  LET w == file[i] IN
  /\ i \in Transitions
  /\ consumed[i] = NoFile
  /\ w \in complete
  /\ w \notin seenIds[r]
  /\ bind[w].created >= started[r]
  /\ bind[w].created <= now + FutureSkew

\* The binding at path i is acceptable to reader r at this moment.
Acceptable(r, i) ==
  LET w == file[i] IN
  /\ i \in Transitions
  /\ consumed[i] = NoFile
  /\ w \in complete
  /\ w \notin seenIds[r]
  /\ bind[w].idx = i
  /\ bind[w].created >= started[r]
  /\ bind[w].created <= now + FutureSkew

\* load_and_validate_binding succeeds.
LoadBinding(r) ==
  /\ rpc[r] = "loading"
  /\ Acceptable(r, nextIndex[r])
  /\ cur' = [cur EXCEPT ![r] = file[nextIndex[r]]]
  /\ rpc' = [rpc EXCEPT ![r] = "linking"]
  /\ UNCHANGED <<now, writerVars, entryVars, fifoVars, nextIndex, started,
                 seenIds, plantVars>>

\* Mutant: a rejected trigger is dropped and the reader goes on.
RejectContinues(r) ==
  /\ rpc[r] = "loading"
  /\ ~Acceptable(r, nextIndex[r])
  /\ rpc' = [rpc EXCEPT ![r] = "reading"]
  /\ UNCHANGED <<now, writerVars, entryVars, fifoVars, nextIndex, started,
                 seenIds, cur, plantVars>>

\* NO_REMAINING_RATIO_BINDING, or any check of the binding fails.
RejectBinding(r) ==
  /\ rpc[r] = "loading"
  /\ ~Acceptable(r, nextIndex[r])
  /\ Die(r)
  /\ UNCHANGED <<entryVars, plantVars>>

\* Mutant: os.replace instead of os.link.
ClaimReplaces(r) ==
  LET p == nextIndex[r] IN
  /\ rpc[r] = "linking"
  /\ file[p] # NoFile
  /\ consumed' = [consumed EXCEPT ![p] = file[p]]
  /\ rpc' = [rpc EXCEPT ![r] = "unlinking"]
  /\ UNCHANGED <<now, writerVars, file, fifoVars, nextIndex, started, seenIds,
                 cur, plantVars>>

\* os.link(binding, consumed): atomic, fails if the target exists. It links
\* the inode the path names now, which need not be the one that was read.
ClaimLink(r) ==
  LET p == nextIndex[r] IN
  /\ rpc[r] = "linking"
  /\ consumed[p] = NoFile
  /\ file[p] # NoFile
  /\ consumed' = [consumed EXCEPT ![p] = file[p]]
  /\ rpc' = [rpc EXCEPT ![r] = "unlinking"]
  /\ UNCHANGED <<now, writerVars, file, fifoVars, nextIndex, started, seenIds,
                 cur, plantVars>>

\* BINDING_ALREADY_CONSUMED or BINDING_CONSUME_LINK_FAILED.
ClaimRefused(r) ==
  LET p == nextIndex[r] IN
  /\ rpc[r] = "linking"
  /\ consumed[p] # NoFile \/ file[p] = NoFile
  /\ Die(r)
  /\ UNCHANGED <<entryVars, plantVars>>

\* fsync, unlink, fsync; the id joins consumed_binding_ids.
ClaimUnlink(r) ==
  LET p == nextIndex[r] IN
  /\ rpc[r] = "unlinking"
  /\ file[p] # NoFile
  /\ file' = [file EXCEPT ![p] = NoFile]
  /\ seenIds' = [seenIds EXCEPT ![r] = @ \cup {cur[r]}]
  /\ rpc' = [rpc EXCEPT ![r] = "claimed"]
  /\ UNCHANGED <<now, writerVars, consumed, fifoVars, nextIndex, started, cur, plantVars>>

\* BINDING_CONSUME_UNCERTAIN: fsync or unlink fails after the link; the
\* second fsync fails when the entry is gone already.
ClaimUncertain(r) ==
  /\ rpc[r] = "unlinking"
  /\ file' \in {file, [file EXCEPT ![nextIndex[r]] = NoFile]}
  /\ Die(r)
  /\ UNCHANGED <<consumed, plantVars>>

\* execute_actuator_once: the wrapper's checks pass and docker run starts.
Launch(r) ==
  /\ rpc[r] = "claimed"
  /\ rpc' = [rpc EXCEPT ![r] = "actuating"]
  /\ runs' = Append(runs, [reader |-> r, idx |-> nextIndex[r], id |-> cur[r]])
  /\ docker' = [docker EXCEPT ![r] = Len(runs) + 1]
  /\ UNCHANGED <<now, writerVars, entryVars, fifoVars, nextIndex, started,
                 seenIds, cur, applied>>

\* WrapperError before docker run: return code 2, no container.
WrapperReject(r) ==
  /\ rpc[r] = "claimed"
  /\ Die(r)
  /\ UNCHANGED <<entryVars, plantVars>>

Sent(k) == \E j \in DOMAIN applied : applied[j] = k

\* The xApp sends its one control request; the container does not need the
\* reader for that.
SendControl(r) ==
  /\ docker[r] # 0
  /\ ~Sent(docker[r])
  /\ applied' = Append(applied, docker[r])
  /\ UNCHANGED <<now, writerVars, entryVars, fifoVars, readerVars, docker, runs>>

\* docker run returns 0, which the xApp does only after its request.
ActuatorDone(r) ==
  /\ docker[r] # 0
  /\ Sent(docker[r])
  /\ docker' = [docker EXCEPT ![r] = 0]
  /\ IF rpc[r] = "actuating"
     THEN /\ rpc' = [rpc EXCEPT ![r] = "reading"]
          /\ nextIndex' = [nextIndex EXCEPT ![r] = @ + 1]
          /\ cur' = [cur EXCEPT ![r] = NoFile]
     ELSE UNCHANGED <<rpc, nextIndex, cur>>
  /\ UNCHANGED <<now, writerVars, entryVars, fifoVars, started, seenIds,
                 runs, applied>>

\* Mutant: a failed actuator is run again.
ActuatorRetries(r) ==
  /\ docker[r] # 0
  /\ Len(runs) <= LastTransition
  /\ docker' = [docker EXCEPT ![r] = 0]
  /\ rpc' = [rpc EXCEPT ![r] = IF @ = "actuating" THEN "claimed" ELSE @]
  /\ UNCHANGED <<now, writerVars, entryVars, fifoVars, nextIndex, started,
                 seenIds, cur, runs, applied>>

\* docker run fails, before or after the request: replay prohibited.
ActuatorFailed(r) ==
  /\ docker[r] # 0
  /\ docker' = [docker EXCEPT ![r] = 0]
  /\ IF rpc[r] = "actuating"
     THEN Die(r)
     ELSE UNCHANGED <<now, writerVars, fifoVars, readerVars>>
  /\ UNCHANGED <<entryVars, runs, applied>>

\* SIGTERM, SIGKILL or a host failure at any point. The container survives.
ReaderCrash(r) ==
  /\ Live(rpc[r])
  /\ Die(r)
  /\ UNCHANGED <<entryVars, plantVars>>

-----------------------------------------------------------------------------
WriterStep ==
  \E w \in Writers :
    \/ \E p, i \in Transitions : WriterBuild(w, p, i)
    \/ WriterCreate(w) \/ WriterRefused(w) \/ WriterStore(w)
    \/ WriterAbort(w) \/ WriterEnd(w)

EndpointStep ==
  \E r \in Readers :
    \/ ManagerOpen(r) \/ ManagerExit(r)
    \/ \E tok \in {"TRIGGER", "OTHER"} : WriteToken(r, tok)

ReaderProgress(r) ==
  \/ ReadToken(r) \/ ReadEof(r) \/ LoadBinding(r) \/ RejectBinding(r)
  \/ ClaimLink(r) \/ ClaimRefused(r) \/ ClaimUnlink(r) \/ ClaimUncertain(r)
  \/ Launch(r) \/ WrapperReject(r)

ReaderStep ==
  \E r \in Readers :
    \/ \E i \in Transitions : ReaderStart(r, i)
    \/ ReaderProgress(r)
    \/ SendControl(r) \/ ActuatorDone(r) \/ ActuatorFailed(r)
    \/ ReaderCrash(r)

Next == Tick \/ WriterStep \/ EndpointStep \/ ReaderStep

\* The reader process is scheduled; nothing is assumed of the writers, of
\* the operator, or of the actuator (subprocess.run has no timeout).
Fairness == \A r \in Readers : WF_vars(ReaderProgress(r))

Spec == Init /\ [][Next]_vars
FairSpec == Spec /\ Fairness

-----------------------------------------------------------------------------
(* Properties.                                                              *)

WriterTypeOK ==
  /\ wpc \in [Writers -> WriterPc]
  /\ wpath \in [Writers -> Transitions]
  /\ bind \in [Writers -> Binding]
  /\ complete \subseteq Writers

EntryTypeOK ==
  /\ file \in [Transitions -> Inode]
  /\ consumed \in [Transitions -> Inode]

FifoTypeOK ==
  /\ fifo \in [Readers -> Seq({"TRIGGER", "OTHER"})]
  /\ triggers \in [Readers -> Nat]
  /\ held \in [Readers -> BOOLEAN]

ReaderTypeOK ==
  /\ rpc \in [Readers -> ReaderPc]
  /\ nextIndex \in [Readers -> Nat]
  /\ started \in [Readers -> Nat]
  /\ seenIds \in [Readers -> SUBSET Writers]
  /\ cur \in [Readers -> Inode]

Run == [reader : Readers, idx : Transitions, id : Writers]

PlantTypeOK ==
  /\ docker \in [Readers -> Nat]
  /\ runs \in Seq(Run)
  /\ applied \in Seq(Nat)

\* Every variable stays in its type: the state the five programs share.
TypeOK ==
  /\ now \in Nat
  /\ WriterTypeOK
  /\ EntryTypeOK
  /\ FifoTypeOK
  /\ ReaderTypeOK
  /\ PlantTypeOK

\* The actuator is launched at most once for a transition, over all readers
\* and all operator restarts, whatever tokens arrive (consume_binding_once;
\* "consume a binding at most once").
AtMostOneRunPerTransition ==
  \A j, k \in DOMAIN runs : runs[j].idx = runs[k].idx => j = k

\* One launch sends at most one control request, and no control reaches the
\* gNB without a launch ("at most one actuator invocation and one control
\* request").
AtMostOneControlPerRun ==
  /\ \A k \in DOMAIN applied : applied[k] \in DOMAIN runs
  /\ \A j, k \in DOMAIN applied : applied[j] = applied[k] => j = k

\* A binding is actuated only for the transition it was written for, only if
\* its file was complete and not older, in whole seconds, than the reader that
\* runs it, and at most once, even when writers store bindings under another
\* transition's path.
RunBindingAddressed ==
  /\ \A k \in DOMAIN runs :
       LET b == bind[runs[k].id] IN
       /\ runs[k].id \in complete
       /\ b.idx = runs[k].idx
       /\ b.created >= started[runs[k].reader]
  /\ \A j, k \in DOMAIN runs : runs[j].id = runs[k].id => j = k

\* The file kept as consumed evidence of a transition is the one whose ratio
\* was actuated, unless the actuated binding's own writer failed in fsync after
\* its document was visible and unlinked it again between the reader's
\* validation and its link. No other writer, whose cleanup unlinks whatever its
\* path names, and no other reader can part the two.
ArchiveIsWhatRan ==
  \A k \in DOMAIN runs :
    \/ consumed[runs[k].idx] = runs[k].id
    \/ wpc[runs[k].id] = "failed"

\* Without the exception: "successful consumption must be attributable to the
\* exact binding identity". Does not hold (README, Divergences).
ConsumptionAttributable ==
  \A k \in DOMAIN runs : consumed[runs[k].idx] = runs[k].id

RunsOf(r) == {k \in DOMAIN runs : runs[k].reader = r}

\* A reader launches its transitions in order and skips none, the gNB receives
\* its controls in that order, and only a TRIGGER line of its own FIFO, each
\* once at most, makes the reader launch: foreign lines do not.
ReaderInOrder ==
  /\ \A r \in Readers : Cardinality(RunsOf(r)) <= triggers[r]
  /\ \A r \in Readers : \A j, k \in RunsOf(r) :
       j < k => /\ runs[j].idx < runs[k].idx
                /\ \A i \in runs[j].idx .. runs[k].idx :
                     \E m \in RunsOf(r) : runs[m].idx = i
  /\ \A j, k \in DOMAIN applied :
       /\ j < k
       /\ runs[applied[j]].reader = runs[applied[k]].reader
       => applied[j] < applied[k]

\* A claim is never undone: once a transition has a consumed file it keeps
\* it, and no later launch is for a transition claimed by another reader.
ClaimsArePermanent ==
  [][/\ \A p \in Transitions : consumed[p] # NoFile => consumed'[p] = consumed[p]
     /\ \A k \in DOMAIN runs' \ DOMAIN runs : consumed[runs'[k].idx] # NoFile]_vars

\* What the reader promises, without files, FIFOs or processes: see
\* ExactlyOnceActuation. A transition is claimed when its consumed file exists.
ClaimedTransitions == {p \in Transitions : consumed[p] # NoFile}
LaunchLog == [k \in DOMAIN runs |-> runs[k].idx]
ControlLog == [k \in DOMAIN applied |-> LaunchLog[applied[k]]]

Abstract == INSTANCE ExactlyOnceActuation
              WITH claimed <- ClaimedTransitions, launched <- LaunchLog,
                   controlled <- ControlLog

\* Writer, reader, crashes and restarts together implement the promise that a
\* transition is claimed once, launched at most once after it is claimed, and
\* controlled at most once after it is launched.
ImplementsExactlyOnce == Abstract!Spec

\* The n-th TRIGGER written to a FIFO leads to the n-th launch of its reader,
\* or the reader fails closed, or an actuator never returns.
TriggerAnswered ==
  \A r \in Readers, n \in 1..MaxTriggers :
    (triggers[r] >= n) ~>
      (\/ Cardinality(RunsOf(r)) >= n
       \/ rpc[r] = "dead"
       \/ [](rpc[r] = "actuating"))
=============================================================================
