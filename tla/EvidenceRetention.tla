------------------------- MODULE EvidenceRetention -------------------------
(***************************************************************************)
(* Retention of one acquisition subtree under one operation identifier:    *)
(* sci-oran-retain-evidence.py.  The modes are separate invocations that   *)
(* share nothing but files: transfer copies the source, which may still be *)
(* growing, into .incoming/<operation>/payload; verify compares manifests  *)
(* of source and copy; promote renames the incoming directory to its final *)
(* place.  Invocations overlap in any order and may die at any step.       *)
(* plan changes nothing and is left out.  Operations with different        *)
(* identifiers share no path, so one identifier is modelled.               *)
(*                                                                         *)
(* A file is known by its length: evidence is only ever appended to, so    *)
(* the length fixes digest and size.  Link stands for every object that is *)
(* neither a regular file nor a directory.                                 *)
(***************************************************************************)
EXTENDS Naturals, FiniteSets, FiniteSetsExt

CONSTANTS
  Procs,      \* invocations of the tool
  Names,      \* files below the source
  Dirs,       \* directories below the source
  MaxLength,  \* length at which a file stops growing (bound)
  None,       \* no such path
  Link        \* a symlink or special object

ASSUME RetentionAssumption ==
  /\ IsFiniteSet(Procs) /\ IsFiniteSet(Names) /\ IsFiniteSet(Dirs)
  /\ Names \cap Dirs = {}
  /\ MaxLength \in Nat
  /\ None \notin Nat /\ Link \notin Nat

Entries == Names \cup Dirs
Absent == 0
Trees == [Entries -> Nat \cup {Link}]
Manifests == [Names -> Nat]

Controls ==
  [source_manifest : Manifests \cup {None},
   source_verify : Manifests \cup {None},
   destination : Manifests \cup {None},
   transferred : BOOLEAN, verification : {None, "PASS", "FAIL"},
   promoted : BOOLEAN]

Contents ==
  [payload : Trees \cup {None}, control : Controls \cup {None},
   held : Manifests, left : SUBSET Dirs]

ASSUME NoneAssumption ==
  /\ None \notin Trees /\ None \notin Manifests
  /\ None \notin Controls /\ None \notin Contents
  /\ None \notin {"PASS", "FAIL"}

Regular(tree) == {n \in Names : tree[n] \in Nat \ {Absent}}
Directories(tree) == {d \in Dirs : tree[d] # Absent}
EmptyTree == [e \in Entries |-> Absent]

(***************************************************************************)
(* What the code computes from a tree it has walked.                       *)
(***************************************************************************)
Manifest(tree) == [n \in Names |-> IF n \in Regular(tree) THEN tree[n] ELSE Absent]

Snapshot(tree) ==
  [regular_files |-> Cardinality(Regular(tree)),
   directories |-> Cardinality(Directories(tree)) + 1,
   total_bytes |-> MapThenSumSet(LAMBDA n : tree[n], Regular(tree))]

HasSpecial(tree) == \E n \in Names : tree[n] = Link

VARIABLES
  source,   \* the live subtree on the runtime host
  place,    \* the directories .incoming/<operation>, <operation>, and
            \* <operation>/<operation>
  pc,       \* where each invocation is, "idle" when it is not running
  where,    \* the place of the directory an invocation holds a handle in
  seen,     \* what a walk of the source has read so far
  snap      \* snapshot_after of a verification

vars == <<source, place, pc, where, seen, snap>>

NoWalk == [e \in {} |-> Absent]
NoSnap == [regular_files |-> 0, directories |-> 0, total_bytes |-> 0]

(***************************************************************************)
(* The control directory: the manifests, transfer-result.json,             *)
(* verification-result.json and promotion-result.json.                     *)
(***************************************************************************)
EmptyControl ==
  [source_manifest |-> None, source_verify |-> None, destination |-> None,
   transferred |-> FALSE, verification |-> None, promoted |-> FALSE]

(***************************************************************************)
(* held and left are history: the files of the source when the source      *)
(* manifest of this directory was complete, and the directories of the     *)
(* source when its rsync had ended.                                        *)
(***************************************************************************)
EmptyDirectory ==
  [payload |-> None, control |-> None, held |-> Manifest(EmptyTree),
   left |-> {}]

Incoming == place["incoming"]

Init ==
  /\ source = EmptyTree
  /\ place = [l \in {"incoming", "retained", "nested"} |-> None]
  /\ pc = [p \in Procs |-> "idle"]
  /\ where = [p \in Procs |-> "incoming"]
  /\ seen = [p \in Procs |-> NoWalk]
  /\ snap = [p \in Procs |-> NoSnap]

(***************************************************************************)
(* The acquisition goes on: a file is created or grows, a directory or a   *)
(* special object appears.                                                 *)
(***************************************************************************)
Acquire ==
  /\ \/ \E n \in Names : /\ source[n] \in 0..(MaxLength - 1)
                         /\ source' = [source EXCEPT ![n] = @ + 1]
     \/ \E n \in Names : /\ source[n] = Absent
                         /\ source' = [source EXCEPT ![n] = Link]
     \/ \E d \in Dirs : /\ source[d] = Absent
                        /\ source' = [source EXCEPT ![d] = 1]
  /\ UNCHANGED <<place, pc, where, seen, snap>>

Goto(p, label) == pc' = [pc EXCEPT ![p] = label]

(***************************************************************************)
(* Resolving the context of a mode reads nothing that changes, so an idle  *)
(* invocation enters its mode with its first check.  Every exit, regular,  *)
(* by RetentionError, by a failed ssh or rsync or by a kill, leaves the    *)
(* files as they are.                                                      *)
(***************************************************************************)
Exit(p) ==
  /\ Goto(p, "idle")
  /\ where' = [where EXCEPT ![p] = "incoming"]
  /\ seen' = [seen EXCEPT ![p] = NoWalk]
  /\ snap' = [snap EXCEPT ![p] = NoSnap]

Die(p) ==
  /\ pc[p] # "idle"
  /\ Exit(p)
  /\ UNCHANGED <<source, place>>

Continue(p, label) ==
  /\ Goto(p, label)
  /\ UNCHANGED <<source, where, snap>>

(***************************************************************************)
(* A walk reads the entries one after the other while the source goes on;  *)
(* a file that appears behind the walk counts as read before it appeared.  *)
(***************************************************************************)
Walks == {"transfer_manifest", "verify_snapshot", "verify_manifest"}

Walk(p) ==
  /\ pc[p] \in Walks
  /\ \E e \in Entries \ DOMAIN seen[p] :
       seen' = [seen EXCEPT ![p] =
                  [x \in DOMAIN seen[p] \cup {e} |->
                     IF x = e THEN source[e] ELSE seen[p][x]]]
  /\ UNCHANGED <<source, place, pc, where, snap>>

Walked(p) == DOMAIN seen[p] = Entries
Forget(p) == seen' = [seen EXCEPT ![p] = NoWalk]

(***************************************************************************)
(* Writing below .incoming/<operation>/control creates the directories     *)
(* that are missing (mkdir parents=True, exist_ok=True).                   *)
(***************************************************************************)
PayloadOf(directory) == IF directory = None THEN None ELSE directory.payload

ControlOf(directory) ==
  IF directory = None \/ directory.control = None
  THEN EmptyControl ELSE directory.control

WithControl(directory, control) ==
  IF directory = None THEN [EmptyDirectory EXCEPT !.control = control]
  ELSE [directory EXCEPT !.control = control]

WriteIncoming(control) ==
  place' = [place EXCEPT !["incoming"] = WithControl(Incoming, control)]

(***************************************************************************)
(* mode_transfer.                                                          *)
(***************************************************************************)
\* only whether the walk of remote_source_snapshot meets a special object
\* matters here, and special objects do not go away
EnsureAbsent(p) ==
  /\ pc[p] = "idle"
  /\ Incoming = None /\ place["retained"] = None
  /\ ~HasSpecial(source)
  /\ Continue(p, "make_payload")
  /\ UNCHANGED <<place, seen>>

MakePayload(p) ==
  /\ pc[p] = "make_payload"
  /\ PayloadOf(Incoming) = None
  /\ place' = [place EXCEPT !["incoming"] =
                 IF @ = None THEN [EmptyDirectory EXCEPT !.payload = EmptyTree]
                 ELSE [@ EXCEPT !.payload = EmptyTree]]
  /\ Continue(p, "make_control")
  /\ UNCHANGED seen

MakeControl(p) ==
  /\ pc[p] = "make_control"
  /\ Incoming # None
  /\ Incoming.control = None
  /\ WriteIncoming(EmptyControl)
  /\ Continue(p, "transfer_manifest")
  /\ UNCHANGED seen

SourceManifest(p) ==
  /\ pc[p] = "transfer_manifest" /\ Walked(p)
  /\ place' = [place EXCEPT ![where[p]] =
                 [@ EXCEPT !.control.source_manifest = Manifest(seen[p]),
                           !.held = Manifest(source)]]
  /\ Continue(p, "rsync")
  /\ Forget(p)

(***************************************************************************)
(* rsync -a copies every kind of object, in its own order, into the        *)
(* directory it has entered, wherever that is by now.                      *)
(***************************************************************************)
RsyncEntry(p) ==
  /\ pc[p] = "rsync"
  /\ \E e \in Entries \ DOMAIN seen[p] :
       /\ place' = [place EXCEPT ![where[p]].payload[e] = source[e]]
       /\ seen' = [seen EXCEPT ![p] =
                     [x \in DOMAIN seen[p] \cup {e} |-> Absent]]
  /\ UNCHANGED <<source, pc, where, snap>>

RsyncEnd(p) ==
  /\ pc[p] = "rsync" /\ Walked(p)
  /\ place' = [place EXCEPT ![where[p]].left = Directories(source)]
  /\ Continue(p, "transfer_result")
  /\ Forget(p)

\* rsync.stdout is written without mkdir, so the control directory must
\* still be there
TransferResult(p) ==
  /\ pc[p] = "transfer_result"
  /\ Incoming # None /\ Incoming.control # None
  /\ WriteIncoming([Incoming.control EXCEPT !.transferred = TRUE])
  /\ Exit(p)
  /\ UNCHANGED source

(***************************************************************************)
(* mode_verify.                                                            *)
(***************************************************************************)
VerifyGate(p) ==
  /\ pc[p] = "idle"
  /\ Incoming # None /\ place["retained"] = None
  /\ Continue(p, "verify_files")
  /\ UNCHANGED <<place, seen>>

VerifyFiles(p) ==
  /\ pc[p] = "verify_files"
  /\ ControlOf(Incoming).source_manifest # None
  /\ ControlOf(Incoming).transferred
  /\ Continue(p, "verify_snapshot")
  /\ UNCHANGED <<place, seen>>

VerifySnapshot(p) ==
  /\ pc[p] = "verify_snapshot" /\ Walked(p)
  /\ ~HasSpecial(seen[p])
  /\ snap' = [snap EXCEPT ![p] = Snapshot(seen[p])]
  /\ Goto(p, "verify_open")
  /\ Forget(p)
  /\ UNCHANGED <<source, place, where>>

\* source-manifest.verify.jsonl is truncated before the remote walk begins
VerifyOpen(p) ==
  /\ pc[p] = "verify_open"
  /\ WriteIncoming([ControlOf(Incoming) EXCEPT !.source_verify = Manifest(EmptyTree)])
  /\ Continue(p, "verify_manifest")
  /\ UNCHANGED seen

\* the records are sent when the walk is over; the connection may break
\* within them
VerifyManifest(p) ==
  /\ pc[p] = "verify_manifest" /\ Walked(p)
  /\ \E sent \in SUBSET Names :
       /\ place' = [place EXCEPT ![where[p]].control.source_verify =
                      [n \in Names |-> IF n \in sent THEN Manifest(seen[p])[n]
                                       ELSE Absent]]
       /\ \/ sent = Names /\ Continue(p, "verify_local") /\ Forget(p)
          \/ sent # Names /\ Exit(p) /\ UNCHANGED source

LocalManifest(p) ==
  /\ pc[p] = "verify_local"
  /\ Incoming # None /\ Incoming.payload # None
  /\ ~HasSpecial(Incoming.payload)
  /\ WriteIncoming([ControlOf(Incoming) EXCEPT !.destination = Manifest(Incoming.payload)])
  /\ Continue(p, "verify_compare")
  /\ UNCHANGED seen

(***************************************************************************)
(* The three manifests are read back from their files; what differs first  *)
(* decides.  Only a difference between source and copy is written down.    *)
(***************************************************************************)
\* Mutant: only the files are counted.
CardinalityEqualFiles(p) ==
  LET c == Incoming.control
  IN  Cardinality({n \in Names : c.destination[n] # Absent}) = snap[p].regular_files

CardinalityEqual(p) ==
  LET c == Incoming.control
  IN  /\ Cardinality(Directories(Incoming.payload)) + 1 = snap[p].directories
      /\ Cardinality({n \in Names : c.destination[n] # Absent}) = snap[p].regular_files
      /\ MapThenSumSet(LAMBDA n : c.destination[n], Names) = snap[p].total_bytes

ManifestsRead(p) ==
  /\ pc[p] = "verify_compare"
  /\ Incoming # None
  /\ \A f \in {"source_manifest", "source_verify", "destination"} :
       ControlOf(Incoming)[f] # None

\* Mutant: the two manifests of the source are not compared.
SourceUnchangedAnyway(c) == TRUE

SourceUnchanged(c) == c.source_manifest = c.source_verify

VerifyCompare(p) ==
  /\ ManifestsRead(p)
  /\ SourceUnchanged(Incoming.control)
  /\ \/ /\ Incoming.control.source_verify # Incoming.control.destination
        /\ Continue(p, "verify_fail")
     \/ /\ Incoming.control.source_verify = Incoming.control.destination
        /\ Incoming.payload # None
        /\ CardinalityEqual(p)
        /\ Continue(p, "verify_pass")
  /\ UNCHANGED <<place, seen>>

VerificationResult(p) ==
  /\ pc[p] \in {"verify_fail", "verify_pass"}
  /\ WriteIncoming([ControlOf(Incoming) EXCEPT !.verification =
                      IF pc[p] = "verify_pass" THEN "PASS" ELSE "FAIL"])
  /\ Exit(p)
  /\ UNCHANGED source

(***************************************************************************)
(* mode_promote.                                                           *)
(***************************************************************************)
PromoteGate(p) ==
  /\ pc[p] = "idle"
  /\ Incoming # None /\ place["retained"] = None
  /\ Continue(p, "promote_read")
  /\ UNCHANGED <<place, seen>>

PromoteRead(p) ==
  /\ pc[p] = "promote_read"
  /\ ControlOf(Incoming).verification = "PASS"
  /\ Continue(p, "promote_move")
  /\ UNCHANGED <<place, seen>>

(***************************************************************************)
(* shutil.move renames to the final path, or, if that is a directory by    *)
(* now, into it; whoever works in the directory goes with it.              *)
(***************************************************************************)
MoveTo(p, target) ==
  /\ place' = [place EXCEPT !["incoming"] = None, ![target] = Incoming]
  /\ where' = [q \in Procs |->
                 IF where[q] = "incoming" /\ pc[q] \in {"transfer_manifest",
                                                       "rsync", "verify_manifest"}
                 THEN target ELSE where[q]]
  /\ Goto(p, "promote_result")
  /\ UNCHANGED <<source, seen, snap>>

\* Mutant: the move replaces what is at the final path.
PromoteMoveOver(p) ==
  /\ pc[p] = "promote_move"
  /\ Incoming # None
  /\ MoveTo(p, "retained")

PromoteMove(p) ==
  /\ pc[p] = "promote_move"
  /\ Incoming # None
  /\ \/ place["retained"] = None /\ MoveTo(p, "retained")
     \/ place["retained"] # None /\ place["nested"] = None /\ MoveTo(p, "nested")

PromotionResult(p) ==
  /\ pc[p] = "promote_result"
  /\ place' = [place EXCEPT !["retained"] =
                 WithControl(@, [ControlOf(@) EXCEPT !.promoted = TRUE])]
  /\ Exit(p)
  /\ UNCHANGED source

Transfer(p) ==
  \/ EnsureAbsent(p) \/ MakePayload(p) \/ MakeControl(p)
  \/ SourceManifest(p) \/ RsyncEntry(p) \/ RsyncEnd(p) \/ TransferResult(p)

Verify(p) ==
  \/ VerifyGate(p) \/ VerifyFiles(p) \/ VerifySnapshot(p) \/ VerifyOpen(p)
  \/ VerifyManifest(p) \/ LocalManifest(p) \/ VerifyCompare(p)
  \/ VerificationResult(p)

Promote(p) ==
  PromoteGate(p) \/ PromoteRead(p) \/ PromoteMove(p) \/ PromotionResult(p)

Next ==
  \/ Acquire
  \/ \E p \in Procs : \/ Die(p) \/ Walk(p)
                      \/ Transfer(p) \/ Verify(p) \/ Promote(p)

Spec == Init /\ [][Next]_vars

-----------------------------------------------------------------------------
Retained == place["retained"]

Labels ==
  {"idle", "make_payload", "make_control", "transfer_manifest", "rsync",
   "transfer_result", "verify_files", "verify_snapshot", "verify_open",
   "verify_manifest", "verify_local", "verify_compare", "verify_fail",
   "verify_pass", "promote_read", "promote_move", "promote_result"}

(***************************************************************************)
(* The type invariant; of snap, whose fields are sums and cardinalities,   *)
(* only the domain.                                                        *)
(***************************************************************************)
TypeOK ==
  /\ source \in Trees
  /\ place \in [{"incoming", "retained", "nested"} -> Contents \cup {None}]
  /\ pc \in [Procs -> Labels]
  /\ where \in [Procs -> {"incoming", "retained", "nested"}]
  /\ seen = [p \in Procs |-> seen[p]]
  /\ \A p \in Procs : /\ DOMAIN seen[p] \subseteq Entries
                       /\ seen[p] \in [DOMAIN seen[p] -> Nat \cup {Link}]
  /\ snap = [p \in Procs |-> snap[p]]

(***************************************************************************)
(* What is retained is what the source held: its files are those present   *)
(* when the source manifest was complete, its directories those present    *)
(* when the rsync had ended, although the acquisition went on during and   *)
(* after the copy and any step may have been the last of its invocation.   *)
(***************************************************************************)
RetainedIsSource ==
  Retained # None =>
    /\ Manifest(Retained.payload) = Retained.held
    /\ Directories(Retained.payload) = Retained.left
    /\ ~HasSpecial(Retained.payload)

(***************************************************************************)
(* The source manifest that lies beside the retained payload describes it. *)
(***************************************************************************)
ManifestDescribesPayload ==
  Retained # None =>
    ControlOf(Retained).source_manifest = Manifest(Retained.payload)

(***************************************************************************)
(* Once promoted, payload, source manifest and verification stay as they   *)
(* are, whatever invocations of the same operation are still running or    *)
(* are started.                                                            *)
(***************************************************************************)
RetainedStays ==
  [][Retained # None =>
       /\ PayloadOf(Retained') = PayloadOf(Retained)
       /\ \A f \in {"source_manifest", "verification"} :
            ControlOf(Retained')[f] = ControlOf(Retained)[f]]_vars

(***************************************************************************)
(* Does not hold (README, Divergences). "The implementation shall not      *)
(* silently merge a staging tree into an already existing authoritative    *)
(* operation directory."                                                   *)
(***************************************************************************)
NeverMerged == place["nested"] = None
=============================================================================
