---------------------- MODULE EvidenceRetentionProofs ----------------------
EXTENDS EvidenceRetention, FiniteSetTheorems, TLAPS

(***************************************************************************)
(* Where an invocation of transfer owns the payload, where it writes to    *)
(* it, and where an invocation of verify relies on the transfer's end.     *)
(***************************************************************************)
Copying == {"transfer_manifest", "rsync"}
Transferring == Copying \cup {"make_control", "transfer_result"}
Verifying == {"verify_snapshot", "verify_open", "verify_manifest",
              "verify_local", "verify_compare", "verify_fail", "verify_pass"}
Counting == {"verify_open", "verify_manifest", "verify_local",
             "verify_compare"}

Unopened == {"idle", "make_payload", "make_control", "verify_files",
             "verify_snapshot", "verify_open"}

Size(v) == IF v \in Nat THEN v ELSE 0

Control == ControlOf(Incoming)

\* The directory an invocation has a handle in exists, and what it writes to.
Handles ==
  /\ \A l \in DOMAIN place : place[l] # None =>
       place[l].control # None \/ place[l].payload # None
  /\ \A p \in Procs : pc[p] \in Copying \cup {"verify_manifest"} =>
       place[where[p]] # None /\ place[where[p]].control # None
  /\ \A p \in Procs : pc[p] \in Copying =>
       place[where[p]].payload # None
  /\ \A p \in Procs : pc[p] \notin Walks \cup {"rsync"} =>
       DOMAIN seen[p] = {}
  /\ \A p \in Procs : pc[p] = "promote_result" => Retained # None
  /\ \A p \in Procs : pc[p] \in Unopened => where[p] = "incoming"

\* What a verification has established, and promotion needs.
Proved(d) ==
  /\ d.payload # None /\ d.control # None
  /\ Manifest(d.payload) = d.held
  /\ Directories(d.payload) = d.left
  /\ ~HasSpecial(d.payload)
  /\ d.control.source_manifest = Manifest(d.payload)

(***************************************************************************)
(* As long as nothing has been promoted there is one incoming directory,   *)
(* and it is filled once.                                                  *)
(***************************************************************************)
\* One invocation transfers, and only until the transfer result.
Alone ==
  /\ \A p \in Procs : where[p] = "incoming"
  /\ \A p, q \in Procs :
       pc[p] \in Transferring /\ pc[q] \in Transferring => p = q
  /\ \A p \in Procs : pc[p] \in Transferring =>
       /\ Incoming # None /\ Incoming.payload # None
       /\ ~Control.transferred

\* source_manifest, held, source and payload only grow, in this order.
Grows ==
  /\ Incoming # None => \A n \in Names : Incoming.held[n] <= Size(source[n])
  /\ Control.source_manifest # None =>
       \A n \in Names : Control.source_manifest[n] <= Incoming.held[n]
  /\ \A p \in Procs : pc[p] = "transfer_manifest" =>
       \A n \in Names \cap DOMAIN seen[p] : Size(seen[p][n]) <= Size(source[n])
  /\ \A p \in Procs : pc[p] = "rsync" =>
       \A n \in Names \cap DOMAIN seen[p] :
         Incoming.held[n] <= Size(Incoming.payload[n])

\* The copy has at least the files held and at most the directories left.
Complete ==
  /\ \A n \in Names : Incoming.held[n] <= Size(Incoming.payload[n])
  /\ Directories(Incoming.payload) \subseteq Incoming.left
  /\ Incoming.left \subseteq Directories(source)

Copied ==
  /\ Incoming # None /\ Incoming.payload # None =>
       Directories(Incoming.payload) \subseteq Directories(source)
  /\ Control.transferred => Incoming.payload # None /\ Complete
  /\ \A p \in Procs : pc[p] = "transfer_result" => Complete

\* A verification works on a finished transfer.
Verified ==
  /\ \A p \in Procs : pc[p] \in Verifying => Control.transferred
  /\ \A p \in Procs : pc[p] = "verify_snapshot" =>
       \A d \in Incoming.left \cap DOMAIN seen[p] : seen[p][d] # Absent
  /\ \A p \in Procs : pc[p] \in Counting =>
       /\ snap[p].directories \in Nat
       /\ Cardinality(Incoming.left) + 1 <= snap[p].directories
  /\ Control.destination # None =>
       /\ Control.transferred
       /\ Control.destination = Manifest(Incoming.payload)
       /\ ~HasSpecial(Incoming.payload)
  /\ Control.verification = "PASS" => Control.transferred /\ Proved(Incoming)
  /\ \A p \in Procs : pc[p] \in {"verify_pass", "promote_move"} =>
       Control.transferred /\ Proved(Incoming)

Staging == Alone /\ Grows /\ Copied /\ Verified

\* What has been promoted is complete, and nobody copies into it any more.
Kept ==
  /\ Proved(Retained)
  /\ \A p \in Procs : where[p] = "retained" => pc[p] \notin Copying

IndInv ==
  /\ TypeOK
  /\ Handles
  /\ Retained = None => Staging
  /\ Retained # None => Kept

-----------------------------------------------------------------------------
\* Manifest, entry by entry.
LEMMA ManifestSize ==
  ASSUME NEW tree \in Trees
  PROVE  /\ Manifest(tree) \in Manifests
         /\ \A n \in Names : Manifest(tree)[n] = Size(tree[n])
  BY RetentionAssumption DEF Manifest, Manifests, Regular, Size, Trees, Entries, Absent

LEMMA Empties ==
  /\ EmptyTree \in Trees /\ EmptyControl \in Controls
  /\ EmptyDirectory \in Contents
  BY ManifestSize
     DEF EmptyTree, Trees, EmptyControl, Controls, EmptyDirectory, Contents,
         Absent

LEMMA ControlType ==
  ASSUME NEW d \in Contents \cup {None}
  PROVE  /\ ControlOf(d) \in Controls
         /\ \A c \in Controls : WithControl(d, c) \in Contents
  BY Empties, NoneAssumption DEF ControlOf, WithControl, Contents

LEMMA NoWalkType ==
  DOMAIN NoWalk = {} /\ NoWalk \in [DOMAIN NoWalk -> Nat \cup {Link}]
  BY DEF NoWalk

(***************************************************************************)
(* What the steps that write through a handle do to its directory.         *)
(***************************************************************************)
Places == {"incoming", "retained", "nested"}

LEMMA SourceManifestStep ==
  ASSUME TypeOK, Handles, NEW p \in Procs, SourceManifest(p)
  PROVE  LET d == place[where[p]]  e == place'[where[p]]
         IN  /\ where[p] \in Places /\ d \in Contents /\ d.control \in Controls
             /\ d.payload \in Trees /\ seen[p] \in Trees
             /\ place' \in [Places -> Contents \cup {None}]
             /\ \A l \in Places : l # where[p] => place'[l] = place[l]
             /\ e \in Contents /\ e.control \in Controls
             /\ e.control = [d.control EXCEPT !.source_manifest = Manifest(seen[p])]
             /\ e.payload = d.payload /\ e.left = d.left
             /\ e.held = Manifest(source)
<1>1. /\ where[p] \in Places /\ place[where[p]] \in Contents
      /\ place[where[p]].control \in Controls /\ place[where[p]].payload \in Trees
  BY DEF SourceManifest, TypeOK, Handles, Copying, Contents, Places
<1>2. seen[p] \in Trees
  BY DEF SourceManifest, TypeOK, Trees, Walked
<1>3. Manifest(seen[p]) \in Manifests /\ Manifest(source) \in Manifests
  BY <1>2, ManifestSize DEF TypeOK
<1> DEFINE new == [place[where[p]] EXCEPT !.control.source_manifest = Manifest(seen[p]),
                                          !.held = Manifest(source)]
<1>4. [place[where[p]].control EXCEPT !.source_manifest = Manifest(seen[p])] \in Controls
  BY <1>1, <1>3 DEF Controls
<1>5. /\ new \in Contents
      /\ new.control = [place[where[p]].control EXCEPT !.source_manifest = Manifest(seen[p])]
      /\ new.payload = place[where[p]].payload /\ new.left = place[where[p]].left
      /\ new.held = Manifest(source)
  BY <1>1, <1>3, <1>4 DEF Contents
<1>6. place' = [place EXCEPT ![where[p]] = new]
  BY DEF SourceManifest
<1> HIDE DEF new
<1> QED
  BY <1>1, <1>2, <1>4, <1>5, <1>6 DEF TypeOK, Places

LEMMA RsyncEntryStep ==
  ASSUME TypeOK, Handles, NEW p \in Procs, RsyncEntry(p)
  PROVE  LET d == place[where[p]]  e == place'[where[p]]
         IN  /\ where[p] \in Places /\ d \in Contents
             /\ d.payload \in Trees
             /\ place' \in [Places -> Contents \cup {None}]
             /\ \A l \in Places : l # where[p] => place'[l] = place[l]
             /\ e \in Contents /\ e.payload \in Trees
             /\ e.control = d.control /\ e.left = d.left /\ e.held = d.held
             /\ \E x \in Entries :
                  /\ \A y \in Entries : e.payload[y] = IF y = x THEN source[y]
                                                       ELSE d.payload[y]
                  /\ DOMAIN seen'[p] = DOMAIN seen[p] \cup {x}
                  /\ seen'[p] \in [DOMAIN seen'[p] -> Nat \cup {Link}]
                  /\ \A q \in Procs : q # p => seen'[q] = seen[q]
                  /\ seen' = [q \in Procs |-> seen'[q]]
<1>1. /\ where[p] \in Places /\ place[where[p]] \in Contents
      /\ place[where[p]].payload \in Trees
  BY DEF RsyncEntry, TypeOK, Handles, Copying, Contents, Places
<1>2. PICK x \in Entries :
        /\ place' = [place EXCEPT ![where[p]].payload[x] = source[x]]
        /\ seen' = [seen EXCEPT ![p] =
                     [y \in DOMAIN seen[p] \cup {x} |-> Absent]]
  BY DEF RsyncEntry
<1> DEFINE tree == [place[where[p]].payload EXCEPT ![x] = source[x]]
<1> DEFINE new == [place[where[p]] EXCEPT !.payload = tree]
<1>3. /\ tree \in Trees
      /\ \A y \in Entries : tree[y] = IF y = x THEN source[y]
                                      ELSE place[where[p]].payload[y]
  BY <1>1 DEF TypeOK, Trees
<1>4. place' = [place EXCEPT ![where[p]] = new]
  BY <1>2
<1> HIDE DEF tree
<1>5. /\ new \in Contents /\ new.payload = tree
      /\ new.control = place[where[p]].control
      /\ new.held = place[where[p]].held /\ new.left = place[where[p]].left
  BY <1>1, <1>3 DEF Contents
<1> HIDE DEF new
<1>6. /\ DOMAIN seen'[p] = DOMAIN seen[p] \cup {x}
      /\ seen'[p] \in [DOMAIN seen'[p] -> Nat \cup {Link}]
      /\ \A q \in Procs : q # p => seen'[q] = seen[q]
      /\ seen' = [q \in Procs |-> seen'[q]]
  BY <1>2 DEF TypeOK, Absent
<1> QED
  BY <1>1, <1>3, <1>4, <1>5, <1>6 DEF TypeOK, Places

LEMMA RsyncEndStep ==
  ASSUME TypeOK, Handles, NEW p \in Procs, RsyncEnd(p)
  PROVE  LET d == place[where[p]]  e == place'[where[p]]
         IN  /\ where[p] \in Places /\ d \in Contents /\ d.payload \in Trees
             /\ place' \in [Places -> Contents \cup {None}]
             /\ \A l \in Places : l # where[p] => place'[l] = place[l]
             /\ e \in Contents
             /\ e.control = d.control /\ e.payload = d.payload
             /\ e.held = d.held /\ e.left = Directories(source)
<1>1. /\ where[p] \in Places /\ place[where[p]] \in Contents
      /\ place[where[p]].payload \in Trees
  BY DEF RsyncEnd, TypeOK, Handles, Copying, Contents, Places
<1> DEFINE new == [place[where[p]] EXCEPT !.left = Directories(source)]
<1>2. place' = [place EXCEPT ![where[p]] = new]
  BY DEF RsyncEnd
<1>3. /\ new \in Contents
      /\ new.control = place[where[p]].control /\ new.payload = place[where[p]].payload
      /\ new.held = place[where[p]].held /\ new.left = Directories(source)
  BY <1>1 DEF Contents, Directories
<1> HIDE DEF new
<1> QED
  BY <1>1, <1>2, <1>3 DEF TypeOK, Places

LEMMA VerifyManifestStep ==
  ASSUME TypeOK, Handles, NEW p \in Procs, VerifyManifest(p)
  PROVE  LET d == place[where[p]]  e == place'[where[p]]
         IN  /\ where[p] \in Places /\ d \in Contents /\ d.control \in Controls
             /\ place' \in [Places -> Contents \cup {None}]
             /\ \A l \in Places : l # where[p] => place'[l] = place[l]
             /\ e \in Contents /\ e.control \in Controls
             /\ e.payload = d.payload /\ e.held = d.held /\ e.left = d.left
             /\ \A f \in {"source_manifest", "destination", "transferred",
                           "verification"} : e.control[f] = d.control[f]
<1>1. /\ where[p] \in Places /\ place[where[p]] \in Contents
      /\ place[where[p]].control \in Controls
  BY DEF VerifyManifest, TypeOK, Handles, Contents, Places
<1>2. seen[p] \in Trees
  BY DEF VerifyManifest, TypeOK, Trees, Walked
<1>3. PICK sent \in SUBSET Names :
        place' = [place EXCEPT ![where[p]].control.source_verify =
                      [n \in Names |-> IF n \in sent THEN Manifest(seen[p])[n]
                                       ELSE Absent]]
  BY DEF VerifyManifest
<1> DEFINE m == [n \in Names |-> IF n \in sent THEN Manifest(seen[p])[n]
                                 ELSE Absent]
<1>4. m \in Manifests
  BY <1>2, ManifestSize DEF Manifests, Absent
<1> HIDE DEF m
<1> DEFINE c == [place[where[p]].control EXCEPT !.source_verify = m]
<1>5. /\ c \in Controls
      /\ \A f \in {"source_manifest", "destination", "transferred",
                    "verification"} : c[f] = place[where[p]].control[f]
  BY <1>1, <1>4 DEF Controls
<1> DEFINE new == [place[where[p]] EXCEPT !.control = c]
<1>6. place' = [place EXCEPT ![where[p]] = new]
  BY <1>3 DEF m
<1> HIDE DEF c
<1>7. /\ new \in Contents /\ new.control = c
      /\ new.payload = place[where[p]].payload
      /\ new.held = place[where[p]].held /\ new.left = place[where[p]].left
  BY <1>1, <1>5 DEF Contents
<1> HIDE DEF new
<1> QED
  BY <1>1, <1>5, <1>6, <1>7 DEF TypeOK, Places

LEMMA TypeInit == Init => TypeOK
  BY Empties DEF Init, TypeOK, Labels, NoWalk, EmptyTree

LEMMA TypeStep == TypeOK /\ Handles /\ [Next]_vars => TypeOK'
<1> SUFFICES ASSUME TypeOK, Handles, Next PROVE TypeOK'
  BY DEF TypeOK, vars
<1>1. CASE Acquire
  BY <1>1, RetentionAssumption DEF Acquire, TypeOK, Trees, Entries, Absent
<1> SUFFICES ASSUME NEW p \in Procs,
                    Die(p) \/ Walk(p) \/ Transfer(p) \/ Verify(p) \/ Promote(p)
             PROVE  TypeOK'
  BY <1>1 DEF Next
<1> DEFINE Exited == /\ source' = source
                     /\ place' \in [{"incoming", "retained", "nested"} -> Contents \cup {None}]
                     /\ Exit(p)
<1> DEFINE Continued ==
     /\ source' = source /\ where' = where
     /\ place' \in [{"incoming", "retained", "nested"} -> Contents \cup {None}]
     /\ \E l \in Labels : pc' = [pc EXCEPT ![p] = l]
     /\ seen' = seen \/ seen' = [seen EXCEPT ![p] = NoWalk]
     /\ snap' = snap \/ \E t : snap' = [snap EXCEPT ![p] = t]
<1>2. Exited => TypeOK'
  <2> SUFFICES ASSUME Exited PROVE TypeOK'
    OBVIOUS
  <2>1. pc' \in [Procs -> Labels] /\ source' \in Trees
        /\ where' \in [Procs -> {"incoming", "retained", "nested"}]
    BY DEF TypeOK, Exit, Goto, Labels
  <2>2. snap' = [q \in Procs |-> snap'[q]]
    BY DEF TypeOK, Exit
  <2>3. seen' = [q \in Procs |-> seen'[q]]
    BY DEF TypeOK, Exit
  <2>4. \A q \in Procs : seen'[q] = IF q = p THEN NoWalk ELSE seen[q]
    BY DEF TypeOK, Exit
  <2> QED BY <2>1, <2>2, <2>3, <2>4, NoWalkType DEF TypeOK
<1>3. Continued => TypeOK'
  <2> SUFFICES ASSUME Continued PROVE TypeOK'
    OBVIOUS
  <2>1. pc' \in [Procs -> Labels] /\ source' \in Trees
        /\ where' \in [Procs -> {"incoming", "retained", "nested"}]
    BY DEF TypeOK
  <2>2. snap' = [q \in Procs |-> snap'[q]]
    BY DEF TypeOK
  <2>3. seen' = [q \in Procs |-> seen'[q]]
    BY DEF TypeOK
  <2>4. \A q \in Procs : seen'[q] = seen[q] \/ seen'[q] = NoWalk
    BY DEF TypeOK
  <2> QED BY <2>1, <2>2, <2>3, <2>4, NoWalkType DEF TypeOK
<1> HIDE DEF Exited, Continued
<1>4. Incoming \in Contents \cup {None}
  BY DEF TypeOK, Incoming
<1>5. \A c \in Controls : WriteIncoming(c) =>
        place' \in [{"incoming", "retained", "nested"} -> Contents \cup {None}]
  <2> SUFFICES ASSUME NEW c \in Controls, WriteIncoming(c)
               PROVE  place' \in [{"incoming", "retained", "nested"} -> Contents \cup {None}]
    OBVIOUS
  <2>1. WithControl(Incoming, c) \in Contents
    BY <1>4, ControlType
  <2> QED BY <2>1 DEF WriteIncoming, TypeOK
<1>6. ControlOf(Incoming) \in Controls
  BY <1>4, ControlType
<1>7. CASE Die(p)
  BY <1>7, <1>2 DEF Die, Exited, TypeOK
<1>8. CASE Walk(p)
  BY <1>8 DEF Walk, TypeOK, Trees
<1>9. CASE EnsureAbsent(p)
  BY <1>9, <1>3 DEF EnsureAbsent, Continue, Goto, Continued, TypeOK, Labels
<1>10. CASE MakePayload(p)
  <2>1. place' \in [{"incoming", "retained", "nested"} -> Contents \cup {None}]
    BY <1>10, <1>4, Empties DEF MakePayload, TypeOK, Contents, Incoming
  <2> QED BY <1>10, <2>1, <1>3 DEF MakePayload, Continue, Goto, Continued, Labels
<1>11. CASE MakeControl(p)
  BY <1>11, <1>3, <1>5, Empties DEF MakeControl, Continue, Goto, Continued, Labels
<1>12. CASE SourceManifest(p)
  BY <1>12, <1>3, SourceManifestStep
     DEF SourceManifest, Continue, Forget, Goto, Continued, Labels, Places
<1>13. CASE RsyncEntry(p)
  <2>1. source' = source /\ pc' = pc /\ where' = where /\ snap' = snap
    BY <1>13 DEF RsyncEntry
  <2>2. PICK x \in Entries :
          /\ DOMAIN seen'[p] = DOMAIN seen[p] \cup {x}
          /\ seen'[p] \in [DOMAIN seen'[p] -> Nat \cup {Link}]
          /\ \A q \in Procs : q # p => seen'[q] = seen[q]
          /\ seen' = [q \in Procs |-> seen'[q]]
    BY <1>13, RsyncEntryStep
  <2>3. place' \in [Places -> Contents \cup {None}]
    BY <1>13, RsyncEntryStep
  <2> QED BY <2>1, <2>2, <2>3 DEF TypeOK, Places
<1>14. CASE RsyncEnd(p)
  BY <1>14, <1>3, RsyncEndStep
     DEF RsyncEnd, Continue, Forget, Goto, Continued, Labels, Places
<1>15. CASE TransferResult(p)
  <2>1. [Incoming.control EXCEPT !.transferred = TRUE] \in Controls
    BY <1>15, <1>4 DEF TransferResult, Contents, Controls
  <2> QED BY <1>15, <2>1, <1>2, <1>5 DEF TransferResult, Exited
<1>16. CASE VerifyGate(p)
  BY <1>16, <1>3 DEF VerifyGate, Continue, Goto, Continued, TypeOK, Labels
<1>17. CASE VerifyFiles(p)
  BY <1>17, <1>3 DEF VerifyFiles, Continue, Goto, Continued, TypeOK, Labels
<1>18. CASE VerifySnapshot(p)
  BY <1>18, <1>3 DEF VerifySnapshot, Forget, Goto, Continued, TypeOK, Labels
<1>19. CASE VerifyOpen(p)
  <2>1. [ControlOf(Incoming) EXCEPT !.source_verify = Manifest(EmptyTree)] \in Controls
    BY <1>6, Empties, ManifestSize DEF Controls
  <2> QED BY <1>19, <2>1, <1>3, <1>5 DEF VerifyOpen, Continue, Goto, Continued, Labels
<1>20. CASE VerifyManifest(p)
  BY <1>20, <1>2, <1>3, VerifyManifestStep
     DEF VerifyManifest, Continue, Forget, Goto, Continued, Labels, Exited, Places
<1>21. CASE LocalManifest(p)
  <2>1. Manifest(Incoming.payload) \in Manifests
    BY <1>21, <1>4, ManifestSize DEF LocalManifest, Contents
  <2>2. [ControlOf(Incoming) EXCEPT !.destination = Manifest(Incoming.payload)] \in Controls
    BY <1>6, <2>1 DEF Controls
  <2> QED BY <1>21, <2>2, <1>3, <1>5 DEF LocalManifest, Continue, Goto, Continued, Labels
<1>22. CASE VerifyCompare(p)
  BY <1>22, <1>3 DEF VerifyCompare, Continue, Goto, Continued, TypeOK, Labels
<1>23. CASE VerificationResult(p)
  <2>1. \A v \in {"PASS", "FAIL"} :
          [ControlOf(Incoming) EXCEPT !.verification = v] \in Controls
    BY <1>6 DEF Controls
  <2> QED BY <1>23, <2>1, <1>2, <1>5 DEF VerificationResult, Exited
<1>24. CASE PromoteGate(p)
  BY <1>24, <1>3 DEF PromoteGate, Continue, Goto, Continued, TypeOK, Labels
<1>25. CASE PromoteRead(p)
  BY <1>25, <1>3 DEF PromoteRead, Continue, Goto, Continued, TypeOK, Labels
<1>26. CASE PromoteMove(p)
  BY <1>26, <1>4 DEF PromoteMove, MoveTo, Goto, TypeOK, Labels
<1>27. CASE PromotionResult(p)
  <2>1. Retained \in Contents \cup {None}
    BY DEF TypeOK, Retained
  <2>2. ControlOf(Retained) \in Controls
    BY <2>1, ControlType
  <2>3. WithControl(Retained, [ControlOf(Retained) EXCEPT !.promoted = TRUE])
          \in Contents
    BY <2>1, <2>2, ControlType DEF Controls
  <2>4. place' \in [{"incoming", "retained", "nested"} -> Contents \cup {None}]
    BY <1>27, <2>3 DEF PromotionResult, TypeOK, Retained
  <2> QED BY <1>27, <2>4, <1>2 DEF PromotionResult, Exited
<1> QED
  BY <1>7, <1>8, <1>9, <1>10, <1>11, <1>12, <1>13, <1>14, <1>15, <1>16,
     <1>17, <1>18, <1>19, <1>20, <1>21, <1>22, <1>23, <1>24, <1>25, <1>26,
     <1>27 DEF Transfer, Verify, Promote

LEMMA HandlesInit == Init => Handles
  BY DEF Init, Handles, NoWalk, Copying, Unopened, Retained

LEMMA HandlesStep == TypeOK /\ TypeOK' /\ Handles /\ [Next]_vars => Handles'
<1> SUFFICES ASSUME TypeOK, TypeOK', Handles, Next PROVE Handles'
  BY DEF Handles, vars, Retained
<1>1. CASE Acquire
  BY <1>1 DEF Acquire, Handles, Retained
<1> SUFFICES ASSUME NEW p \in Procs,
                    Die(p) \/ Walk(p) \/ Transfer(p) \/ Verify(p) \/ Promote(p)
             PROVE  Handles'
  BY <1>1 DEF Next
<1> USE DEF Handles, Copying, Walks, Unopened, Retained, Incoming
<1> USE NoWalkType
<1>2. \A c \in Controls : WriteIncoming(c) =>
        /\ \A l \in {"retained", "nested"} : place'[l] = place[l]
        /\ place'["incoming"] # None
        /\ place'["incoming"].control = c
        /\ place["incoming"] # None =>
              place'["incoming"].payload = place["incoming"].payload
  <2> SUFFICES ASSUME NEW c \in Controls, WriteIncoming(c)
               PROVE  /\ \A l \in {"retained", "nested"} : place'[l] = place[l]
                      /\ place'["incoming"] # None
                      /\ place'["incoming"].control = c
                      /\ place["incoming"] # None =>
                            place'["incoming"].payload = place["incoming"].payload
    OBVIOUS
  <2>1. place'["incoming"] = WithControl(place["incoming"], c)
    BY DEF WriteIncoming, TypeOK
  <2>2. place["incoming"] \in Contents \cup {None}
    BY DEF TypeOK
  <2>3. place'["incoming"] \in Contents
    BY <2>1, <2>2, ControlType
  <2> QED
    BY <2>1, <2>2, <2>3, NoneAssumption
       DEF WriteIncoming, TypeOK, WithControl, Contents, EmptyDirectory
<1> DEFINE Wrote == \E c \in Controls : WriteIncoming(c)
<1>3. ASSUME Wrote, Exit(p) PROVE Handles'
  BY <1>2, <1>3, NoneAssumption DEF Exit, Goto, TypeOK
<1>S. ASSUME place' = place, where' = where, seen' = seen \/ Forget(p),
             NEW l \in Labels, Goto(p, l), l \notin Copying,
             l \notin Walks \/ l = "verify_snapshot",
             l # "promote_result", l \in Unopened => pc[p] \in Unopened,
             l \in Walks \/ Forget(p) \/ pc[p] \notin Walks \cup {"rsync"}
      PROVE  Handles'
  BY <1>S DEF Goto, Forget, TypeOK
<1>4. ASSUME Wrote, seen' = seen \/ Forget(p), where' = where,
             NEW l \in Labels, Goto(p, l), l \notin Copying,
             l \notin Walks \/ (l = "verify_manifest" /\ pc[p] \in Unopened),
             l # "promote_result", l \notin Unopened,
             l \in Walks \/ Forget(p) \/ pc[p] \notin Walks \cup {"rsync"}
      PROVE  Handles'
  BY <1>2, <1>4, NoneAssumption DEF Goto, Forget, TypeOK
<1> DEFINE Same(l) ==
     /\ place[l] = None => place'[l] = None
     /\ place[l] # None =>
          /\ place'[l] # None
          /\ place[l].control # None => place'[l].control # None
          /\ place[l].payload # None => place'[l].payload # None
<1>5. ASSUME \A l \in {"incoming", "retained", "nested"} : Same(l), Exit(p)
      PROVE  Handles'
  BY <1>5 DEF Exit, Goto, TypeOK
<1>6. ASSUME \A l \in {"incoming", "retained", "nested"} : Same(l),
             where' = where, Forget(p), NEW m \in Labels, Goto(p, m),
             m \in {"rsync", "verify_manifest"} => pc[p] \in Copying,
             m \notin Unopened, m \notin {"transfer_manifest", "promote_result"}
      PROVE  Handles'
  BY <1>6 DEF Goto, Forget, TypeOK
<1> HIDE DEF Same, Wrote
<1>7. CASE Die(p)
  BY <1>7 DEF Die, Exit, Goto, TypeOK
<1>8. CASE Walk(p)
  BY <1>8 DEF Walk, TypeOK
<1>9. CASE EnsureAbsent(p)
  BY <1>9, <1>S DEF EnsureAbsent, Continue, Labels
<1>10. CASE MakePayload(p)
  <2>1. place["incoming"] \in Contents \cup {None}
        /\ place'["incoming"] \in Contents \cup {None}
    BY DEF TypeOK
  <2>2. /\ \A l \in {"retained", "nested"} : place'[l] = place[l]
        /\ place'["incoming"] # None /\ place'["incoming"].payload # None
        /\ place["incoming"] # None =>
              place'["incoming"].control = place["incoming"].control
    <3>1. EmptyTree # None
      BY Empties, NoneAssumption
    <3>2. place'["incoming"] = IF place["incoming"] = None
                               THEN [EmptyDirectory EXCEPT !.payload = EmptyTree]
                               ELSE [place["incoming"] EXCEPT !.payload = EmptyTree]
      BY <1>10 DEF MakePayload, TypeOK
    <3>3. CASE place["incoming"] = None
      <4>1. [EmptyDirectory EXCEPT !.payload = EmptyTree] \in Contents
        BY Empties DEF Contents
      <4>2. [EmptyDirectory EXCEPT !.payload = EmptyTree].payload = EmptyTree
        BY DEF EmptyDirectory
      <4> QED BY <1>10, <4>1, <4>2, <3>1, <3>2, <3>3, NoneAssumption
              DEF MakePayload, TypeOK
    <3>4. CASE place["incoming"] # None
      <4>1. [place["incoming"] EXCEPT !.payload = EmptyTree] \in Contents
        BY <2>1, <3>4, Empties DEF Contents
      <4>2. /\ [place["incoming"] EXCEPT !.payload = EmptyTree].payload = EmptyTree
            /\ [place["incoming"] EXCEPT !.payload = EmptyTree].control
                 = place["incoming"].control
        BY <2>1, <3>4 DEF Contents
      <4> QED BY <1>10, <4>1, <4>2, <3>1, <3>2, <3>4, NoneAssumption
              DEF MakePayload, TypeOK
    <3> QED BY <3>3, <3>4
  <2> QED BY <1>10, <2>2 DEF MakePayload, Continue, Goto, TypeOK
<1>11. CASE MakeControl(p)
  <2>1. EmptyControl \in Controls /\ EmptyControl # None
    BY Empties, NoneAssumption
  <2>2. place["incoming"].payload # None
    BY <1>11 DEF MakeControl, TypeOK
  <2>3. where[p] \in {"incoming", "retained", "nested"}
    BY DEF TypeOK
  <2> QED BY <1>11, <1>2, <2>1, <2>2, <2>3 DEF MakeControl, Continue, Goto, TypeOK
<1>12. CASE SourceManifest(p)
  <2>4. \A l \in {"incoming", "retained", "nested"} : Same(l)
    <3>1. /\ place'[where[p]] \in Contents /\ place'[where[p]].control \in Controls
          /\ place[where[p]] \in Contents
          /\ place'[where[p]].payload = place[where[p]].payload
          /\ \A l \in Places : l # where[p] => place'[l] = place[l]
      BY <1>12, SourceManifestStep
    <3> QED BY <3>1, NoneAssumption DEF Same, Places
  <2> QED BY <1>12, <2>4, <1>6 DEF SourceManifest, Continue, Labels
<1>13. CASE RsyncEntry(p)
  <2>4. \A l \in {"incoming", "retained", "nested"} : Same(l)
    BY <1>13, RsyncEntryStep, NoneAssumption DEF Same, Places
  <2>1. pc[p] = "rsync" /\ UNCHANGED <<pc, where>>
    BY <1>13 DEF RsyncEntry
  <2>2. \A q \in Procs : q # p => seen'[q] = seen[q]
    BY <1>13, RsyncEntryStep
  <2>3. \A q \in Procs : pc'[q] \notin Walks \cup {"rsync"} => DOMAIN seen'[q] = {}
    BY <2>1, <2>2
  <2>5. /\ DOMAIN place = {"incoming", "retained", "nested"}
        /\ DOMAIN place' = {"incoming", "retained", "nested"}
        /\ \A q \in Procs : where[q] \in {"incoming", "retained", "nested"}
    BY DEF TypeOK
  <2>6. /\ \A l \in DOMAIN place' : place'[l] # None =>
             place'[l].control # None \/ place'[l].payload # None
        /\ place["retained"] # None => place'["retained"] # None
    BY <2>4, <2>5 DEF Same
  <2>7. \A q \in Procs : pc'[q] \in Copying \cup {"verify_manifest"} =>
             place'[where'[q]] # None /\ place'[where'[q]].control # None
    BY <2>1, <2>4, <2>5 DEF Same
  <2>8. \A q \in Procs : pc'[q] \in Copying => place'[where'[q]].payload # None
    BY <2>1, <2>4, <2>5 DEF Same
  <2>9. Retained # None => Retained' # None
    BY <2>6 DEF Retained
  <2> QED BY <2>1, <2>3, <2>6, <2>7, <2>8, <2>9
<1>14. CASE RsyncEnd(p)
  <2>4. \A l \in {"incoming", "retained", "nested"} : Same(l)
    BY <1>14, RsyncEndStep, NoneAssumption DEF Same, Places
  <2> QED BY <1>14, <2>4, <1>6 DEF RsyncEnd, Continue, Labels
<1>15. CASE TransferResult(p)
  <2>1. [Incoming.control EXCEPT !.transferred = TRUE] \in Controls
    <3>1. place["incoming"] \in Contents /\ place["incoming"].control \in Controls
      BY <1>15 DEF TransferResult, TypeOK, Contents
    <3> QED BY <3>1 DEF Controls
  <2> QED BY <1>15, <2>1, <1>3 DEF TransferResult, Wrote
<1>16. CASE VerifyGate(p)
  BY <1>16, <1>S DEF VerifyGate, Continue, Labels
<1>17. CASE VerifyFiles(p)
  BY <1>17, <1>S DEF VerifyFiles, Continue, Labels
<1>18. CASE VerifySnapshot(p)
  BY <1>18, <1>S DEF VerifySnapshot, Labels
<1>C. ControlOf(Incoming) \in Controls
  BY ControlType DEF TypeOK
<1>19. CASE VerifyOpen(p)
  <2>1. [ControlOf(Incoming) EXCEPT !.source_verify = Manifest(EmptyTree)] \in Controls
    BY <1>C, Empties, ManifestSize DEF Controls
  <2> QED BY <1>19, <2>1, <1>4 DEF VerifyOpen, Continue, Labels, Wrote
<1>20. CASE VerifyManifest(p)
  <2>4. \A l \in {"incoming", "retained", "nested"} : Same(l)
    BY <1>20, VerifyManifestStep, NoneAssumption DEF Same, Places
  <2> QED BY <1>20, <2>4, <1>5, <1>6 DEF VerifyManifest, Continue, Labels
<1>21. CASE LocalManifest(p)
  <2>1. Manifest(Incoming.payload) \in Manifests
    BY <1>21, ManifestSize DEF LocalManifest, Contents, TypeOK
  <2>2. [ControlOf(Incoming) EXCEPT !.destination = Manifest(Incoming.payload)] \in Controls
    BY <1>C, <2>1 DEF Controls
  <2>3. Wrote
    BY <1>21, <2>2 DEF LocalManifest, Wrote
  <2>4. /\ pc[p] = "verify_local" /\ Goto(p, "verify_compare")
        /\ where' = where /\ seen' = seen
    BY <1>21 DEF LocalManifest, Continue
  <2>5. "verify_compare" \in Labels
    BY DEF Labels
  <2> HIDE DEF Handles, Retained
  <2> QED BY <2>3, <2>4, <2>5, <1>4
<1>22. CASE VerifyCompare(p)
  BY <1>22, <1>S DEF VerifyCompare, ManifestsRead, Continue, Labels
<1>23. CASE VerificationResult(p)
  <2>1. \A v \in {"PASS", "FAIL"} :
          [ControlOf(Incoming) EXCEPT !.verification = v] \in Controls
    BY <1>C DEF Controls
  <2> QED BY <1>23, <2>1, <1>3 DEF VerificationResult, Wrote
<1>24. CASE PromoteGate(p)
  BY <1>24, <1>S DEF PromoteGate, Continue, Labels
<1>25. CASE PromoteRead(p)
  BY <1>25, <1>S DEF PromoteRead, Continue, Labels
<1>26. CASE PromoteMove(p)
  <2>1. PICK t \in {"retained", "nested"} :
          /\ place[t] = None /\ MoveTo(p, t)
          /\ t = "nested" => place["retained"] # None
    BY <1>26 DEF PromoteMove
  <2>2. \A l \in {"incoming", "retained", "nested"} :
          place'[l] = IF l = "incoming" THEN None
                      ELSE IF l = t THEN place["incoming"] ELSE place[l]
    BY <2>1 DEF MoveTo, TypeOK
  <2>3. Retained' # None
    BY <1>26, <2>1, <2>2 DEF PromoteMove
  <2> QED BY <1>26, <2>1, <2>2, <2>3 DEF PromoteMove, MoveTo, Goto, TypeOK
<1>27. CASE PromotionResult(p)
  <2>1. place["retained"] \in Contents
    BY <1>27 DEF PromotionResult, TypeOK
  <2>2. ControlOf(place["retained"]) \in Controls
    BY <2>1, ControlType
  <2>3. [ControlOf(place["retained"]) EXCEPT !.promoted = TRUE] \in Controls
    BY <2>2 DEF Controls
  <2>4. /\ place'["retained"] # None /\ place'["retained"].control # None
        /\ place'["retained"].payload = place["retained"].payload
        /\ \A l \in {"incoming", "nested"} : place'[l] = place[l]
    BY <1>27, <2>1, <2>3, NoneAssumption
       DEF PromotionResult, TypeOK, WithControl, Contents
  <2>5. \A l \in {"incoming", "retained", "nested"} : Same(l)
    BY <2>4, <2>1, NoneAssumption DEF Same
  <2> QED BY <1>27, <2>5, <1>5 DEF PromotionResult
<1> QED
  BY <1>7, <1>8, <1>9, <1>10, <1>11, <1>12, <1>13, <1>14, <1>15, <1>16,
     <1>17, <1>18, <1>19, <1>20, <1>21, <1>22, <1>23, <1>24, <1>25, <1>26,
     <1>27 DEF Transfer, Verify, Promote

-----------------------------------------------------------------------------
LEMMA StagingInit == Init => Staging
<1> SUFFICES ASSUME Init PROVE Staging
  OBVIOUS
<1>1. Incoming = None /\ Control = EmptyControl /\ EmptyControl.source_manifest = None
      /\ EmptyControl.transferred = FALSE /\ EmptyControl.destination = None
      /\ EmptyControl.verification = None
  BY DEF Init, Incoming, Control, ControlOf, EmptyControl
<1>2. \A p \in Procs : pc[p] = "idle" /\ where[p] = "incoming"
  BY DEF Init
<1> QED
  <2>1. Alone
    BY <1>2 DEF Alone, Transferring, Copying
  <2>2. Grows
    BY <1>1, <1>2 DEF Grows
  <2>3. Copied
    BY <1>1, <1>2 DEF Copied
  <2>4. Verified
    BY <1>1, <1>2, NoneAssumption DEF Verified, Verifying, Counting
  <2> QED BY <2>1, <2>2, <2>3, <2>4 DEF Staging

\* What a walk has counted bounds what the rsync left.
LEMMA CountLeft ==
  ASSUME NEW tree \in Trees, NEW left \in SUBSET Dirs,
         \A d \in left : tree[d] # Absent
  PROVE  /\ Snapshot(tree).directories \in Nat
         /\ Cardinality(left) + 1 <= Snapshot(tree).directories
<1>1. left \subseteq Directories(tree) /\ Directories(tree) \subseteq Dirs
  BY DEF Directories
<1>2. IsFiniteSet(Directories(tree))
  BY <1>1, FS_Subset, RetentionAssumption
<1>3. /\ Cardinality(Directories(tree)) \in Nat
      /\ Cardinality(left) \in Nat
      /\ Cardinality(left) <= Cardinality(Directories(tree))
  BY <1>1, <1>2, FS_Subset, FS_CardinalityType
<1> QED
  BY <1>3 DEF Snapshot

\* With as many directories as were left, the copy has all of them.
LEMMA SameDirectories ==
  ASSUME NEW tree \in Trees, NEW left \in SUBSET Dirs,
         Directories(tree) \subseteq left, NEW k \in Nat,
         Cardinality(left) + 1 <= k, Cardinality(Directories(tree)) + 1 = k
  PROVE  Directories(tree) = left
<1>1. IsFiniteSet(left)
  BY FS_Subset, RetentionAssumption
<1>2. /\ IsFiniteSet(Directories(tree))
      /\ Cardinality(Directories(tree)) \in Nat /\ Cardinality(left) \in Nat
      /\ Cardinality(Directories(tree)) <= Cardinality(left)
  BY <1>1, FS_Subset, FS_CardinalityType
<1>3. Cardinality(Directories(tree)) = Cardinality(left)
  BY <1>2
<1> QED
  BY <1>1, <1>3, FS_Subset

\* The comparison, on a finished transfer, establishes what promotion needs.
LEMMA ComparePasses ==
  ASSUME TypeOK, Staging, NEW p \in Procs, VerifyCompare(p),
         pc'[p] = "verify_pass"
  PROVE  Control.transferred /\ Proved(Incoming)
<1>1. /\ Incoming \in Contents /\ Incoming # None /\ Control.transferred
      /\ Incoming.payload \in Trees
  BY DEF VerifyCompare, ManifestsRead, TypeOK, Incoming, Contents, Staging,
         Verified, Verifying, Copied
<1>2. /\ Incoming.control # None /\ Control = Incoming.control
      /\ Control \in Controls
  BY <1>1, ControlType DEF Control, ControlOf, EmptyControl
<1>3. /\ Control.source_manifest # None /\ Control.destination # None
      /\ Control.source_manifest = Control.destination
      /\ CardinalityEqual(p)
  BY <1>2 DEF VerifyCompare, ManifestsRead, SourceUnchanged, Continue, Goto,
              TypeOK, Control
<1>4. /\ Control.destination = Manifest(Incoming.payload)
      /\ ~HasSpecial(Incoming.payload)
      /\ snap[p].directories \in Nat
      /\ Cardinality(Incoming.left) + 1 <= snap[p].directories
  BY <1>3 DEF Staging, Verified, Counting, VerifyCompare, ManifestsRead
<1>5. Complete
  BY <1>1 DEF Staging, Copied
<1>6. Directories(Incoming.payload) = Incoming.left
  <2>1. Cardinality(Directories(Incoming.payload)) + 1 = snap[p].directories
    BY <1>3 DEF CardinalityEqual
  <2>2. Incoming.left \in SUBSET Dirs /\ Directories(Incoming.payload) \subseteq Incoming.left
    BY <1>1, <1>5 DEF Contents, Complete
  <2> QED BY <2>1, <2>2, <1>1, <1>4, SameDirectories
<1>7. \A n \in Names : Manifest(Incoming.payload)[n] = Incoming.held[n]
  <2> SUFFICES ASSUME NEW n \in Names
               PROVE  Manifest(Incoming.payload)[n] = Incoming.held[n]
    OBVIOUS
  <2>1. /\ Manifest(Incoming.payload)[n] = Size(Incoming.payload[n])
        /\ Size(Incoming.payload[n]) \in Nat
    BY <1>1, ManifestSize DEF Size
  <2>2. Incoming.held[n] \in Nat
    BY <1>1 DEF Contents, Manifests
  <2>3. Control.source_manifest[n] <= Incoming.held[n]
    BY <1>3 DEF Staging, Grows
  <2>4. Incoming.held[n] <= Size(Incoming.payload[n])
    BY <1>5 DEF Complete
  <2> QED BY <1>3, <1>4, <2>1, <2>2, <2>3, <2>4
<1>8. Manifest(Incoming.payload) = Incoming.held
  BY <1>1, <1>7, ManifestSize DEF Contents, Manifests
<1> QED
  BY <1>1, <1>2, <1>3, <1>4, <1>6, <1>8, NoneAssumption DEF Proved

\* The acquisition only adds.
LEMMA StagingAcquire ==
  ASSUME TypeOK, TypeOK', Staging, Acquire PROVE Staging'
<1>1. /\ place' = place /\ pc' = pc /\ where' = where /\ seen' = seen /\ snap' = snap
      /\ Incoming' = Incoming /\ Control' = Control
  BY DEF Acquire, Incoming, Control
<1>2. \A n \in Names : Size(source[n]) \in Nat /\ Size(source'[n]) \in Nat
                        /\ Size(source[n]) <= Size(source'[n])
  BY RetentionAssumption DEF Acquire, TypeOK, Trees, Entries, Size, Absent
<1>3. Directories(source) \subseteq Directories(source')
  BY RetentionAssumption DEF Acquire, TypeOK, Trees, Entries, Directories, Absent
<1>4. Incoming # None => \A n \in Names : Incoming.held[n] \in Nat
  BY DEF TypeOK, Incoming, Contents, Manifests
<1>5. \A p \in Procs : \A n \in Names \cap DOMAIN seen[p] : Size(seen[p][n]) \in Nat
  BY DEF Size
<1>6. Alone'
  BY <1>1 DEF Staging, Alone
<1>7. Grows'
  BY <1>1, <1>2, <1>4, <1>5 DEF Staging, Grows
<1>8. Complete => Complete'
  BY <1>1, <1>3 DEF Complete
<1>9. Copied'
  BY <1>1, <1>3, <1>8 DEF Staging, Copied
<1>10. Verified'
  BY <1>1 DEF Staging, Verified, Proved
<1> QED
  BY <1>6, <1>7, <1>9, <1>10 DEF Staging

\* A step that writes nothing and does not begin to transfer.
LEMMA StagingQuiet ==
  ASSUME TypeOK, TypeOK', Staging, NEW p \in Procs, NEW l \in Labels,
         source' = source, place' = place, Goto(p, l),
         \A q \in Procs : where'[q] = "incoming",
         \A q \in Procs : q # p => seen'[q] = seen[q] /\ snap'[q] = snap[q],
         l \notin Transferring,
         l = "verify_snapshot" => DOMAIN seen'[p] = {},
         l \in Verifying => Control.transferred,
         l \in Counting =>
           /\ snap'[p].directories \in Nat
           /\ Cardinality(Incoming.left) + 1 <= snap'[p].directories,
         l \in {"verify_pass", "promote_move"} =>
           Control.transferred /\ Proved(Incoming)
  PROVE  Staging'
<1>1. /\ Incoming' = Incoming /\ Control' = Control
      /\ \A q \in Procs : pc'[q] = IF q = p THEN l ELSE pc[q]
  BY DEF Incoming, Control, Goto, TypeOK
<1>2. Alone'
  BY <1>1 DEF Staging, Alone
<1>3. Grows'
  BY <1>1 DEF Staging, Grows, Transferring, Copying
<1>4. Complete' <=> Complete
  BY <1>1 DEF Complete
<1>5. Copied'
  BY <1>1, <1>4 DEF Staging, Copied, Transferring
<1>6. Proved(Incoming)' <=> Proved(Incoming)
  BY <1>1 DEF Proved
<1>7. Verified'
  BY <1>1, <1>6 DEF Staging, Verified
<1> QED
  BY <1>2, <1>3, <1>5, <1>7 DEF Staging

\* A walk sees what the source has by then.
LEMMA StagingWalk ==
  ASSUME TypeOK, TypeOK', Staging, NEW p \in Procs, Walk(p) PROVE Staging'
<1>1. /\ Incoming' = Incoming /\ Control' = Control
      /\ source' = source /\ pc' = pc /\ where' = where /\ snap' = snap
      /\ pc[p] \in Walks
  BY DEF Walk, Incoming, Control
<1>2. PICK e \in Entries :
        /\ DOMAIN seen'[p] = DOMAIN seen[p] \cup {e}
        /\ seen'[p][e] = source[e]
        /\ \A x \in DOMAIN seen[p] : seen'[p][x] = seen[p][x] \/ seen'[p][x] = source[x]
        /\ \A q \in Procs : q # p => seen'[q] = seen[q]
  BY DEF Walk, TypeOK
<1>3. Alone'
  BY <1>1 DEF Staging, Alone
<1>4. Grows'
  BY <1>1, <1>2 DEF Staging, Grows, Size, Walks
<1>5. (Complete' <=> Complete) /\ (Proved(Incoming)' <=> Proved(Incoming))
  BY <1>1 DEF Complete, Proved
<1>6. Copied'
  BY <1>1, <1>5 DEF Staging, Copied
<1>7. \A q \in Procs : pc'[q] = "verify_snapshot" =>
        \A d \in Incoming'.left \cap DOMAIN seen'[q] : seen'[q][d] # Absent
  <2>1. pc[p] = "verify_snapshot" => Incoming.left \subseteq Directories(source)
    BY DEF Staging, Verified, Verifying, Copied, Complete
  <2> QED BY <1>1, <1>2, <2>1 DEF Staging, Verified, Directories
<1>8. Verified'
  BY <1>1, <1>5, <1>7 DEF Staging, Verified
<1> QED
  BY <1>3, <1>4, <1>6, <1>8 DEF Staging

\* Writing a control file leaves the rest of the directory.
LEMMA WriteStep ==
  ASSUME TypeOK, NEW c \in Controls, WriteIncoming(c)
  PROVE  /\ Incoming' \in Contents /\ Incoming' # None
         /\ Incoming'.control = c /\ Incoming'.control # None /\ Control' = c
         /\ \A l \in {"retained", "nested"} : place'[l] = place[l]
         /\ Incoming # None =>
              /\ Incoming'.payload = Incoming.payload
              /\ Incoming'.held = Incoming.held
              /\ Incoming'.left = Incoming.left
<1>1. Incoming \in Contents \cup {None} /\ Incoming' = WithControl(Incoming, c)
  BY DEF TypeOK, Incoming, WriteIncoming
<1>2. \A l \in {"retained", "nested"} : place'[l] = place[l]
  BY DEF TypeOK, WriteIncoming
<1>3. Incoming' \in Contents /\ Incoming' # None
  BY <1>1, ControlType, NoneAssumption
<1>4. Incoming'.control = c
  BY <1>1 DEF WithControl, Contents, EmptyDirectory
<1>5. Incoming # None =>
              /\ Incoming'.payload = Incoming.payload
              /\ Incoming'.held = Incoming.held
              /\ Incoming'.left = Incoming.left
  BY <1>1 DEF WithControl, Contents
<1>6. c # None
  BY NoneAssumption
<1>7. Control' = c
  BY <1>3, <1>4, <1>6 DEF Control, ControlOf
<1> QED
  BY <1>2, <1>3, <1>4, <1>5, <1>6, <1>7

LEMMA StagingWrite ==
  ASSUME TypeOK, TypeOK', Staging, NEW p \in Procs, NEW l \in Labels,
         NEW c \in Controls, WriteIncoming(c), Incoming # None,
         source' = source, Goto(p, l),
         \A q \in Procs : where'[q] = "incoming",
         \A q \in Procs : q # p => seen'[q] = seen[q] /\ snap'[q] = snap[q],
         l \notin Transferring, l # "verify_snapshot",
         l \notin {"verify_pass", "promote_move"},
         l \in Verifying => c.transferred,
         l \in Counting =>
           /\ snap'[p].directories \in Nat
           /\ Cardinality(Incoming.left) + 1 <= snap'[p].directories,
         c.source_manifest = Control.source_manifest,
         c.transferred <=> Control.transferred \/ pc[p] = "transfer_result",
         c.destination # None =>
           /\ c.transferred
           /\ c.destination = Manifest(Incoming.payload)
           /\ ~HasSpecial(Incoming.payload),
         c.verification = "PASS" => c.transferred /\ Proved(Incoming)
  PROVE  Staging'
<1>1. /\ Incoming' # None /\ Incoming'.control # None /\ Incoming'.control = c
      /\ Control' = c /\ Incoming'.payload = Incoming.payload
      /\ Incoming'.held = Incoming.held /\ Incoming'.left = Incoming.left
  BY WriteStep
<1>2. \A q \in Procs : pc'[q] = IF q = p THEN l ELSE pc[q]
  BY DEF Goto, TypeOK
<1>3. Alone'
  BY <1>1, <1>2 DEF Staging, Alone, Transferring
<1>4. Grows'
  BY <1>1, <1>2 DEF Staging, Grows, Transferring, Copying
<1>5. Complete' <=> Complete
  BY <1>1 DEF Complete
<1>6. Copied'
  BY <1>1, <1>2, <1>5 DEF Staging, Copied, Alone, Transferring
<1>7. Proved(Incoming) => Proved(Incoming)'
  BY <1>1 DEF Proved, Control, ControlOf
<1>8. Verified'
  BY <1>1, <1>2, <1>7 DEF Staging, Verified
<1> QED
  BY <1>3, <1>4, <1>6, <1>8 DEF Staging

LEMMA StagingMakePayload ==
  ASSUME TypeOK, TypeOK', Staging, NEW p \in Procs, MakePayload(p) PROVE Staging'
<1>1. /\ Incoming \in Contents \cup {None} /\ Incoming' \in Contents
      /\ Incoming' # None /\ Incoming'.payload = EmptyTree /\ EmptyTree # None
      /\ Incoming # None => /\ Incoming.payload = None
                            /\ Incoming'.control = Incoming.control
                            /\ Incoming'.held = Incoming.held
                            /\ Incoming'.left = Incoming.left
      /\ Incoming = None => /\ Incoming'.control = None
                            /\ Incoming'.held = Manifest(EmptyTree)
                            /\ Incoming'.left = {}
  <2>1. EmptyTree # None /\ Incoming \in Contents \cup {None}
    BY Empties, NoneAssumption DEF TypeOK, Incoming
  <2>2. Incoming' = IF Incoming = None
                    THEN [EmptyDirectory EXCEPT !.payload = EmptyTree]
                    ELSE [Incoming EXCEPT !.payload = EmptyTree]
    BY DEF MakePayload, Incoming, TypeOK
  <2>3. CASE Incoming = None
    <3>1. [EmptyDirectory EXCEPT !.payload = EmptyTree] \in Contents
      BY Empties DEF Contents
    <3> QED BY <2>1, <2>2, <2>3, <3>1, NoneAssumption DEF EmptyDirectory
  <2>4. CASE Incoming # None
    <3>1. [Incoming EXCEPT !.payload = EmptyTree] \in Contents
      BY <2>1, <2>4, Empties DEF Contents
    <3>2. Incoming.payload = None
      BY <2>4 DEF MakePayload, PayloadOf
    <3> QED BY <2>1, <2>2, <2>4, <3>1, <3>2, NoneAssumption DEF Contents
  <2> QED BY <2>3, <2>4
<1>2. Control' = Control
  BY <1>1 DEF Control, ControlOf
<1>3. ~Control.transferred
  BY <1>1 DEF Staging, Copied, Control, ControlOf, EmptyControl
<1>4. \A q \in Procs : pc[q] \notin Transferring
  BY <1>1 DEF Staging, Alone
<1>5. /\ source' = source /\ where' = where /\ seen' = seen /\ snap' = snap
      /\ \A q \in Procs : pc'[q] = IF q = p THEN "make_control" ELSE pc[q]
  BY DEF MakePayload, Continue, Goto, TypeOK
<1>6. Alone'
  BY <1>1, <1>2, <1>3, <1>4, <1>5 DEF Staging, Alone
<1>7. \A n \in Names : Manifest(EmptyTree)[n] = 0 /\ 0 <= Size(source[n])
  BY ManifestSize, Empties DEF Size, EmptyTree, Entries, Absent
<1>8. Control.source_manifest # None => Incoming # None
  BY DEF Control, ControlOf, EmptyControl
<1>9. Grows'
  BY <1>1, <1>2, <1>4, <1>5, <1>7, <1>8 DEF Staging, Grows, Transferring, Copying
<1>10. Directories(EmptyTree) = {}
  BY DEF Directories, EmptyTree, Entries, Absent
<1>11. Copied'
  BY <1>1, <1>2, <1>3, <1>4, <1>5, <1>10 DEF Staging, Copied, Transferring
<1>12. Verified'
  BY <1>2, <1>3, <1>5 DEF Staging, Verified, Verifying, Counting
<1> QED
  BY <1>6, <1>9, <1>11, <1>12 DEF Staging

LEMMA StagingMakeControl ==
  ASSUME TypeOK, TypeOK', Handles, Staging, NEW p \in Procs, MakeControl(p)
  PROVE  Staging'
<1>1. /\ Incoming # None /\ Incoming.control = None /\ Control = EmptyControl
      /\ EmptyControl \in Controls /\ WriteIncoming(EmptyControl)
  BY Empties DEF MakeControl, Control, ControlOf
<1>2. /\ Incoming' # None /\ Control' = EmptyControl
      /\ Incoming'.payload = Incoming.payload
      /\ Incoming'.held = Incoming.held /\ Incoming'.left = Incoming.left
  BY <1>1, WriteStep
<1>3. /\ EmptyControl.source_manifest = None /\ EmptyControl.transferred = FALSE
      /\ EmptyControl.destination = None /\ EmptyControl.verification = None
  BY DEF EmptyControl
<1>4. /\ source' = source /\ where' = where /\ seen' = seen /\ snap' = snap
      /\ pc[p] = "make_control" /\ DOMAIN seen[p] = {}
      /\ \A q \in Procs : pc'[q] = IF q = p THEN "transfer_manifest" ELSE pc[q]
  BY DEF MakeControl, Continue, Goto, TypeOK, Handles, Walks
<1>5. Alone'
  BY <1>1, <1>2, <1>3, <1>4 DEF Staging, Alone, Transferring, Copying
<1>6. Grows'
  BY <1>1, <1>2, <1>3, <1>4 DEF Staging, Grows
<1>7. Copied'
  BY <1>1, <1>2, <1>3, <1>4 DEF Staging, Copied, Complete
<1>8. Verified'
  BY <1>1, <1>2, <1>3, <1>4, NoneAssumption DEF Staging, Verified, Verifying, Counting
<1> QED
  BY <1>5, <1>6, <1>7, <1>8 DEF Staging

LEMMA StagingSourceManifest ==
  ASSUME TypeOK, TypeOK', Handles, Staging, NEW p \in Procs, SourceManifest(p)
  PROVE  Staging'
<1>1. /\ Incoming \in Contents /\ Incoming' \in Contents
      /\ Incoming # None /\ Incoming' # None
      /\ Incoming.control \in Controls /\ Incoming'.control \in Controls
      /\ Incoming'.control = [Incoming.control EXCEPT !.source_manifest = Manifest(seen[p])]
      /\ Incoming'.payload = Incoming.payload /\ Incoming'.left = Incoming.left
      /\ Incoming'.held = Manifest(source) /\ seen[p] \in Trees
  BY SourceManifestStep, NoneAssumption DEF Staging, Alone, Incoming
<1>2. Control = Incoming.control /\ Control' = Incoming'.control
  BY <1>1, NoneAssumption DEF Control, ControlOf
<1>3. /\ Control'.source_manifest = Manifest(seen[p])
      /\ Control'.transferred = Control.transferred
      /\ Control'.destination = Control.destination
      /\ Control'.verification = Control.verification
  BY <1>1, <1>2 DEF Controls
<1>4. /\ source' = source /\ where' = where /\ snap' = snap
      /\ pc[p] = "transfer_manifest" /\ DOMAIN seen'[p] = {} /\ DOMAIN seen[p] = Entries
      /\ \A q \in Procs : pc'[q] = IF q = p THEN "rsync" ELSE pc[q]
      /\ \A q \in Procs : q # p => seen'[q] = seen[q]
  BY NoWalkType DEF SourceManifest, Continue, Goto, Forget, TypeOK, Walked
<1>5. ~Control.transferred /\ \A q \in Procs : q # p => pc[q] \notin Transferring
  BY <1>4 DEF Staging, Alone, Transferring, Copying
<1>6. Alone'
  BY <1>1, <1>3, <1>4, <1>5 DEF Staging, Alone, Transferring, Copying
<1>7. \A n \in Names : /\ Manifest(source)[n] = Size(source[n])
                       /\ Manifest(seen[p])[n] = Size(seen[p][n])
                       /\ Size(source[n]) \in Nat
                       /\ Size(seen[p][n]) <= Size(source[n])
  <2>1. \A n \in Names : Size(seen[p][n]) <= Size(source[n])
    BY <1>4 DEF Staging, Grows, Entries
  <2> QED BY <1>1, <2>1, ManifestSize DEF TypeOK, Size
<1>8. Grows'
  BY <1>1, <1>3, <1>4, <1>5, <1>7 DEF Grows, Transferring, Copying
<1>9. Copied'
  BY <1>1, <1>3, <1>4, <1>5 DEF Staging, Copied, Transferring
<1>10. Verified'
  BY <1>3, <1>4, <1>5 DEF Staging, Verified, Verifying, Counting
<1> QED
  BY <1>6, <1>8, <1>9, <1>10 DEF Staging

LEMMA StagingRsyncEntry ==
  ASSUME TypeOK, TypeOK', Handles, Staging, NEW p \in Procs, RsyncEntry(p)
  PROVE  Staging'
<1>1. /\ Incoming \in Contents /\ Incoming' \in Contents
      /\ Incoming # None /\ Incoming' # None
      /\ Incoming.payload \in Trees /\ Incoming'.payload \in Trees
      /\ Incoming.payload # None /\ Incoming'.payload # None
      /\ Incoming'.control = Incoming.control
      /\ Incoming'.held = Incoming.held /\ Incoming'.left = Incoming.left
  BY RsyncEntryStep, NoneAssumption DEF Staging, Alone, Incoming
<1>2. Control' = Control
  BY <1>1 DEF Control, ControlOf
<1>3. PICK x \in Entries :
        /\ \A y \in Entries : Incoming'.payload[y] = IF y = x THEN source[y]
                                                  ELSE Incoming.payload[y]
        /\ DOMAIN seen'[p] = DOMAIN seen[p] \cup {x}
        /\ \A q \in Procs : q # p => seen'[q] = seen[q]
  BY RsyncEntryStep DEF Staging, Alone, Incoming
<1>4. /\ source' = source /\ where' = where /\ snap' = snap /\ pc' = pc
      /\ pc[p] = "rsync"
  BY DEF RsyncEntry
<1>5. /\ ~Control.transferred
      /\ \A q \in Procs : q # p => pc[q] \notin Transferring
  BY <1>4 DEF Staging, Alone, Transferring, Copying
<1>6. Alone'
  BY <1>1, <1>2, <1>4 DEF Staging, Alone
<1>7. Grows'
  BY <1>1, <1>2, <1>3, <1>4, <1>5 DEF Staging, Grows, Entries, Transferring, Copying
<1>8. Directories(Incoming.payload) \subseteq Directories(source)
        => Directories(Incoming'.payload) \subseteq Directories(source)
  BY <1>3 DEF Directories, Entries
<1>9. Copied'
  BY <1>1, <1>2, <1>4, <1>5, <1>8 DEF Staging, Copied, Transferring, Copying
<1>10. Verified'
  BY <1>2, <1>4, <1>5 DEF Staging, Verified, Verifying, Counting
<1> QED
  BY <1>6, <1>7, <1>9, <1>10 DEF Staging

LEMMA StagingRsyncEnd ==
  ASSUME TypeOK, TypeOK', Handles, Staging, NEW p \in Procs, RsyncEnd(p)
  PROVE  Staging'
<1>1. /\ Incoming \in Contents /\ Incoming' \in Contents
      /\ Incoming # None /\ Incoming' # None
      /\ Incoming.payload \in Trees /\ Incoming.payload # None
      /\ Incoming'.control = Incoming.control
      /\ Incoming'.payload = Incoming.payload
      /\ Incoming'.held = Incoming.held /\ Incoming'.left = Directories(source)
  BY RsyncEndStep, NoneAssumption DEF Staging, Alone, Incoming
<1>2. Control' = Control
  BY <1>1 DEF Control, ControlOf
<1>3. /\ source' = source /\ where' = where /\ snap' = snap
      /\ pc[p] = "rsync" /\ DOMAIN seen'[p] = {} /\ DOMAIN seen[p] = Entries
      /\ \A q \in Procs : pc'[q] = IF q = p THEN "transfer_result" ELSE pc[q]
      /\ \A q \in Procs : q # p => seen'[q] = seen[q]
  BY NoWalkType DEF RsyncEnd, Continue, Goto, Forget, TypeOK, Walked
<1>4. /\ ~Control.transferred
      /\ \A q \in Procs : q # p => pc[q] \notin Transferring
  BY <1>3 DEF Staging, Alone, Transferring, Copying
<1>5. Alone'
  BY <1>1, <1>2, <1>3, <1>4 DEF Staging, Alone, Transferring, Copying
<1>6. Grows'
  BY <1>1, <1>2, <1>3, <1>4 DEF Staging, Grows, Transferring, Copying
<1>7. Complete'
  <2>1. Directories(Incoming.payload) \subseteq Directories(source)
    BY <1>1 DEF Staging, Copied
  <2>2. \A n \in Names : Incoming.held[n] <= Size(Incoming.payload[n])
    BY <1>3 DEF Staging, Grows, Entries
  <2> QED BY <1>1, <1>3, <2>1, <2>2 DEF Complete
<1>8. Copied'
  BY <1>1, <1>2, <1>3, <1>4, <1>7 DEF Staging, Copied
<1>9. Verified'
  BY <1>2, <1>3, <1>4 DEF Staging, Verified, Verifying, Counting
<1> QED
  BY <1>5, <1>6, <1>8, <1>9 DEF Staging

LEMMA StagingVerifyManifest ==
  ASSUME TypeOK, TypeOK', Handles, Staging, NEW p \in Procs, VerifyManifest(p)
  PROVE  Staging'
<1>1. /\ Incoming # None /\ Incoming' # None
      /\ Incoming.control # None /\ Incoming'.control # None
      /\ Incoming'.payload = Incoming.payload
      /\ Incoming'.held = Incoming.held /\ Incoming'.left = Incoming.left
      /\ \A f \in {"source_manifest", "destination", "transferred",
                    "verification"} : Incoming'.control[f] = Incoming.control[f]
  BY VerifyManifestStep, NoneAssumption DEF Staging, Alone, Incoming
<1>2. Control = Incoming.control /\ Control' = Incoming'.control
  BY <1>1 DEF Control, ControlOf
<1>3. /\ Control'.source_manifest = Control.source_manifest
      /\ Control'.destination = Control.destination
      /\ Control'.transferred = Control.transferred
      /\ Control'.verification = Control.verification
  BY <1>1, <1>2
<1>4. /\ source' = source /\ pc[p] = "verify_manifest"
      /\ \A q \in Procs : where'[q] = "incoming"
      /\ \A q \in Procs : q # p => /\ seen'[q] = seen[q] /\ snap'[q] = snap[q]
                                   /\ pc'[q] = pc[q]
      /\ pc'[p] = "idle" \/ (pc'[p] = "verify_local" /\ snap' = snap)
  BY DEF VerifyManifest, Continue, Exit, Goto, Forget, TypeOK, Staging, Alone
<1>5. Alone'
  BY <1>1, <1>3, <1>4 DEF Staging, Alone, Transferring, Copying
<1>6. Grows'
  BY <1>1, <1>3, <1>4 DEF Staging, Grows
<1>7. (Complete' <=> Complete) /\ (Proved(Incoming)' <=> Proved(Incoming))
  BY <1>1, <1>4 DEF Complete, Proved
<1>8. Copied'
  BY <1>1, <1>3, <1>4, <1>7 DEF Staging, Copied
<1>9. Verified'
  BY <1>1, <1>3, <1>4, <1>7 DEF Staging, Verified, Verifying, Counting
<1> QED
  BY <1>5, <1>6, <1>8, <1>9 DEF Staging

LEMMA StagingStep ==
  ASSUME TypeOK, TypeOK', Handles, Staging, Retained = None, Retained' = None, Next
  PROVE  Staging'
<1>1. CASE Acquire
  BY <1>1, StagingAcquire
<1> SUFFICES ASSUME NEW p \in Procs,
                    Die(p) \/ Walk(p) \/ Transfer(p) \/ Verify(p) \/ Promote(p)
             PROVE  Staging'
  BY <1>1 DEF Next
<1>2. /\ Incoming \in Contents \cup {None} /\ Control \in Controls
      /\ \A q \in Procs : where[q] = "incoming"
      /\ Control.transferred => Incoming # None
  <2>1. Incoming \in Contents \cup {None}
    BY DEF TypeOK, Incoming
  <2> QED BY <2>1, ControlType DEF Staging, Alone, Control, ControlOf, EmptyControl
<1>3. Exit(p) => /\ Goto(p, "idle") /\ \A q \in Procs : where'[q] = "incoming"
                 /\ \A q \in Procs : q # p => seen'[q] = seen[q] /\ snap'[q] = snap[q]
  BY <1>2 DEF Exit, TypeOK
<1>4. CASE Die(p)
  BY <1>4, <1>3, StagingQuiet
     DEF Die, Labels, Transferring, Copying, Verifying, Counting
<1>5. CASE Walk(p)
  BY <1>5, StagingWalk
<1>6. CASE EnsureAbsent(p)
  BY <1>6, <1>2, StagingQuiet
     DEF EnsureAbsent, Continue, Labels, Transferring, Copying, Verifying, Counting
<1>7. CASE MakePayload(p)
  BY <1>7, StagingMakePayload
<1>8. CASE MakeControl(p)
  BY <1>8, StagingMakeControl
<1>9. CASE SourceManifest(p)
  BY <1>9, StagingSourceManifest
<1>10. CASE RsyncEntry(p)
  BY <1>10, StagingRsyncEntry
<1>11. CASE RsyncEnd(p)
  BY <1>11, StagingRsyncEnd
<1>12. CASE TransferResult(p)
  <2>1. Incoming # None /\ Incoming.control # None /\ Control = Incoming.control
    BY <1>12 DEF TransferResult, Control, ControlOf
  <2> DEFINE c == [Incoming.control EXCEPT !.transferred = TRUE]
  <2>2. /\ c \in Controls /\ c.source_manifest = Control.source_manifest
        /\ c.transferred = TRUE /\ c.destination = Control.destination
        /\ c.verification = Control.verification
    BY <1>2, <2>1 DEF Controls
  <2>3. WriteIncoming(c) /\ Exit(p) /\ source' = source /\ pc[p] = "transfer_result"
    BY <1>12 DEF TransferResult
  <2> HIDE DEF c
  <2>4. ~Control.transferred
    BY <2>3 DEF Staging, Alone, Transferring
  <2>5. ~(c.destination # None) /\ c.verification # "PASS"
    BY <2>2, <2>4 DEF Staging, Verified
  <2> QED
    BY <1>3, <2>1, <2>2, <2>3, <2>5, StagingWrite
       DEF Labels, Transferring, Copying, Verifying, Counting
<1>13. CASE VerifyGate(p)
  BY <1>13, <1>2, StagingQuiet
     DEF VerifyGate, Continue, Labels, Transferring, Copying, Verifying, Counting
<1>14. CASE VerifyFiles(p)
  <2>1. /\ source' = source /\ place' = place /\ Goto(p, "verify_snapshot")
        /\ where' = where /\ seen' = seen /\ snap' = snap /\ pc[p] = "verify_files"
        /\ Control.transferred
    BY <1>14 DEF VerifyFiles, Continue, Control
  <2>2. DOMAIN seen[p] = {}
    BY <2>1 DEF Handles, Walks
  <2> QED
    BY <1>2, <2>1, <2>2, StagingQuiet
       DEF Labels, Transferring, Copying, Verifying, Counting
<1>15. CASE VerifySnapshot(p)
  <2>1. /\ source' = source /\ place' = place /\ Goto(p, "verify_open")
        /\ where' = where /\ snap' = [snap EXCEPT ![p] = Snapshot(seen[p])]
        /\ seen' = [seen EXCEPT ![p] = NoWalk]
        /\ pc[p] = "verify_snapshot" /\ DOMAIN seen[p] = Entries
    BY <1>15 DEF VerifySnapshot, Forget, Walked
  <2>2. Control.transferred /\ seen[p] \in Trees /\ Incoming \in Contents
    BY <1>2, <2>1 DEF Staging, Verified, Verifying, TypeOK, Trees
  <2>3. Incoming.left \in SUBSET Dirs /\ \A d \in Incoming.left : seen[p][d] # Absent
    BY <2>1, <2>2 DEF Staging, Verified, Contents, Entries
  <2>4. /\ snap'[p].directories \in Nat
        /\ Cardinality(Incoming.left) + 1 <= snap'[p].directories
        /\ \A q \in Procs : q # p => seen'[q] = seen[q] /\ snap'[q] = snap[q]
    BY <2>1, <2>2, <2>3, CountLeft DEF TypeOK
  <2> QED
    BY <1>2, <2>1, <2>2, <2>4, StagingQuiet
       DEF Labels, Transferring, Copying, Verifying, Counting
<1>16. CASE VerifyOpen(p)
  <2> DEFINE c == [Control EXCEPT !.source_verify = Manifest(EmptyTree)]
  <2>1. /\ c \in Controls /\ c.source_manifest = Control.source_manifest
        /\ c.transferred = Control.transferred /\ c.destination = Control.destination
        /\ c.verification = Control.verification
    BY <1>2, Empties, ManifestSize DEF Controls
  <2>2. /\ WriteIncoming(c) /\ source' = source /\ pc[p] = "verify_open"
        /\ Goto(p, "verify_manifest") /\ where' = where /\ seen' = seen /\ snap' = snap
    BY <1>16 DEF VerifyOpen, Continue, Control
  <2> HIDE DEF c
  <2>3. /\ Control.transferred /\ snap[p].directories \in Nat
        /\ Cardinality(Incoming.left) + 1 <= snap[p].directories
    BY <2>2 DEF Staging, Verified, Verifying, Counting
  <2>4. c.destination # None =>
           /\ c.destination = Manifest(Incoming.payload)
           /\ ~HasSpecial(Incoming.payload)
    BY <2>1 DEF Staging, Verified
  <2>5. c.verification = "PASS" => Proved(Incoming)
    BY <2>1 DEF Staging, Verified
  <2> QED
    BY <1>2, <2>1, <2>2, <2>3, <2>4, <2>5, StagingWrite
       DEF Labels, Transferring, Copying, Verifying
<1>17. CASE VerifyManifest(p)
  BY <1>17, StagingVerifyManifest
<1>18. CASE LocalManifest(p)
  <2>1. /\ Incoming # None /\ Incoming.payload # None
        /\ ~HasSpecial(Incoming.payload)
    BY <1>18 DEF LocalManifest
  <2> DEFINE c == [Control EXCEPT !.destination = Manifest(Incoming.payload)]
  <2>2. Manifest(Incoming.payload) \in Manifests
    BY <1>2, <2>1, ManifestSize DEF Contents
  <2>3. /\ c \in Controls /\ c.source_manifest = Control.source_manifest
        /\ c.transferred = Control.transferred
        /\ c.destination = Manifest(Incoming.payload)
        /\ c.verification = Control.verification
    BY <1>2, <2>2 DEF Controls
  <2>4. /\ WriteIncoming(c) /\ source' = source /\ pc[p] = "verify_local"
        /\ Goto(p, "verify_compare") /\ where' = where /\ seen' = seen /\ snap' = snap
    BY <1>18 DEF LocalManifest, Continue, Control
  <2> HIDE DEF c
  <2>5. /\ Control.transferred /\ snap[p].directories \in Nat
        /\ Cardinality(Incoming.left) + 1 <= snap[p].directories
    BY <2>4 DEF Staging, Verified, Verifying, Counting
  <2>6. c.verification = "PASS" => Proved(Incoming)
    BY <2>3 DEF Staging, Verified
  <2> QED
    BY <1>2, <2>1, <2>3, <2>4, <2>5, <2>6, StagingWrite
       DEF Labels, Transferring, Copying, Verifying
<1>19. CASE VerifyCompare(p)
  <2>1. /\ source' = source /\ place' = place /\ where' = where /\ seen' = seen
        /\ snap' = snap /\ pc[p] = "verify_compare"
        /\ Goto(p, "verify_fail") \/ Goto(p, "verify_pass")
    BY <1>19 DEF VerifyCompare, ManifestsRead, Continue
  <2>2. Control.transferred
    BY <2>1 DEF Staging, Verified, Verifying
  <2>3. Goto(p, "verify_pass") => Proved(Incoming)
    BY <1>19, ComparePasses DEF Goto, TypeOK
  <2> QED
    BY <1>2, <2>1, <2>2, <2>3, StagingQuiet
       DEF Labels, Transferring, Copying, Verifying, Counting
<1>20. CASE VerificationResult(p)
  <2>1. PICK v \in {"PASS", "FAIL"} :
          /\ WriteIncoming([Control EXCEPT !.verification = v])
          /\ v = "PASS" => pc[p] = "verify_pass"
    BY <1>20 DEF VerificationResult, Control
  <2> DEFINE c == [Control EXCEPT !.verification = v]
  <2>2. /\ c \in Controls /\ c.source_manifest = Control.source_manifest
        /\ c.transferred = Control.transferred /\ c.destination = Control.destination
        /\ c.verification = v
    BY <1>2 DEF Controls
  <2>3. WriteIncoming(c)
    BY <2>1
  <2> HIDE DEF c
  <2>4. Exit(p) /\ source' = source /\ pc[p] \in {"verify_fail", "verify_pass"}
    BY <1>20 DEF VerificationResult
  <2>5. Control.transferred
    BY <2>4 DEF Staging, Verified, Verifying
  <2>6. c.destination # None =>
           /\ c.destination = Manifest(Incoming.payload)
           /\ ~HasSpecial(Incoming.payload)
    BY <2>2 DEF Staging, Verified
  <2>7. c.verification = "PASS" => Proved(Incoming)
    BY <2>1, <2>2 DEF Staging, Verified
  <2> QED
    BY <1>2, <1>3, <2>2, <2>3, <2>4, <2>5, <2>6, <2>7, StagingWrite
       DEF Labels, Transferring, Copying, Verifying, Counting
<1>21. CASE PromoteGate(p)
  BY <1>21, <1>2, StagingQuiet
     DEF PromoteGate, Continue, Labels, Transferring, Copying, Verifying, Counting
<1>22. CASE PromoteRead(p)
  <2>1. /\ source' = source /\ place' = place /\ Goto(p, "promote_move")
        /\ where' = where /\ seen' = seen /\ snap' = snap
        /\ Control.verification = "PASS"
    BY <1>22 DEF PromoteRead, Continue, Control
  <2>2. Control.transferred /\ Proved(Incoming)
    BY <2>1 DEF Staging, Verified
  <2> QED
    BY <1>2, <2>1, <2>2, StagingQuiet
       DEF Labels, Transferring, Copying, Verifying, Counting
<1>23. CASE PromoteMove(p)
  BY <1>23, <1>2 DEF PromoteMove, MoveTo, TypeOK, Retained, Incoming
<1>24. CASE PromotionResult(p)
  BY <1>24 DEF PromotionResult, Handles
<1> QED
  BY <1>4, <1>5, <1>6, <1>7, <1>8, <1>9, <1>10, <1>11, <1>12, <1>13, <1>14,
     <1>15, <1>16, <1>17, <1>18, <1>19, <1>20, <1>21, <1>22, <1>23, <1>24
     DEF Transfer, Verify, Promote

-----------------------------------------------------------------------------
\* Only a promotion makes the retained directory, from what was verified.
LEMMA KeptBegins ==
  ASSUME TypeOK, TypeOK', Handles, Staging, Retained = None, Retained' # None, Next
  PROVE  Kept'
<1>1. ~Acquire
  BY DEF Acquire, Retained
<1> SUFFICES ASSUME NEW p \in Procs,
                    Die(p) \/ Walk(p) \/ Transfer(p) \/ Verify(p) \/ Promote(p)
             PROVE  Kept'
  BY <1>1 DEF Next
<1>2. where[p] = "incoming"
  BY DEF Staging, Alone
<1>3. \A c : WriteIncoming(c) => Retained' = Retained
  BY DEF WriteIncoming, TypeOK, Retained
<1>4. ~Transfer(p)
  <2>1. ~EnsureAbsent(p) /\ ~MakePayload(p)
    BY DEF EnsureAbsent, MakePayload, TypeOK, Retained
  <2>2. ~MakeControl(p) /\ ~TransferResult(p)
    BY <1>3 DEF MakeControl, TransferResult
  <2>3. ~SourceManifest(p)
    BY <1>2, SourceManifestStep DEF Places, Retained
  <2>4. ~RsyncEntry(p)
    BY <1>2, RsyncEntryStep DEF Places, Retained
  <2>5. ~RsyncEnd(p)
    BY <1>2, RsyncEndStep DEF Places, Retained
  <2> QED BY <2>1, <2>2, <2>3, <2>4, <2>5 DEF Transfer
<1>5. ~Verify(p)
  <2>1. /\ ~VerifyGate(p) /\ ~VerifyFiles(p) /\ ~VerifySnapshot(p)
        /\ ~VerifyCompare(p)
    BY DEF VerifyGate, VerifyFiles, VerifySnapshot, VerifyCompare, Retained
  <2>2. ~VerifyOpen(p) /\ ~LocalManifest(p) /\ ~VerificationResult(p)
    BY <1>3 DEF VerifyOpen, LocalManifest, VerificationResult
  <2>3. ~VerifyManifest(p)
    BY <1>2, VerifyManifestStep DEF Places, Retained
  <2> QED BY <2>1, <2>2, <2>3 DEF Verify
<1>6. PromoteMove(p)
  <2>1. ~Die(p) /\ ~Walk(p) /\ ~PromoteGate(p) /\ ~PromoteRead(p)
    BY DEF Die, Walk, PromoteGate, PromoteRead, Retained
  <2>2. ~PromotionResult(p)
    BY DEF PromotionResult, Handles
  <2> QED BY <1>4, <1>5, <2>1, <2>2 DEF Promote
<1>7. pc[p] = "promote_move" /\ MoveTo(p, "retained")
  BY <1>6 DEF PromoteMove, Retained
<1>8. Control.transferred /\ Proved(Incoming)
  BY <1>7 DEF Staging, Verified
<1>9. Retained' = Incoming
  BY <1>7 DEF MoveTo, TypeOK, Retained
<1>10. \A q \in Procs : pc[q] \notin Copying
  BY <1>8 DEF Staging, Alone, Transferring
<1>11. \A q \in Procs : pc'[q] \notin Copying
  BY <1>7, <1>10 DEF MoveTo, Goto, TypeOK, Copying
<1> QED
  BY <1>8, <1>9, <1>11 DEF Kept, Proved

\* No step of any invocation changes what has been retained.
LEMMA RetainedStep ==
  ASSUME TypeOK, TypeOK', Handles, Kept, Retained # None, [Next]_vars
  PROVE  /\ Retained' # None /\ Retained'.control # None
         /\ Retained'.payload = Retained.payload
         /\ Retained'.held = Retained.held /\ Retained'.left = Retained.left
         /\ Retained'.control.source_manifest = Retained.control.source_manifest
         /\ Retained'.control.verification = Retained.control.verification
         /\ \A p \in Procs : where'[p] = "retained" => pc'[p] \notin Copying
<1> DEFINE Goal ==
     /\ Retained' # None /\ Retained'.control # None
     /\ Retained'.payload = Retained.payload
     /\ Retained'.held = Retained.held /\ Retained'.left = Retained.left
     /\ Retained'.control.source_manifest = Retained.control.source_manifest
     /\ Retained'.control.verification = Retained.control.verification
<1> DEFINE Away == \A p \in Procs : where'[p] = "retained" => pc'[p] \notin Copying
<1>1. Retained' = Retained => Goal
  BY DEF Kept, Proved
<1>2. Retained \in Contents /\ Retained.control \in Controls
  BY DEF TypeOK, Retained, Kept, Proved, Contents
<1>3. \A p \in Procs : where[p] = "retained" => pc[p] \notin Copying
  BY DEF Kept
<1> SUFFICES Goal /\ Away
  OBVIOUS
<1>4. CASE Acquire \/ UNCHANGED vars
  BY <1>1, <1>3, <1>4 DEF Acquire, vars, Retained
<1> SUFFICES ASSUME NEW p \in Procs,
                    Die(p) \/ Walk(p) \/ Transfer(p) \/ Verify(p) \/ Promote(p)
             PROVE  Goal /\ Away
  BY <1>4 DEF Next
<1> HIDE DEF Goal
<1>5. \A c : WriteIncoming(c) => Retained' = Retained
  BY DEF WriteIncoming, TypeOK, Retained
<1>6. Exit(p) => Away
  BY <1>3 DEF Exit, Goto, TypeOK, Copying
<1>7. ASSUME NEW l \in Labels \ Copying, Goto(p, l), where' = where PROVE Away
  BY <1>3, <1>7 DEF Goto, TypeOK
<1> HIDE DEF Away
<1>8. CASE Die(p)
  BY <1>1, <1>6, <1>8 DEF Die, Retained
<1>9. CASE Walk(p)
  BY <1>1, <1>3, <1>9 DEF Walk, Retained, Away
<1>10. CASE EnsureAbsent(p) \/ VerifyGate(p) \/ PromoteGate(p)
  BY <1>10 DEF EnsureAbsent, VerifyGate, PromoteGate, Retained
<1>11. CASE MakePayload(p)
  BY <1>1, <1>7, <1>11 DEF MakePayload, Continue, TypeOK, Retained, Labels, Copying
<1>12. CASE MakeControl(p)
  <2>1. Goal
    BY <1>1, <1>5, <1>12 DEF MakeControl
  <2>2. where[p] = "incoming" /\ where' = where
    BY <1>12 DEF MakeControl, Continue, Handles, Unopened
  <2>3. Away
    BY <1>3, <1>12, <2>2 DEF MakeControl, Continue, Goto, TypeOK, Away
  <2> QED BY <2>1, <2>3
<1>13. CASE SourceManifest(p)
  <2>1. where[p] # "retained" /\ where' = where
    BY <1>3, <1>13 DEF SourceManifest, Continue, Copying
  <2>2. Goal
    BY <1>1, <1>13, <2>1, SourceManifestStep DEF Places, Retained
  <2>3. Away
    BY <1>3, <1>13, <2>1 DEF SourceManifest, Continue, Goto, TypeOK, Away
  <2> QED BY <2>2, <2>3
<1>14. CASE RsyncEntry(p)
  <2>1. where[p] # "retained" /\ where' = where /\ pc' = pc
    BY <1>3, <1>14 DEF RsyncEntry, Copying
  <2>2. Goal
    BY <1>1, <1>14, <2>1, RsyncEntryStep DEF Places, Retained
  <2> QED BY <1>3, <2>1, <2>2 DEF Away
<1>15. CASE RsyncEnd(p)
  <2>1. where[p] # "retained"
    BY <1>3, <1>15 DEF RsyncEnd, Copying
  <2>2. Goal
    BY <1>1, <1>15, <2>1, RsyncEndStep DEF Places, Retained
  <2> QED BY <1>7, <1>15, <2>2 DEF RsyncEnd, Continue, Labels, Copying
<1>16. CASE TransferResult(p)
  BY <1>1, <1>5, <1>6, <1>16 DEF TransferResult
<1>17. CASE VerifyFiles(p)
  BY <1>1, <1>7, <1>17 DEF VerifyFiles, Continue, Labels, Copying, Retained
<1>18. CASE VerifySnapshot(p)
  BY <1>1, <1>7, <1>18 DEF VerifySnapshot, Labels, Copying, Retained
<1>19. CASE VerifyOpen(p)
  BY <1>1, <1>5, <1>7, <1>19 DEF VerifyOpen, Continue, Labels, Copying
<1>20. CASE VerifyManifest(p)
  <2>1. Goal
    <3>1. CASE where[p] = "retained"
      BY <1>20, <3>1, VerifyManifestStep, NoneAssumption DEF Retained, Goal
    <3>2. CASE where[p] # "retained"
      BY <1>1, <1>20, <3>2, VerifyManifestStep DEF Places, Retained
    <3> QED BY <3>1, <3>2
  <2>2. Away
    BY <1>6, <1>7, <1>20 DEF VerifyManifest, Continue, Labels, Copying
  <2> QED BY <2>1, <2>2
<1>21. CASE LocalManifest(p)
  BY <1>1, <1>5, <1>7, <1>21 DEF LocalManifest, Continue, Labels, Copying
<1>22. CASE VerifyCompare(p)
  BY <1>1, <1>7, <1>22 DEF VerifyCompare, Continue, Labels, Copying, Retained
<1>23. CASE VerificationResult(p)
  BY <1>1, <1>5, <1>6, <1>23 DEF VerificationResult
<1>24. CASE PromoteRead(p)
  BY <1>1, <1>7, <1>24 DEF PromoteRead, Continue, Labels, Copying, Retained
<1>25. CASE PromoteMove(p)
  <2>1. MoveTo(p, "nested")
    BY <1>25 DEF PromoteMove, Retained
  <2>2. Retained' = Retained
    BY <2>1 DEF MoveTo, TypeOK, Retained
  <2>3. Away
    BY <1>3, <2>1 DEF MoveTo, Goto, TypeOK, Copying, Away
  <2> QED BY <1>1, <2>2, <2>3
<1>26. CASE PromotionResult(p)
  <2> DEFINE c == [Retained.control EXCEPT !.promoted = TRUE]
  <2>1. /\ c \in Controls /\ c.source_manifest = Retained.control.source_manifest
        /\ c.verification = Retained.control.verification
    BY <1>2 DEF Controls
  <2>2. ControlOf(Retained) = Retained.control
    BY DEF ControlOf, Kept, Proved
  <2>3. Retained' = [Retained EXCEPT !.control = c]
    BY <1>26, <2>2 DEF PromotionResult, WithControl, TypeOK, Retained
  <2> HIDE DEF c
  <2>4. /\ [Retained EXCEPT !.control = c] \in Contents
        /\ Retained'.control = c /\ Retained'.payload = Retained.payload
        /\ Retained'.held = Retained.held /\ Retained'.left = Retained.left
    BY <1>2, <2>1, <2>3 DEF Contents
  <2>5. Goal
    BY <2>1, <2>3, <2>4, NoneAssumption DEF Goal
  <2> QED BY <1>6, <1>26, <2>5 DEF PromotionResult
<1> QED
  BY <1>8, <1>9, <1>10, <1>11, <1>12, <1>13, <1>14, <1>15, <1>16, <1>17,
     <1>18, <1>19, <1>20, <1>21, <1>22, <1>23, <1>24, <1>25, <1>26
     DEF Transfer, Verify, Promote

LEMMA IndInit == Init => IndInv
  BY TypeInit, HandlesInit, StagingInit DEF IndInv, Init, Retained

LEMMA IndStep == IndInv /\ [Next]_vars => IndInv'
<1> SUFFICES ASSUME IndInv, [Next]_vars PROVE IndInv'
  OBVIOUS
<1>1. TypeOK' /\ Handles'
  BY TypeStep, HandlesStep DEF IndInv
<1>2. CASE UNCHANGED vars
  BY <1>2 DEF vars, IndInv, TypeOK, Handles, Staging, Alone, Grows, Copied,
              Complete, Verified, Proved, Kept, Control, Incoming, Retained
<1>3. CASE Next
  <2>1. CASE Retained = None
    BY <1>1, <1>3, <2>1, StagingStep, KeptBegins DEF IndInv
  <2>2. CASE Retained # None
    BY <1>1, <1>3, <2>2, RetainedStep DEF IndInv, Kept, Proved
  <2> QED BY <2>1, <2>2
<1> QED
  BY <1>2, <1>3

LEMMA Inductive == Spec => []IndInv
  BY IndInit, IndStep, PTL DEF Spec

-----------------------------------------------------------------------------
\* Every variable keeps its type, whatever invocations overlap or die.
THEOREM TypeCorrect == Spec => []TypeOK
<1>1. IndInv => TypeOK
  BY DEF IndInv
<1> QED
  BY <1>1, Inductive, PTL

\* What is promoted is what the source held: files as of the source manifest,
\* directories as of the end of the rsync, nothing special.
THEOREM RetainedCorrect == Spec => []RetainedIsSource
<1>1. IndInv => RetainedIsSource
  BY DEF IndInv, Kept, Proved, RetainedIsSource
<1> QED
  BY <1>1, Inductive, PTL

\* The source manifest beside a retained payload describes that payload.
THEOREM ManifestCorrect == Spec => []ManifestDescribesPayload
<1>1. IndInv => ManifestDescribesPayload
  BY DEF IndInv, Kept, Proved, ControlOf, ManifestDescribesPayload
<1> QED
  BY <1>1, Inductive, PTL

\* A retained payload, its source manifest and its verification are final:
\* no overlapping or later invocation of any mode changes them.
THEOREM RetainedForGood == Spec => RetainedStays
<1>1. IndInv /\ IndInv' /\ [Next]_vars =>
        [Retained # None =>
           /\ PayloadOf(Retained') = PayloadOf(Retained)
           /\ \A f \in {"source_manifest", "verification"} :
                ControlOf(Retained')[f] = ControlOf(Retained)[f]]_vars
  BY RetainedStep DEF IndInv, PayloadOf, ControlOf, Kept, Proved
<1> QED
  BY <1>1, Inductive, PTL DEF Spec, RetainedStays
=============================================================================
