-------------------------- MODULE RatioReaderProofs --------------------------
(***************************************************************************)
(* Proofs about RatioReader for every number of readers, writer invocations *)
(* and transitions. The argument is one inductive invariant, IndInv: a      *)
(* reader past its link owns the consumed file of its next transition, no   *)
(* two readers own the same one, and an owner that has not launched yet has *)
(* no launch behind it.                                                     *)
(***************************************************************************)
EXTENDS RatioReader, FiniteSetTheorems, TLAPS

\* Reader r holds a validated binding.
Holding(r) == rpc[r] \in {"linking", "unlinking", "claimed", "actuating"}

\* Reader r made the link of its next transition's consumed file.
Owns(r) == rpc[r] \in {"unlinking", "claimed", "actuating"}

\* A held binding passed load_and_validate_binding and cannot change: its
\* writer is past the write loop.
HeldIsValid ==
  \A r \in Readers : Holding(r) =>
    /\ nextIndex[r] \in Transitions
    /\ cur[r] \in complete
    /\ bind[cur[r]].idx = nextIndex[r]
    /\ bind[cur[r]].created >= started[r]

\* Only a writer past its write loop has a complete file.
CompleteIsStored == \A w \in complete : wpc[w] \in {"stored", "ended", "failed"}

\* The link is exclusive, so ownership is.
OwnersAreAlone ==
  /\ \A r \in Readers : Owns(r) => consumed[nextIndex[r]] # NoFile
  /\ \A r, s \in Readers : Owns(r) /\ Owns(s) /\ nextIndex[r] = nextIndex[s] => r = s

\* A launch happened for a consumed binding, by a reader that did start, and
\* an owner that has not launched yet is the first to launch its transition.
RunsAreClaimed ==
  /\ \A k \in DOMAIN runs :
       /\ consumed[runs[k].idx] # NoFile
       /\ rpc[runs[k].reader] # "none"
  /\ \A r \in Readers, k \in DOMAIN runs :
       rpc[r] \in {"unlinking", "claimed"} => runs[k].idx # nextIndex[r]

\* A live container belongs to a launch.
DockerHasRun == \A r \in Readers : docker[r] # 0 => docker[r] \in DOMAIN runs

TypeInv == TypeOK /\ HeldIsValid /\ CompleteIsStored

IndInv ==
  /\ TypeInv
  /\ OwnersAreAlone
  /\ RunsAreClaimed
  /\ DockerHasRun
  /\ AtMostOneRunPerTransition
  /\ AtMostOneControlPerRun
  /\ RunBindingAddressed

-----------------------------------------------------------------------------
\* The initial state: no writer, no file, no reader.
LEMMA TypeInit == Init => TypeInv
BY ReaderAssumption
   DEF Init, TypeInv, TypeOK, WriterTypeOK, EntryTypeOK, FifoTypeOK, ReaderTypeOK,
       PlantTypeOK, HeldIsValid, CompleteIsStored, Holding, Transitions, Binding,
       Inode, WriterPc, ReaderPc

\* Every step keeps the types, and a held binding valid and immutable.
LEMMA TypeStep == TypeInv /\ [Next]_vars => TypeInv'
<1> SUFFICES ASSUME TypeInv, [Next]_vars PROVE TypeInv'
  OBVIOUS
<1> USE ReaderAssumption DEF TypeInv, TypeOK
<1>1. CASE Tick
  <2>1. now' \in Nat /\ WriterTypeOK' /\ EntryTypeOK' /\ FifoTypeOK' /\ ReaderTypeOK' /\ PlantTypeOK'
    BY <1>1 DEF Tick, WriterTypeOK, writerVars, EntryTypeOK, entryVars, FifoTypeOK,
       fifoVars, ReaderTypeOK, readerVars, PlantTypeOK, plantVars
  <2>2. HeldIsValid' /\ CompleteIsStored'
    BY <1>1 DEF Tick, HeldIsValid, CompleteIsStored, Holding, WriterTypeOK,
       ReaderTypeOK, writerVars, readerVars
  <2> QED
    BY <2>1, <2>2
<1>2. CASE \E w \in Writers, p, i \in Transitions : WriterBuild(w, p, i)
  <2> PICK w \in Writers, p, i \in Transitions : WriterBuild(w, p, i)
    BY <1>2
  <2>1. now' \in Nat /\ EntryTypeOK' /\ FifoTypeOK' /\ ReaderTypeOK' /\ PlantTypeOK'
    BY DEF WriterBuild, EntryTypeOK, entryVars, FifoTypeOK, fifoVars, ReaderTypeOK,
       readerVars, PlantTypeOK, plantVars
  <2>2. WriterTypeOK'
    BY DEF WriterBuild, Binding, WriterTypeOK, WriterPc
  <2>3. HeldIsValid' /\ CompleteIsStored'
    BY DEF WriterBuild, HeldIsValid, CompleteIsStored, Holding, WriterTypeOK,
       ReaderTypeOK, readerVars
  <2> QED
    BY <2>1, <2>2, <2>3
<1>3. CASE \E w \in Writers : WriterCreate(w)
  <2> PICK w \in Writers : WriterCreate(w)
    BY <1>3
  <2>1. now' \in Nat /\ FifoTypeOK' /\ ReaderTypeOK' /\ PlantTypeOK'
    BY DEF WriterCreate, FifoTypeOK, fifoVars, ReaderTypeOK, readerVars,
       PlantTypeOK, plantVars
  <2>2. WriterTypeOK'
    BY DEF WriterCreate, WriterTypeOK, WriterPc
  <2>3. EntryTypeOK'
    BY DEF WriterCreate, EntryTypeOK, Inode
  <2>4. HeldIsValid' /\ CompleteIsStored'
    BY DEF WriterCreate, HeldIsValid, CompleteIsStored, Holding, WriterTypeOK,
       ReaderTypeOK, readerVars
  <2> QED
    BY <2>1, <2>2, <2>3, <2>4
<1>4. CASE \E w \in Writers : WriterRefused(w)
  <2> PICK w \in Writers : WriterRefused(w)
    BY <1>4
  <2>1. now' \in Nat /\ EntryTypeOK' /\ FifoTypeOK' /\ ReaderTypeOK' /\ PlantTypeOK'
    BY DEF WriterRefused, EntryTypeOK, entryVars, FifoTypeOK, fifoVars,
       ReaderTypeOK, readerVars, PlantTypeOK, plantVars
  <2>2. WriterTypeOK'
    BY DEF WriterRefused, WriterTypeOK, WriterPc
  <2>3. HeldIsValid' /\ CompleteIsStored'
    BY DEF WriterRefused, HeldIsValid, CompleteIsStored, Holding, WriterTypeOK,
       ReaderTypeOK, readerVars
  <2> QED
    BY <2>1, <2>2, <2>3
<1>5. CASE \E w \in Writers : WriterStore(w)
  <2> PICK w \in Writers : WriterStore(w)
    BY <1>5
  <2>1. now' \in Nat /\ EntryTypeOK' /\ FifoTypeOK' /\ ReaderTypeOK' /\ PlantTypeOK'
    BY DEF WriterStore, EntryTypeOK, entryVars, FifoTypeOK, fifoVars, ReaderTypeOK,
       readerVars, PlantTypeOK, plantVars
  <2>2. WriterTypeOK'
    BY DEF WriterStore, WriterTypeOK, WriterPc
  <2>3. HeldIsValid' /\ CompleteIsStored'
    BY DEF WriterStore, HeldIsValid, CompleteIsStored, Holding, WriterTypeOK,
       ReaderTypeOK, readerVars
  <2> QED
    BY <2>1, <2>2, <2>3
<1>6. CASE \E w \in Writers : WriterAbort(w)
  <2> PICK w \in Writers : WriterAbort(w)
    BY <1>6
  <2>1. now' \in Nat /\ FifoTypeOK' /\ ReaderTypeOK' /\ PlantTypeOK'
    BY DEF WriterAbort, FifoTypeOK, fifoVars, ReaderTypeOK, readerVars, PlantTypeOK,
       plantVars
  <2>2. WriterTypeOK'
    BY DEF WriterAbort, WriterTypeOK, WriterPc
  <2>3. EntryTypeOK'
    BY DEF WriterAbort, EntryTypeOK, Inode
  <2>4. HeldIsValid' /\ CompleteIsStored'
    BY DEF WriterAbort, HeldIsValid, CompleteIsStored, Holding, WriterTypeOK,
       ReaderTypeOK, readerVars
  <2> QED
    BY <2>1, <2>2, <2>3, <2>4
<1>7. CASE \E w \in Writers : WriterEnd(w)
  <2> PICK w \in Writers : WriterEnd(w)
    BY <1>7
  <2>1. now' \in Nat /\ EntryTypeOK' /\ FifoTypeOK' /\ ReaderTypeOK' /\ PlantTypeOK'
    BY DEF WriterEnd, EntryTypeOK, entryVars, FifoTypeOK, fifoVars, ReaderTypeOK,
       readerVars, PlantTypeOK, plantVars
  <2>2. WriterTypeOK'
    BY DEF WriterEnd, WriterTypeOK, WriterPc
  <2>3. HeldIsValid' /\ CompleteIsStored'
    BY DEF WriterEnd, HeldIsValid, CompleteIsStored, Holding, WriterTypeOK,
       ReaderTypeOK, readerVars
  <2> QED
    BY <2>1, <2>2, <2>3
<1>8. CASE \E r \in Readers : ManagerOpen(r)
  <2> PICK r \in Readers : ManagerOpen(r)
    BY <1>8
  <2>1. now' \in Nat /\ WriterTypeOK' /\ EntryTypeOK' /\ PlantTypeOK'
    BY DEF ManagerOpen, WriterTypeOK, writerVars, EntryTypeOK, entryVars,
       PlantTypeOK, plantVars
  <2>2. FifoTypeOK'
    BY DEF ManagerOpen, FifoTypeOK
  <2>3. ReaderTypeOK'
    BY DEF ManagerOpen, ReaderTypeOK, ReaderPc, Inode
  <2>4. HeldIsValid' /\ CompleteIsStored'
    BY DEF ManagerOpen, HeldIsValid, CompleteIsStored, Holding, WriterTypeOK,
       ReaderTypeOK, writerVars
  <2> QED
    BY <2>1, <2>2, <2>3, <2>4
<1>9. CASE \E r \in Readers : ManagerExit(r)
  <2> PICK r \in Readers : ManagerExit(r)
    BY <1>9
  <2>1. now' \in Nat /\ WriterTypeOK' /\ EntryTypeOK' /\ ReaderTypeOK' /\ PlantTypeOK'
    BY DEF ManagerExit, WriterTypeOK, writerVars, EntryTypeOK, entryVars,
       ReaderTypeOK, readerVars, PlantTypeOK, plantVars
  <2>2. FifoTypeOK'
    BY DEF ManagerExit, FifoTypeOK
  <2>3. HeldIsValid' /\ CompleteIsStored'
    BY DEF ManagerExit, HeldIsValid, CompleteIsStored, Holding, WriterTypeOK,
       ReaderTypeOK, writerVars, readerVars
  <2> QED
    BY <2>1, <2>2, <2>3
<1>10. CASE \E r \in Readers, tok \in {"TRIGGER", "OTHER"} : WriteToken(r, tok)
  <2> PICK r \in Readers, tok \in {"TRIGGER", "OTHER"} : WriteToken(r, tok)
    BY <1>10
  <2>1. now' \in Nat /\ WriterTypeOK' /\ EntryTypeOK' /\ PlantTypeOK'
    BY DEF WriteToken, WriterTypeOK, writerVars, EntryTypeOK, entryVars,
       PlantTypeOK, plantVars
  <2>2. FifoTypeOK'
    BY DEF WriteToken, FifoTypeOK
  <2>3. ReaderTypeOK'
    BY DEF WriteToken, ReaderTypeOK, ReaderPc, Inode
  <2>4. HeldIsValid' /\ CompleteIsStored'
    BY DEF WriteToken, HeldIsValid, CompleteIsStored, Holding, WriterTypeOK,
       ReaderTypeOK, writerVars
  <2> QED
    BY <2>1, <2>2, <2>3, <2>4
<1>11. CASE \E r \in Readers, i \in Transitions : ReaderStart(r, i)
  <2> PICK r \in Readers, i \in Transitions : ReaderStart(r, i)
    BY <1>11
  <2>1. now' \in Nat /\ WriterTypeOK' /\ EntryTypeOK' /\ FifoTypeOK' /\ PlantTypeOK'
    BY DEF ReaderStart, WriterTypeOK, writerVars, EntryTypeOK, entryVars,
       FifoTypeOK, fifoVars, PlantTypeOK, plantVars
  <2>2. ReaderTypeOK'
    BY DEF ReaderStart, ReaderTypeOK, ReaderPc, Inode, Transitions
  <2>3. HeldIsValid' /\ CompleteIsStored'
    BY DEF ReaderStart, HeldIsValid, CompleteIsStored, Holding, WriterTypeOK,
       ReaderTypeOK, writerVars
  <2> QED
    BY <2>1, <2>2, <2>3
<1>12. CASE \E r \in Readers : ReadToken(r)
  <2> PICK r \in Readers : ReadToken(r)
    BY <1>12
  <2>1. now' \in Nat /\ WriterTypeOK' /\ EntryTypeOK' /\ PlantTypeOK'
    BY DEF ReadToken, WriterTypeOK, writerVars, EntryTypeOK, entryVars, PlantTypeOK,
       plantVars
  <2>2. FifoTypeOK'
    BY DEF ReadToken, FifoTypeOK
  <2>3. ReaderTypeOK'
    BY DEF ReadToken, ReaderTypeOK, ReaderPc, Inode
  <2>4. HeldIsValid' /\ CompleteIsStored'
    BY DEF ReadToken, HeldIsValid, CompleteIsStored, Holding, WriterTypeOK,
       ReaderTypeOK, writerVars
  <2> QED
    BY <2>1, <2>2, <2>3, <2>4
<1>13. CASE \E r \in Readers : ReadEof(r)
  <2> PICK r \in Readers : ReadEof(r)
    BY <1>13
  <2>1. now' \in Nat /\ WriterTypeOK' /\ EntryTypeOK' /\ PlantTypeOK'
    BY DEF ReadEof, Die, WriterTypeOK, writerVars, EntryTypeOK, entryVars,
       PlantTypeOK, plantVars
  <2>2. FifoTypeOK'
    BY DEF ReadEof, Die, FifoTypeOK
  <2>3. ReaderTypeOK'
    BY DEF ReadEof, Die, ReaderTypeOK, ReaderPc, Inode
  <2>4. HeldIsValid' /\ CompleteIsStored'
    BY DEF ReadEof, Die, HeldIsValid, CompleteIsStored, Holding, WriterTypeOK,
       ReaderTypeOK, writerVars
  <2> QED
    BY <2>1, <2>2, <2>3, <2>4
<1>14. CASE \E r \in Readers : LoadBinding(r)
  <2> PICK r \in Readers : LoadBinding(r)
    BY <1>14
  <2>1. now' \in Nat /\ WriterTypeOK' /\ EntryTypeOK' /\ FifoTypeOK' /\ PlantTypeOK'
    BY DEF LoadBinding, WriterTypeOK, writerVars, EntryTypeOK, entryVars,
       FifoTypeOK, fifoVars, PlantTypeOK, plantVars
  <2>2. ReaderTypeOK'
    BY DEF LoadBinding, ReaderTypeOK, ReaderPc, Inode, Acceptable, EntryTypeOK,
       WriterTypeOK
  <2>3. HeldIsValid' /\ CompleteIsStored'
    BY DEF LoadBinding, Acceptable, HeldIsValid, CompleteIsStored, Holding,
       WriterTypeOK, ReaderTypeOK, writerVars, EntryTypeOK
  <2> QED
    BY <2>1, <2>2, <2>3
<1>15. CASE \E r \in Readers : RejectBinding(r)
  <2> PICK r \in Readers : RejectBinding(r)
    BY <1>15
  <2>1. now' \in Nat /\ WriterTypeOK' /\ EntryTypeOK' /\ PlantTypeOK'
    BY DEF RejectBinding, Die, WriterTypeOK, writerVars, EntryTypeOK, entryVars,
       PlantTypeOK, plantVars
  <2>2. FifoTypeOK'
    BY DEF RejectBinding, Die, FifoTypeOK
  <2>3. ReaderTypeOK'
    BY DEF RejectBinding, Die, ReaderTypeOK, ReaderPc, Inode
  <2>4. HeldIsValid' /\ CompleteIsStored'
    BY DEF RejectBinding, Die, HeldIsValid, CompleteIsStored, Holding, WriterTypeOK,
       ReaderTypeOK, writerVars
  <2> QED
    BY <2>1, <2>2, <2>3, <2>4
<1>16. CASE \E r \in Readers : ClaimLink(r)
  <2> PICK r \in Readers : ClaimLink(r)
    BY <1>16
  <2>1. now' \in Nat /\ WriterTypeOK' /\ FifoTypeOK' /\ PlantTypeOK'
    BY DEF ClaimLink, WriterTypeOK, writerVars, FifoTypeOK, fifoVars, PlantTypeOK,
       plantVars
  <2>2. EntryTypeOK'
    BY DEF ClaimLink, EntryTypeOK, Inode
  <2>3. ReaderTypeOK'
    BY DEF ClaimLink, ReaderTypeOK, ReaderPc, Inode
  <2>4. HeldIsValid' /\ CompleteIsStored'
    BY DEF ClaimLink, HeldIsValid, CompleteIsStored, Holding, WriterTypeOK,
       ReaderTypeOK, writerVars
  <2> QED
    BY <2>1, <2>2, <2>3, <2>4
<1>17. CASE \E r \in Readers : ClaimRefused(r)
  <2> PICK r \in Readers : ClaimRefused(r)
    BY <1>17
  <2>1. now' \in Nat /\ WriterTypeOK' /\ EntryTypeOK' /\ PlantTypeOK'
    BY DEF ClaimRefused, Die, WriterTypeOK, writerVars, EntryTypeOK, entryVars,
       PlantTypeOK, plantVars
  <2>2. FifoTypeOK'
    BY DEF ClaimRefused, Die, FifoTypeOK
  <2>3. ReaderTypeOK'
    BY DEF ClaimRefused, Die, ReaderTypeOK, ReaderPc, Inode
  <2>4. HeldIsValid' /\ CompleteIsStored'
    BY DEF ClaimRefused, Die, HeldIsValid, CompleteIsStored, Holding, WriterTypeOK,
       ReaderTypeOK, writerVars
  <2> QED
    BY <2>1, <2>2, <2>3, <2>4
<1>18. CASE \E r \in Readers : ClaimUnlink(r)
  <2> PICK r \in Readers : ClaimUnlink(r)
    BY <1>18
  <2>1. now' \in Nat /\ WriterTypeOK' /\ FifoTypeOK' /\ PlantTypeOK'
    BY DEF ClaimUnlink, WriterTypeOK, writerVars, FifoTypeOK, fifoVars, PlantTypeOK,
       plantVars
  <2>2. EntryTypeOK'
    BY DEF ClaimUnlink, EntryTypeOK, Inode
  <2>3. ReaderTypeOK'
    BY DEF ClaimUnlink, ReaderTypeOK, ReaderPc, Inode, HeldIsValid, Holding,
       WriterTypeOK
  <2>4. HeldIsValid' /\ CompleteIsStored'
    BY DEF ClaimUnlink, HeldIsValid, CompleteIsStored, Holding, WriterTypeOK,
       ReaderTypeOK, writerVars
  <2> QED
    BY <2>1, <2>2, <2>3, <2>4
<1>19. CASE \E r \in Readers : ClaimUncertain(r)
  <2> PICK r \in Readers : ClaimUncertain(r)
    BY <1>19
  <2>1. now' \in Nat /\ WriterTypeOK' /\ PlantTypeOK'
    BY DEF ClaimUncertain, Die, WriterTypeOK, writerVars, PlantTypeOK, plantVars
  <2>2. EntryTypeOK'
    BY DEF ClaimUncertain, Die, EntryTypeOK, Inode
  <2>3. FifoTypeOK'
    BY DEF ClaimUncertain, Die, FifoTypeOK
  <2>4. ReaderTypeOK'
    BY DEF ClaimUncertain, Die, ReaderTypeOK, ReaderPc, Inode
  <2>5. HeldIsValid' /\ CompleteIsStored'
    BY DEF ClaimUncertain, Die, HeldIsValid, CompleteIsStored, Holding,
       WriterTypeOK, ReaderTypeOK, writerVars
  <2> QED
    BY <2>1, <2>2, <2>3, <2>4, <2>5
<1>20. CASE \E r \in Readers : Launch(r)
  <2> PICK r \in Readers : Launch(r)
    BY <1>20
  <2>1. now' \in Nat /\ WriterTypeOK' /\ EntryTypeOK' /\ FifoTypeOK'
    BY DEF Launch, WriterTypeOK, writerVars, EntryTypeOK, entryVars, FifoTypeOK,
       fifoVars
  <2>2. ReaderTypeOK'
    BY DEF Launch, ReaderTypeOK, ReaderPc, Inode
  <2>3. PlantTypeOK'
    BY DEF Launch, Run, PlantTypeOK, HeldIsValid, Holding, WriterTypeOK
  <2>4. HeldIsValid' /\ CompleteIsStored'
    BY DEF Launch, HeldIsValid, CompleteIsStored, Holding, WriterTypeOK,
       ReaderTypeOK, writerVars
  <2> QED
    BY <2>1, <2>2, <2>3, <2>4
<1>21. CASE \E r \in Readers : WrapperReject(r)
  <2> PICK r \in Readers : WrapperReject(r)
    BY <1>21
  <2>1. now' \in Nat /\ WriterTypeOK' /\ EntryTypeOK' /\ PlantTypeOK'
    BY DEF WrapperReject, Die, WriterTypeOK, writerVars, EntryTypeOK, entryVars,
       PlantTypeOK, plantVars
  <2>2. FifoTypeOK'
    BY DEF WrapperReject, Die, FifoTypeOK
  <2>3. ReaderTypeOK'
    BY DEF WrapperReject, Die, ReaderTypeOK, ReaderPc, Inode
  <2>4. HeldIsValid' /\ CompleteIsStored'
    BY DEF WrapperReject, Die, HeldIsValid, CompleteIsStored, Holding, WriterTypeOK,
       ReaderTypeOK, writerVars
  <2> QED
    BY <2>1, <2>2, <2>3, <2>4
<1>22. CASE \E r \in Readers : SendControl(r)
  <2> PICK r \in Readers : SendControl(r)
    BY <1>22
  <2>1. now' \in Nat /\ WriterTypeOK' /\ EntryTypeOK' /\ FifoTypeOK' /\ ReaderTypeOK'
    BY DEF SendControl, WriterTypeOK, writerVars, EntryTypeOK, entryVars,
       FifoTypeOK, fifoVars, ReaderTypeOK, readerVars
  <2>2. PlantTypeOK'
    BY DEF SendControl, PlantTypeOK
  <2>3. HeldIsValid' /\ CompleteIsStored'
    BY DEF SendControl, HeldIsValid, CompleteIsStored, Holding, WriterTypeOK,
       ReaderTypeOK, writerVars, readerVars
  <2> QED
    BY <2>1, <2>2, <2>3
<1>23. CASE \E r \in Readers : ActuatorDone(r)
  <2> PICK r \in Readers : ActuatorDone(r)
    BY <1>23
  <2>1. now' \in Nat /\ WriterTypeOK' /\ EntryTypeOK' /\ FifoTypeOK'
    BY DEF ActuatorDone, WriterTypeOK, writerVars, EntryTypeOK, entryVars,
       FifoTypeOK, fifoVars
  <2>2. ReaderTypeOK'
    BY DEF ActuatorDone, ReaderTypeOK, ReaderPc, Inode
  <2>3. PlantTypeOK'
    BY DEF ActuatorDone, PlantTypeOK
  <2>4. HeldIsValid' /\ CompleteIsStored'
    BY DEF ActuatorDone, HeldIsValid, CompleteIsStored, Holding, WriterTypeOK,
       ReaderTypeOK, writerVars
  <2> QED
    BY <2>1, <2>2, <2>3, <2>4
<1>24. CASE \E r \in Readers : ActuatorFailed(r)
  <2> PICK r \in Readers : ActuatorFailed(r)
    BY <1>24
  <2>1. now' \in Nat /\ WriterTypeOK' /\ EntryTypeOK'
    BY DEF ActuatorFailed, Die, WriterTypeOK, writerVars, EntryTypeOK, entryVars
  <2>2. FifoTypeOK'
    <3>1. CASE rpc[r] = "actuating"
      <4>1. Die(r)
        BY <3>1 DEF ActuatorFailed
      <4>2. QED
        BY <4>1 DEF Die, FifoTypeOK
    <3>2. CASE rpc[r] # "actuating"
      BY <3>2 DEF ActuatorFailed, fifoVars, FifoTypeOK
    <3>3. QED
      BY <3>1, <3>2
  <2>3. ReaderTypeOK'
    BY DEF ActuatorFailed, Die, ReaderTypeOK, ReaderPc, Inode, fifoVars, readerVars
  <2>4. PlantTypeOK'
    BY DEF ActuatorFailed, Die, PlantTypeOK, fifoVars, readerVars
  <2>5. HeldIsValid' /\ CompleteIsStored'
    BY DEF ActuatorFailed, Die, HeldIsValid, CompleteIsStored, Holding,
       WriterTypeOK, ReaderTypeOK, fifoVars, readerVars, writerVars
  <2> QED
    BY <2>1, <2>2, <2>3, <2>4, <2>5
<1>25. CASE \E r \in Readers : ReaderCrash(r)
  <2> PICK r \in Readers : ReaderCrash(r)
    BY <1>25
  <2>1. now' \in Nat /\ WriterTypeOK' /\ EntryTypeOK' /\ PlantTypeOK'
    BY DEF ReaderCrash, Die, WriterTypeOK, writerVars, EntryTypeOK, entryVars,
       PlantTypeOK, plantVars
  <2>2. FifoTypeOK'
    BY DEF ReaderCrash, Die, FifoTypeOK
  <2>3. ReaderTypeOK'
    BY DEF ReaderCrash, Die, ReaderTypeOK, ReaderPc, Inode
  <2>4. HeldIsValid' /\ CompleteIsStored'
    BY DEF ReaderCrash, Die, HeldIsValid, CompleteIsStored, Holding, WriterTypeOK,
       ReaderTypeOK, writerVars
  <2> QED
    BY <2>1, <2>2, <2>3, <2>4
<1>26. CASE UNCHANGED vars
  BY <1>26 DEF vars, writerVars, entryVars, fifoVars, readerVars, plantVars,
     WriterTypeOK, EntryTypeOK, FifoTypeOK, ReaderTypeOK, PlantTypeOK, HeldIsValid,
     CompleteIsStored, Holding
<1>27. QED
  BY <1>1, <1>2, <1>3, <1>4, <1>5, <1>6, <1>7, <1>8, <1>9, <1>10, <1>11, <1>12,
     <1>13, <1>14, <1>15, <1>16, <1>17, <1>18, <1>19, <1>20, <1>21, <1>22, <1>23,
     <1>24, <1>25, <1>26
     DEF Next, WriterStep, EndpointStep, ReaderStep, ReaderProgress

\* A step is quiet when it links no consumed file, launches nothing, sends no
\* control and makes no reader an owner.
Quiet ==
  /\ UNCHANGED <<consumed, runs, applied>>
  /\ \A w \in complete : w \in complete' /\ bind'[w] = bind[w]
  /\ \A r \in Readers :
       /\ Owns(r)' => Owns(r) /\ nextIndex'[r] = nextIndex[r]
       /\ rpc'[r] \in {"unlinking", "claimed"} => rpc[r] \in {"unlinking", "claimed"}
       /\ rpc[r] # "none" => rpc'[r] # "none" /\ started'[r] = started[r]
       /\ docker'[r] \in {0, docker[r]}

\* Quiet steps keep ownership, launches and controls as they are.
LEMMA QuietStep == IndInv /\ TypeInv' /\ Quiet => IndInv'
<1> SUFFICES ASSUME IndInv, TypeInv', Quiet PROVE IndInv'
  OBVIOUS
<1> USE DEF IndInv, Quiet
<1>1. OwnersAreAlone'
  BY DEF OwnersAreAlone, Owns
<1>2. RunsAreClaimed'
  <2>1. \A k \in DOMAIN runs : runs[k] \in Run
    BY DEF TypeInv, TypeOK, PlantTypeOK
  <2>2. QED
    BY <2>1 DEF RunsAreClaimed, Owns, Run
<1>3. DockerHasRun'
  BY DEF DockerHasRun
<1>4. AtMostOneRunPerTransition' /\ AtMostOneControlPerRun'
  BY DEF AtMostOneRunPerTransition, AtMostOneControlPerRun
<1>5. RunBindingAddressed'
  <2>1. \A k \in DOMAIN runs : runs[k] \in Run
    BY DEF TypeInv, TypeOK, PlantTypeOK
  <2>2. QED
    BY <2>1 DEF RunBindingAddressed, RunsAreClaimed, Run
<1>6. QED
  BY <1>1, <1>2, <1>3, <1>4, <1>5

\* Nobody owns anything yet.
LEMMA IndInit == Init => IndInv
<1> SUFFICES ASSUME Init PROVE IndInv
  OBVIOUS
<1>1. TypeInv
  BY TypeInit
<1>2. QED
  BY <1>1 DEF Init, IndInv, OwnersAreAlone, RunsAreClaimed, DockerHasRun, Owns,
     AtMostOneRunPerTransition, AtMostOneControlPerRun, RunBindingAddressed

\* os.link is the only step that makes an owner, and it fails on an existing
\* consumed file.
LEMMA ClaimLinkStep ==
  ASSUME IndInv, TypeInv', NEW r \in Readers, ClaimLink(r)
  PROVE  IndInv'
<1> DEFINE p == nextIndex[r]
<1> USE DEF IndInv, ClaimLink, plantVars
<1>1. /\ TypeOK /\ p \in Transitions
      /\ rpc \in [Readers -> ReaderPc] /\ consumed \in [Transitions -> Inode]
      /\ runs' = runs /\ applied' = applied /\ nextIndex' = nextIndex
  BY DEF TypeInv, TypeOK, HeldIsValid, Holding, ReaderTypeOK, EntryTypeOK
<1>2. /\ \A s \in Readers : Owns(s)' <=> Owns(s) \/ s = r
      /\ \A s \in Readers : s # r => rpc'[s] = rpc[s]
      /\ \A s \in Readers : (rpc'[s] = "none") <=> (rpc[s] = "none")
      /\ \A t \in Transitions : t # p => consumed'[t] = consumed[t]
      /\ consumed'[p] # NoFile
  BY <1>1 DEF Owns
<1>3. \A s \in Readers : Owns(s) => nextIndex[s] # p /\ nextIndex[s] \in Transitions
  BY DEF OwnersAreAlone, TypeInv, HeldIsValid, Holding, Owns
<1>4. OwnersAreAlone'
  BY <1>1, <1>2, <1>3 DEF OwnersAreAlone
<1>5. \A k \in DOMAIN runs : runs[k] \in Run
  BY DEF TypeInv, TypeOK, PlantTypeOK
<1>6. RunsAreClaimed'
  BY <1>1, <1>2, <1>5 DEF RunsAreClaimed, Run
<1>7. DockerHasRun' /\ AtMostOneRunPerTransition' /\ AtMostOneControlPerRun'
  BY <1>1 DEF DockerHasRun, AtMostOneRunPerTransition, AtMostOneControlPerRun
<1>8. RunBindingAddressed'
  BY <1>1 DEF RunBindingAddressed, writerVars
<1>9. QED
  BY <1>4, <1>6, <1>7, <1>8

\* The one launch an owner makes is the first of its transition.
LEMMA LaunchStep ==
  ASSUME IndInv, TypeInv', NEW r \in Readers, Launch(r)
  PROVE  IndInv'
<1> DEFINE new == [reader |-> r, idx |-> nextIndex[r], id |-> cur[r]]
<1> USE DEF IndInv
<1>1. /\ rpc[r] = "claimed" /\ rpc' = [rpc EXCEPT ![r] = "actuating"]
      /\ rpc \in [Readers -> ReaderPc] /\ runs \in Seq(Run)
      /\ runs' = Append(runs, new)
      /\ docker' = [docker EXCEPT ![r] = Len(runs) + 1]
      /\ docker \in [Readers -> Nat]
      /\ UNCHANGED <<bind, complete, consumed, nextIndex, started, applied>>
  BY DEF Launch, TypeInv, TypeOK, ReaderTypeOK, PlantTypeOK, writerVars, entryVars
<1>2. /\ Len(runs) \in Nat
      /\ DOMAIN runs = 1..Len(runs)
      /\ DOMAIN runs' = 1..(Len(runs) + 1)
      /\ \A k \in DOMAIN runs : runs'[k] = runs[k] /\ runs[k] \in Run
      /\ runs'[Len(runs) + 1] = new
  BY <1>1
<1>3. /\ cur[r] \in complete
      /\ bind[cur[r]].idx = nextIndex[r]
      /\ bind[cur[r]].created >= started[r]
      /\ consumed[nextIndex[r]] # NoFile
  BY <1>1 DEF TypeInv, HeldIsValid, Holding, OwnersAreAlone, Owns
<1>4. \A k \in DOMAIN runs : runs[k].idx # nextIndex[r]
  BY <1>1 DEF RunsAreClaimed
<1>5. /\ \A s \in Readers : Owns(s)' <=> Owns(s)
      /\ \A s \in Readers : s # r => rpc'[s] = rpc[s]
      /\ rpc'[r] = "actuating"
  BY <1>1 DEF Owns
<1>6. OwnersAreAlone'
  BY <1>1, <1>5 DEF OwnersAreAlone
<1>7. RunsAreClaimed'
  <2>1. \A s \in Readers : rpc[s] = "claimed" \/ rpc[s] = "unlinking" => Owns(s)
    BY DEF Owns
  <2>2. \A s \in Readers : s # r /\ Owns(s) => nextIndex[s] # nextIndex[r]
    BY <1>1 DEF OwnersAreAlone, Owns
  <2>3. QED
    BY <1>1, <1>2, <1>3, <1>5, <2>1, <2>2 DEF RunsAreClaimed, Run
<1>8. DockerHasRun'
  BY <1>1, <1>2 DEF DockerHasRun
<1>9. AtMostOneRunPerTransition'
  BY <1>2, <1>4 DEF AtMostOneRunPerTransition
<1>10. AtMostOneControlPerRun'
  BY <1>1, <1>2 DEF AtMostOneControlPerRun
<1>11. RunBindingAddressed'
  BY <1>1, <1>2, <1>3, <1>4 DEF RunBindingAddressed
<1>12. QED
  BY <1>6, <1>7, <1>8, <1>9, <1>10, <1>11

\* A container sends one request.
LEMMA SendControlStep ==
  ASSUME IndInv, TypeInv', NEW r \in Readers, SendControl(r)
  PROVE  IndInv'
<1> USE DEF IndInv
<1>1. /\ docker[r] \in DOMAIN runs
      /\ \A k \in DOMAIN applied : applied[k] # docker[r]
      /\ applied \in Seq(Nat) /\ docker[r] \in Nat
      /\ applied' = Append(applied, docker[r])
      /\ UNCHANGED <<bind, complete, consumed, rpc, nextIndex, started, docker, runs>>
  BY DEF SendControl, Sent, DockerHasRun, TypeInv, TypeOK, PlantTypeOK, writerVars,
     entryVars, readerVars
<1>2. AtMostOneControlPerRun'
  <2>1. /\ Len(applied) \in Nat
        /\ DOMAIN applied = 1..Len(applied)
        /\ DOMAIN applied' = 1..(Len(applied) + 1)
        /\ \A k \in DOMAIN applied : applied'[k] = applied[k]
        /\ applied'[Len(applied) + 1] = docker[r]
    BY <1>1
  <2>2. QED
    BY <1>1, <2>1 DEF AtMostOneControlPerRun
<1>3. OwnersAreAlone' /\ RunsAreClaimed' /\ DockerHasRun'
  BY <1>1 DEF OwnersAreAlone, RunsAreClaimed, DockerHasRun, Owns
<1>4. AtMostOneRunPerTransition' /\ RunBindingAddressed'
  BY <1>1 DEF AtMostOneRunPerTransition, RunBindingAddressed
<1>5. QED
  BY <1>2, <1>3, <1>4

\* Of all steps only the link, the launch and the control request are not quiet.
LEMMA StepCases ==
  ASSUME IndInv, [Next]_vars
  PROVE  Quiet \/ \E r \in Readers : ClaimLink(r) \/ Launch(r) \/ SendControl(r)
<1>t. TypeInv /\ TypeOK /\ WriterTypeOK /\ ReaderTypeOK /\ PlantTypeOK
  BY DEF IndInv, TypeInv, TypeOK
<1>1. CASE Tick
  BY <1>t, <1>1 DEF Quiet, Owns, Tick, entryVars, writerVars, readerVars, plantVars,
     WriterTypeOK, ReaderTypeOK
<1>2. CASE \E w \in Writers, p, i \in Transitions : WriterBuild(w, p, i)
  BY <1>t, <1>2 DEF Quiet, Owns, WriterBuild, TypeInv, CompleteIsStored, entryVars,
     readerVars, plantVars, WriterTypeOK, ReaderTypeOK
<1>3. CASE \E w \in Writers : WriterCreate(w)
  BY <1>t, <1>3 DEF Quiet, Owns, WriterCreate, entryVars, readerVars, plantVars,
     WriterTypeOK, ReaderTypeOK
<1>4. CASE \E w \in Writers : WriterRefused(w)
  BY <1>t, <1>4 DEF Quiet, Owns, WriterRefused, entryVars, readerVars, plantVars,
     WriterTypeOK, ReaderTypeOK
<1>5. CASE \E w \in Writers : WriterStore(w)
  BY <1>t, <1>5 DEF Quiet, Owns, WriterStore, entryVars, readerVars, plantVars,
     WriterTypeOK, ReaderTypeOK
<1>6. CASE \E w \in Writers : WriterAbort(w)
  BY <1>t, <1>6 DEF Quiet, Owns, WriterAbort, entryVars, readerVars, plantVars,
     WriterTypeOK, ReaderTypeOK
<1>7. CASE \E w \in Writers : WriterEnd(w)
  BY <1>t, <1>7 DEF Quiet, Owns, WriterEnd, entryVars, readerVars, plantVars,
     WriterTypeOK, ReaderTypeOK
<1>8. CASE \E r \in Readers : ManagerOpen(r)
  BY <1>t, <1>8 DEF Quiet, Owns, ManagerOpen, entryVars, writerVars, plantVars,
     WriterTypeOK, ReaderTypeOK
<1>9. CASE \E r \in Readers : ManagerExit(r)
  BY <1>t, <1>9 DEF Quiet, Owns, ManagerExit, entryVars, writerVars, readerVars,
     plantVars, WriterTypeOK, ReaderTypeOK
<1>10. CASE \E r \in Readers, tok \in {"TRIGGER", "OTHER"} : WriteToken(r, tok)
  BY <1>t, <1>10 DEF Quiet, Owns, WriteToken, entryVars, writerVars, plantVars,
     Live, WriterTypeOK, ReaderTypeOK
<1>11. CASE \E r \in Readers, i \in Transitions : ReaderStart(r, i)
  BY <1>t, <1>11 DEF Quiet, Owns, ReaderStart, entryVars, writerVars, plantVars,
     WriterTypeOK, ReaderTypeOK
<1>12. CASE \E r \in Readers : ReadToken(r)
  BY <1>t, <1>12 DEF Quiet, Owns, ReadToken, entryVars, writerVars, plantVars,
     WriterTypeOK, ReaderTypeOK
<1>13. CASE \E r \in Readers : ReadEof(r)
  BY <1>t, <1>13 DEF Quiet, Owns, ReadEof, Die, entryVars, writerVars, plantVars,
     WriterTypeOK, ReaderTypeOK
<1>14. CASE \E r \in Readers : LoadBinding(r)
  BY <1>t, <1>14 DEF Quiet, Owns, LoadBinding, entryVars, writerVars, plantVars,
     WriterTypeOK, ReaderTypeOK
<1>15. CASE \E r \in Readers : RejectBinding(r)
  BY <1>t, <1>15 DEF Quiet, Owns, RejectBinding, Die, entryVars, writerVars,
     plantVars, WriterTypeOK, ReaderTypeOK
<1>16. CASE \E r \in Readers : ClaimLink(r)
  BY <1>16
<1>17. CASE \E r \in Readers : ClaimRefused(r)
  BY <1>t, <1>17 DEF Quiet, Owns, ClaimRefused, Die, entryVars, writerVars,
     plantVars, WriterTypeOK, ReaderTypeOK
<1>18. CASE \E r \in Readers : ClaimUnlink(r)
  BY <1>t, <1>18 DEF Quiet, Owns, ClaimUnlink, writerVars, plantVars, WriterTypeOK,
     ReaderTypeOK
<1>19. CASE \E r \in Readers : ClaimUncertain(r)
  BY <1>t, <1>19 DEF Quiet, Owns, ClaimUncertain, Die, entryVars, writerVars,
     plantVars, WriterTypeOK, ReaderTypeOK
<1>20. CASE \E r \in Readers : Launch(r)
  BY <1>20
<1>21. CASE \E r \in Readers : WrapperReject(r)
  BY <1>t, <1>21 DEF Quiet, Owns, WrapperReject, Die, entryVars, writerVars,
     plantVars, WriterTypeOK, ReaderTypeOK
<1>22. CASE \E r \in Readers : SendControl(r)
  BY <1>22
<1>23. CASE \E r \in Readers : ActuatorDone(r)
  BY <1>t, <1>23 DEF Quiet, Owns, ActuatorDone, entryVars, writerVars, WriterTypeOK,
     ReaderTypeOK, PlantTypeOK
<1>24. CASE \E r \in Readers : ActuatorFailed(r)
  BY <1>t, <1>24 DEF Quiet, Owns, ActuatorFailed, Die, entryVars, writerVars,
     readerVars, WriterTypeOK, ReaderTypeOK, PlantTypeOK
<1>25. CASE \E r \in Readers : ReaderCrash(r)
  BY <1>t, <1>25 DEF Quiet, Owns, ReaderCrash, Die, entryVars, writerVars,
     plantVars, Live, WriterTypeOK, ReaderTypeOK
<1>26. CASE UNCHANGED vars
  BY <1>26 DEF Quiet, Owns, vars, writerVars, entryVars, readerVars, plantVars
<1>27. QED
  BY <1>1, <1>2, <1>3, <1>4, <1>5, <1>6, <1>7, <1>8, <1>9, <1>10, <1>11, <1>12,
     <1>13, <1>14, <1>15, <1>16, <1>17, <1>18, <1>19, <1>20, <1>21, <1>22, <1>23,
     <1>24, <1>25, <1>26
     DEF Next, WriterStep, EndpointStep, ReaderStep, ReaderProgress

\* Every step of every program keeps ownership exclusive.
LEMMA IndStep == IndInv /\ [Next]_vars => IndInv'
<1> SUFFICES ASSUME IndInv, [Next]_vars PROVE IndInv'
  OBVIOUS
<1>1. TypeInv'
  BY TypeStep DEF IndInv
<1>2. QED
  BY <1>1, StepCases, QuietStep, ClaimLinkStep, LaunchStep, SendControlStep

\* The state stays well typed whatever writers, readers, triggers, crashes and
\* restarts do.
THEOREM TypeCorrect == Spec => []TypeOK
<1>1. TypeInv => TypeOK
  BY DEF TypeInv
<1>2. QED
  BY <1>1, TypeInit, TypeStep, PTL DEF Spec

\* The inductive invariant holds of every reachable state.
THEOREM Inductive == Spec => []IndInv
BY IndInit, IndStep, PTL DEF Spec

\* consume_binding_once: over all readers, restarts and duplicate triggers a
\* transition's actuator is launched at most once.
THEOREM LaunchedAtMostOnce == Spec => []AtMostOneRunPerTransition
<1>1. IndInv => AtMostOneRunPerTransition
  BY DEF IndInv
<1>2. QED
  BY <1>1, Inductive, PTL

\* One launch is one control at most, and no control is without a launch.
THEOREM ControlledAtMostOnce == Spec => []AtMostOneControlPerRun
<1>1. IndInv => AtMostOneControlPerRun
  BY DEF IndInv
<1>2. QED
  BY <1>1, Inductive, PTL

\* load_and_validate_binding: what runs is a complete binding written for that
\* transition, no older than its reader, and never run twice.
THEOREM RunsAddressedBindings == Spec => []RunBindingAddressed
<1>1. IndInv => RunBindingAddressed
  BY DEF IndInv
<1>2. QED
  BY <1>1, Inductive, PTL

-----------------------------------------------------------------------------
(* Refinement and the permanence of claims.                                 *)

\* Linking the consumed file is the abstract claim.
LEMMA LinkIsClaim ==
  ASSUME IndInv, NEW r \in Readers, ClaimLink(r)
  PROVE  Abstract!Claim(nextIndex[r]) /\ nextIndex[r] \in Transitions
<1>1. /\ nextIndex[r] \in Transitions
      /\ consumed \in [Transitions -> Inode]
  BY DEF IndInv, TypeInv, HeldIsValid, Holding, TypeOK, EntryTypeOK, ClaimLink
<1>2. ClaimedTransitions' = ClaimedTransitions \cup {nextIndex[r]}
  BY <1>1 DEF ClaimedTransitions, ClaimLink
<1>3. nextIndex[r] \notin ClaimedTransitions
  BY DEF ClaimedTransitions, ClaimLink
<1>4. UNCHANGED <<LaunchLog, ControlLog>>
  BY DEF ClaimLink, LaunchLog, ControlLog, plantVars
<1>5. QED
  BY <1>1, <1>2, <1>3, <1>4 DEF Abstract!Claim

\* docker run is the abstract launch.
LEMMA LaunchIsLaunch ==
  ASSUME IndInv, NEW r \in Readers, Launch(r)
  PROVE  Abstract!Launch(nextIndex[r]) /\ nextIndex[r] \in Transitions
<1> DEFINE new == [reader |-> r, idx |-> nextIndex[r], id |-> cur[r]]
<1>1. /\ nextIndex[r] \in Transitions
      /\ consumed[nextIndex[r]] # NoFile
      /\ \A k \in DOMAIN runs : runs[k].idx # nextIndex[r]
      /\ runs \in Seq(Run) /\ runs' = Append(runs, new)
      /\ UNCHANGED <<consumed, applied>>
      /\ \A k \in DOMAIN applied : applied[k] \in DOMAIN runs
  BY DEF IndInv, TypeInv, HeldIsValid, Holding, TypeOK, PlantTypeOK, Launch,
     OwnersAreAlone, Owns, RunsAreClaimed, entryVars, AtMostOneControlPerRun
<1>2. /\ Len(runs) \in Nat
      /\ DOMAIN runs = 1..Len(runs)
      /\ DOMAIN runs' = 1..(Len(runs) + 1)
      /\ \A k \in DOMAIN runs : runs'[k] = runs[k] /\ runs[k] \in Run
      /\ runs'[Len(runs) + 1] = new
  BY <1>1
<1>3. LaunchLog \in Seq(Transitions) /\ Len(LaunchLog) = Len(runs)
  BY <1>2 DEF LaunchLog, Run
<1>4. LaunchLog' = Append(LaunchLog, nextIndex[r])
  BY <1>1, <1>2, <1>3 DEF LaunchLog
<1>5. ControlLog' = ControlLog
  BY <1>1, <1>2 DEF ControlLog, LaunchLog
<1>6. nextIndex[r] \in ClaimedTransitions /\ ClaimedTransitions' = ClaimedTransitions
  BY <1>1 DEF ClaimedTransitions
<1>7. ~Abstract!In(nextIndex[r], LaunchLog)
  BY <1>1 DEF Abstract!In, LaunchLog
<1>8. QED
  BY <1>1, <1>4, <1>5, <1>6, <1>7 DEF Abstract!Launch

\* The xApp's request is the abstract control.
LEMMA SendIsControl ==
  ASSUME IndInv, NEW r \in Readers, SendControl(r)
  PROVE  LET t == runs[docker[r]].idx IN Abstract!Control(t) /\ t \in Transitions
<1> DEFINE t == runs[docker[r]].idx
<1>1. /\ docker[r] \in DOMAIN runs
      /\ \A k \in DOMAIN applied : applied[k] \in DOMAIN runs /\ applied[k] # docker[r]
      /\ applied \in Seq(Nat) /\ docker[r] \in Nat
      /\ applied' = Append(applied, docker[r])
      /\ runs \in Seq(Run)
      /\ UNCHANGED <<runs, consumed>>
  BY DEF SendControl, Sent, IndInv, DockerHasRun, TypeInv, TypeOK, PlantTypeOK,
     AtMostOneControlPerRun, entryVars
<1>2. /\ Len(applied) \in Nat
      /\ DOMAIN applied = 1..Len(applied)
      /\ DOMAIN applied' = 1..(Len(applied) + 1)
      /\ \A k \in DOMAIN applied : applied'[k] = applied[k]
      /\ applied'[Len(applied) + 1] = docker[r]
      /\ \A k \in DOMAIN runs : runs[k] \in Run
  BY <1>1
<1>3. ControlLog \in Seq(Transitions) /\ Len(ControlLog) = Len(applied)
  BY <1>1, <1>2 DEF ControlLog, LaunchLog, Run
<1>4. ControlLog' = Append(ControlLog, t)
  BY <1>1, <1>2, <1>3 DEF ControlLog, LaunchLog
<1>5. LaunchLog' = LaunchLog /\ ClaimedTransitions' = ClaimedTransitions
  BY <1>1 DEF LaunchLog, ClaimedTransitions
<1>6. Abstract!In(t, LaunchLog)
  BY <1>1 DEF Abstract!In, LaunchLog
<1>7. ~Abstract!In(t, ControlLog)
  BY <1>1 DEF Abstract!In, ControlLog, LaunchLog, IndInv, AtMostOneRunPerTransition
<1>8. t \in Transitions
  BY <1>1, <1>2 DEF Run
<1>9. QED
  BY <1>4, <1>5, <1>6, <1>7, <1>8 DEF Abstract!Control

\* Files, FIFOs, crashes and restarts implement ExactlyOnceActuation: claimed
\* once, launched at most once after that, controlled at most once after that.
THEOREM Refinement == Spec => ImplementsExactlyOnce
<1>1. Init => Abstract!Init
  BY DEF Init, Abstract!Init, ClaimedTransitions, LaunchLog, ControlLog
<1>2. IndInv /\ [Next]_vars => [Abstract!Next]_Abstract!vars
  <2> SUFFICES ASSUME IndInv, [Next]_vars PROVE [Abstract!Next]_Abstract!vars
    OBVIOUS
  <2>1. CASE Quiet
    BY <2>1 DEF Quiet, Abstract!vars, ClaimedTransitions, LaunchLog, ControlLog
  <2>2. CASE \E r \in Readers : ClaimLink(r) \/ Launch(r) \/ SendControl(r)
    BY <2>2, LinkIsClaim, LaunchIsLaunch, SendIsControl DEF Abstract!Next
  <2>3. QED
    BY <2>1, <2>2, StepCases
<1>3. QED
  BY <1>1, <1>2, Inductive, PTL DEF Spec, ImplementsExactlyOnce, Abstract!Spec

\* A consumed file is never removed or replaced, and a launch follows a claim.
THEOREM ClaimsStay == Spec => ClaimsArePermanent
<1> DEFINE Step ==
      /\ \A p \in Transitions : consumed[p] # NoFile => consumed'[p] = consumed[p]
      /\ \A k \in DOMAIN runs' \ DOMAIN runs : consumed[runs'[k].idx] # NoFile
<1>1. IndInv /\ [Next]_vars => [Step]_vars
  <2> SUFFICES ASSUME IndInv, [Next]_vars PROVE Step
    OBVIOUS
  <2>1. CASE Quiet
    BY <2>1 DEF Quiet
  <2>2. CASE \E r \in Readers : ClaimLink(r)
    BY <2>2 DEF IndInv, TypeInv, TypeOK, EntryTypeOK, ClaimLink, plantVars
  <2>3. CASE \E r \in Readers : Launch(r)
    <3> PICK r \in Readers : Launch(r)
      BY <2>3
    <3>1. /\ consumed[nextIndex[r]] # NoFile /\ consumed' = consumed
          /\ runs \in Seq(Run)
          /\ runs' = Append(runs, [reader |-> r, idx |-> nextIndex[r], id |-> cur[r]])
      BY DEF IndInv, TypeInv, TypeOK, PlantTypeOK, OwnersAreAlone, Owns, Launch,
         entryVars
    <3>2. QED
      BY <3>1
  <2>4. CASE \E r \in Readers : SendControl(r)
    BY <2>4 DEF SendControl, entryVars
  <2>5. QED
    BY <2>1, <2>2, <2>3, <2>4, StepCases
<1>2. QED
  BY <1>1, Inductive, PTL DEF Spec, ClaimsArePermanent

-----------------------------------------------------------------------------
(* The order of launches and controls. nextIndex moves only when the launch *)
(* of its transition returned 0, so the launches of a reader are the         *)
(* transitions from its first one up to nextIndex (InSequence), and a live   *)
(* container is the newest launch of its reader (ContainerIsNewest).         *)

InSequence ==
  \A r \in Readers :
    /\ \A j, k \in RunsOf(r) : j < k => runs[j].idx < runs[k].idx
    /\ \A k \in RunsOf(r) :
         /\ runs[k].idx <= nextIndex[r]
         /\ rpc[r] \notin {"actuating", "dead"} => runs[k].idx < nextIndex[r]
         /\ \A i \in Transitions :
              runs[k].idx <= i /\ i < nextIndex[r] =>
                \E m \in RunsOf(r) : runs[m].idx = i
    /\ rpc[r] = "actuating" => \E m \in RunsOf(r) : runs[m].idx = nextIndex[r]

ContainerIsNewest ==
  \A r \in Readers : docker[r] # 0 =>
    /\ runs[docker[r]].reader = r
    /\ \A k \in RunsOf(r) : k <= docker[r]

ControlsInOrder ==
  \A j, k \in DOMAIN applied :
    j < k /\ runs[applied[j]].reader = runs[applied[k]].reader =>
      applied[j] < applied[k]

OrderInv == InSequence /\ ContainerIsNewest /\ ControlsInOrder

\* A step is still when nothing is launched or sent and a reader leaves its
\* transition only after a launch.
Still ==
  /\ UNCHANGED <<runs, applied>>
  /\ \A r \in Readers :
       /\ docker'[r] \in {0, docker[r]}
       /\ \/ rpc[r] = "none"
          \/ nextIndex'[r] = nextIndex[r]
          \/ rpc[r] = "actuating" /\ nextIndex'[r] = nextIndex[r] + 1
       /\ rpc'[r] = "actuating" =>
            rpc[r] = "actuating" /\ nextIndex'[r] = nextIndex[r]
       /\ rpc[r] \in {"actuating", "dead"} =>
            rpc'[r] \in {"actuating", "dead"} \/ nextIndex'[r] = nextIndex[r] + 1

\* The initial state: nothing is launched.
LEMMA OrderInit == Init => OrderInv
BY DEF Init, OrderInv, InSequence, ContainerIsNewest, ControlsInOrder, RunsOf

\* Still steps keep the order.
LEMMA StillStep ==
  ASSUME IndInv, OrderInv, Still
  PROVE  OrderInv'
<1>0. /\ \A k \in DOMAIN runs : runs[k] \in Run /\ rpc[runs[k].reader] # "none"
      /\ nextIndex \in [Readers -> Nat]
  BY DEF IndInv, TypeInv, TypeOK, PlantTypeOK, ReaderTypeOK, RunsAreClaimed
<1>1. \A r \in Readers : RunsOf(r)' = RunsOf(r)
  BY DEF RunsOf, Still
<1>2. InSequence'
  <2> SUFFICES ASSUME NEW r \in Readers
               PROVE  /\ \A j, k \in RunsOf(r) : j < k => runs[j].idx < runs[k].idx
                      /\ \A k \in RunsOf(r) :
                           /\ runs[k].idx <= nextIndex'[r]
                           /\ rpc'[r] \notin {"actuating", "dead"} =>
                                runs[k].idx < nextIndex'[r]
                           /\ \A i \in Transitions :
                                runs[k].idx <= i /\ i < nextIndex'[r] =>
                                  \E m \in RunsOf(r) : runs[m].idx = i
                      /\ rpc'[r] = "actuating" =>
                           \E m \in RunsOf(r) : runs[m].idx = nextIndex'[r]
    BY <1>1 DEF InSequence, Still
  <2>1. /\ \A j, k \in RunsOf(r) : j < k => runs[j].idx < runs[k].idx
        /\ rpc'[r] = "actuating" =>
             \E m \in RunsOf(r) : runs[m].idx = nextIndex'[r]
    BY DEF OrderInv, InSequence, Still
  <2>2. ASSUME NEW k \in RunsOf(r)
        PROVE  /\ runs[k].idx <= nextIndex'[r]
               /\ rpc'[r] \notin {"actuating", "dead"} => runs[k].idx < nextIndex'[r]
               /\ \A i \in Transitions :
                    runs[k].idx <= i /\ i < nextIndex'[r] =>
                      \E m \in RunsOf(r) : runs[m].idx = i
    <3>1. rpc[r] # "none" /\ runs[k].idx \in Nat /\ nextIndex[r] \in Nat
      BY <1>0, <2>2 DEF RunsOf, Run, Transitions
    <3>2. /\ runs[k].idx <= nextIndex[r]
          /\ rpc[r] \notin {"actuating", "dead"} => runs[k].idx < nextIndex[r]
          /\ \A i \in Transitions :
               runs[k].idx <= i /\ i < nextIndex[r] =>
                 \E m \in RunsOf(r) : runs[m].idx = i
      BY <2>2 DEF OrderInv, InSequence
    <3>3. CASE nextIndex'[r] = nextIndex[r]
      BY <3>1, <3>2, <3>3 DEF Still
    <3>4. CASE rpc[r] = "actuating" /\ nextIndex'[r] = nextIndex[r] + 1
      <4>1. \E m \in RunsOf(r) : runs[m].idx = nextIndex[r]
        BY <3>4 DEF OrderInv, InSequence
      <4>2. \A i \in Transitions :
              i < nextIndex[r] + 1 => i < nextIndex[r] \/ i = nextIndex[r]
        BY <3>1 DEF Transitions
      <4> QED
        BY <3>1, <3>2, <3>4, <4>1, <4>2
    <3> QED
      BY <3>1, <3>3, <3>4 DEF Still
  <2> QED
    BY <2>1, <2>2
<1>3. ContainerIsNewest'
  BY <1>1 DEF OrderInv, ContainerIsNewest, Still
<1>4. ControlsInOrder'
  BY DEF OrderInv, ControlsInOrder, Still
<1> QED
  BY <1>2, <1>3, <1>4 DEF OrderInv

\* A launch is the next transition of its reader and its newest launch.
LEMMA LaunchKeepsOrder ==
  ASSUME IndInv, OrderInv, NEW r \in Readers, Launch(r)
  PROVE  OrderInv'
<1> DEFINE n == Len(runs) + 1
<1> DEFINE new == [reader |-> r, idx |-> nextIndex[r], id |-> cur[r]]
<1>1. /\ rpc[r] = "claimed" /\ rpc' = [rpc EXCEPT ![r] = "actuating"]
      /\ rpc \in [Readers -> ReaderPc] /\ runs \in Seq(Run)
      /\ runs' = Append(runs, new)
      /\ docker' = [docker EXCEPT ![r] = n]
      /\ docker \in [Readers -> Nat]
      /\ nextIndex \in [Readers -> Nat]
      /\ UNCHANGED <<nextIndex, applied>>
      /\ \A k \in DOMAIN applied : applied[k] \in DOMAIN runs
      /\ \A q \in Readers : docker[q] # 0 => docker[q] \in DOMAIN runs
  BY DEF Launch, IndInv, TypeInv, TypeOK, ReaderTypeOK, PlantTypeOK,
     AtMostOneControlPerRun, DockerHasRun
<1>2. /\ n \in Nat \ {0}
      /\ DOMAIN runs = 1..(n - 1)
      /\ DOMAIN runs' = 1..n
      /\ \A k \in DOMAIN runs : runs'[k] = runs[k] /\ runs[k] \in Run /\ k < n /\ k \in Nat
      /\ runs'[n] = new
  BY <1>1
<1> HIDE DEF n
<1>3. /\ RunsOf(r)' = RunsOf(r) \cup {n}
      /\ \A q \in Readers : q # r => RunsOf(q)' = RunsOf(q)
      /\ \A q \in Readers : RunsOf(q) \subseteq DOMAIN runs
  <2>1. DOMAIN runs' = DOMAIN runs \cup {n} /\ n \notin DOMAIN runs
    BY <1>2
  <2>2. runs'[n].reader = r /\ \A k \in DOMAIN runs : runs'[k].reader = runs[k].reader
    BY <1>2
  <2> QED
    BY <2>1, <2>2 DEF RunsOf
<1>4. InSequence'
  <2>1. ASSUME NEW q \in Readers, q # r
        PROVE  /\ \A j, k \in RunsOf(q)' : j < k => runs'[j].idx < runs'[k].idx
               /\ \A k \in RunsOf(q)' :
                    /\ runs'[k].idx <= nextIndex'[q]
                    /\ rpc'[q] \notin {"actuating", "dead"} => runs'[k].idx < nextIndex'[q]
                    /\ \A i \in Transitions :
                         runs'[k].idx <= i /\ i < nextIndex'[q] =>
                           \E m \in RunsOf(q)' : runs'[m].idx = i
               /\ rpc'[q] = "actuating" =>
                    \E m \in RunsOf(q)' : runs'[m].idx = nextIndex'[q]
    <3>1. RunsOf(q)' = RunsOf(q) /\ rpc'[q] = rpc[q] /\ nextIndex'[q] = nextIndex[q]
      BY <1>1, <1>3, <2>1
    <3>2. \A k \in RunsOf(q) : runs'[k] = runs[k]
      BY <1>2, <1>3
    <3> QED
      BY <3>1, <3>2 DEF OrderInv, InSequence
  <2>2. /\ rpc'[r] = "actuating" /\ nextIndex'[r] = nextIndex[r]
        /\ runs'[n].idx = nextIndex[r] /\ nextIndex[r] \in Nat
    BY <1>1, <1>2
  <2>3. \A k \in RunsOf(r) :
          /\ runs'[k] = runs[k] /\ k < n /\ k \in Nat /\ n \in Nat
          /\ runs[k].idx < nextIndex[r] /\ runs[k].idx \in Nat
    <3>1. \A k \in RunsOf(r) : k \in DOMAIN runs
      BY <1>3
    <3>2. \A k \in RunsOf(r) : runs[k].idx < nextIndex[r]
      BY <1>1 DEF OrderInv, InSequence
    <3>3. \A k \in RunsOf(r) : runs[k].idx \in Nat
      BY <1>2, <3>1 DEF Run, Transitions
    <3> QED
      BY <1>2, <3>1, <3>2, <3>3
  <2>4. \A j, k \in RunsOf(r)' : j < k => runs'[j].idx < runs'[k].idx
    <3> SUFFICES ASSUME NEW j \in RunsOf(r)', NEW k \in RunsOf(r)', j < k
                 PROVE  runs'[j].idx < runs'[k].idx
      OBVIOUS
    <3>1. j \in RunsOf(r)
      BY <1>2, <1>3, <2>3
    <3>2. CASE k = n
      BY <2>2, <2>3, <3>1, <3>2
    <3>3. CASE k \in RunsOf(r)
      BY <2>3, <3>1, <3>3 DEF OrderInv, InSequence
    <3> QED
      BY <1>3, <3>2, <3>3
  <2>5. ASSUME NEW k \in RunsOf(r)'
        PROVE  /\ runs'[k].idx <= nextIndex'[r]
               /\ \A i \in Transitions :
                    runs'[k].idx <= i /\ i < nextIndex'[r] =>
                      \E m \in RunsOf(r)' : runs'[m].idx = i
    <3>1. CASE k = n
      BY <2>2, <3>1 DEF Transitions
    <3>2. CASE k \in RunsOf(r)
      <4>1. \A i \in Transitions :
              runs[k].idx <= i /\ i < nextIndex[r] =>
                \E m \in RunsOf(r) : runs[m].idx = i
        BY <3>2 DEF OrderInv, InSequence
      <4> QED
        BY <1>3, <2>2, <2>3, <3>2, <4>1
    <3> QED
      BY <1>3, <3>1, <3>2
  <2>6. \E m \in RunsOf(r)' : runs'[m].idx = nextIndex'[r]
    BY <1>3, <2>2
  <2> QED
    BY <2>1, <2>2, <2>4, <2>5, <2>6 DEF InSequence
<1>5. ContainerIsNewest'
  <2> SUFFICES ASSUME NEW q \in Readers, docker'[q] # 0
               PROVE  /\ runs'[docker'[q]].reader = q
                      /\ \A k \in RunsOf(q)' : k <= docker'[q]
    BY DEF ContainerIsNewest
  <2>1. CASE q = r
    <3>1. docker'[r] = n /\ runs'[n].reader = r /\ \A k \in DOMAIN runs : k <= n
      BY <1>1, <1>2
    <3>2. \A k \in RunsOf(r)' : k = n \/ k \in DOMAIN runs
      BY <1>3
    <3> QED
      BY <1>2, <2>1, <3>1, <3>2
  <2>2. CASE q # r
    BY <1>1, <1>2, <1>3, <2>2 DEF OrderInv, ContainerIsNewest
  <2> QED
    BY <2>1, <2>2
<1>6. ControlsInOrder'
  BY <1>1, <1>2 DEF OrderInv, ControlsInOrder
<1> QED
  BY <1>4, <1>5, <1>6 DEF OrderInv

\* The container that sends is the newest launch of its reader.
LEMMA SendKeepsOrder ==
  ASSUME IndInv, OrderInv, NEW r \in Readers, SendControl(r)
  PROVE  OrderInv'
<1>1. /\ docker[r] # 0 /\ docker[r] \in Nat
      /\ \A k \in DOMAIN applied : applied[k] # docker[r] /\ applied[k] \in DOMAIN runs
      /\ applied \in Seq(Nat)
      /\ applied' = Append(applied, docker[r])
      /\ UNCHANGED <<rpc, nextIndex, docker, runs>>
  BY DEF SendControl, Sent, IndInv, TypeInv, TypeOK, PlantTypeOK,
     AtMostOneControlPerRun, readerVars
<1>2. InSequence' /\ ContainerIsNewest'
  BY <1>1 DEF OrderInv, InSequence, ContainerIsNewest, RunsOf
<1>3. ControlsInOrder'
  <2>1. /\ Len(applied) \in Nat
        /\ DOMAIN applied = 1..Len(applied)
        /\ DOMAIN applied' = 1..(Len(applied) + 1)
        /\ \A k \in DOMAIN applied : applied'[k] = applied[k] /\ applied[k] \in Nat
        /\ applied'[Len(applied) + 1] = docker[r]
    BY <1>1
  <2>2. \A k \in DOMAIN applied :
          runs[applied[k]].reader = r => applied[k] < docker[r]
    BY <1>1, <2>1 DEF OrderInv, ContainerIsNewest, RunsOf
  <2>3. runs[docker[r]].reader = r
    BY <1>1 DEF OrderInv, ContainerIsNewest
  <2> QED
    BY <1>1, <2>1, <2>2, <2>3 DEF OrderInv, ControlsInOrder
<1> QED
  BY <1>2, <1>3 DEF OrderInv

\* All steps but launches and controls are still.
LEMMA StillCases ==
  ASSUME IndInv, [Next]_vars
  PROVE  Still \/ \E r \in Readers : Launch(r) \/ SendControl(r)
<1>0. TypeOK /\ ReaderTypeOK /\ PlantTypeOK
  BY DEF IndInv, TypeInv, TypeOK
<1> USE DEF ReaderTypeOK, PlantTypeOK, plantVars, readerVars
<1>1. CASE Tick \/ WriterStep
  BY <1>0, <1>1 DEF Still, Tick, WriterStep, WriterBuild, WriterCreate, WriterRefused,
     WriterStore, WriterAbort, WriterEnd
<1>2. CASE EndpointStep
  BY <1>0, <1>2 DEF Still, EndpointStep, ManagerOpen, ManagerExit, WriteToken, Live
<1>3. ASSUME NEW r \in Readers, NEW i \in Transitions, ReaderStart(r, i)
      PROVE  Still
  BY <1>0, <1>3 DEF Still, ReaderStart
<1>4. ASSUME NEW r \in Readers,
             \/ ReadEof(r) \/ RejectBinding(r) \/ ClaimRefused(r)
             \/ ClaimUncertain(r) \/ WrapperReject(r) \/ ReaderCrash(r)
      PROVE  Still
  <2>1. Die(r) /\ UNCHANGED plantVars
    BY <1>4 DEF ReadEof, RejectBinding, ClaimRefused, ClaimUncertain, WrapperReject,
       ReaderCrash
  <2> QED
    BY <1>0, <2>1 DEF Still, Die
<1>5. ASSUME NEW r \in Readers,
             ReadToken(r) \/ LoadBinding(r) \/ ClaimLink(r) \/ ClaimUnlink(r)
      PROVE  Still
  BY <1>0, <1>5 DEF Still, ReadToken, LoadBinding, ClaimLink, ClaimUnlink
<1>6. ASSUME NEW r \in Readers, ActuatorDone(r)
      PROVE  Still
  BY <1>0, <1>6 DEF Still, ActuatorDone
<1>7. ASSUME NEW r \in Readers, ActuatorFailed(r)
      PROVE  Still
  BY <1>0, <1>7 DEF Still, ActuatorFailed, Die
<1>8. CASE UNCHANGED vars
  BY <1>8 DEF Still, vars
<1> QED
  BY <1>1, <1>2, <1>3, <1>4, <1>5, <1>6, <1>7, <1>8
     DEF Next, ReaderStep, ReaderProgress

\* Every step keeps the order.
LEMMA OrderStep == IndInv /\ OrderInv /\ [Next]_vars => OrderInv'
BY StillCases, StillStep, LaunchKeepsOrder, SendKeepsOrder

-----------------------------------------------------------------------------
(* One launch per TRIGGER: the launches of a reader, the TRIGGER it is        *)
(* answering and the TRIGGERs waiting in its FIFO are not more than were      *)
(* ever written.                                                              *)

TriggerPlaces(s) == {i \in DOMAIN s : s[i] = "TRIGGER"}
Waiting(r) == Cardinality(TriggerPlaces(fifo[r]))
Answering(r) ==
  IF rpc[r] \in {"loading", "linking", "unlinking", "claimed"} THEN 1 ELSE 0

Token == {"TRIGGER", "OTHER"}
Asked == \A r \in Readers :
           Cardinality(RunsOf(r)) + Answering(r) + Waiting(r) <= triggers[r]

\* The places of a finite sequence are finitely many.
LEMMA FinitePlaces ==
  ASSUME NEW S, NEW s \in Seq(S), NEW P, P \subseteq DOMAIN s
  PROVE  IsFiniteSet(P) /\ Cardinality(P) \in Nat
<1>1. IsFiniteSet(1..Len(s)) /\ P \in SUBSET (1..Len(s))
  BY FS_Interval
<1>2. IsFiniteSet(P)
  BY <1>1, FS_Subset
<1> QED
  BY <1>2, FS_CardinalityType

LEMMA WaitingIsNat ==
  ASSUME NEW s \in Seq(Token)
  PROVE  Cardinality(TriggerPlaces(s)) \in Nat
<1>1. TriggerPlaces(s) \subseteq DOMAIN s
  BY DEF TriggerPlaces
<1> QED
  BY <1>1, FinitePlaces

\* A written TRIGGER is one more place, another line is none.
LEMMA TriggerAppended ==
  ASSUME NEW s \in Seq(Token), NEW tok \in Token
  PROVE  Cardinality(TriggerPlaces(Append(s, tok))) =
           Cardinality(TriggerPlaces(s)) + (IF tok = "TRIGGER" THEN 1 ELSE 0)
<1>1. /\ TriggerPlaces(s) \subseteq DOMAIN s
      /\ Len(s) + 1 \notin TriggerPlaces(s)
  BY DEF TriggerPlaces
<1>2. IsFiniteSet(TriggerPlaces(s)) /\ Cardinality(TriggerPlaces(s)) \in Nat
  BY <1>1, FinitePlaces
<1>3. CASE tok = "TRIGGER"
  <2>1. TriggerPlaces(Append(s, tok)) = TriggerPlaces(s) \cup {Len(s) + 1}
    BY <1>3 DEF TriggerPlaces
  <2> QED
    BY <1>1, <1>2, <1>3, <2>1, FS_AddElement
<1>4. CASE tok # "TRIGGER"
  <2>1. TriggerPlaces(Append(s, tok)) = TriggerPlaces(s)
    BY <1>4 DEF TriggerPlaces
  <2> QED
    BY <1>2, <1>4, <2>1
<1> QED
  BY <1>3, <1>4

\* A read TRIGGER is one place less.
LEMMA TriggerRead ==
  ASSUME NEW s \in Seq(Token), s # <<>>
  PROVE  Cardinality(TriggerPlaces(Tail(s)))
           + (IF Head(s) = "TRIGGER" THEN 1 ELSE 0) <= Cardinality(TriggerPlaces(s))
<1> DEFINE A == TriggerPlaces(Tail(s))
           B == TriggerPlaces(s)
           f == [i \in A |-> i + 1]
<1>1. /\ B \subseteq DOMAIN s /\ Tail(s) \in Seq(Token) /\ A \subseteq DOMAIN Tail(s)
      /\ 1 \in B <=> Head(s) = "TRIGGER"
  BY DEF TriggerPlaces
<1>2. /\ IsFiniteSet(A) /\ Cardinality(A) \in Nat
      /\ IsFiniteSet(B) /\ Cardinality(B) \in Nat
  BY <1>1, FinitePlaces
<1>3. /\ IsFiniteSet(B \ {1})
      /\ Cardinality(B \ {1}) = IF 1 \in B THEN Cardinality(B) - 1 ELSE Cardinality(B)
  BY <1>2, FS_RemoveElement
<1>4. f \in Injection(A, B \ {1})
  <2>1. \A i \in A : i \in Nat /\ i + 1 \in B \ {1}
    BY DEF TriggerPlaces
  <2>2. f \in [A -> B \ {1}]
    BY <2>1
  <2>3. \A i, j \in A : f[i] = f[j] => i = j
    BY <2>1
  <2> HIDE DEF f, A, B
  <2> QED
    BY <2>2, <2>3 DEF Injection, IsInjective
<1>5. Cardinality(A) <= Cardinality(B \ {1})
  <2> HIDE DEF f, A, B
  <2> QED
    BY <1>3, <1>4, FS_Injection
<1> HIDE DEF f
<1> QED
  BY <1>1, <1>2, <1>3, <1>5

\* The initial state: empty FIFOs, no launch.
LEMMA AskedInit == Init => Asked
<1> SUFFICES ASSUME Init, NEW r \in Readers
             PROVE  Cardinality(RunsOf(r)) + Answering(r) + Waiting(r) <= triggers[r]
  BY DEF Asked
<1>1. RunsOf(r) = {} /\ TriggerPlaces(fifo[r]) = {} /\ Answering(r) = 0
      /\ triggers[r] = 0
  BY DEF Init, RunsOf, TriggerPlaces, Answering
<1> QED
  BY <1>1, FS_EmptySet DEF Waiting

\* The terms of the count are natural numbers.
LEMMA AskedTypes ==
  ASSUME TypeOK
  PROVE  /\ fifo \in [Readers -> Seq(Token)] /\ triggers \in [Readers -> Nat]
         /\ rpc \in [Readers -> ReaderPc] /\ runs \in Seq(Run)
         /\ \A r \in Readers :
              /\ IsFiniteSet(RunsOf(r)) /\ Cardinality(RunsOf(r)) \in Nat
              /\ Waiting(r) \in Nat /\ Answering(r) \in {0, 1}
<1>1. /\ fifo \in [Readers -> Seq(Token)] /\ triggers \in [Readers -> Nat]
      /\ rpc \in [Readers -> ReaderPc] /\ runs \in Seq(Run)
  BY DEF TypeOK, FifoTypeOK, ReaderTypeOK, PlantTypeOK, Token
<1>2. ASSUME NEW r \in Readers
      PROVE  /\ IsFiniteSet(RunsOf(r)) /\ Cardinality(RunsOf(r)) \in Nat
             /\ Waiting(r) \in Nat /\ Answering(r) \in {0, 1}
  <2>1. RunsOf(r) \subseteq DOMAIN runs /\ TriggerPlaces(fifo[r]) \subseteq DOMAIN fifo[r]
    BY DEF RunsOf, TriggerPlaces
  <2>2. IsFiniteSet(RunsOf(r)) /\ Cardinality(RunsOf(r)) \in Nat
    BY <1>1, <2>1, FinitePlaces
  <2>3. fifo[r] \in Seq(Token)
    BY <1>1
  <2>4. Waiting(r) \in Nat
    BY <2>1, <2>3, FinitePlaces DEF Waiting
  <2> QED
    BY <2>2, <2>4 DEF Answering
<1> QED
  BY <1>1, <1>2

\* A step that writes, reads and launches nothing; it may drop a FIFO.
Idle ==
  /\ UNCHANGED <<runs, triggers>>
  /\ \A r \in Readers : /\ Answering(r)' <= Answering(r)
                         /\ fifo'[r] \in {fifo[r], <<>>}

\* Idle steps keep the count.
LEMMA IdleKeepsAsked ==
  ASSUME TypeOK, Asked, Idle, TypeOK'
  PROVE  Asked'
<1> SUFFICES ASSUME NEW r \in Readers
             PROVE  (Cardinality(RunsOf(r)) + Answering(r) + Waiting(r) <= triggers[r])'
  BY DEF Asked
<1>1. /\ RunsOf(r)' = RunsOf(r) /\ triggers'[r] = triggers[r]
      /\ Answering(r)' <= Answering(r)
  BY DEF Idle, RunsOf
<1>2. Waiting(r)' <= Waiting(r)
  <2>1. Cardinality(TriggerPlaces(<<>>)) = 0
    <3>1. TriggerPlaces(<<>>) = {}
      BY DEF TriggerPlaces
    <3> QED
      BY <3>1, FS_EmptySet
  <2>2. CASE fifo'[r] = <<>>
    <3>1. Waiting(r)' = 0
      BY <2>1, <2>2 DEF Waiting
    <3>2. Waiting(r) \in Nat
      BY AskedTypes
    <3> QED
      BY <3>1, <3>2
  <2>3. CASE fifo'[r] = fifo[r]
    BY <2>3, AskedTypes DEF Waiting
  <2> QED
    BY <2>2, <2>3 DEF Idle
<1>3. /\ Cardinality(RunsOf(r)) \in Nat /\ Waiting(r) \in Nat
      /\ Answering(r) \in {0, 1}
      /\ triggers[r] \in Nat
  BY AskedTypes
<1>4. Answering(r)' \in {0, 1}
  BY DEF Answering
<1>5. Waiting(r)' \in Nat
  BY WaitingIsNat DEF Waiting, TypeOK, FifoTypeOK, Token
<1>6. Cardinality(RunsOf(r)) + Answering(r) + Waiting(r) <= triggers[r]
  BY DEF Asked
<1> QED
  BY <1>1, <1>2, <1>3, <1>4, <1>5, <1>6

\* Every step but three is idle.
LEMMA IdleCases ==
  ASSUME TypeOK, [Next]_vars
  PROVE  \/ Idle
         \/ \E r \in Readers :
              \/ \E tok \in Token : WriteToken(r, tok)
              \/ ReadToken(r) \/ Launch(r)
<1>0. /\ fifo \in [Readers -> Seq(Token)] /\ rpc \in [Readers -> ReaderPc]
      /\ ReaderTypeOK
  BY AskedTypes DEF TypeOK
<1> USE DEF Answering, plantVars, readerVars, fifoVars
<1>1. CASE Tick \/ WriterStep \/ UNCHANGED vars
  BY <1>0, <1>1 DEF Idle, Tick, WriterStep, WriterBuild, WriterCreate, WriterRefused,
     WriterStore, WriterAbort, WriterEnd, vars
<1>2. ASSUME NEW r \in Readers, ManagerOpen(r) \/ ManagerExit(r)
      PROVE  Idle
  BY <1>0, <1>2 DEF Idle, ManagerOpen, ManagerExit
<1>3. ASSUME NEW r \in Readers,
             \/ \E i \in Transitions : ReaderStart(r, i)
             \/ LoadBinding(r) \/ ClaimLink(r) \/ ClaimUnlink(r)
             \/ SendControl(r) \/ ActuatorDone(r)
      PROVE  Idle
  <2>1. UNCHANGED <<runs, triggers, fifo>>
    BY <1>3 DEF ReaderStart, LoadBinding, ClaimLink, ClaimUnlink, SendControl,
       ActuatorDone
  <2>2. \A q \in Readers : Answering(q)' <= Answering(q)
    BY <1>0, <1>3 DEF ReaderStart, LoadBinding, ClaimLink, ClaimUnlink, SendControl,
       ActuatorDone
  <2> QED
    BY <2>1, <2>2 DEF Idle
<1>4. ASSUME NEW r \in Readers, Die(r), runs' = runs
      PROVE  Idle
  BY <1>0, <1>4 DEF Idle, Die
<1>5. ASSUME NEW r \in Readers, ActuatorFailed(r)
      PROVE  Idle
  <2>1. CASE Die(r)
    BY <1>4, <1>5, <2>1 DEF ActuatorFailed
  <2>2. CASE UNCHANGED <<fifoVars, readerVars>>
    BY <1>0, <1>5, <2>2 DEF ActuatorFailed, Idle
  <2> QED
    BY <1>5, <2>1, <2>2 DEF ActuatorFailed
<1>6. ASSUME NEW r \in Readers,
             \/ ReadEof(r) \/ RejectBinding(r) \/ ClaimRefused(r)
             \/ ClaimUncertain(r) \/ WrapperReject(r) \/ ReaderCrash(r)
      PROVE  Idle
  BY <1>4, <1>6 DEF ReadEof, RejectBinding, ClaimRefused, ClaimUncertain,
     WrapperReject, ReaderCrash
<1> QED
  BY <1>1, <1>2, <1>3, <1>5, <1>6
     DEF Next, EndpointStep, ReaderStep, ReaderProgress, Token

\* Every step keeps the count.
LEMMA AskedStep ==
  ASSUME TypeOK, TypeOK', Asked, [Next]_vars
  PROVE  Asked'
<1>0. /\ fifo \in [Readers -> Seq(Token)] /\ triggers \in [Readers -> Nat]
      /\ rpc \in [Readers -> ReaderPc] /\ runs \in Seq(Run)
      /\ \A r \in Readers :
           /\ IsFiniteSet(RunsOf(r)) /\ Cardinality(RunsOf(r)) \in Nat
           /\ Waiting(r) \in Nat /\ Answering(r) \in {0, 1}
  BY AskedTypes
<1>1. ASSUME NEW r \in Readers, NEW tok \in Token, WriteToken(r, tok)
      PROVE  Asked'
  <2> SUFFICES ASSUME NEW q \in Readers
               PROVE  (Cardinality(RunsOf(q)) + Answering(q) + Waiting(q) <= triggers[q])'
    BY DEF Asked
  <2>1. RunsOf(q)' = RunsOf(q) /\ Answering(q)' = Answering(q)
    BY <1>0, <1>1 DEF WriteToken, RunsOf, Answering, plantVars
  <2>2. CASE q # r
    <3>1. fifo'[q] = fifo[q] /\ triggers'[q] = triggers[q]
      BY <1>0, <1>1, <2>2 DEF WriteToken
    <3> QED
      BY <2>1, <3>1 DEF Asked, Waiting
  <2>3. CASE q = r
    <3>1. /\ fifo'[r] = Append(fifo[r], tok) /\ fifo[r] \in Seq(Token)
          /\ triggers'[r] = triggers[r] + (IF tok = "TRIGGER" THEN 1 ELSE 0)
      BY <1>0, <1>1 DEF WriteToken
    <3>2. Waiting(r)' = Waiting(r) + (IF tok = "TRIGGER" THEN 1 ELSE 0)
      BY <3>1, TriggerAppended DEF Waiting
    <3>3. Cardinality(RunsOf(r)) + Answering(r) + Waiting(r) <= triggers[r]
      BY DEF Asked
    <3>4. /\ triggers[r] \in Nat /\ Cardinality(RunsOf(r)) \in Nat
          /\ Waiting(r) \in Nat /\ Answering(r) \in {0, 1}
      BY <1>0
    <3>5. Cardinality(RunsOf(r)) + Answering(r) + Waiting(r)' <= triggers'[r]
      BY <3>1, <3>2, <3>3, <3>4
    <3> QED
      BY <2>1, <2>3, <3>5
  <2> QED
    BY <2>2, <2>3
<1>2. ASSUME NEW r \in Readers, ReadToken(r)
      PROVE  Asked'
  <2> SUFFICES ASSUME NEW q \in Readers
               PROVE  (Cardinality(RunsOf(q)) + Answering(q) + Waiting(q) <= triggers[q])'
    BY DEF Asked
  <2>1. RunsOf(q)' = RunsOf(q) /\ triggers'[q] = triggers[q]
    BY <1>2 DEF ReadToken, RunsOf, plantVars
  <2>2. CASE q # r
    <3>1. fifo'[q] = fifo[q] /\ rpc'[q] = rpc[q]
      BY <1>0, <1>2, <2>2 DEF ReadToken
    <3> QED
      BY <2>1, <3>1 DEF Asked, Waiting, Answering
  <2>3. CASE q = r
    <3>1. /\ fifo'[r] = Tail(fifo[r]) /\ fifo[r] \in Seq(Token) /\ fifo[r] # <<>>
          /\ Answering(r) = 0
          /\ Answering(r)' = IF Head(fifo[r]) = "TRIGGER" THEN 1 ELSE 0
      BY <1>0, <1>2 DEF ReadToken, Answering
    <3>2. Waiting(r)' + (IF Head(fifo[r]) = "TRIGGER" THEN 1 ELSE 0) <= Waiting(r)
      BY <3>1, TriggerRead DEF Waiting
    <3>3. Cardinality(RunsOf(r)) + Answering(r) + Waiting(r) <= triggers[r]
      BY DEF Asked
    <3>4. triggers[r] \in Nat /\ Waiting(r)' \in Nat
      BY <1>0, WaitingIsNat DEF Waiting, TypeOK, FifoTypeOK, Token
    <3> QED
      BY <1>0, <2>1, <2>3, <3>1, <3>2, <3>3, <3>4
  <2> QED
    BY <2>2, <2>3
<1>3. ASSUME NEW r \in Readers, Launch(r)
      PROVE  Asked'
  <2> SUFFICES ASSUME NEW q \in Readers
               PROVE  (Cardinality(RunsOf(q)) + Answering(q) + Waiting(q) <= triggers[q])'
    BY DEF Asked
  <2>1. fifo' = fifo /\ triggers' = triggers
    BY <1>3 DEF Launch, fifoVars
  <2>2. RunsOf(q)' = IF q = r THEN RunsOf(r) \cup {Len(runs) + 1} ELSE RunsOf(q)
    BY <1>0, <1>3 DEF Launch, RunsOf
  <2>3. CASE q # r
    <3>1. rpc'[q] = rpc[q]
      BY <1>0, <1>3, <2>3 DEF Launch
    <3> QED
      BY <2>1, <2>2, <2>3, <3>1 DEF Asked, Waiting, Answering
  <2>4. CASE q = r
    <3>1. Answering(r) = 1 /\ Answering(r)' = 0
      BY <1>0, <1>3 DEF Launch, Answering
    <3>2. Len(runs) + 1 \notin RunsOf(r)
      BY <1>0 DEF RunsOf
    <3>3. Cardinality(RunsOf(r))' = Cardinality(RunsOf(r)) + 1
      BY <1>0, <2>2, <2>4, <3>2, FS_AddElement
    <3>4. Waiting(r)' = Waiting(r)
      BY <2>1 DEF Waiting
    <3>5. Cardinality(RunsOf(r)) + Answering(r) + Waiting(r) <= triggers[r]
      BY DEF Asked
    <3>6. triggers[r] \in Nat
      BY <1>0
    <3> QED
      BY <1>0, <2>1, <2>4, <3>1, <3>3, <3>4, <3>5, <3>6
  <2> QED
    BY <2>3, <2>4
<1> QED
  BY <1>1, <1>2, <1>3, IdleCases, IdleKeepsAsked

\* A reader launches its transitions in order without a gap, however often it
\* is triggered and wherever it dies, the gNB receives its controls in that
\* order, and each launch answers a TRIGGER of its own.
THEOREM LaunchesInOrder == Spec => []ReaderInOrder
<1>1. IndInv /\ OrderInv /\ Asked => ReaderInOrder
  <2> SUFFICES ASSUME IndInv, OrderInv, Asked PROVE ReaderInOrder
    OBVIOUS
  <2>1. ASSUME NEW r \in Readers, NEW j \in RunsOf(r), NEW k \in RunsOf(r), j < k,
               NEW i \in runs[j].idx .. runs[k].idx
        PROVE  \E m \in RunsOf(r) : runs[m].idx = i
    <3>1. /\ runs[j].idx \in Transitions /\ runs[k].idx \in Transitions
          /\ nextIndex[r] \in Nat
      <4>1. runs \in Seq(Run) /\ nextIndex[r] \in Nat
        BY DEF IndInv, TypeInv, TypeOK, PlantTypeOK, ReaderTypeOK
      <4>2. runs[j] \in Run /\ runs[k] \in Run
        BY <2>1, <4>1 DEF RunsOf
      <4> QED
        BY <4>1, <4>2 DEF Run
    <3>2. i \in Transitions
      BY <3>1, ReaderAssumption DEF Transitions
    <3>3. CASE i = runs[k].idx
      BY <3>3
    <3>4. CASE i # runs[k].idx
      <4>1. runs[j].idx <= i /\ i < nextIndex[r]
        BY <3>1, <3>2, <3>4 DEF OrderInv, InSequence, Transitions
      <4> QED
        BY <3>2, <4>1 DEF OrderInv, InSequence
    <3> QED
      BY <3>3, <3>4
  <2>2. \A r \in Readers : \A j, k \in RunsOf(r) : j < k => runs[j].idx < runs[k].idx
    BY DEF OrderInv, InSequence
  <2>3. ASSUME NEW r \in Readers
        PROVE  Cardinality(RunsOf(r)) <= triggers[r]
    <3>1. /\ Cardinality(RunsOf(r)) \in Nat /\ Waiting(r) \in Nat
          /\ Answering(r) \in {0, 1} /\ triggers[r] \in Nat
      BY AskedTypes DEF IndInv, TypeInv
    <3>2. Cardinality(RunsOf(r)) + Answering(r) + Waiting(r) <= triggers[r]
      BY DEF Asked
    <3> QED
      BY <3>1, <3>2
  <2> QED
    BY <2>1, <2>2, <2>3 DEF ReaderInOrder, OrderInv, ControlsInOrder
<1>2. IndInv => TypeOK
  BY DEF IndInv, TypeInv
<1>3. TypeOK /\ TypeOK' /\ Asked /\ [Next]_vars => Asked'
  BY AskedStep
<1> QED
  BY <1>1, <1>2, <1>3, OrderInit, OrderStep, AskedInit, Inductive, PTL DEF Spec

-----------------------------------------------------------------------------
(* The archived binding. While a transition is unclaimed only the cleanup of  *)
(* a failing writer removes its file, and the path that cleanup unlinks still  *)
(* names the writer's own file, because until then no other invocation could   *)
(* create one there. So a reader loses the file it validated only to the       *)
(* writer of that file.                                                      *)

\* A writer between its open and its last fsync.
Writing(w) == wpc[w] \in {"created", "stored"}

\* What a writer may still unlink is its own file, until a reader claims it.
CreatedIsListed ==
  \A w \in Writers :
    Writing(w) /\ consumed[wpath[w]] = NoFile => file[wpath[w]] = w

\* The file that was read is the one that will be linked, unless its writer
\* has failed.
HeldIsListed ==
  \A r \in Readers :
    rpc[r] = "linking" /\ consumed[nextIndex[r]] = NoFile =>
      file[nextIndex[r]] = cur[r] \/ wpc[cur[r]] = "failed"

\* What was linked is what the owner holds, unless its writer has failed.
OwnersArchive ==
  \A r \in Readers :
    Owns(r) => consumed[nextIndex[r]] = cur[r] \/ wpc[cur[r]] = "failed"

ArchiveInv ==
  /\ CreatedIsListed
  /\ HeldIsListed
  /\ OwnersArchive
  /\ ArchiveIsWhatRan

\* A step is plain when it touches no directory entry, launches nothing and
\* brings no writer or reader to where the invariant speaks of it.
Plain ==
  /\ UNCHANGED <<file, consumed, runs>>
  /\ \A w \in Writers :
       /\ Writing(w)' => Writing(w) /\ wpath'[w] = wpath[w]
       /\ wpc[w] = "failed" => wpc'[w] = "failed"
  /\ \A r \in Readers :
       rpc'[r] = "linking" \/ Owns(r)' =>
         /\ rpc'[r] = "linking" => rpc[r] = "linking"
         /\ Owns(r)' => Owns(r)
         /\ nextIndex'[r] = nextIndex[r]
         /\ cur'[r] = cur[r]

\* The initial state: no file, no reader.
LEMMA ArchiveInit == Init => ArchiveInv
BY DEF Init, ArchiveInv, CreatedIsListed, Writing, HeldIsListed, OwnersArchive,
       Owns, ArchiveIsWhatRan

\* Plain steps keep it.
LEMMA PlainStep ==
  ASSUME IndInv, ArchiveInv, Plain
  PROVE  ArchiveInv'
<1>0. /\ \A r \in Readers : Holding(r) => cur[r] \in Writers
      /\ \A k \in DOMAIN runs : runs[k].id \in Writers
  <2>1. /\ \A r \in Readers : Holding(r) => cur[r] \in Writers
        /\ runs \in Seq(Run)
    BY DEF IndInv, TypeInv, TypeOK, WriterTypeOK, PlantTypeOK, HeldIsValid
  <2>2. \A k \in DOMAIN runs : runs[k] \in Run
    BY <2>1
  <2> QED
    BY <2>1, <2>2 DEF Run
<1>1. CreatedIsListed'
  BY DEF ArchiveInv, CreatedIsListed, Plain
<1>2. HeldIsListed'
  BY <1>0 DEF ArchiveInv, HeldIsListed, Plain, Holding
<1>3. OwnersArchive'
  BY <1>0 DEF ArchiveInv, OwnersArchive, Plain, Owns, Holding
<1>4. ArchiveIsWhatRan'
  BY <1>0 DEF ArchiveInv, ArchiveIsWhatRan, Plain
<1> QED
  BY <1>1, <1>2, <1>3, <1>4 DEF ArchiveInv

\* Which steps are plain.
LEMMA PlainCases ==
  ASSUME IndInv, [Next]_vars
  PROVE  \/ Plain
         \/ \E w \in Writers : WriterCreate(w) \/ WriterAbort(w)
         \/ \E r \in Readers :
              \/ LoadBinding(r) \/ ClaimLink(r) \/ ClaimUnlink(r)
              \/ ClaimUncertain(r) \/ Launch(r)
<1>0. TypeOK /\ WriterTypeOK /\ ReaderTypeOK /\ PlantTypeOK
  BY DEF IndInv, TypeInv, TypeOK
<1> USE DEF WriterTypeOK, ReaderTypeOK, PlantTypeOK, plantVars, readerVars, writerVars,
            entryVars, Owns, Writing
<1>1. CASE Tick \/ UNCHANGED vars
  BY <1>0, <1>1 DEF Plain, Tick, vars
<1>2. ASSUME NEW w \in Writers,
             \/ \E p, i \in Transitions : WriterBuild(w, p, i)
             \/ WriterRefused(w) \/ WriterStore(w) \/ WriterEnd(w)
      PROVE  Plain
  <2>1. UNCHANGED <<entryVars, plantVars, readerVars>>
    BY <1>2 DEF WriterBuild, WriterRefused, WriterStore, WriterEnd
  <2>2. \A v \in Writers :
          /\ Writing(v)' => Writing(v) /\ wpath'[v] = wpath[v]
          /\ wpc[v] = "failed" => wpc'[v] = "failed"
    BY <1>0, <1>2 DEF WriterBuild, WriterRefused, WriterStore, WriterEnd
  <2> QED
    BY <2>1, <2>2 DEF Plain
<1>3. CASE EndpointStep
  BY <1>0, <1>3 DEF Plain, EndpointStep, ManagerOpen, ManagerExit, WriteToken, Live
<1>4. ASSUME NEW r \in Readers,
             \/ ReadEof(r) \/ RejectBinding(r) \/ ClaimRefused(r)
             \/ WrapperReject(r) \/ ReaderCrash(r)
      PROVE  Plain
  <2>1. Die(r) /\ UNCHANGED <<entryVars, plantVars>>
    BY <1>4 DEF ReadEof, RejectBinding, ClaimRefused, WrapperReject, ReaderCrash
  <2> QED
    BY <1>0, <2>1 DEF Plain, Die
<1>5. ASSUME NEW r \in Readers,
             \/ \E i \in Transitions : ReaderStart(r, i)
             \/ ReadToken(r) \/ SendControl(r)
      PROVE  Plain
  BY <1>0, <1>5 DEF Plain, ReaderStart, ReadToken, SendControl
<1>6. ASSUME NEW r \in Readers, ActuatorDone(r)
      PROVE  Plain
  BY <1>0, <1>6 DEF Plain, ActuatorDone
<1>7. ASSUME NEW r \in Readers, ActuatorFailed(r)
      PROVE  Plain
  BY <1>0, <1>7 DEF Plain, ActuatorFailed, Die
<1> QED
  BY <1>1, <1>2, <1>3, <1>4, <1>5, <1>6, <1>7
     DEF Next, WriterStep, ReaderStep, ReaderProgress

\* Every step keeps the entries of held files whose writer has not failed.
LEMMA ArchiveStep ==
  ASSUME IndInv, ArchiveInv, [Next]_vars
  PROVE  ArchiveInv'
<1>0. /\ TypeOK /\ WriterTypeOK /\ ReaderTypeOK /\ EntryTypeOK /\ NoFile \notin Writers
      /\ runs \in Seq(Run)
      /\ \A r \in Readers : Holding(r) => nextIndex[r] \in Transitions /\ cur[r] \in complete
      /\ \A w \in complete : wpc[w] \in {"stored", "ended", "failed"}
      /\ complete \subseteq Writers
      /\ \A r \in Readers : Owns(r) => consumed[nextIndex[r]] # NoFile
      /\ \A r, s \in Readers : Owns(r) /\ Owns(s) /\ nextIndex[r] = nextIndex[s] => r = s
  BY ReaderAssumption
     DEF IndInv, TypeInv, TypeOK, WriterTypeOK, PlantTypeOK, HeldIsValid,
         CompleteIsStored, OwnersAreAlone
<1> USE DEF WriterTypeOK, ReaderTypeOK, EntryTypeOK
<1>1. ASSUME NEW w \in Writers, WriterCreate(w)
      PROVE  ArchiveInv'
  <2>1. /\ file[wpath[w]] = NoFile /\ wpath[w] \in Transitions /\ wpc[w] = "built"
        /\ file' = [file EXCEPT ![wpath[w]] = w]
        /\ wpc' = [wpc EXCEPT ![w] = "created"]
        /\ UNCHANGED <<wpath, consumed, rpc, nextIndex, cur, runs>>
    BY <1>0, <1>1 DEF WriterCreate, readerVars, plantVars
  <2>2. CreatedIsListed'
    BY <1>0, <2>1 DEF ArchiveInv, CreatedIsListed, Writing
  <2>3. HeldIsListed'
    BY <1>0, <2>1 DEF ArchiveInv, HeldIsListed, Holding
  <2>4. OwnersArchive' /\ ArchiveIsWhatRan'
    BY <1>0, <2>1 DEF ArchiveInv, OwnersArchive, Owns, ArchiveIsWhatRan
  <2> QED
    BY <2>2, <2>3, <2>4 DEF ArchiveInv
<1>2. ASSUME NEW w \in Writers, WriterAbort(w)
      PROVE  ArchiveInv'
  <2>1. /\ Writing(w) /\ wpath[w] \in Transitions
        /\ file' = [file EXCEPT ![wpath[w]] = NoFile]
        /\ wpc' = [wpc EXCEPT ![w] = "failed"]
        /\ UNCHANGED <<wpath, consumed, rpc, nextIndex, cur, runs>>
    BY <1>0, <1>2 DEF WriterAbort, Writing, readerVars, plantVars
  <2>2. CreatedIsListed'
    BY <1>0, <2>1 DEF ArchiveInv, CreatedIsListed, Writing
  <2>3. HeldIsListed'
    <3> SUFFICES ASSUME NEW r \in Readers, rpc[r] = "linking",
                        consumed[nextIndex[r]] = NoFile, wpc'[cur[r]] # "failed"
                 PROVE  file'[nextIndex[r]] = cur[r]
      BY <2>1 DEF HeldIsListed
    <3>1. cur[r] \in Writers /\ nextIndex[r] \in Transitions
      BY <1>0 DEF Holding
    <3>2. cur[r] # w /\ file[nextIndex[r]] = cur[r]
      BY <1>0, <2>1, <3>1 DEF ArchiveInv, HeldIsListed
    <3>3. nextIndex[r] # wpath[w]
      BY <2>1, <3>2 DEF ArchiveInv, CreatedIsListed
    <3> QED
      BY <1>0, <2>1, <3>1, <3>2, <3>3
  <2>4. OwnersArchive' /\ ArchiveIsWhatRan'
    BY <1>0, <2>1 DEF ArchiveInv, OwnersArchive, Owns, ArchiveIsWhatRan
  <2> QED
    BY <2>2, <2>3, <2>4 DEF ArchiveInv
<1>3. ASSUME NEW r \in Readers, LoadBinding(r)
      PROVE  ArchiveInv'
  <2>1. /\ rpc[r] = "loading" /\ rpc' = [rpc EXCEPT ![r] = "linking"]
        /\ cur' = [cur EXCEPT ![r] = file[nextIndex[r]]]
        /\ UNCHANGED <<wpc, wpath, file, consumed, nextIndex, runs>>
    BY <1>3 DEF LoadBinding, writerVars, entryVars, plantVars
  <2>2. CreatedIsListed' /\ ArchiveIsWhatRan'
    BY <2>1 DEF ArchiveInv, CreatedIsListed, Writing, ArchiveIsWhatRan
  <2>3. HeldIsListed' /\ OwnersArchive'
    BY <1>0, <2>1 DEF ArchiveInv, HeldIsListed, OwnersArchive, Owns
  <2> QED
    BY <2>2, <2>3 DEF ArchiveInv
<1>4. ASSUME NEW r \in Readers, ClaimLink(r)
      PROVE  ArchiveInv'
  <2>1. /\ rpc[r] = "linking" /\ rpc' = [rpc EXCEPT ![r] = "unlinking"]
        /\ consumed[nextIndex[r]] = NoFile /\ file[nextIndex[r]] # NoFile
        /\ consumed' = [consumed EXCEPT ![nextIndex[r]] = file[nextIndex[r]]]
        /\ UNCHANGED <<wpc, wpath, file, nextIndex, cur, runs>>
    BY <1>4 DEF ClaimLink, writerVars, plantVars
  <2>2. /\ file[nextIndex[r]] = cur[r] \/ wpc[cur[r]] = "failed"
        /\ nextIndex[r] \in Transitions
    BY <1>0, <2>1 DEF ArchiveInv, HeldIsListed, Holding
  <2>3. CreatedIsListed'
    BY <1>0, <2>1, <2>2 DEF ArchiveInv, CreatedIsListed, Writing
  <2>4. HeldIsListed'
    BY <1>0, <2>1, <2>2 DEF ArchiveInv, HeldIsListed, Holding
  <2>5. OwnersArchive'
    BY <1>0, <2>1, <2>2 DEF ArchiveInv, OwnersArchive, Owns
  <2>6. ArchiveIsWhatRan'
    <3>1. \A k \in DOMAIN runs : runs[k].id # NoFile /\ runs[k].idx \in Transitions
      <4>1. \A k \in DOMAIN runs : runs[k] \in Run
        BY <1>0
      <4> QED
        BY <1>0, <4>1 DEF Run
    <3> QED
      BY <1>0, <2>1, <2>2, <3>1 DEF ArchiveInv, ArchiveIsWhatRan
  <2> QED
    BY <2>3, <2>4, <2>5, <2>6 DEF ArchiveInv
<1>5. ASSUME NEW r \in Readers, ClaimUnlink(r) \/ ClaimUncertain(r)
      PROVE  ArchiveInv'
  <2>1. /\ rpc[r] = "unlinking"
        /\ \A q \in Readers : /\ rpc'[q] = "linking" => rpc[q] = "linking" /\ q # r
                              /\ Owns(q)' => Owns(q) /\ cur'[q] = cur[q]
                              /\ q # r => cur'[q] = cur[q]
        /\ \A p \in Transitions : p # nextIndex[r] => file'[p] = file[p]
        /\ UNCHANGED <<wpc, wpath, consumed, nextIndex, runs>>
    BY <1>0, <1>5 DEF ClaimUnlink, ClaimUncertain, Die, Owns, writerVars, plantVars
  <2>2. consumed[nextIndex[r]] # NoFile
    BY <1>0, <2>1 DEF Owns
  <2>3. CreatedIsListed'
    BY <1>0, <2>1, <2>2 DEF ArchiveInv, CreatedIsListed, Writing
  <2>4. HeldIsListed'
    BY <1>0, <2>1, <2>2 DEF ArchiveInv, HeldIsListed, Holding
  <2>5. OwnersArchive' /\ ArchiveIsWhatRan'
    BY <2>1 DEF ArchiveInv, OwnersArchive, ArchiveIsWhatRan
  <2> QED
    BY <2>3, <2>4, <2>5 DEF ArchiveInv
<1>6. ASSUME NEW r \in Readers, Launch(r)
      PROVE  ArchiveInv'
  <2> DEFINE new == [reader |-> r, idx |-> nextIndex[r], id |-> cur[r]]
  <2>1. /\ rpc[r] = "claimed" /\ rpc' = [rpc EXCEPT ![r] = "actuating"]
        /\ runs' = Append(runs, new)
        /\ UNCHANGED <<wpc, wpath, file, consumed, nextIndex, cur>>
    BY <1>6 DEF Launch, writerVars, entryVars
  <2>2. CreatedIsListed' /\ HeldIsListed'
    BY <1>0, <2>1 DEF ArchiveInv, CreatedIsListed, Writing, HeldIsListed
  <2>3. OwnersArchive'
    BY <1>0, <2>1 DEF ArchiveInv, OwnersArchive, Owns
  <2>4. ArchiveIsWhatRan'
    <3>1. consumed[nextIndex[r]] = cur[r] \/ wpc[cur[r]] = "failed"
      BY <2>1 DEF ArchiveInv, OwnersArchive, Owns
    <3>2. /\ DOMAIN runs' = DOMAIN runs \cup {Len(runs) + 1}
          /\ \A k \in DOMAIN runs : runs'[k] = runs[k]
          /\ runs'[Len(runs) + 1] = new
      BY <1>0, <2>1
    <3> QED
      BY <2>1, <3>1, <3>2 DEF ArchiveInv, ArchiveIsWhatRan
  <2> QED
    BY <2>2, <2>3, <2>4 DEF ArchiveInv
<1> QED
  BY <1>1, <1>2, <1>3, <1>4, <1>5, <1>6, PlainCases, PlainStep

\* The consumed file of a transition is the binding that was actuated, whatever
\* readers and writers race for it, crash or fail; the one exception is a
\* binding whose own writer failed after its document was visible.
THEOREM ArchiveCorrect == Spec => []ArchiveIsWhatRan
<1>1. IndInv /\ ArchiveInv /\ [Next]_vars => ArchiveInv'
  BY ArchiveStep
<1>2. ArchiveInv => ArchiveIsWhatRan
  BY DEF ArchiveInv
<1> QED
  BY <1>1, <1>2, ArchiveInit, Inductive, PTL DEF Spec
=============================================================================
