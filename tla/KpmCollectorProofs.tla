------------------------- MODULE KpmCollectorProofs -------------------------
(***************************************************************************)
(* Proofs about KpmCollector for every queue capacity, number of durable    *)
(* sinks, callback threads and indications.                                 *)
(***************************************************************************)
EXTENDS KpmCollector, FiniteSetTheorems, TLAPS

\* The variables of main and FlexRIC, and those of the callbacks.
outerVars == <<mainVars, ricVars, expired, contextVars>>

-----------------------------------------------------------------------------
(* Frames: what the groups of actions leave alone.                          *)

\* Control steps of main, FlexRIC and the clock touch neither the pipeline
\* nor a callback.
LEMMA ControlFrame ==
  ASSUME MainControl \/ RicAccepts \/ DurationPasses
  PROVE  UNCHANGED <<pipelineVars, indicationVars, callbackVars>>
<1>1. CASE ConfigError
  BY <1>1 DEF ConfigError
<1>2. CASE ApiInit
  BY <1>2 DEF ApiInit
<1>3. CASE NodeDiscovered
  BY <1>3 DEF NodeDiscovered, MainTransition
<1>4. CASE MainFails
  BY <1>4 DEF MainFails
<1>5. CASE SelectedFails
  BY <1>5 DEF SelectedFails
<1>6. CASE ReportDone
  BY <1>6 DEF ReportDone, MainTransition
<1>7. CASE PollReceiving
  BY <1>7 DEF PollReceiving, MainTransition
<1>8. CASE PollAgain
  BY <1>8 DEF PollAgain
<1>9. CASE PollEnds
  BY <1>9 DEF PollEnds, MainTransition
<1>10. CASE RemoveSubscription
  BY <1>10 DEF RemoveSubscription, MainTransition
<1>11. CASE Uninstall
  BY <1>11 DEF Uninstall
<1>12. CASE StopApi
  BY <1>12 DEF StopApi
<1>13. CASE StopApiTimeout
  BY <1>13 DEF StopApiTimeout
<1>14. CASE Failure
  BY <1>14 DEF Failure
<1>15. CASE FailureStop
  BY <1>15 DEF FailureStop
<1>16. CASE NoContext
  BY <1>16 DEF NoContext, Destroying
<1>17. CASE Destroy
  BY <1>17 DEF Destroy, ShutdownOk
<1>18. CASE Leave
  BY <1>18 DEF Leave
<1>19. CASE RicAccepts
  BY <1>19 DEF RicAccepts
<1>20. CASE DurationPasses
  BY <1>20 DEF DurationPasses
<1> QED
  BY <1>1, <1>2, <1>3, <1>4, <1>5, <1>6, <1>7, <1>8, <1>9, <1>10, <1>11,
     <1>12, <1>13, <1>14, <1>15, <1>16, <1>17, <1>18, <1>19, <1>20 DEF
     MainControl

\* The shutdown of the pipeline changes, outside it, only where main is and
\* the pointer in the context.
LEMMA ShutdownFrame ==
  ASSUME MainShutdown
  PROVE  UNCHANGED <<lifecycle, code, exit, ricVars, expired, active, context,
                     indicationVars, callbackVars>>
<1>1. CASE CountersLock
  BY <1>1 DEF contextVars, Destroying, CountersLock
<1>2. CASE CountersSet
  BY <1>2 DEF contextVars, Destroying, CountersSet
<1>3. CASE ShutdownLock
  BY <1>3 DEF contextVars, Destroying, ShutdownLock
<1>4. CASE ShutdownRequest
  BY <1>4 DEF contextVars, Destroying, ShutdownRequest
<1>5. CASE ShutdownJoin
  BY <1>5 DEF contextVars, Destroying, ShutdownJoin
<1>6. CASE ShutdownSnapshot
  BY <1>6 DEF contextVars, Destroying, ShutdownSnapshot
<1> QED
  BY <1>1, <1>2, <1>3, <1>4, <1>5, <1>6 DEF MainShutdown

\* The worker changes nothing outside the pipeline.
LEMMA WorkerFrame ==
  ASSUME WorkerStep \/ WorkerWakes
  PROVE  UNCHANGED <<outerVars, indicationVars, callbackVars>>
BY DEF WorkerStep, WorkerWakes, outerVars

\* A callback changes nothing of main, FlexRIC and the context.
LEMMA CallbackFrame ==
  ASSUME NEW c \in Callbacks, CallbackEnter(c) \/ CallbackStep(c)
  PROVE  UNCHANGED outerVars
BY DEF CallbackEnter, CallbackStep, Callback, outerVars, CallbackReject,
   CallbackSequence, CallbackRecord, CallbackDrops, CallbackLock,
   CallbackStore, CallbackRefused, CallbackCountsDrop, CallbackEnd

-----------------------------------------------------------------------------
(* The indexes of the ring.                                                 *)

\* Reduction modulo Capacity of the sums the ring uses.
LEMMA RingIndex ==
  /\ \A x \in 0..(Capacity - 1) : x % Capacity = x
  /\ \A x \in Capacity..(2 * Capacity - 1) : x % Capacity = x - Capacity
<1>1. ASSUME NEW x \in 0..(Capacity - 1) PROVE x % Capacity = x
  BY PipelineAssumption
<1>2. ASSUME NEW x \in Capacity..(2 * Capacity - 1)
      PROVE  x % Capacity = x - Capacity
  BY PipelineAssumption
<1> QED BY <1>1, <1>2

\* Advancing an index and then adding is adding one more, also across the
\* end of the array.
LEMMA RingAdvance ==
  ASSUME NEW h \in Slot, NEW i \in 0..(Capacity - 1)
  PROVE  /\ (((h + 1) % Capacity) + i) % Capacity = (h + i + 1) % Capacity
         /\ (((h + i) % Capacity) + 1) % Capacity = (h + i + 1) % Capacity
<1>1. CASE h + 1 < Capacity /\ h + i < Capacity
  BY <1>1, RingIndex, PipelineAssumption DEF Slot
<1>2. CASE h + 1 < Capacity /\ h + i >= Capacity
  BY <1>2, RingIndex, PipelineAssumption DEF Slot
<1>3. CASE h + 1 = Capacity
  BY <1>3, RingIndex, PipelineAssumption DEF Slot
<1> QED BY <1>1, <1>2, <1>3, PipelineAssumption DEF Slot

\* Offsets below Capacity name different slots.
LEMMA RingDistinct ==
  ASSUME NEW h \in Slot, NEW i \in Nat, NEW j \in Nat, i < j, j < Capacity
  PROVE  /\ (h + i) % Capacity # (h + j) % Capacity
         /\ (h + i) % Capacity \in Slot
<1>1. CASE h + j < Capacity
  BY <1>1, RingIndex, PipelineAssumption DEF Slot
<1>2. CASE h + i < Capacity /\ h + j >= Capacity
  BY <1>2, RingIndex, PipelineAssumption DEF Slot
<1>3. CASE h + i >= Capacity
  BY <1>3, RingIndex, PipelineAssumption DEF Slot
<1> QED BY <1>1, <1>2, <1>3, PipelineAssumption DEF Slot

-----------------------------------------------------------------------------
(* Which actions change what.                                               *)

\* Only a callback that stores a record and the worker that takes one change
\* the ring.
LEMMA RingChanges ==
  ASSUME [Next]_vars
  PROVE  \/ UNCHANGED ringVars
         \/ WorkerTake
         \/ \E c \in Callbacks : CallbackStore(c)
BY ControlFrame DEF Next, MainStep, MainShutdown, WorkerStep, WorkerWakes,
   WorkerSpurious, WorkerRun, CallbackStep, WorkerLock, WorkerWait, WorkerEnd,
   SinkWrite, SinkWriteFails, SinkSkip, Written, Account, Publish,
   PublishFails, WorkerUnlock, WriteNext, CallbackEnter, CallbackReject,
   CallbackSequence, CallbackRecord, CallbackEnd, CallbackCrash,
   CallbackDrops, CallbackLock, CallbackRefused, CallbackCountsDrop,
   SubmitDropped, SubmitLock, SubmitRefuse, ContextReady, CountersLock,
   CountersSet, ShutdownLock, ShutdownRequest, ShutdownJoin, ShutdownSnapshot,
   MainLock, SetCounters, RequestStop, CloseSinks, LastSnapshot, vars,
   pipelineVars

\* Only the worker's writes change the durable files.
LEMMA SinkChanges ==
  ASSUME [Next]_vars
  PROVE  UNCHANGED sinkVars \/ SinkWrite \/ SinkWriteFails
BY ControlFrame DEF Next, MainStep, MainShutdown, WorkerStep, WorkerWakes,
   WorkerSpurious, WorkerRun, CallbackStep, WorkerLock, WorkerWait, WorkerEnd,
   WorkerTake, SinkSkip, Written, Account, Publish, PublishFails,
   WorkerUnlock, WriteNext, CallbackEnter, CallbackReject, CallbackSequence,
   CallbackRecord, CallbackEnd, CallbackCrash, CallbackDrops, CallbackLock,
   CallbackStore, CallbackRefused, CallbackCountsDrop, SubmitDropped,
   SubmitLock, SubmitRefuse, SubmitStore, ContextReady, CountersLock,
   CountersSet, ShutdownLock, ShutdownRequest, ShutdownJoin, ShutdownSnapshot,
   MainLock, SetCounters, RequestStop, CloseSinks, LastSnapshot, vars,
   pipelineVars

\* Drops and failures are counted by callbacks, the worker and the shutdown.
LEMMA LossChanges ==
  ASSUME [Next]_vars
  PROVE  \/ UNCHANGED lossVars
         \/ Account \/ PublishFails \/ ShutdownJoin \/ ShutdownSnapshot
         \/ \E c \in Callbacks : CallbackDrops(c) \/ CallbackCountsDrop(c)
BY ControlFrame DEF Next, MainStep, MainShutdown, WorkerStep, WorkerWakes,
   WorkerSpurious, WorkerRun, CallbackStep, WorkerLock, WorkerWait, WorkerEnd,
   WorkerTake, SinkWrite, SinkWriteFails, SinkSkip, Written, Publish,
   WorkerUnlock, WriteNext, CallbackEnter, CallbackReject, CallbackSequence,
   CallbackRecord, CallbackEnd, CallbackCrash, CallbackLock, CallbackStore,
   CallbackRefused, SubmitDropped, SubmitLock, SubmitRefuse, SubmitStore,
   ContextReady, CountersLock, CountersSet, ShutdownLock, ShutdownRequest,
   MainLock, SetCounters, RequestStop, vars, pipelineVars

\* The counters and the text file.
LEMMA MetricChanges ==
  ASSUME [Next]_vars
  PROVE  \/ UNCHANGED metricVars
         \/ Account \/ Publish \/ CountersSet \/ ShutdownSnapshot
BY ControlFrame DEF Next, MainStep, MainShutdown, WorkerStep, WorkerWakes,
   WorkerSpurious, WorkerRun, CallbackStep, WorkerLock, WorkerWait, WorkerEnd,
   WorkerTake, SinkWrite, SinkWriteFails, SinkSkip, Written, PublishFails,
   WorkerUnlock, WriteNext, CallbackEnter, CallbackReject, CallbackSequence,
   CallbackRecord, CallbackEnd, CallbackCrash, CallbackDrops, CallbackLock,
   CallbackStore, CallbackRefused, CallbackCountsDrop, SubmitDropped,
   SubmitLock, SubmitRefuse, SubmitStore, ContextReady, CountersLock,
   ShutdownLock, ShutdownRequest, ShutdownJoin, MainLock, RequestStop,
   CloseSinks, vars, pipelineVars

\* Only main stops the pipeline.
LEMMA StopChanges ==
  ASSUME [Next]_vars
  PROVE  UNCHANGED stopReq \/ ShutdownRequest
BY ControlFrame DEF Next, MainStep, MainShutdown, WorkerStep, WorkerWakes,
   WorkerSpurious, WorkerRun, CallbackStep, WorkerLock, WorkerWait, WorkerEnd,
   WorkerTake, SinkWrite, SinkWriteFails, SinkSkip, Written, Account, Publish,
   PublishFails, WorkerUnlock, WriteNext, CallbackEnter, CallbackReject,
   CallbackSequence, CallbackRecord, CallbackEnd, CallbackCrash,
   CallbackDrops, CallbackLock, CallbackStore, CallbackRefused,
   CallbackCountsDrop, SubmitDropped, SubmitLock, SubmitRefuse, SubmitStore,
   ContextReady, CountersLock, CountersSet, ShutdownLock, ShutdownJoin,
   ShutdownSnapshot, MainLock, SetCounters, CloseSinks, LastSnapshot, vars,
   pipelineVars

\* The worker moves by itself, is started by main, and is woken by a
\* callback or by main.
LEMMA WorkerChanges ==
  ASSUME [Next]_vars
  PROVE  \/ UNCHANGED workerVars
         \/ WorkerRun \/ WorkerSpurious \/ ContextReady \/ ShutdownRequest
         \/ \E c \in Callbacks : CallbackStore(c)
BY ControlFrame DEF Next, MainStep, MainShutdown, WorkerStep, WorkerWakes,
   CallbackStep, WriteNext, CallbackEnter,
   CallbackReject, CallbackSequence, CallbackRecord, CallbackEnd,
   CallbackCrash, CallbackDrops, CallbackLock, CallbackRefused,
   CallbackCountsDrop, SubmitDropped, SubmitLock, SubmitRefuse, CountersLock,
   CountersSet, ShutdownLock, ShutdownJoin, ShutdownSnapshot, MainLock,
   SetCounters, CloseSinks, LastSnapshot, vars, pipelineVars

-----------------------------------------------------------------------------
(* Types.                                                                   *)

\* The ring stays a ring of records: the capacity test and the two reductions
\* keep its count and its indexes in range.
LEMMA RingTypes ==
  ASSUME RingTypeOK, CallbackTypeOK, [Next]_vars
  PROVE  RingTypeOK'
<1>1. CASE UNCHANGED ringVars
  BY <1>1 DEF ringVars, RingTypeOK
<1>2. CASE WorkerTake
  BY <1>2, PipelineAssumption DEF WorkerTake, RingTypeOK, Slot
<1>3. ASSUME NEW c \in Callbacks, CallbackStore(c)
      PROVE  RingTypeOK'
  <2>1. CallbackRec(c) \in Record
    BY DEF CallbackRec, CallbackTypeOK, Record
  <2> QED
    BY <1>3, <2>1, PipelineAssumption
       DEF CallbackStore, SubmitStore, Refuses, RingTypeOK, Slot
<1> QED BY <1>1, <1>2, <1>3, RingChanges

\* The worker's registers.
LEMMA WorkerTypes ==
  ASSUME RingTypeOK, WorkerTypeOK, [Next]_vars
  PROVE  WorkerTypeOK'
<1> USE PipelineAssumption DEF WorkerTypeOK, WorkerPc
<1>1. CASE UNCHANGED workerVars
  BY <1>1 DEF workerVars
<1>2. CASE WorkerLock("lock", "check")
  BY <1>2 DEF WorkerLock
<1>3. CASE WorkerWait
  BY <1>3 DEF WorkerWait
<1>4. CASE WorkerEnd
  BY <1>4 DEF WorkerEnd
<1>5. CASE WorkerTake
  BY <1>5 DEF WorkerTake, RingTypeOK, Slot
<1>6. CASE SinkWrite
  BY <1>6 DEF SinkWrite, WriteNext, Sink
<1>7. CASE SinkWriteFails
  BY <1>7 DEF SinkWriteFails, WriteNext, Sink
<1>8. CASE SinkSkip
  BY <1>8 DEF SinkSkip, WriteNext, Sink
<1>9. CASE Written
  BY <1>9 DEF Written, Sink
<1>10. CASE WorkerLock("account_lock", "account")
  BY <1>10 DEF WorkerLock
<1>11. CASE Account
  BY <1>11 DEF Account, Compose
<1>12. CASE Publish
  BY <1>12 DEF Publish
<1>13. CASE PublishFails
  BY <1>13 DEF PublishFails
<1>14. CASE WorkerLock("publish_lock", "publish_account")
  BY <1>14 DEF WorkerLock
<1>15. CASE WorkerUnlock("publish_account", "idle_lock")
  BY <1>15 DEF WorkerUnlock
<1>16. CASE WorkerLock("idle_lock", "idle")
  BY <1>16 DEF WorkerLock
<1>17. CASE WorkerUnlock("idle", "lock")
  BY <1>17 DEF WorkerUnlock
<1>18. CASE WorkerRun
  BY <1>2, <1>3, <1>4, <1>5, <1>6, <1>7, <1>8, <1>9, <1>10, <1>11, <1>12,
     <1>13, <1>14, <1>15, <1>16, <1>17, <1>18 DEF WorkerRun
<1>19. CASE WorkerSpurious \/ ContextReady
  BY <1>19 DEF WorkerSpurious, ContextReady
<1>20. CASE ShutdownRequest
  BY <1>20 DEF ShutdownRequest, RequestStop, WakeWorker, Destroying
<1>21. ASSUME NEW c \in Callbacks, CallbackStore(c) PROVE WorkerTypeOK'
  BY <1>21 DEF CallbackStore, SubmitStore, WakeWorker
<1> QED
  BY <1>1, <1>18, <1>19, <1>20, <1>21, WorkerChanges

-----------------------------------------------------------------------------
(* The ring is a queue.                                                     *)

Busy == {"write", "account_lock", "account", "publish", "publish_lock",
         "publish_account", "idle_lock", "idle"}

\* The worker holds a record from the moment it takes it until it is idle.
Holding == wrec # NoRecord <=> wpc \in Busy

\* No record is in the ring that was not accepted.
Counted == count <= Len(accepted)

RingInv ==
  RingTypeOK /\ WorkerTypeOK /\ CallbackTypeOK /\ Counted /\ RingIsFifo /\ Holding

\* What the ring's first slot holds is the oldest record not taken.
LEMMA Oldest ==
  ASSUME RingTypeOK, Counted, RingIsFifo, count > 0
  PROVE  /\ Taken \in Nat /\ Taken + 1 \in 1..Len(accepted)
         /\ slots[head] = accepted[Taken + 1]
         /\ accepted[Taken + 1] \in Record
<1>1. Len(accepted) \in Nat /\ count \in Nat /\ head \in Slot /\ head \in Int
  BY PipelineAssumption DEF RingTypeOK, Slot
<1>2. Taken \in Nat /\ Taken + 1 \in 1..Len(accepted)
  BY <1>1 DEF Taken, Counted
<1>3. slots[(head + 0) % Capacity] = accepted[Taken + 0 + 1]
  BY <1>1 DEF RingIsFifo
<1>4. (head + 0) % Capacity = head /\ Taken + 0 + 1 = Taken + 1
  BY <1>1, <1>2, RingIndex, PipelineAssumption DEF Slot
<1>5. accepted[Taken + 1] \in Record
  BY <1>2 DEF RingTypeOK
<1> QED BY <1>2, <1>3, <1>4, <1>5

\* Taking the oldest record leaves a queue of the others.
LEMMA TakeKeepsFifo ==
  ASSUME RingInv, WorkerTake
  PROVE  Counted' /\ RingIsFifo'
<1> USE DEF RingInv
<1>1. /\ Len(accepted) \in Nat /\ count \in 1..Capacity /\ head \in Slot
      /\ tail \in Slot /\ Capacity \in Nat \ {0} /\ head \in Nat
  BY PipelineAssumption DEF RingTypeOK, Slot, WorkerTake
<1>2. /\ wrec' = slots[head] /\ head' = (head + 1) % Capacity
      /\ count' = count - 1 /\ UNCHANGED <<slots, tail, accepted>>
  BY DEF WorkerTake
<1>3. Counted' /\ Taken' = Taken + 1
  BY <1>1, <1>2 DEF Counted, Taken
<1>4. tail' = (head' + count') % Capacity
  <2>1. count - 1 \in 0..(Capacity - 1)
    BY <1>1
  <2>2. (((head + 1) % Capacity) + (count - 1)) % Capacity
          = (head + (count - 1) + 1) % Capacity
    BY <1>1, <2>1, RingAdvance
  <2>3. head + (count - 1) + 1 = head + count
    BY <1>1
  <2> QED BY <1>2, <2>2, <2>3 DEF RingIsFifo
<1>5. ASSUME NEW i \in 0..(count' - 1)
      PROVE  slots'[(head' + i) % Capacity] = accepted'[Taken' + i + 1]
  <2>1. i \in 0..(Capacity - 1) /\ i + 1 \in 0..(count - 1) /\ i \in Nat
    BY <1>1, <1>2
  <2>2. (((head + 1) % Capacity) + i) % Capacity = (head + i + 1) % Capacity
    BY <1>1, <2>1, RingAdvance
  <2>3. head + i + 1 = head + (i + 1)
    BY <1>1, <2>1
  <2>4. slots[(head + (i + 1)) % Capacity] = accepted[Taken + (i + 1) + 1]
    BY <2>1 DEF RingIsFifo
  <2>5. Taken + (i + 1) + 1 = Taken' + i + 1
    BY <1>1, <1>3, <2>1 DEF Taken
  <2> QED BY <1>2, <2>2, <2>3, <2>4, <2>5
<1>6. Taken' > 0 /\ wrec' = accepted'[Taken']
  BY <1>1, <1>2, <1>3, Oldest
<1> QED BY <1>3, <1>4, <1>5, <1>6 DEF RingIsFifo

\* Storing a record behind the others leaves a queue: it hits none of theirs.
LEMMA StoreKeepsFifo ==
  ASSUME RingInv, NEW c \in Callbacks, CallbackStore(c)
  PROVE  Counted' /\ RingIsFifo'
<1> USE DEF RingInv
<1>1. /\ Len(accepted) \in Nat /\ count \in 0..(Capacity - 1)
      /\ head \in Slot /\ tail \in Slot /\ Capacity \in Nat \ {0}
      /\ head \in Nat /\ CallbackRec(c) \in Record
  BY PipelineAssumption
     DEF RingTypeOK, Slot, CallbackStore, SubmitStore, Refuses, CallbackRec,
         CallbackTypeOK, Record
<1> DEFINE r == CallbackRec(c)
<1>2. /\ slots' = [slots EXCEPT ![tail] = r]
      /\ tail' = (tail + 1) % Capacity /\ count' = count + 1
      /\ accepted' = Append(accepted, r) /\ UNCHANGED <<head, wrec>>
  BY DEF CallbackStore, SubmitStore
<1> HIDE DEF r
<1>3. /\ Len(accepted') = Len(accepted) + 1
      /\ accepted'[Len(accepted) + 1] = r
      /\ \A k \in 1..Len(accepted) : accepted'[k] = accepted[k]
  BY <1>1, <1>2 DEF RingTypeOK, r
<1>4. Counted' /\ Taken' = Taken /\ Taken \in Nat
  BY <1>1, <1>2, <1>3 DEF Counted, Taken
<1>5. tail = (head + count) % Capacity
  BY DEF RingIsFifo
<1>6. tail' = (head' + count') % Capacity
  <2>1. (((head + count) % Capacity) + 1) % Capacity
          = (head + count + 1) % Capacity
    BY <1>1, RingAdvance
  <2>2. head' + count' = head + count + 1
    BY <1>1, <1>2
  <2> QED BY <1>2, <1>5, <2>1, <2>2
<1>7. ASSUME NEW i \in 0..(count' - 1)
      PROVE  slots'[(head' + i) % Capacity] = accepted'[Taken' + i + 1]
  <2>1. CASE i = count
    <3>1. slots'[tail] = r
      BY <1>1, <1>2 DEF RingTypeOK
    <3>2. Taken' + i + 1 = Len(accepted) + 1
      BY <1>1, <1>4, <2>1 DEF Taken
    <3> QED BY <1>2, <1>3, <1>5, <2>1, <3>1, <3>2
  <2>2. CASE i # count
    <3>1. i \in 0..(count - 1) /\ i \in Nat /\ i < count /\ count \in Nat
          /\ count < Capacity
      BY <1>1, <1>2, <2>2
    <3>2. /\ (head + i) % Capacity # tail
          /\ (head + i) % Capacity \in Slot
      BY <1>1, <1>5, <3>1, RingDistinct
    <3>3. slots'[(head + i) % Capacity] = slots[(head + i) % Capacity]
      BY <1>2, <3>2 DEF RingTypeOK
    <3>4. slots[(head + i) % Capacity] = accepted[Taken + i + 1]
      BY <3>1 DEF RingIsFifo
    <3>5. Taken + i + 1 \in 1..Len(accepted)
      BY <1>1, <1>4, <3>1 DEF Taken
    <3> QED BY <1>2, <1>3, <1>4, <3>3, <3>4, <3>5
  <2> QED BY <2>1, <2>2
<1>8. wrec' # NoRecord => Taken' > 0 /\ wrec' = accepted'[Taken']
  <2> SUFFICES ASSUME wrec # NoRecord
               PROVE  Taken > 0 /\ wrec = accepted'[Taken]
    BY <1>2, <1>4
  <2>1. Taken > 0 /\ wrec = accepted[Taken]
    BY DEF RingIsFifo
  <2>2. Taken \in 1..Len(accepted)
    BY <1>1, <1>4, <2>1 DEF Taken
  <2> QED BY <1>3, <2>1, <2>2
<1> QED BY <1>4, <1>6, <1>7, <1>8 DEF RingIsFifo

\* Without a store or a take the queue stays, whatever the worker holds.
LEMMA RestKeepsFifo ==
  ASSUME RingInv, UNCHANGED ringVars, wrec' \in {wrec, NoRecord}
  PROVE  Counted' /\ RingIsFifo'
<1>1. UNCHANGED <<slots, head, tail, count, accepted>>
  BY DEF ringVars
<1>2. Taken' = Taken /\ Counted'
  BY <1>1 DEF Taken, Counted, RingInv
<1> QED BY <1>1, <1>2 DEF RingIsFifo, RingInv

-----------------------------------------------------------------------------
(* Types of main's variables and of the callbacks'.                         *)

\* A transition, accepted or refused, leaves a lifecycle.
LEMMA MovedTypes ==
  ASSUME NEW l \in [state : LifecycleState, active : BOOLEAN],
         NEW next \in LifecycleState
  PROVE  Moved(l, next) \in [state : LifecycleState, active : BOOLEAN]
BY DEF Moved

\* main and FlexRIC.
LEMMA MainTypes ==
  ASSUME MainTypeOK, [Next]_vars
  PROVE  MainTypeOK'
<1> USE MovedTypes DEF MainTypeOK, MainPc, LifecycleState, ricVars, mainVars
<1>1. CASE ConfigError
  BY <1>1 DEF ConfigError
<1>2. CASE ApiInit
  BY <1>2 DEF ApiInit
<1>3. CASE NodeDiscovered
  BY <1>3 DEF NodeDiscovered, MainTransition
<1>4. CASE MainFails
  BY <1>4 DEF MainFails
<1>5. CASE SelectedFails
  BY <1>5 DEF SelectedFails
<1>6. CASE ReportDone
  BY <1>6 DEF ReportDone, MainTransition
<1>7. CASE PollReceiving
  BY <1>7 DEF PollReceiving, MainTransition
<1>8. CASE PollAgain
  BY <1>8 DEF PollAgain
<1>9. CASE PollEnds
  BY <1>9 DEF PollEnds, MainTransition
<1>10. CASE RemoveSubscription
  <2>1. lifecycle' \in [state : LifecycleState, active : BOOLEAN]
    BY <1>10 DEF RemoveSubscription, MainTransition
  <2>2. removed' \in Nat
    BY <1>10 DEF RemoveSubscription
  <2>3. handle' \in BOOLEAN
    BY <1>10 DEF RemoveSubscription
  <2> QED
    BY <1>10, <2>1, <2>2, <2>3 DEF RemoveSubscription, MainTransition
<1>11. CASE Uninstall
  BY <1>11 DEF Uninstall
<1>12. CASE StopApi
  BY <1>12 DEF StopApi
<1>13. CASE StopApiTimeout
  BY <1>13 DEF StopApiTimeout
<1>14. CASE Failure
  <2>1. lifecycle' \in [state : LifecycleState, active : BOOLEAN]
    BY <1>14 DEF Failure
  <2>2. removed' \in Nat
    BY <1>14 DEF Failure
  <2>3. handle' \in BOOLEAN
    BY <1>14 DEF Failure
  <2> QED
    BY <1>14, <2>1, <2>2, <2>3 DEF Failure
<1>15. CASE FailureStop
  BY <1>15 DEF FailureStop
<1>16. CASE NoContext
  BY <1>16 DEF NoContext, Destroying
<1>17. CASE Destroy
  BY <1>17 DEF Destroy, ShutdownOk
<1>18. CASE Leave
  BY <1>18 DEF Leave
<1>19. CASE RicAccepts
  BY <1>19 DEF RicAccepts
<1>20. CASE DurationPasses
  BY <1>20 DEF DurationPasses
<1>21. CASE ContextReady
  BY <1>21 DEF ContextReady, MainTransition
<1>22. CASE MainShutdown
  <2>1. main' \in MainPc
    BY <1>22 DEF MainShutdown, CountersLock, CountersSet, ShutdownLock,
       ShutdownRequest, ShutdownJoin, ShutdownSnapshot, Destroying
  <2> QED BY <1>22, <2>1, ShutdownFrame
<1>23. CASE WorkerStep \/ WorkerWakes
  BY <1>23, WorkerFrame DEF outerVars
<1>24. ASSUME NEW c \in Callbacks,
             CallbackEnter(c) \/ CallbackStep(c) \/ CallbackCrash(c)
      PROVE  MainTypeOK'
  <2>1. CASE CallbackCrash(c)
    BY <2>1 DEF CallbackCrash
  <2> QED BY <1>24, <2>1, CallbackFrame DEF outerVars
<1>25. CASE UNCHANGED vars
  BY <1>25 DEF vars
<1> QED
  BY <1>1, <1>2, <1>3, <1>4, <1>5, <1>6, <1>7, <1>8, <1>9, <1>10, <1>11,
     <1>12, <1>13, <1>14, <1>15, <1>16, <1>17, <1>18, <1>19, <1>20, <1>21,
     <1>22, <1>23, <1>24, <1>25 DEF Next, MainStep, MainControl

\* A callback about to make a record has one to make.
Left == \A c \in Callbacks : cpc[c] = "record" => cleft[c] > 0

\* The callbacks and the context.
LEMMA CallbackTypes ==
  ASSUME CallbackTypeOK, Left, [Next]_vars
  PROVE  CallbackTypeOK' /\ Left'
<1> USE CollectorAssumption DEF CallbackTypeOK, CallbackPc, Left
<1>1. CASE MainControl \/ RicAccepts \/ DurationPasses
  <2>1. UNCHANGED <<indicationVars, callbackVars>>
    BY <1>1, ControlFrame
  <2>2. /\ active' \in BOOLEAN /\ context' \in {"none", "live", "zeroed"}
        /\ pointer' \in BOOLEAN
    BY <1>1 DEF MainControl, contextVars, ConfigError, ApiInit,
       NodeDiscovered, MainFails, SelectedFails, ReportDone, PollReceiving,
       PollAgain, PollEnds, RemoveSubscription, Uninstall, StopApi,
       StopApiTimeout, Failure, FailureStop, NoContext, Destroy, Leave,
       RicAccepts, DurationPasses, Destroying
  <2> QED BY <2>1, <2>2 DEF indicationVars, callbackVars
<1>2. CASE ContextReady
  BY <1>2 DEF ContextReady, indicationVars, callbackVars
<1>3. CASE MainShutdown
  <2>1. pointer' \in BOOLEAN
    BY <1>3 DEF MainShutdown, CountersLock, CountersSet, ShutdownLock,
       ShutdownRequest, ShutdownJoin, ShutdownSnapshot, contextVars
  <2> QED BY <1>3, <2>1, ShutdownFrame DEF indicationVars, callbackVars
<1>4. CASE WorkerStep \/ WorkerWakes
  BY <1>4, WorkerFrame DEF outerVars, contextVars, indicationVars, callbackVars
<1>5. ASSUME NEW c \in Callbacks,
             CallbackEnter(c) \/ CallbackStep(c) \/ CallbackCrash(c)
      PROVE  CallbackTypeOK' /\ Left'
  <2> USE DEF Callback, AfterRecord, contextVars, indicationVars
  <2>1. CASE CallbackEnter(c)
    BY <2>1 DEF CallbackEnter
  <2>2. CASE CallbackReject(c)
    BY <2>2 DEF CallbackReject
  <2>3. CASE CallbackSequence(c)
    BY <2>3 DEF CallbackSequence
  <2>4. CASE CallbackRecord(c)
    <3>1. cleft[c] > 0
      BY <2>4 DEF CallbackRecord
    <3> QED BY <2>4, <3>1 DEF CallbackRecord
  <2>5. CASE CallbackDrops(c)
    BY <2>5 DEF CallbackDrops
  <2>6. CASE CallbackLock(c)
    BY <2>6 DEF CallbackLock
  <2>7. CASE CallbackStore(c)
    BY <2>7 DEF CallbackStore
  <2>8. CASE CallbackRefused(c)
    BY <2>8 DEF CallbackRefused
  <2>9. CASE CallbackCountsDrop(c)
    BY <2>9 DEF CallbackCountsDrop
  <2>10. CASE CallbackEnd(c)
    BY <2>10 DEF CallbackEnd
  <2>11. CASE CallbackCrash(c)
    BY <2>11 DEF CallbackCrash, callbackVars
  <2> QED
    BY <1>5, <2>1, <2>2, <2>3, <2>4, <2>5, <2>6, <2>7, <2>8, <2>9, <2>10,
       <2>11 DEF CallbackStep
<1>6. CASE UNCHANGED vars
  BY <1>6 DEF vars, contextVars, indicationVars, callbackVars
<1> QED BY <1>1, <1>2, <1>3, <1>4, <1>5, <1>6 DEF Next, MainStep

-----------------------------------------------------------------------------
(* Where main is, and what follows.                                         *)

NotSubscribed == ~handle /\ made = 0 /\ removed = 0 /\ ~lifecycle.active

Subscribed ==
  /\ handle /\ made = 1 /\ removed = 0 /\ lifecycle.active
  /\ ric = "subscribed"

Removed ==
  /\ ~handle /\ made = 1 /\ removed = 1 /\ ~lifecycle.active
  /\ ric = "removed" /\ lifecycle.state = "subscription_removed"

\* Once main goes to destroy the context.
Ended ==
  /\ ~handle /\ made = removed /\ ~lifecycle.active /\ ric # "subscribed"
  /\ \/ lifecycle.state = "stopped"
     \/ timedOut /\ lifecycle.state = "subscription_removed"
  /\ timedOut => code = 1
  /\ ~timedOut => ric = "down"
  /\ code = 0 => made = 1

Ending == {"counters", "shutdown", "request", "join", "snapshot", "free"}

\* What main has done, by where it is.
MainPlace ==
  /\ main \in {"start", "discover", "select"} =>
       /\ NotSubscribed /\ code = 0 /\ context = "none"
       /\ ric = IF main = "start" THEN "down" ELSE "up"
       /\ lifecycle.state = IF main = "start" THEN "created"
                            ELSE IF main = "discover" THEN "ric_connected"
                            ELSE "node_discovered"
  /\ main = "report" =>
       /\ NotSubscribed /\ ric \in {"up", "subscribed"}
       /\ lifecycle.state = "node_selected"
  /\ main \in {"poll", "poll_stop"} =>
       Subscribed /\ lifecycle.state \in {"subscription_active", "receiving"}
  /\ main = "remove" => Subscribed /\ lifecycle.state = "stop_requested"
  /\ main \in {"uninstall", "stop_api"} => Removed
  /\ main = "failure" =>
       \/ /\ NotSubscribed /\ ric = "up"
          /\ lifecycle.state \in {"ric_connected", "node_discovered",
                                  "node_selected"}
       \/ /\ Subscribed
          /\ lifecycle.state \in {"subscription_active", "receiving"}
  /\ main \in {"fail_uninstall", "fail_stop"} =>
       /\ code = 1
       /\ \/ Removed
          \/ NotSubscribed /\ ric = "up" /\ lifecycle.state = "failed"
  /\ main \in Ending \cup {"destroy", "leave"} => Ended

\* The context and the exit status, by where main is.
ContextPlace ==
  /\ main \in {"report", "poll", "poll_stop", "remove", "uninstall",
               "stop_api"} =>
       context = "live" /\ code = 0 /\ ~timedOut
  /\ main \notin Ending \cup {"destroy", "leave", "exited"} =>
       ~timedOut
  /\ main \in Ending => context = "live"
  /\ context = "zeroed" => main \in {"leave", "exited"}
  /\ active => main \notin {"start", "discover", "select", "stop_api",
                            "fail_stop", "destroy", "leave"} \cup Ending
  /\ code = 0 /\ main = "destroy" => context = "live"
  /\ code = 0 /\ main = "leave" => context = "zeroed"
  /\ active => context = "live"
  /\ pointer => context = "live"
  /\ context = "live" =>
       (~pointer <=> main \in Ending \ {"counters"})

\* How the process ended.
ExitPlace ==
  /\ main = "exited" <=> exit # -1
  /\ exit \in {0, 1} => Ended /\ exit = code
  /\ exit = 0 => context = "zeroed"
  /\ context = "zeroed" /\ ~timedOut => ric = "down"
  /\ exit = 139 => timedOut
  /\ exit = 64 => context = "none" /\ ric = "down"

\* No callback runs before the subscription or after the API has stopped.
QuietPlace == ric \in {"down", "up"} => Quiet

MainInv ==
  MainTypeOK /\ CallbackTypeOK /\ MainPlace /\ ContextPlace /\ ExitPlace
  /\ QuietPlace

\* The transitions main asks for are the ones the lifecycle allows.
LEMMA Transitions ==
  ASSUME NEW l \in [state : LifecycleState, active : BOOLEAN]
  PROVE  /\ l.state = "created" /\ ~l.active =>
              Moved(Moved(l, "api_initialised"), "ric_connected")
                = [state |-> "ric_connected", active |-> FALSE]
         /\ l.state = "ric_connected" => CanTransition(l, "node_discovered")
         /\ l.state = "node_discovered" => CanTransition(l, "node_selected")
         /\ l.state = "node_selected" => CanTransition(l, "subscription_active")
         /\ l.state = "subscription_active" => CanTransition(l, "receiving")
         /\ l.state \in {"subscription_active", "receiving"} =>
              CanTransition(l, "stop_requested")
         /\ l.state = "stop_requested" /\ l.active =>
              CanTransition(l, "subscription_removed")
         /\ l.state = "subscription_removed" => CanTransition(l, "stopped")
         /\ l.state = "failed" /\ ~l.active => CanTransition(l, "stopped")
         /\ l.state \in {"ric_connected", "node_discovered", "node_selected",
                         "subscription_active", "receiving"} =>
              CanTransition(l, "failed")
BY DEF CanTransition, Moved

\* A failure of a running subscription also removes it.
LEMMA FailureMoves ==
  ASSUME NEW l \in [state : LifecycleState, active : BOOLEAN],
         l.state \in {"subscription_active", "receiving"}, l.active
  PROVE  Moved(Moved(l, "failed"), "subscription_removed")
           = [state |-> "subscription_removed", active |-> FALSE]
<1>1. Moved(l, "failed") = [state |-> "failed", active |-> TRUE]
  BY DEF Moved, CanTransition
<1>2. Moved([state |-> "failed", active |-> TRUE], "subscription_removed")
        = [state |-> "subscription_removed", active |-> FALSE]
  BY DEF Moved, CanTransition
<1> QED BY <1>1, <1>2

\* An allowed transition.
LEMMA MovedFields ==
  ASSUME NEW l \in [state : LifecycleState, active : BOOLEAN],
         NEW next \in LifecycleState, CanTransition(l, next)
  PROVE  /\ Moved(l, next).state = next
         /\ next = "subscription_active" => Moved(l, next).active
         /\ next = "subscription_removed" => ~Moved(l, next).active
         /\ next \notin {"subscription_active", "subscription_removed"} =>
              (Moved(l, next).active <=> l.active)
BY DEF Moved

\* The invariant of main is inductive.
LEMMA MainStepInv ==
  ASSUME MainInv, [Next]_vars, Left
  PROVE  MainInv'
<1> USE DEF MainInv
<1>0. MainTypeOK' /\ CallbackTypeOK'
  BY MainTypes, CallbackTypes
<1>a. /\ lifecycle \in [state : LifecycleState, active : BOOLEAN]
      /\ made \in Nat /\ removed \in Nat /\ code \in {0, 1}
      /\ exit \in {-1, 0, 1, 64, 139}
  BY DEF MainTypeOK
<1> DEFINE Goal == MainPlace /\ ContextPlace /\ ExitPlace /\ QuietPlace
<1> SUFFICES Goal'
  BY <1>0
<1>1. CASE ConfigError
  <2>1. UNCHANGED cpc
    BY <1>1 DEF ConfigError, callbackVars
  <2>2. MainPlace'
    BY <1>1, <1>a DEF MainPlace, NotSubscribed, Subscribed, Removed, Ended,
       Ending, ConfigError, ricVars, mainVars, contextVars
  <2>3. ContextPlace'
    BY <1>1, <1>a DEF ContextPlace, MainPlace, NotSubscribed, Subscribed,
       Removed, Ended, Ending, ConfigError, ricVars, mainVars, contextVars
  <2>4. ExitPlace'
    BY <1>1, <1>a DEF ExitPlace, MainPlace, ContextPlace, NotSubscribed,
       Subscribed, Removed, Ended, Ending, ConfigError, ricVars, mainVars,
       contextVars
  <2>5. QuietPlace'
    BY <1>1, <2>1 DEF QuietPlace, Quiet, ricVars, ConfigError, MainPlace,
       Subscribed, NotSubscribed, Ended, Ending
  <2> QED BY <2>2, <2>3, <2>4, <2>5
<1>2. CASE ApiInit
  <2>1. UNCHANGED cpc
    BY <1>2 DEF ApiInit, callbackVars
  <2>2. MainPlace'
    BY <1>2, <1>a, Transitions, MovedFields DEF MainPlace, NotSubscribed,
       Subscribed, Removed, Ended, Ending, ApiInit, LifecycleState, ricVars,
       mainVars, contextVars
  <2>3. ContextPlace'
    BY <1>2, <1>a, Transitions, MovedFields DEF ContextPlace, MainPlace,
       NotSubscribed, Subscribed, Removed, Ended, Ending, ApiInit,
       LifecycleState, ricVars, mainVars, contextVars
  <2>4. ExitPlace'
    BY <1>2, <1>a, Transitions, MovedFields DEF ExitPlace, MainPlace,
       ContextPlace, NotSubscribed, Subscribed, Removed, Ended, Ending,
       ApiInit, LifecycleState, ricVars, mainVars, contextVars
  <2>5. QuietPlace'
    BY <1>2, <2>1 DEF QuietPlace, Quiet, ricVars, ApiInit, LifecycleState,
       MainPlace, Subscribed, NotSubscribed, Ended, Ending
  <2> QED BY <2>2, <2>3, <2>4, <2>5
<1>3. CASE NodeDiscovered
  <2>1. UNCHANGED cpc
    BY <1>3 DEF NodeDiscovered, callbackVars
  <2>2. MainPlace'
    BY <1>3, <1>a, Transitions, MovedFields DEF MainPlace, NotSubscribed,
       Subscribed, Removed, Ended, Ending, NodeDiscovered, MainTransition,
       LifecycleState, ricVars, mainVars, contextVars
  <2>3. ContextPlace'
    BY <1>3, <1>a, Transitions, MovedFields DEF ContextPlace, MainPlace,
       NotSubscribed, Subscribed, Removed, Ended, Ending, NodeDiscovered,
       MainTransition, LifecycleState, ricVars, mainVars, contextVars
  <2>4. ExitPlace'
    BY <1>3, <1>a, Transitions, MovedFields DEF ExitPlace, MainPlace,
       ContextPlace, NotSubscribed, Subscribed, Removed, Ended, Ending,
       NodeDiscovered, MainTransition, LifecycleState, ricVars, mainVars,
       contextVars
  <2>5. QuietPlace'
    BY <1>3, <2>1 DEF QuietPlace, Quiet, ricVars, NodeDiscovered,
       MainTransition, LifecycleState, MainPlace, Subscribed, NotSubscribed,
       Ended, Ending
  <2> QED BY <2>2, <2>3, <2>4, <2>5
<1>4. CASE MainFails
  <2>1. UNCHANGED cpc
    BY <1>4 DEF MainFails, callbackVars
  <2>2. MainPlace'
    BY <1>4, <1>a DEF MainPlace, NotSubscribed, Subscribed, Removed, Ended,
       Ending, MainFails, ricVars, mainVars, contextVars
  <2>3. ContextPlace'
    BY <1>4, <1>a DEF ContextPlace, MainPlace, NotSubscribed, Subscribed,
       Removed, Ended, Ending, MainFails, ricVars, mainVars, contextVars
  <2>4. ExitPlace'
    BY <1>4, <1>a DEF ExitPlace, MainPlace, ContextPlace, NotSubscribed,
       Subscribed, Removed, Ended, Ending, MainFails, ricVars, mainVars,
       contextVars
  <2>5. QuietPlace'
    BY <1>4, <2>1 DEF QuietPlace, Quiet, ricVars, MainFails, MainPlace,
       Subscribed, NotSubscribed, Ended, Ending
  <2> QED BY <2>2, <2>3, <2>4, <2>5
<1>5. CASE SelectedFails
  <2>1. UNCHANGED cpc
    BY <1>5 DEF SelectedFails, callbackVars
  <2>2. MainPlace'
    BY <1>5, <1>a, Transitions, MovedFields DEF MainPlace, NotSubscribed,
       Subscribed, Removed, Ended, Ending, SelectedFails, LifecycleState,
       ricVars, mainVars, contextVars
  <2>3. ContextPlace'
    BY <1>5, <1>a, Transitions, MovedFields DEF ContextPlace, MainPlace,
       NotSubscribed, Subscribed, Removed, Ended, Ending, SelectedFails,
       LifecycleState, ricVars, mainVars, contextVars
  <2>4. ExitPlace'
    BY <1>5, <1>a, Transitions, MovedFields DEF ExitPlace, MainPlace,
       ContextPlace, NotSubscribed, Subscribed, Removed, Ended, Ending,
       SelectedFails, LifecycleState, ricVars, mainVars, contextVars
  <2>5. QuietPlace'
    BY <1>5, <2>1 DEF QuietPlace, Quiet, ricVars, SelectedFails,
       LifecycleState, MainPlace, Subscribed, NotSubscribed, Ended, Ending
  <2> QED BY <2>2, <2>3, <2>4, <2>5
<1>6. CASE ReportDone
  <2>1. UNCHANGED cpc
    BY <1>6 DEF ReportDone, callbackVars
  <2>2. MainPlace'
    <3>1. /\ main' = "poll" /\ lifecycle'.state = "subscription_active"
          /\ lifecycle'.active
      BY <1>6, <1>a, Transitions, MovedFields DEF MainPlace, NotSubscribed,
         Subscribed, Removed, ReportDone, MainTransition, LifecycleState
    <3> QED
      BY <1>6, <1>a, <3>1 DEF MainPlace, ContextPlace, NotSubscribed,
         Subscribed, Removed, Ended, Ending, ReportDone, ricVars, contextVars
  <2>3. ContextPlace'
    BY <1>6, <1>a, Transitions, MovedFields DEF ContextPlace, MainPlace,
       NotSubscribed, Subscribed, Removed, Ended, Ending, ReportDone,
       MainTransition, LifecycleState, ricVars, mainVars, contextVars
  <2>4. ExitPlace'
    BY <1>6, <1>a, Transitions, MovedFields DEF ExitPlace, MainPlace,
       ContextPlace, NotSubscribed, Subscribed, Removed, Ended, Ending,
       ReportDone, MainTransition, LifecycleState, ricVars, mainVars,
       contextVars
  <2>5. QuietPlace'
    BY <1>6, <2>1 DEF QuietPlace, Quiet, ricVars, ReportDone, MainTransition,
       LifecycleState, MainPlace, Subscribed, NotSubscribed, Ended, Ending
  <2> QED BY <2>2, <2>3, <2>4, <2>5
<1>7. CASE PollReceiving
  <2>1. UNCHANGED cpc
    BY <1>7 DEF PollReceiving, callbackVars
  <2>2. MainPlace'
    BY <1>7, <1>a, Transitions, MovedFields DEF MainPlace, NotSubscribed,
       Subscribed, Removed, Ended, Ending, PollReceiving, MainTransition,
       LifecycleState, ricVars, mainVars, contextVars
  <2>3. ContextPlace'
    BY <1>7, <1>a, Transitions, MovedFields DEF ContextPlace, MainPlace,
       NotSubscribed, Subscribed, Removed, Ended, Ending, PollReceiving,
       MainTransition, LifecycleState, ricVars, mainVars, contextVars
  <2>4. ExitPlace'
    BY <1>7, <1>a, Transitions, MovedFields DEF ExitPlace, MainPlace,
       ContextPlace, NotSubscribed, Subscribed, Removed, Ended, Ending,
       PollReceiving, MainTransition, LifecycleState, ricVars, mainVars,
       contextVars
  <2>5. QuietPlace'
    BY <1>7, <2>1 DEF QuietPlace, Quiet, ricVars, PollReceiving,
       MainTransition, LifecycleState, MainPlace, Subscribed, NotSubscribed,
       Ended, Ending
  <2> QED BY <2>2, <2>3, <2>4, <2>5
<1>8. CASE PollAgain
  <2>1. UNCHANGED cpc
    BY <1>8 DEF PollAgain, callbackVars
  <2>2. MainPlace'
    BY <1>8, <1>a DEF MainPlace, NotSubscribed, Subscribed, Removed, Ended,
       Ending, PollAgain, ricVars, mainVars, contextVars
  <2>3. ContextPlace'
    BY <1>8, <1>a DEF ContextPlace, MainPlace, NotSubscribed, Subscribed,
       Removed, Ended, Ending, PollAgain, ricVars, mainVars, contextVars
  <2>4. ExitPlace'
    BY <1>8, <1>a DEF ExitPlace, MainPlace, ContextPlace, NotSubscribed,
       Subscribed, Removed, Ended, Ending, PollAgain, ricVars, mainVars,
       contextVars
  <2>5. QuietPlace'
    BY <1>8, <2>1 DEF QuietPlace, Quiet, ricVars, PollAgain, MainPlace,
       Subscribed, NotSubscribed, Ended, Ending
  <2> QED BY <2>2, <2>3, <2>4, <2>5
<1>9. CASE PollEnds
  <2>1. UNCHANGED cpc
    BY <1>9 DEF PollEnds, callbackVars
  <2>2. MainPlace'
    BY <1>9, <1>a, Transitions, MovedFields DEF MainPlace, NotSubscribed,
       Subscribed, Removed, Ended, Ending, PollEnds, MainTransition,
       LifecycleState, ricVars, mainVars, contextVars
  <2>3. ContextPlace'
    BY <1>9, <1>a, Transitions, MovedFields DEF ContextPlace, MainPlace,
       NotSubscribed, Subscribed, Removed, Ended, Ending, PollEnds,
       MainTransition, LifecycleState, ricVars, mainVars, contextVars
  <2>4. ExitPlace'
    BY <1>9, <1>a, Transitions, MovedFields DEF ExitPlace, MainPlace,
       ContextPlace, NotSubscribed, Subscribed, Removed, Ended, Ending,
       PollEnds, MainTransition, LifecycleState, ricVars, mainVars,
       contextVars
  <2>5. QuietPlace'
    BY <1>9, <2>1 DEF QuietPlace, Quiet, ricVars, PollEnds, MainTransition,
       LifecycleState, MainPlace, Subscribed, NotSubscribed, Ended, Ending
  <2> QED BY <2>2, <2>3, <2>4, <2>5
<1>10. CASE RemoveSubscription
  <2>1. UNCHANGED cpc
    BY <1>10 DEF RemoveSubscription, callbackVars
  <2>2. MainPlace'
    <3>1. /\ main' = "uninstall" /\ lifecycle'.state = "subscription_removed"
          /\ ~lifecycle'.active
      BY <1>10, <1>a, Transitions, MovedFields DEF MainPlace, NotSubscribed,
         Subscribed, Removed, RemoveSubscription, MainTransition,
         LifecycleState
    <3> QED
      BY <1>10, <1>a, <3>1 DEF MainPlace, ContextPlace, NotSubscribed,
         Subscribed, Removed, Ended, Ending, RemoveSubscription, ricVars,
         contextVars
  <2>3. ContextPlace'
    BY <1>10, <1>a, Transitions, MovedFields DEF ContextPlace, MainPlace,
       NotSubscribed, Subscribed, Removed, Ended, Ending, RemoveSubscription,
       MainTransition, LifecycleState, ricVars, mainVars, contextVars
  <2>4. ExitPlace'
    BY <1>10, <1>a, Transitions, MovedFields DEF ExitPlace, MainPlace,
       ContextPlace, NotSubscribed, Subscribed, Removed, Ended, Ending,
       RemoveSubscription, MainTransition, LifecycleState, ricVars, mainVars,
       contextVars
  <2>5. QuietPlace'
    BY <1>10, <2>1 DEF QuietPlace, Quiet, ricVars, RemoveSubscription,
       MainTransition, LifecycleState, MainPlace, Subscribed, NotSubscribed,
       Ended, Ending
  <2> QED BY <2>2, <2>3, <2>4, <2>5
<1>11. CASE Uninstall
  <2>1. UNCHANGED cpc
    BY <1>11 DEF Uninstall, callbackVars
  <2>2. MainPlace'
    BY <1>11, <1>a DEF MainPlace, NotSubscribed, Subscribed, Removed, Ended,
       Ending, Uninstall, ricVars, mainVars, contextVars
  <2>3. ContextPlace'
    BY <1>11, <1>a DEF ContextPlace, MainPlace, NotSubscribed, Subscribed,
       Removed, Ended, Ending, Uninstall, ricVars, mainVars, contextVars
  <2>4. ExitPlace'
    BY <1>11, <1>a DEF ExitPlace, MainPlace, ContextPlace, NotSubscribed,
       Subscribed, Removed, Ended, Ending, Uninstall, ricVars, mainVars,
       contextVars
  <2>5. QuietPlace'
    BY <1>11, <2>1 DEF QuietPlace, Quiet, ricVars, Uninstall, MainPlace,
       Subscribed, NotSubscribed, Ended, Ending
  <2> QED BY <2>2, <2>3, <2>4, <2>5
<1>12. CASE StopApi
  <2>1. UNCHANGED cpc
    BY <1>12 DEF StopApi, callbackVars
  <2>2. MainPlace'
    <3>1. /\ main' = "destroy" /\ lifecycle'.state = "stopped"
          /\ ~lifecycle'.active
      BY <1>12, <1>a, Transitions, MovedFields DEF MainPlace, NotSubscribed,
         Subscribed, Removed, StopApi, LifecycleState
    <3> QED
      BY <1>12, <1>a, <3>1 DEF MainPlace, ContextPlace, NotSubscribed,
         Subscribed, Removed, Ended, Ending, StopApi, ricVars, contextVars
  <2>3. ContextPlace'
    BY <1>12, <1>a, Transitions, MovedFields DEF ContextPlace, MainPlace,
       NotSubscribed, Subscribed, Removed, Ended, Ending, StopApi,
       LifecycleState, ricVars, mainVars, contextVars
  <2>4. ExitPlace'
    BY <1>12, <1>a, Transitions, MovedFields DEF ExitPlace, MainPlace,
       ContextPlace, NotSubscribed, Subscribed, Removed, Ended, Ending,
       StopApi, LifecycleState, ricVars, mainVars, contextVars
  <2>5. QuietPlace'
    BY <1>12, <2>1 DEF QuietPlace, Quiet, ricVars, StopApi, LifecycleState,
       MainPlace, Subscribed, NotSubscribed, Ended, Ending
  <2> QED BY <2>2, <2>3, <2>4, <2>5
<1>13. CASE StopApiTimeout
  <2>1. UNCHANGED cpc
    BY <1>13 DEF StopApiTimeout, callbackVars
  <2>2. MainPlace'
    BY <1>13, <1>a DEF MainPlace, NotSubscribed, Subscribed, Removed, Ended,
       Ending, StopApiTimeout, ricVars, mainVars, contextVars
  <2>3. ContextPlace'
    BY <1>13, <1>a DEF ContextPlace, MainPlace, NotSubscribed, Subscribed,
       Removed, Ended, Ending, StopApiTimeout, ricVars, mainVars, contextVars
  <2>4. ExitPlace'
    BY <1>13, <1>a DEF ExitPlace, MainPlace, ContextPlace, NotSubscribed,
       Subscribed, Removed, Ended, Ending, StopApiTimeout, ricVars, mainVars,
       contextVars
  <2>5. QuietPlace'
    BY <1>13, <2>1 DEF QuietPlace, Quiet, ricVars, StopApiTimeout, MainPlace,
       Subscribed, NotSubscribed, Ended, Ending
  <2> QED BY <2>2, <2>3, <2>4, <2>5
<1>14. CASE Failure
  <2>1. UNCHANGED cpc
    BY <1>14 DEF Failure, callbackVars
  <2>2. MainPlace'
    BY <1>14, <1>a, Transitions, MovedFields, FailureMoves DEF MainPlace,
       NotSubscribed, Subscribed, Removed, Ended, Ending, Failure,
       LifecycleState, ricVars, mainVars, contextVars
  <2>3. ContextPlace'
    BY <1>14, <1>a, Transitions, MovedFields, FailureMoves DEF ContextPlace,
       MainPlace, NotSubscribed, Subscribed, Removed, Ended, Ending, Failure,
       LifecycleState, ricVars, mainVars, contextVars
  <2>4. ExitPlace'
    BY <1>14, <1>a, Transitions, MovedFields, FailureMoves DEF ExitPlace,
       MainPlace, ContextPlace, NotSubscribed, Subscribed, Removed, Ended,
       Ending, Failure, LifecycleState, ricVars, mainVars, contextVars
  <2>5. QuietPlace'
    BY <1>14, <2>1 DEF QuietPlace, Quiet, ricVars, Failure, LifecycleState,
       MainPlace, Subscribed, NotSubscribed, Ended, Ending
  <2> QED BY <2>2, <2>3, <2>4, <2>5
<1>15. CASE FailureStop
  <2>1. UNCHANGED cpc
    BY <1>15 DEF FailureStop, callbackVars
  <2>2. MainPlace'
    BY <1>15, <1>a, Transitions, MovedFields DEF MainPlace, NotSubscribed,
       Subscribed, Removed, Ended, Ending, FailureStop, LifecycleState,
       ricVars, mainVars, contextVars
  <2>3. ContextPlace'
    BY <1>15, <1>a, Transitions, MovedFields DEF ContextPlace, MainPlace,
       NotSubscribed, Subscribed, Removed, Ended, Ending, FailureStop,
       LifecycleState, ricVars, mainVars, contextVars
  <2>4. ExitPlace'
    BY <1>15, <1>a, Transitions, MovedFields DEF ExitPlace, MainPlace,
       ContextPlace, NotSubscribed, Subscribed, Removed, Ended, Ending,
       FailureStop, LifecycleState, ricVars, mainVars, contextVars
  <2>5. QuietPlace'
    BY <1>15, <2>1 DEF QuietPlace, Quiet, ricVars, FailureStop,
       LifecycleState, MainPlace, Subscribed, NotSubscribed, Ended, Ending
  <2> QED BY <2>2, <2>3, <2>4, <2>5
<1>16. CASE NoContext
  <2>1. UNCHANGED cpc
    BY <1>16 DEF NoContext, callbackVars, Destroying
  <2>2. MainPlace'
    BY <1>16, <1>a DEF MainPlace, NotSubscribed, Subscribed, Removed, Ended,
       Ending, NoContext, Destroying, ricVars, mainVars, contextVars
  <2>3. ContextPlace'
    BY <1>16, <1>a DEF ContextPlace, MainPlace, NotSubscribed, Subscribed,
       Removed, Ended, Ending, NoContext, Destroying, ricVars, mainVars,
       contextVars
  <2>4. ExitPlace'
    BY <1>16, <1>a DEF ExitPlace, MainPlace, ContextPlace, NotSubscribed,
       Subscribed, Removed, Ended, Ending, NoContext, Destroying, ricVars,
       mainVars, contextVars
  <2>5. QuietPlace'
    BY <1>16, <2>1 DEF QuietPlace, Quiet, ricVars, NoContext, Destroying,
       MainPlace, Subscribed, NotSubscribed, Ended, Ending
  <2> QED BY <2>2, <2>3, <2>4, <2>5
<1>17. CASE Destroy
  <2>1. UNCHANGED cpc
    BY <1>17 DEF Destroy, callbackVars
  <2>2. MainPlace'
    BY <1>17, <1>a DEF MainPlace, NotSubscribed, Subscribed, Removed, Ended,
       Ending, Destroy, ShutdownOk, ricVars, mainVars, contextVars
  <2>3. ContextPlace'
    BY <1>17, <1>a DEF ContextPlace, MainPlace, NotSubscribed, Subscribed,
       Removed, Ended, Ending, Destroy, ShutdownOk, ricVars, mainVars,
       contextVars
  <2>4. ExitPlace'
    BY <1>17, <1>a DEF ExitPlace, MainPlace, ContextPlace, NotSubscribed,
       Subscribed, Removed, Ended, Ending, Destroy, ShutdownOk, ricVars,
       mainVars, contextVars
  <2>5. QuietPlace'
    BY <1>17, <2>1 DEF QuietPlace, Quiet, ricVars, Destroy, ShutdownOk,
       MainPlace, Subscribed, NotSubscribed, Ended, Ending
  <2> QED BY <2>2, <2>3, <2>4, <2>5
<1>18. CASE Leave
  <2>1. UNCHANGED cpc
    BY <1>18 DEF Leave, callbackVars
  <2>2. MainPlace'
    BY <1>18, <1>a DEF MainPlace, NotSubscribed, Subscribed, Removed, Ended,
       Ending, Leave, ricVars, mainVars, contextVars
  <2>3. ContextPlace'
    BY <1>18, <1>a DEF ContextPlace, MainPlace, NotSubscribed, Subscribed,
       Removed, Ended, Ending, Leave, ricVars, mainVars, contextVars
  <2>4. ExitPlace'
    BY <1>18, <1>a DEF ExitPlace, MainPlace, ContextPlace, NotSubscribed,
       Subscribed, Removed, Ended, Ending, Leave, ricVars, mainVars,
       contextVars
  <2>5. QuietPlace'
    BY <1>18, <2>1 DEF QuietPlace, Quiet, ricVars, Leave, MainPlace,
       Subscribed, NotSubscribed, Ended, Ending
  <2> QED BY <2>2, <2>3, <2>4, <2>5
<1>19. CASE RicAccepts
  <2>1. UNCHANGED cpc
    BY <1>19 DEF RicAccepts, callbackVars
  <2>2. MainPlace'
    BY <1>19, <1>a DEF MainPlace, NotSubscribed, Subscribed, Removed, Ended,
       Ending, RicAccepts, ricVars, mainVars, contextVars
  <2>3. ContextPlace'
    BY <1>19, <1>a DEF ContextPlace, MainPlace, NotSubscribed, Subscribed,
       Removed, Ended, Ending, RicAccepts, ricVars, mainVars, contextVars
  <2>4. ExitPlace'
    BY <1>19, <1>a DEF ExitPlace, MainPlace, ContextPlace, NotSubscribed,
       Subscribed, Removed, Ended, Ending, RicAccepts, ricVars, mainVars,
       contextVars
  <2>5. QuietPlace'
    BY <1>19, <2>1 DEF QuietPlace, Quiet, ricVars, RicAccepts, MainPlace,
       Subscribed, NotSubscribed, Ended, Ending
  <2> QED BY <2>2, <2>3, <2>4, <2>5
<1>20. CASE DurationPasses
  <2>1. UNCHANGED cpc
    BY <1>20 DEF DurationPasses, callbackVars
  <2>2. MainPlace'
    BY <1>20, <1>a DEF MainPlace, NotSubscribed, Subscribed, Removed, Ended,
       Ending, DurationPasses, ricVars, mainVars, contextVars
  <2>3. ContextPlace'
    BY <1>20, <1>a DEF ContextPlace, MainPlace, NotSubscribed, Subscribed,
       Removed, Ended, Ending, DurationPasses, ricVars, mainVars, contextVars
  <2>4. ExitPlace'
    BY <1>20, <1>a DEF ExitPlace, MainPlace, ContextPlace, NotSubscribed,
       Subscribed, Removed, Ended, Ending, DurationPasses, ricVars, mainVars,
       contextVars
  <2>5. QuietPlace'
    BY <1>20, <2>1 DEF QuietPlace, Quiet, ricVars, DurationPasses, MainPlace,
       Subscribed, NotSubscribed, Ended, Ending
  <2> QED BY <2>2, <2>3, <2>4, <2>5
<1>21. CASE ContextReady
  <2>1. UNCHANGED cpc
    BY <1>21 DEF ContextReady, callbackVars
  <2>2. MainPlace'
    BY <1>21, <1>a, Transitions, MovedFields DEF MainPlace, NotSubscribed,
       Subscribed, Removed, Ended, Ending, ContextReady, MainTransition,
       LifecycleState, ricVars, mainVars, contextVars
  <2>3. ContextPlace'
    BY <1>21, <1>a, Transitions, MovedFields DEF ContextPlace, MainPlace,
       NotSubscribed, Subscribed, Removed, Ended, Ending, ContextReady,
       MainTransition, LifecycleState, ricVars, mainVars, contextVars
  <2>4. ExitPlace'
    BY <1>21, <1>a, Transitions, MovedFields DEF ExitPlace, MainPlace,
       ContextPlace, NotSubscribed, Subscribed, Removed, Ended, Ending,
       ContextReady, MainTransition, LifecycleState, ricVars, mainVars,
       contextVars
  <2>5. QuietPlace'
    BY <1>21, <2>1 DEF QuietPlace, Quiet, ricVars, ContextReady,
       MainTransition, LifecycleState, MainPlace, Subscribed, NotSubscribed,
       Ended, Ending
  <2> QED BY <2>2, <2>3, <2>4, <2>5
<1>22. CASE CountersLock
  <2>1. UNCHANGED cpc
    BY <1>22 DEF CountersLock, callbackVars, Destroying
  <2>2. MainPlace'
    BY <1>22, <1>a DEF MainPlace, NotSubscribed, Subscribed, Removed, Ended,
       Ending, CountersLock, Destroying, ricVars, mainVars, contextVars
  <2>3. ContextPlace'
    BY <1>22, <1>a DEF ContextPlace, MainPlace, NotSubscribed, Subscribed,
       Removed, Ended, Ending, CountersLock, Destroying, ricVars, mainVars,
       contextVars
  <2>4. ExitPlace'
    BY <1>22, <1>a DEF ExitPlace, MainPlace, ContextPlace, NotSubscribed,
       Subscribed, Removed, Ended, Ending, CountersLock, Destroying, ricVars,
       mainVars, contextVars
  <2>5. QuietPlace'
    BY <1>22, <2>1 DEF QuietPlace, Quiet, ricVars, CountersLock, Destroying,
       MainPlace, Subscribed, NotSubscribed, Ended, Ending
  <2> QED BY <2>2, <2>3, <2>4, <2>5
<1>23. CASE CountersSet
  <2>1. UNCHANGED cpc
    BY <1>23 DEF CountersSet, callbackVars, Destroying
  <2>2. MainPlace'
    BY <1>23, <1>a DEF MainPlace, NotSubscribed, Subscribed, Removed, Ended,
       Ending, CountersSet, Destroying, ricVars, mainVars, contextVars
  <2>3. ContextPlace'
    BY <1>23, <1>a DEF ContextPlace, MainPlace, NotSubscribed, Subscribed,
       Removed, Ended, Ending, CountersSet, Destroying, ricVars, mainVars,
       contextVars
  <2>4. ExitPlace'
    BY <1>23, <1>a DEF ExitPlace, MainPlace, ContextPlace, NotSubscribed,
       Subscribed, Removed, Ended, Ending, CountersSet, Destroying, ricVars,
       mainVars, contextVars
  <2>5. QuietPlace'
    BY <1>23, <2>1 DEF QuietPlace, Quiet, ricVars, CountersSet, Destroying,
       MainPlace, Subscribed, NotSubscribed, Ended, Ending
  <2> QED BY <2>2, <2>3, <2>4, <2>5
<1>24. CASE ShutdownLock
  <2>1. UNCHANGED cpc
    BY <1>24 DEF ShutdownLock, callbackVars, Destroying
  <2>2. MainPlace'
    BY <1>24, <1>a DEF MainPlace, NotSubscribed, Subscribed, Removed, Ended,
       Ending, ShutdownLock, Destroying, ricVars, mainVars, contextVars
  <2>3. ContextPlace'
    BY <1>24, <1>a DEF ContextPlace, MainPlace, NotSubscribed, Subscribed,
       Removed, Ended, Ending, ShutdownLock, Destroying, ricVars, mainVars,
       contextVars
  <2>4. ExitPlace'
    BY <1>24, <1>a DEF ExitPlace, MainPlace, ContextPlace, NotSubscribed,
       Subscribed, Removed, Ended, Ending, ShutdownLock, Destroying, ricVars,
       mainVars, contextVars
  <2>5. QuietPlace'
    BY <1>24, <2>1 DEF QuietPlace, Quiet, ricVars, ShutdownLock, Destroying,
       MainPlace, Subscribed, NotSubscribed, Ended, Ending
  <2> QED BY <2>2, <2>3, <2>4, <2>5
<1>25. CASE ShutdownRequest
  <2>1. UNCHANGED cpc
    BY <1>25 DEF ShutdownRequest, callbackVars, Destroying
  <2>2. MainPlace'
    BY <1>25, <1>a DEF MainPlace, NotSubscribed, Subscribed, Removed, Ended,
       Ending, ShutdownRequest, Destroying, ricVars, mainVars, contextVars
  <2>3. ContextPlace'
    BY <1>25, <1>a DEF ContextPlace, MainPlace, NotSubscribed, Subscribed,
       Removed, Ended, Ending, ShutdownRequest, Destroying, ricVars, mainVars,
       contextVars
  <2>4. ExitPlace'
    BY <1>25, <1>a DEF ExitPlace, MainPlace, ContextPlace, NotSubscribed,
       Subscribed, Removed, Ended, Ending, ShutdownRequest, Destroying,
       ricVars, mainVars, contextVars
  <2>5. QuietPlace'
    BY <1>25, <2>1 DEF QuietPlace, Quiet, ricVars, ShutdownRequest,
       Destroying, MainPlace, Subscribed, NotSubscribed, Ended, Ending
  <2> QED BY <2>2, <2>3, <2>4, <2>5
<1>26. CASE ShutdownJoin
  <2>1. UNCHANGED cpc
    BY <1>26 DEF ShutdownJoin, callbackVars, Destroying
  <2>2. MainPlace'
    BY <1>26, <1>a DEF MainPlace, NotSubscribed, Subscribed, Removed, Ended,
       Ending, ShutdownJoin, Destroying, ricVars, mainVars, contextVars
  <2>3. ContextPlace'
    BY <1>26, <1>a DEF ContextPlace, MainPlace, NotSubscribed, Subscribed,
       Removed, Ended, Ending, ShutdownJoin, Destroying, ricVars, mainVars,
       contextVars
  <2>4. ExitPlace'
    BY <1>26, <1>a DEF ExitPlace, MainPlace, ContextPlace, NotSubscribed,
       Subscribed, Removed, Ended, Ending, ShutdownJoin, Destroying, ricVars,
       mainVars, contextVars
  <2>5. QuietPlace'
    BY <1>26, <2>1 DEF QuietPlace, Quiet, ricVars, ShutdownJoin, Destroying,
       MainPlace, Subscribed, NotSubscribed, Ended, Ending
  <2> QED BY <2>2, <2>3, <2>4, <2>5
<1>27. CASE ShutdownSnapshot
  <2>1. UNCHANGED cpc
    BY <1>27 DEF ShutdownSnapshot, callbackVars, Destroying
  <2>2. MainPlace'
    BY <1>27, <1>a DEF MainPlace, NotSubscribed, Subscribed, Removed, Ended,
       Ending, ShutdownSnapshot, Destroying, ricVars, mainVars, contextVars
  <2>3. ContextPlace'
    BY <1>27, <1>a DEF ContextPlace, MainPlace, NotSubscribed, Subscribed,
       Removed, Ended, Ending, ShutdownSnapshot, Destroying, ricVars,
       mainVars, contextVars
  <2>4. ExitPlace'
    BY <1>27, <1>a DEF ExitPlace, MainPlace, ContextPlace, NotSubscribed,
       Subscribed, Removed, Ended, Ending, ShutdownSnapshot, Destroying,
       ricVars, mainVars, contextVars
  <2>5. QuietPlace'
    BY <1>27, <2>1 DEF QuietPlace, Quiet, ricVars, ShutdownSnapshot,
       Destroying, MainPlace, Subscribed, NotSubscribed, Ended, Ending
  <2> QED BY <2>2, <2>3, <2>4, <2>5
<1>28. CASE WorkerStep \/ WorkerWakes
  <2>1. UNCHANGED <<mainVars, ricVars, contextVars, cpc>>
    BY <1>28, WorkerFrame DEF outerVars, callbackVars
  <2> QED
    BY <2>1 DEF mainVars, ricVars, contextVars, MainPlace, ContextPlace,
       ExitPlace, QuietPlace, Quiet, NotSubscribed, Subscribed, Removed, Ended
<1>29. ASSUME NEW c \in Callbacks, CallbackEnter(c) \/ CallbackStep(c)
      PROVE  Goal'
  <2>1. UNCHANGED <<mainVars, ricVars, contextVars>>
    BY <1>29, CallbackFrame DEF outerVars
  <2>2. MainPlace' /\ ContextPlace' /\ ExitPlace'
    BY <2>1 DEF mainVars, ricVars, contextVars, MainPlace, ContextPlace,
       ExitPlace, NotSubscribed, Subscribed, Removed, Ended
  <2>3. QuietPlace'
    <3>1. CASE CallbackEnter(c)
      BY <2>1, <3>1 DEF CallbackEnter, QuietPlace, ricVars
    <3>2. CASE CallbackStep(c)
      <4>1. cpc[c] # "idle"
        BY <3>2 DEF CallbackStep, Callback, CallbackReject, CallbackSequence,
           CallbackRecord, CallbackDrops, CallbackLock, CallbackStore,
           CallbackRefused, CallbackCountsDrop, CallbackEnd
      <4> QED BY <2>1, <4>1 DEF QuietPlace, Quiet, ricVars
    <3> QED BY <1>29, <3>1, <3>2
  <2> QED BY <2>2, <2>3
<1>30. ASSUME NEW c \in Callbacks, CallbackCrash(c) PROVE Goal'
  <2>1. /\ context = "zeroed" /\ exit' = 139 /\ main' = "exited"
        /\ UNCHANGED <<lifecycle, code, ricVars, contextVars, callbackVars>>
        /\ cpc[c] # "idle"
    BY <1>30 DEF CallbackCrash
  <2>2. timedOut
    BY <2>1 DEF ExitPlace, QuietPlace, Quiet
  <2>3. MainPlace' /\ ContextPlace' /\ ExitPlace'
    BY <2>1, <2>2 DEF ricVars, contextVars, MainPlace, ContextPlace,
       ExitPlace, Ended, Ending, NotSubscribed, Subscribed, Removed
  <2>4. QuietPlace'
    BY <2>1 DEF QuietPlace, Quiet, ricVars, callbackVars
  <2> QED BY <2>3, <2>4
<1>31. CASE UNCHANGED vars
  BY <1>31
     DEF vars, mainVars, ricVars, contextVars, callbackVars, MainPlace,
         ContextPlace, ExitPlace, QuietPlace, Quiet, NotSubscribed, Subscribed,
         Removed, Ended
<1> QED
  BY <1>1, <1>2, <1>3, <1>4, <1>5, <1>6, <1>7, <1>8, <1>9, <1>10, <1>11,
     <1>12, <1>13, <1>14, <1>15, <1>16, <1>17, <1>18, <1>19, <1>20, <1>21,
     <1>22, <1>23, <1>24, <1>25, <1>26, <1>27, <1>28, <1>29, <1>30, <1>31 DEF
     Next, MainStep, MainControl, MainShutdown

-----------------------------------------------------------------------------
(* The invariant of the ring and of the worker's registers.                 *)

\* The worker runs from the moment there is a context.
WorkerOn == wpc = "off" <=> context = "none"

\* What a step does to the worker: it keeps the record it holds or puts it
\* down, unless it takes one.
LEMMA WorkerKeeps ==
  ASSUME RingInv, WorkerOn, MainInv, [Next]_vars
  PROVE  /\ Holding' /\ WorkerOn'
         /\ wrec' \in {wrec, NoRecord} \/ WorkerTake
<1> USE DEF RingInv
<1>c. \/ UNCHANGED context
      \/ ContextReady
      \/ Destroy
  <2>1. CASE MainControl \/ RicAccepts \/ DurationPasses
    BY <2>1 DEF MainControl, contextVars, ConfigError, ApiInit,
       NodeDiscovered, MainFails, SelectedFails, ReportDone, PollReceiving,
       PollAgain, PollEnds, RemoveSubscription, Uninstall, StopApi,
       StopApiTimeout, Failure, FailureStop, NoContext, Destroy, Leave,
       RicAccepts, DurationPasses, Destroying
  <2> QED
    BY <2>1, ShutdownFrame, WorkerFrame, CallbackFrame
       DEF Next, MainStep, outerVars, contextVars, CallbackCrash, vars
<1>d. CASE ContextReady
  <2>1. wpc = "off" /\ wpc' = "lock" /\ wrec' = wrec /\ context' = "live"
    BY <1>d DEF ContextReady, MainInv, MainPlace, WorkerOn
  <2> QED BY <2>1 DEF Holding, WorkerOn, Busy
<1>e. CASE Destroy
  <2>1. /\ UNCHANGED <<wpc, wrec>> /\ context' = "zeroed"
        /\ context = "live"
    BY <1>e DEF Destroy, pipelineVars, workerVars, MainInv, ContextPlace,
       Ending
  <2> QED BY <2>1 DEF Holding, WorkerOn
<1> SUFFICES ASSUME UNCHANGED context
             PROVE  /\ Holding' /\ WorkerOn'
                    /\ wrec' \in {wrec, NoRecord} \/ WorkerTake
  BY <1>c, <1>d, <1>e
<1> USE DEF Holding, WorkerOn, Busy
<1>1. CASE UNCHANGED workerVars
  BY <1>1 DEF workerVars
<1>2. CASE WorkerLock("lock", "check")
  BY <1>2 DEF WorkerLock
<1>3. CASE WorkerWait
  BY <1>3 DEF WorkerWait
<1>4. CASE WorkerEnd
  BY <1>4 DEF WorkerEnd
<1>5. CASE WorkerTake
  <2>1. wrec' \in Record
    BY <1>5, Oldest DEF WorkerTake, RingTypeOK
  <2>2. wrec' # NoRecord
    BY <2>1, PipelineAssumption DEF Record
  <2> QED BY <1>5, <2>2 DEF WorkerTake
<1>6. CASE SinkWrite
  BY <1>6 DEF SinkWrite, WriteNext
<1>7. CASE SinkWriteFails
  BY <1>7 DEF SinkWriteFails, WriteNext
<1>8. CASE SinkSkip
  BY <1>8 DEF SinkSkip, WriteNext
<1>9. CASE Written
  BY <1>9 DEF Written
<1>10. CASE WorkerLock("account_lock", "account")
  BY <1>10 DEF WorkerLock
<1>11. CASE Account
  BY <1>11 DEF Account, Compose
<1>12. CASE Publish
  BY <1>12 DEF Publish
<1>13. CASE PublishFails
  BY <1>13 DEF PublishFails
<1>14. CASE WorkerLock("publish_lock", "publish_account")
  BY <1>14 DEF WorkerLock
<1>15. CASE WorkerUnlock("publish_account", "idle_lock")
  BY <1>15 DEF WorkerUnlock
<1>16. CASE WorkerLock("idle_lock", "idle")
  BY <1>16 DEF WorkerLock
<1>17. CASE WorkerUnlock("idle", "lock")
  BY <1>17 DEF WorkerUnlock
<1>18. CASE WorkerRun
  BY <1>2, <1>3, <1>4, <1>5, <1>6, <1>7, <1>8, <1>9, <1>10, <1>11, <1>12,
     <1>13, <1>14, <1>15, <1>16, <1>17, <1>18 DEF WorkerRun
<1>19. CASE WorkerSpurious
  BY <1>19 DEF WorkerSpurious
<1>20. CASE ShutdownRequest
  BY <1>20 DEF ShutdownRequest, RequestStop, WakeWorker
<1>21. ASSUME NEW c \in Callbacks, CallbackStore(c)
      PROVE  Holding' /\ WorkerOn' /\ wrec' = wrec
  BY <1>21 DEF CallbackStore, SubmitStore, WakeWorker
<1> QED
  BY <1>1, <1>d, <1>18, <1>19, <1>20, <1>21, WorkerChanges

\* The invariant of the ring is inductive.
LEMMA RingStepInv ==
  ASSUME RingInv, WorkerOn, MainInv, Left, [Next]_vars
  PROVE  RingInv' /\ WorkerOn'
<1>1. RingTypeOK' /\ WorkerTypeOK' /\ CallbackTypeOK'
  BY RingTypes, WorkerTypes, CallbackTypes DEF RingInv
<1>2. Holding' /\ WorkerOn' /\ (wrec' \in {wrec, NoRecord} \/ WorkerTake)
  BY WorkerKeeps
<1>3. Counted' /\ RingIsFifo'
  BY <1>2, TakeKeepsFifo, StoreKeepsFifo, RestKeepsFifo, RingChanges
<1> QED BY <1>1, <1>2, <1>3 DEF RingInv

-----------------------------------------------------------------------------
(* Types of what the pipeline puts out, and the rest of the types.          *)

LEMMA SnapshotTypes ==
  ASSUME NEW m \in Snapshot, NEW drops \in Nat, NEW depth \in Nat,
         NEW wr \in [Sink -> BOOLEAN]
  PROVE  /\ [ok |-> m.ok, error |-> [s \in Sink |-> m.error[s] + drops],
             depth |-> depth, made |-> m.made, removed |-> m.removed]
              \in Snapshot
         /\ [ok |-> [s \in Sink |-> m.ok[s] + (IF wr[s] THEN 1 ELSE 0)],
             error |-> [s \in Sink |-> m.error[s] + (IF wr[s] THEN 0 ELSE 1)],
             depth |-> m.depth, made |-> m.made, removed |-> m.removed]
              \in Snapshot
<1>1. m.ok \in [Sink -> Nat] /\ m.error \in [Sink -> Nat] /\ m.depth \in Nat
      /\ m.made \in Nat /\ m.removed \in Nat
  BY DEF Snapshot
<1>2. [s \in Sink |-> m.error[s] + drops] \in [Sink -> Nat]
  BY <1>1
<1>3. [s \in Sink |-> m.ok[s] + (IF wr[s] THEN 1 ELSE 0)] \in [Sink -> Nat]
  BY <1>1
<1>4. [s \in Sink |-> m.error[s] + (IF wr[s] THEN 0 ELSE 1)] \in [Sink -> Nat]
  BY <1>1
<1> QED BY <1>1, <1>2, <1>3, <1>4 DEF Snapshot

\* The files and the counters.
LEMMA OutputTypes ==
  ASSUME RingInv, OutputTypeOK, MainTypeOK, dropped \in Nat, [Next]_vars
  PROVE  OutputTypeOK'
<1> USE DEF OutputTypeOK, RingInv
<1>a. count \in Nat /\ wrote \in [Sink -> BOOLEAN]
  BY PipelineAssumption DEF RingTypeOK, WorkerTypeOK
<1>1. rows' \in [Sink -> Seq(Record)] /\ sinkFailed' \in [Sink -> BOOLEAN]
  <2>1. CASE UNCHANGED sinkVars
    BY <2>1 DEF sinkVars
  <2>2. ASSUME wpc = "write" PROVE wrec \in Record
    BY <2>2 DEF Holding, Busy, WorkerTypeOK
  <2>3. CASE SinkWrite
    BY <2>2, <2>3 DEF SinkWrite, WriteNext
  <2>4. CASE SinkWriteFails
    <3>1. wrec \in Record /\ wsink \in Sink
      BY <2>2, <2>4 DEF SinkWriteFails, WriteNext
    <3>2. [rows EXCEPT ![wsink] = Append(@, wrec)] \in [Sink -> Seq(Record)]
      BY <3>1
    <3> QED BY <2>4, <3>1, <3>2 DEF SinkWriteFails
  <2> QED BY <2>1, <2>3, <2>4, SinkChanges
<1>2. metrics' \in Snapshot /\ shot' \in Snapshot /\ published' \in Snapshot
  <2>1. CASE UNCHANGED metricVars
    BY <2>1 DEF metricVars
  <2>2. CASE Account
    <3>1. Accounted \in Snapshot
      BY <1>a, SnapshotTypes DEF Accounted
    <3>2. Compose(Accounted) \in Snapshot
      BY <1>a, <3>1, SnapshotTypes DEF Compose
    <3> QED BY <2>2, <3>1, <3>2 DEF Account
  <2>3. CASE Publish
    BY <2>3 DEF Publish
  <2>4. CASE CountersSet
    BY <2>4 DEF CountersSet, SetCounters, MainTypeOK, Snapshot
  <2>5. CASE ShutdownSnapshot
    <3>1. Compose(metrics) \in Snapshot
      BY <1>a, SnapshotTypes DEF Compose
    <3> QED BY <2>5, <3>1 DEF ShutdownSnapshot, LastSnapshot
  <2> QED BY <2>1, <2>2, <2>3, <2>4, <2>5, MetricChanges
<1> QED BY <1>1, <1>2

\* The mutex, the loss counters and the stop flag.
LEMMA RestTypes ==
  ASSUME PipelineTypeOK, [Next]_vars
  PROVE  /\ mutex' \in Callbacks \cup {Worker, Main, Free}
         /\ dropped' \in Nat /\ failed' \in BOOLEAN /\ stopReq' \in BOOLEAN
<1>1. mutex' \in Callbacks \cup {Worker, Main, Free}
  BY ControlFrame DEF PipelineTypeOK, Next, MainStep, MainShutdown,
     WorkerStep, WorkerWakes, WorkerSpurious, WorkerRun, CallbackStep,
     WorkerLock, WorkerWait, WorkerEnd, WorkerTake, SinkWrite, SinkWriteFails,
     SinkSkip, Written, Account, Publish, PublishFails, WorkerUnlock,
     WriteNext, CallbackEnter, CallbackReject, CallbackSequence,
     CallbackRecord, CallbackEnd, CallbackCrash, CallbackDrops, CallbackLock,
     CallbackStore, CallbackRefused, CallbackCountsDrop, SubmitDropped,
     SubmitLock, SubmitRefuse, SubmitStore, ContextReady, CountersLock,
     CountersSet, ShutdownLock, ShutdownRequest, ShutdownJoin,
     ShutdownSnapshot, MainLock, SetCounters, RequestStop, CloseSinks,
     LastSnapshot, vars, pipelineVars
<1>2. dropped' \in Nat /\ failed' \in BOOLEAN
  <2> USE DEF PipelineTypeOK
  <2>1. CASE UNCHANGED lossVars
    BY <2>1 DEF lossVars
  <2>2. CASE Account
    BY <2>2 DEF Account
  <2>3. CASE PublishFails
    BY <2>3 DEF PublishFails
  <2>4. CASE ShutdownJoin
    BY <2>4 DEF ShutdownJoin, CloseSinks
  <2>5. CASE ShutdownSnapshot
    BY <2>5, PipelineAssumption DEF ShutdownSnapshot, LastSnapshot
  <2>6. ASSUME NEW c \in Callbacks, CallbackDrops(c) \/ CallbackCountsDrop(c)
        PROVE  dropped' \in Nat /\ failed' \in BOOLEAN
    <3>1. dropped' = dropped + 1
      BY <2>6 DEF CallbackDrops, CallbackCountsDrop, SubmitDropped, Drop
    <3>2. failed' = TRUE
      BY <2>6 DEF CallbackDrops, CallbackCountsDrop, SubmitDropped, Drop
    <3>3. dropped' \in Nat
      BY <3>1
    <3> QED BY <3>2, <3>3
  <2> QED BY <2>1, <2>2, <2>3, <2>4, <2>5, <2>6, LossChanges
<1>3. stopReq' \in BOOLEAN
  BY StopChanges DEF ShutdownRequest, RequestStop, PipelineTypeOK
<1> QED BY <1>1, <1>2, <1>3

-----------------------------------------------------------------------------
(* The collector's types and the ring.                                      *)

CoreInv == TypeOK /\ MainInv /\ Left /\ RingInv /\ WorkerOn

LEMMA CoreInit == Init => CoreInv
<1> SUFFICES ASSUME Init PROVE CoreInv
  OBVIOUS
<1> USE PipelineAssumption, CollectorAssumption DEF Init, PipelineInit
<1>1. RingTypeOK
  BY DEF RingTypeOK, Slot
<1>2. WorkerTypeOK
  BY DEF WorkerTypeOK, WorkerPc
<1>3. OutputTypeOK
  <2>1. NoSnapshot \in Snapshot
    BY DEF NoSnapshot, Snapshot, NoRows
  <2> QED BY <2>1 DEF OutputTypeOK
<1>4. CallbackTypeOK /\ Left
  BY DEF CallbackTypeOK, CallbackPc, Left
<1>5. MainTypeOK
  BY DEF MainTypeOK, MainPc, LifecycleState
<1>6. TypeOK
  BY <1>1, <1>2, <1>3, <1>4, <1>5 DEF TypeOK, PipelineTypeOK
<1>7. MainInv
  BY <1>4, <1>5
     DEF MainInv, MainPlace, ContextPlace, ExitPlace, QuietPlace, Quiet,
         NotSubscribed, Ending
<1>8. Counted /\ RingIsFifo
  <2>1. 0 % Capacity = 0
    BY RingIndex
  <2> QED BY <2>1 DEF Counted, RingIsFifo
<1>9. Holding /\ WorkerOn
  BY DEF Holding, Busy, WorkerOn
<1> QED BY <1>1, <1>2, <1>4, <1>6, <1>7, <1>8, <1>9 DEF CoreInv, RingInv

LEMMA CoreStep ==
  ASSUME CoreInv, [Next]_vars
  PROVE  CoreInv'
<1> USE DEF CoreInv
<1>1. MainInv' /\ RingInv' /\ WorkerOn' /\ Left'
  BY MainStepInv, RingStepInv, CallbackTypes DEF TypeOK
<1>2. OutputTypeOK'
  BY OutputTypes DEF TypeOK, PipelineTypeOK
<1>3. PipelineTypeOK'
  BY <1>1, <1>2, RestTypes DEF TypeOK, PipelineTypeOK, RingInv
<1> QED BY <1>1, <1>3 DEF TypeOK, MainInv, RingInv

LEMMA CoreAlways == Spec => []CoreInv
BY CoreInit, CoreStep, PTL DEF Spec

\* Every variable keeps its type; in particular the queue is never longer
\* than its capacity and its indexes stay in range.
THEOREM TypeCorrect == Spec => []TypeOK
BY CoreAlways, PTL DEF CoreInv

\* The ring is a queue, for every capacity and however many callbacks store
\* into it while the worker takes records out.
THEOREM RingFifo == Spec => []RingIsFifo
<1>1. CoreInv => RingIsFifo
  BY DEF CoreInv, RingInv
<1> QED BY <1>1, CoreAlways, PTL

\* The subscription ends on every way out of main.
THEOREM SubscriptionAlwaysEnds == Spec => []SubscriptionEnds
<1>1. CoreInv => SubscriptionEnds
  BY DEF CoreInv, MainInv, ExitPlace, Ended, SubscriptionEnds
<1> QED BY <1>1, CoreAlways, PTL

\* No callback runs on the destroyed context unless the stop timed out, and a
\* run that exits 0 has no callback left.
THEOREM DestroyIsQuiet == Spec => []NoCallbackAfterDestroy
<1>1. CoreInv => NoCallbackAfterDestroy
  BY DEF CoreInv, MainInv, ExitPlace, Ended, QuietPlace, NoCallbackAfterDestroy
<1> QED BY <1>1, CoreAlways, PTL

-----------------------------------------------------------------------------
(* The durable files.                                                       *)

\* The rows a sink that never failed has.
DueRows(s) == IF wpc = "write" /\ wsink <= s THEN Taken - 1 ELSE Taken

\* A file has the first accepted records: all the worker has got to, or some
\* of them if the sink failed.
RowsInv ==
  \A s \in Sink :
    /\ Len(rows[s]) <= DueRows(s)
    /\ ~sinkFailed[s] => Len(rows[s]) = DueRows(s)
    /\ \A k \in 1..Len(rows[s]) : rows[s][k] = accepted[k]

\* Whether the worker is writing, and where, changes only in a few actions.
LEMMA WriteMoves ==
  ASSUME CoreInv, [Next]_vars
  PROVE  \/ (wpc' = "write" <=> wpc = "write") /\ wsink' = wsink
         \/ WorkerTake \/ SinkWrite \/ SinkWriteFails \/ SinkSkip \/ Written
<1>1. CASE UNCHANGED workerVars
  BY <1>1 DEF workerVars
<1>2. CASE WorkerRun
  BY <1>2 DEF WorkerRun, WorkerLock, WorkerWait, WorkerEnd, Account, Publish,
     PublishFails, WorkerUnlock
<1>3. CASE WorkerSpurious
  BY <1>3 DEF WorkerSpurious
<1>4. CASE ContextReady
  BY <1>4 DEF ContextReady, CoreInv, MainInv, MainPlace, WorkerOn
<1>5. CASE ShutdownRequest
  BY <1>5 DEF ShutdownRequest, RequestStop, WakeWorker
<1>6. ASSUME NEW c \in Callbacks, CallbackStore(c)
      PROVE  (wpc' = "write" <=> wpc = "write") /\ wsink' = wsink
  BY <1>6 DEF CallbackStore, SubmitStore, WakeWorker
<1> QED BY <1>1, <1>2, <1>3, <1>4, <1>5, <1>6, WorkerChanges

\* The numbers the rows are compared with.
LEMMA RowNumbers ==
  ASSUME CoreInv
  PROVE  /\ Taken \in Nat /\ Taken <= Len(accepted) /\ Len(accepted) \in Nat
         /\ accepted \in Seq(Record) /\ Sinks \in Nat /\ Sink = 1..Sinks
         /\ wsink \in 1..(Sinks + 1) /\ count \in Nat
         /\ wpc = "write" => /\ Taken > 0 /\ wrec = accepted[Taken]
                             /\ wrec \in Record
         /\ rows \in [Sink -> Seq(Record)]
         /\ \A s \in Sink : Len(rows[s]) \in Nat
<1> USE PipelineAssumption DEF CoreInv, RingInv
<1>1. count \in Nat /\ accepted \in Seq(Record) /\ Len(accepted) \in Nat
  BY DEF RingTypeOK
<1>2. Taken \in Nat /\ Taken <= Len(accepted)
  BY <1>1 DEF Counted, Taken
<1>3. wsink \in 1..(Sinks + 1)
  BY DEF WorkerTypeOK
<1>4. ASSUME wpc = "write"
      PROVE  Taken > 0 /\ wrec = accepted[Taken] /\ wrec \in Record
  BY <1>4 DEF Holding, Busy, RingIsFifo, WorkerTypeOK
<1>5. rows \in [Sink -> Seq(Record)]
  BY DEF TypeOK, PipelineTypeOK, OutputTypeOK
<1>6. \A s \in Sink : Len(rows[s]) \in Nat
  BY <1>5
<1> QED BY <1>1, <1>2, <1>3, <1>4, <1>5, <1>6 DEF Sink

\* A step that neither writes nor touches the ring.
LEMMA RestKeepsRows ==
  ASSUME RowsInv, UNCHANGED ringVars, UNCHANGED sinkVars,
         wpc' = "write" <=> wpc = "write", wsink' = wsink
  PROVE  RowsInv'
<1>1. UNCHANGED <<count, accepted, rows, sinkFailed>>
  BY DEF ringVars, sinkVars
<1>2. Taken' = Taken
  BY <1>1 DEF Taken
<1>3. ASSUME NEW s \in Sink PROVE DueRows(s)' = DueRows(s)
  BY <1>2 DEF DueRows
<1> QED BY <1>1, <1>3 DEF RowsInv

\* The files stay in step with the worker.
LEMMA RowsStep ==
  ASSUME CoreInv, RowsInv, [Next]_vars
  PROVE  RowsInv'
<1>0. /\ Taken \in Nat /\ Taken <= Len(accepted) /\ Len(accepted) \in Nat
      /\ accepted \in Seq(Record) /\ Sinks \in Nat /\ Sink = 1..Sinks
      /\ wsink \in 1..(Sinks + 1) /\ count \in Nat
      /\ rows \in [Sink -> Seq(Record)]
      /\ \A s \in Sink : Len(rows[s]) \in Nat
  BY RowNumbers
<1>1. CASE WorkerTake
  <2>1. /\ wpc # "write" /\ wpc' = "write" /\ wsink' = 1 /\ count' = count - 1
        /\ UNCHANGED <<accepted, rows, sinkFailed>>
    BY <1>1 DEF WorkerTake, sinkVars
  <2>2. Taken' = Taken + 1
    BY <1>0, <2>1 DEF Taken
  <2>3. ASSUME NEW s \in Sink PROVE DueRows(s)' = DueRows(s)
    BY <1>0, <2>1, <2>2 DEF DueRows
  <2> QED BY <2>1, <2>3 DEF RowsInv
<1>2. ASSUME NEW c \in Callbacks, CallbackStore(c) PROVE RowsInv'
  <2>1. /\ wpc' = "write" <=> wpc = "write"
        /\ UNCHANGED <<wsink, rows, sinkFailed>> /\ count' = count + 1
        /\ accepted' = Append(accepted, CallbackRec(c))
    BY <1>2 DEF CallbackStore, SubmitStore, WakeWorker, sinkVars
  <2>2. CallbackRec(c) \in Record
    BY DEF CallbackRec, CoreInv, RingInv, CallbackTypeOK, Record
  <2>3. /\ Len(accepted') = Len(accepted) + 1
        /\ \A k \in 1..Len(accepted) : accepted'[k] = accepted[k]
    BY <1>0, <2>1, <2>2
  <2>4. Taken' = Taken
    BY <1>0, <2>1, <2>3 DEF Taken
  <2>5. ASSUME NEW s \in Sink
        PROVE  DueRows(s)' = DueRows(s) /\ Len(rows[s]) <= Len(accepted)
    <3>1. DueRows(s)' = DueRows(s) /\ DueRows(s) <= Taken
      BY <1>0, <2>1, <2>4 DEF DueRows
    <3>2. Len(rows[s]) <= DueRows(s) /\ DueRows(s) \in Int /\ Len(rows[s]) \in Nat
      BY <1>0 DEF DueRows, RowsInv
    <3> QED BY <1>0, <3>1, <3>2
  <2>6. ASSUME NEW s \in Sink, NEW k \in 1..Len(rows'[s])
        PROVE  rows'[s][k] = accepted'[k]
    <3>1. k \in 1..Len(accepted) /\ k \in 1..Len(rows[s])
      BY <1>0, <2>1, <2>5, <2>6
    <3> QED BY <2>1, <2>3, <3>1 DEF RowsInv
  <2> QED BY <2>1, <2>5, <2>6 DEF RowsInv
<1>3. ASSUME SinkWrite \/ SinkWriteFails \/ SinkSkip PROVE RowsInv'
  <2>1. /\ wpc = "write" /\ wpc' = "write" /\ wsink \in Sink
        /\ wsink' = wsink + 1 /\ UNCHANGED <<count, accepted>>
    BY <1>3 DEF SinkWrite, SinkWriteFails, SinkSkip, WriteNext, ringVars
  <2>2. Taken' = Taken /\ Taken > 0 /\ wrec = accepted[Taken] /\ wrec \in Record
    BY <2>1, RowNumbers DEF Taken
  <2>3. ASSUME NEW s \in Sink
        PROVE  /\ s = wsink => DueRows(s) = Taken - 1 /\ DueRows(s)' = Taken
               /\ s # wsink => DueRows(s)' = DueRows(s)
    BY <1>0, <2>1, <2>2 DEF DueRows
  <2>4. ASSUME NEW s \in Sink, s # wsink
        PROVE  rows'[s] = rows[s] /\ sinkFailed'[s] = sinkFailed[s]
    BY <1>0, <1>3, <2>1, <2>4
       DEF SinkWrite, SinkWriteFails, SinkSkip, sinkVars, CoreInv, TypeOK,
           PipelineTypeOK, OutputTypeOK
  <2>5. \/ ~sinkFailed[wsink] /\ rows'[wsink] = Append(rows[wsink], wrec)
        \/ sinkFailed'[wsink] /\ rows'[wsink] = rows[wsink]
    BY <1>0, <1>3, <2>1
       DEF SinkWrite, SinkWriteFails, SinkSkip, sinkVars, CoreInv, TypeOK,
           PipelineTypeOK, OutputTypeOK
  <2>6. CASE ~sinkFailed[wsink] /\ rows'[wsink] = Append(rows[wsink], wrec)
    <3>1. Len(rows[wsink]) = Taken - 1
      BY <2>1, <2>3, <2>6 DEF RowsInv
    <3>2. /\ Len(rows'[wsink]) = Taken
          /\ rows'[wsink][Taken] = wrec
          /\ \A k \in 1..(Taken - 1) : rows'[wsink][k] = rows[wsink][k]
      BY <1>0, <2>1, <2>2, <2>6, <3>1
    <3>3. \A k \in 1..Len(rows'[wsink]) : rows'[wsink][k] = accepted'[k]
      BY <1>0, <2>1, <2>2, <3>1, <3>2 DEF RowsInv
    <3>4. ASSUME NEW s \in Sink
          PROVE  /\ Len(rows'[s]) <= DueRows(s)'
                 /\ ~sinkFailed'[s] => Len(rows'[s]) = DueRows(s)'
                 /\ \A k \in 1..Len(rows'[s]) : rows'[s][k] = accepted'[k]
      <4>1. CASE s = wsink
        BY <1>0, <2>3, <3>2, <3>3, <4>1
      <4>2. CASE s # wsink
        BY <2>1, <2>3, <2>4, <4>2 DEF RowsInv
      <4> QED BY <4>1, <4>2
    <3> QED BY <3>4 DEF RowsInv
  <2>7. CASE sinkFailed'[wsink] /\ rows'[wsink] = rows[wsink]
    <3>1. Len(rows[wsink]) <= Taken
      BY <1>0, <2>1, <2>2, <2>3 DEF RowsInv
    <3>4. ASSUME NEW s \in Sink
          PROVE  /\ Len(rows'[s]) <= DueRows(s)'
                 /\ ~sinkFailed'[s] => Len(rows'[s]) = DueRows(s)'
                 /\ \A k \in 1..Len(rows'[s]) : rows'[s][k] = accepted'[k]
      <4>1. CASE s = wsink
        BY <2>1, <2>3, <2>7, <3>1, <4>1 DEF RowsInv
      <4>2. CASE s # wsink
        BY <2>1, <2>3, <2>4, <4>2 DEF RowsInv
      <4> QED BY <4>1, <4>2
    <3> QED BY <3>4 DEF RowsInv
  <2> QED BY <2>5, <2>6, <2>7
<1>4. CASE Written
  <2>1. /\ wpc' # "write" /\ wsink = Sinks + 1
        /\ UNCHANGED <<count, accepted, rows, sinkFailed>>
    BY <1>4 DEF Written, ringVars, sinkVars
  <2>2. Taken' = Taken
    BY <2>1 DEF Taken
  <2>3. ASSUME NEW s \in Sink PROVE DueRows(s)' = DueRows(s)
    BY <1>0, <2>1, <2>2 DEF DueRows
  <2> QED BY <2>1, <2>3 DEF RowsInv
<1> QED
  BY <1>1, <1>2, <1>3, <1>4, RestKeepsRows, WriteMoves, RingChanges, SinkChanges

LEMMA RowsAlways == Spec => [](CoreInv /\ RowsInv)
<1>1. Init => RowsInv
  BY PipelineAssumption
     DEF Init, PipelineInit, RowsInv, DueRows, Taken
<1>2. CoreInv /\ RowsInv /\ [Next]_vars => RowsInv'
  BY RowsStep
<1> QED BY <1>1, <1>2, CoreAlways, PTL DEF Spec

\* Every durable file is a prefix of the accepted records, for every number
\* of sinks and whichever of them fail.
THEOREM FilesArePrefixes == Spec => []SinksHoldPrefix
<1>1. ASSUME CoreInv, RowsInv PROVE SinksHoldPrefix
  <2>1. /\ Taken \in Nat /\ wsink \in 1..(Sinks + 1) /\ Sink = 1..Sinks
        /\ Sinks \in Nat /\ \A s \in Sink : Len(rows[s]) \in Nat
    BY <1>1, RowNumbers
  <2>2. \A s \in Sink : DueRows(s) \in {Taken, Taken - 1}
    BY DEF DueRows
  <2>3. \A s, t \in Sink : s < t => DueRows(s) - DueRows(t) \in {0, 1}
    BY <2>1 DEF DueRows
  <2>4. ASSUME NEW s \in Sink PROVE Len(rows[s]) <= Taken
    BY <1>1, <2>1, <2>2 DEF RowsInv
  <2> QED BY <1>1, <2>3, <2>4 DEF RowsInv, SinksHoldPrefix
<1> QED BY <1>1, RowsAlways, PTL

-----------------------------------------------------------------------------
(* An exit status of 0.                                                     *)

\* The worker ends when it was told to and the queue is empty.
DrainInv == wpc = "done" => stopReq /\ count = 0

\* After the join a sink failure is a failure of the pipeline.
JoinInv ==
  main \in {"snapshot", "free"} =>
    wpc = "done" /\ (~failed => \A s \in Sink : ~sinkFailed[s])

\* A status of 0 is kept only by a shutdown that lost nothing.
LeaveInv ==
  (main = "leave" /\ code = 0) \/ exit = 0 =>
    /\ wpc = "done" /\ dropped = 0 /\ ~failed
    /\ \A s \in Sink : ~sinkFailed[s]

\* Callbacks between counting a record and its fate.
InFlight == {c \in Callbacks : cpc[c] \in {"submit", "locked", "refused"}}

\* Every record made is accepted, dropped or on its way.
Conserved ==
  code = 0 => created = Len(accepted) + dropped + Cardinality(InFlight)

\* A worker that has ended stays ended, and the files with it.
LEMMA DoneStays ==
  ASSUME CoreInv, wpc = "done", [Next]_vars
  PROVE  wpc' = "done" /\ UNCHANGED <<sinkVars, wrec>>
<1>1. ~WorkerRun /\ ~WorkerSpurious
  BY DEF WorkerRun, WorkerSpurious, WorkerLock, WorkerWait, WorkerEnd,
     WorkerTake, SinkWrite, SinkWriteFails, SinkSkip, Written, Account,
     Publish, PublishFails, WorkerUnlock, WriteNext
<1>2. ~SinkWrite /\ ~SinkWriteFails
  BY DEF SinkWrite, SinkWriteFails, WriteNext
<1>3. ~ContextReady
  BY DEF ContextReady, CoreInv, MainInv, MainPlace, WorkerOn
<1>4. CASE UNCHANGED workerVars
  BY <1>2, <1>4, SinkChanges DEF workerVars
<1>5. CASE ShutdownRequest
  BY <1>2, <1>5, SinkChanges DEF ShutdownRequest, RequestStop, WakeWorker
<1>6. ASSUME NEW c \in Callbacks, CallbackStore(c)
      PROVE  wpc' = "done" /\ wrec' = wrec
  BY <1>6 DEF CallbackStore, SubmitStore, WakeWorker
<1> QED BY <1>1, <1>2, <1>3, <1>4, <1>5, <1>6, WorkerChanges, SinkChanges

\* Drained means drained for good.
LEMMA DrainStep ==
  ASSUME CoreInv, DrainInv, [Next]_vars
  PROVE  DrainInv'
<1>0. stopReq \in BOOLEAN
  BY DEF CoreInv, TypeOK, PipelineTypeOK
<1>1. stopReq => stopReq'
  BY StopChanges DEF ShutdownRequest, RequestStop
<1>2. CASE wpc = "done"
  <2>1. stopReq /\ count = 0
    BY <1>2 DEF DrainInv
  <2>2. ~WorkerTake
    BY <1>2 DEF WorkerTake
  <2>3. ASSUME NEW c \in Callbacks, CallbackStore(c) PROVE FALSE
    BY <2>1, <2>3 DEF CallbackStore, SubmitStore, Refuses
  <2> QED BY <1>1, <2>1, <2>2, <2>3, RingChanges DEF ringVars, DrainInv
<1>3. CASE wpc # "done"
  <2>1. CASE UNCHANGED workerVars
    BY <1>3, <2>1 DEF workerVars, DrainInv
  <2>2. CASE WorkerEnd
    BY <2>2 DEF WorkerEnd, ringVars, DrainInv
  <2>3. CASE WorkerRun /\ ~WorkerEnd
    BY <1>3, <2>3 DEF WorkerRun, WorkerLock, WorkerWait, WorkerEnd,
       WorkerTake, SinkWrite, SinkWriteFails, SinkSkip, Written, Account,
       Publish, PublishFails, WorkerUnlock, WriteNext, DrainInv
  <2>4. CASE WorkerSpurious \/ ContextReady
    BY <1>3, <2>4 DEF WorkerSpurious, ContextReady, DrainInv
  <2>5. CASE ShutdownRequest
    BY <1>3, <2>5 DEF ShutdownRequest, RequestStop, WakeWorker, DrainInv
  <2>6. ASSUME NEW c \in Callbacks, CallbackStore(c) PROVE DrainInv'
    BY <1>3, <2>6 DEF CallbackStore, SubmitStore, WakeWorker, DrainInv
  <2> QED BY <2>1, <2>2, <2>3, <2>4, <2>5, <2>6, WorkerChanges
<1> QED BY <1>2, <1>3

\* The failure flag is never cleared.
LEMMA FailedStays ==
  ASSUME failed, [Next]_vars
  PROVE  failed'
<1>1. ASSUME NEW c \in Callbacks, CallbackDrops(c) \/ CallbackCountsDrop(c)
      PROVE  failed'
  BY <1>1 DEF CallbackDrops, CallbackCountsDrop, SubmitDropped, Drop
<1>2. ASSUME Account \/ PublishFails \/ ShutdownJoin \/ ShutdownSnapshot
      PROVE  failed'
  BY <1>2, PipelineAssumption
     DEF Account, PublishFails, ShutdownJoin, CloseSinks, ShutdownSnapshot,
         LastSnapshot
<1> QED BY <1>1, <1>2, LossChanges DEF lossVars

\* Where main goes next, at the end.
LEMMA MainMoves ==
  ASSUME MainTypeOK, [Next]_vars
  PROVE  /\ main' = "snapshot" => main = "snapshot" \/ ShutdownJoin
         /\ main' = "free" => main = "free" \/ ShutdownSnapshot
         /\ main' = "leave" => main = "leave" \/ Destroy \/ NoContext
         /\ exit' = 0 => exit = 0 \/ Leave
         /\ code' = 0 => code = 0
<1>1. CASE MainControl \/ RicAccepts \/ DurationPasses \/ ContextReady
  BY <1>1 DEF MainControl, mainVars, MainTransition, ConfigError, ApiInit,
     NodeDiscovered, MainFails, SelectedFails, ReportDone, PollReceiving,
     PollAgain, PollEnds, RemoveSubscription, Uninstall, StopApi,
     StopApiTimeout, Failure, FailureStop, NoContext, Destroy, Leave,
     ContextReady, RicAccepts, DurationPasses, Destroying, MainTypeOK
<1>2. CASE MainShutdown
  BY <1>2 DEF MainShutdown, CountersLock, CountersSet, ShutdownLock,
     ShutdownRequest, ShutdownJoin, ShutdownSnapshot, Destroying
<1>3. ASSUME NEW c \in Callbacks, CallbackCrash(c)
      PROVE  main' = "exited" /\ exit' = 139 /\ code' = code
  BY <1>3 DEF CallbackCrash
<1>4. CASE UNCHANGED mainVars
  BY <1>4 DEF mainVars
<1> QED
  BY <1>1, <1>2, <1>3, <1>4, WorkerFrame, CallbackFrame
     DEF Next, MainStep, outerVars, vars

LEMMA JoinStep ==
  ASSUME CoreInv, JoinInv, [Next]_vars
  PROVE  JoinInv'
<1>0. MainTypeOK /\ failed \in BOOLEAN
  BY DEF CoreInv, TypeOK, PipelineTypeOK
<1>1. CASE ShutdownJoin
  BY <1>1 DEF ShutdownJoin, CloseSinks, JoinInv, workerVars, sinkVars
<1>2. CASE main \in {"snapshot", "free"}
  <2>1. wpc' = "done" /\ UNCHANGED sinkVars
    BY <1>2, DoneStays DEF JoinInv
  <2> QED BY <1>2, <2>1, FailedStays DEF JoinInv, sinkVars
<1> QED
  BY <1>0, <1>1, <1>2, MainMoves DEF JoinInv, ShutdownSnapshot, Destroying

LEMMA LeaveStep ==
  ASSUME CoreInv, JoinInv, LeaveInv, [Next]_vars
  PROVE  LeaveInv'
<1>0. MainTypeOK /\ MainInv /\ code \in {0, 1} /\ failed \in BOOLEAN
  BY DEF CoreInv, TypeOK, PipelineTypeOK, MainTypeOK
<1>1. CASE Destroy
  <2>1. main = "free" /\ main' = "leave" /\ UNCHANGED <<pipelineVars, exit>>
    BY <1>1 DEF Destroy
  <2>2. code' = 0 => dropped = 0 /\ ~failed
    BY <1>1 DEF Destroy, ShutdownOk
  <2>3. exit # 0
    BY <2>1, <1>0 DEF MainInv, ExitPlace
  <2> QED
    BY <2>1, <2>2, <2>3
       DEF JoinInv, LeaveInv, pipelineVars, lossVars, workerVars, sinkVars
<1>2. CASE NoContext
  <2>1. /\ context = "none" /\ main = "destroy"
        /\ UNCHANGED <<code, exit>>
    BY <1>2 DEF NoContext, Destroying
  <2>2. exit # 0 /\ code # 0
    BY <1>0, <2>1 DEF MainInv, ExitPlace, ContextPlace
  <2> QED BY <2>1, <2>2 DEF LeaveInv
<1>3. CASE Leave
  BY <1>3 DEF Leave, LeaveInv, pipelineVars, lossVars, workerVars, sinkVars
<1>4. ASSUME (main = "leave" /\ code = 0) \/ exit = 0
      PROVE  LeaveInv'
  <2>1. wpc' = "done" /\ UNCHANGED sinkVars
    BY <1>4, DoneStays DEF LeaveInv
  <2>2. main \in {"leave", "exited"} /\ Quiet
    <3>1. main \in {"leave", "exited"} /\ context = "zeroed" /\ ~timedOut
      BY <1>0, <1>4
         DEF MainInv, MainPlace, ExitPlace, ContextPlace, Ended
    <3> QED BY <1>0, <3>1 DEF MainInv, ExitPlace, QuietPlace
  <2>3. UNCHANGED lossVars
    <3>1. ~Account /\ ~PublishFails
      BY <1>4 DEF LeaveInv, Account, PublishFails
    <3>2. ~ShutdownJoin /\ ~ShutdownSnapshot
      BY <2>2 DEF ShutdownJoin, ShutdownSnapshot, Destroying
    <3>3. ASSUME NEW c \in Callbacks, CallbackDrops(c) \/ CallbackCountsDrop(c)
          PROVE  FALSE
      BY <2>2, <3>3 DEF Quiet, CallbackDrops, CallbackCountsDrop, Callback
    <3> QED BY <3>1, <3>2, <3>3, LossChanges
  <2> QED BY <1>4, <2>1, <2>3 DEF LeaveInv, lossVars, sinkVars
<1> QED
  BY <1>0, <1>1, <1>2, <1>3, <1>4, MainMoves DEF LeaveInv

\* Moving one callback changes the records on their way by at most that one.
LEMMA InFlightMoves ==
  ASSUME CallbackTypeOK, NEW c \in Callbacks, NEW to \in CallbackPc,
         cpc' = [cpc EXCEPT ![c] = to]
  PROVE  LET F == {"submit", "locked", "refused"} IN
         /\ Cardinality(InFlight) \in Nat
         /\ cpc[c] \notin F /\ to \in F =>
              Cardinality(InFlight') = Cardinality(InFlight) + 1
         /\ cpc[c] \in F /\ to \notin F =>
              Cardinality(InFlight') = Cardinality(InFlight) - 1
         /\ (cpc[c] \in F <=> to \in F) =>
              Cardinality(InFlight') = Cardinality(InFlight)
<1> DEFINE F == {"submit", "locked", "refused"}
<1>1. IsFiniteSet(InFlight) /\ Cardinality(InFlight) \in Nat
  <2>1. InFlight \subseteq Callbacks
    BY DEF InFlight
  <2>2. IsFiniteSet(InFlight)
    BY <2>1, CollectorAssumption, FS_Subset
  <2> QED BY <2>2, FS_CardinalityType
<1>2. \A d \in Callbacks : cpc'[d] = IF d = c THEN to ELSE cpc[d]
  BY DEF CallbackTypeOK
<1>3. CASE cpc[c] \notin F /\ to \in F
  <2>1. InFlight' = InFlight \cup {c} /\ c \notin InFlight
    BY <1>2, <1>3 DEF InFlight
  <2> QED BY <1>1, <1>3, <2>1, FS_AddElement
<1>4. CASE cpc[c] \in F /\ to \notin F
  <2>1. InFlight' = InFlight \ {c} /\ c \in InFlight
    BY <1>2, <1>4 DEF InFlight
  <2> QED BY <1>1, <1>4, <2>1, FS_RemoveElement
<1>5. CASE cpc[c] \in F <=> to \in F
  <2>1. InFlight' = InFlight
    BY <1>2, <1>5 DEF InFlight
  <2> QED BY <1>1, <1>5, <2>1
<1> QED BY <1>1, <1>3, <1>4, <1>5

\* No record is lost between the callback that made it and the counters.
LEMMA ConservedStep ==
  ASSUME CoreInv, Conserved, [Next]_vars
  PROVE  Conserved'
<1>0. /\ CallbackTypeOK /\ MainTypeOK /\ MainInv /\ created \in Nat
      /\ dropped \in Nat /\ accepted \in Seq(Record) /\ Len(accepted) \in Nat
  BY DEF CoreInv, TypeOK, PipelineTypeOK, RingTypeOK, CallbackTypeOK
<1>1. ASSUME UNCHANGED <<cpc, created, accepted, dropped>>
      PROVE  Conserved'
  <2>1. InFlight' = InFlight
    BY <1>1 DEF InFlight
  <2>2. code' = 0 => code = 0
    BY <1>0, MainMoves
  <2> QED BY <1>1, <2>1, <2>2 DEF Conserved
<1>2. CASE MainControl \/ RicAccepts \/ DurationPasses
  BY <1>1, <1>2, ControlFrame
     DEF pipelineVars, ringVars, lossVars, indicationVars, callbackVars
<1>3. CASE ContextReady
  BY <1>1, <1>3 DEF ContextReady, ringVars, lossVars, indicationVars,
     callbackVars
<1>4. CASE MainShutdown
  <2>1. UNCHANGED <<accepted, dropped>>
    BY <1>4 DEF MainShutdown, CountersLock, CountersSet, ShutdownLock,
       ShutdownRequest, ShutdownJoin, ShutdownSnapshot, MainLock, SetCounters,
       RequestStop, CloseSinks, LastSnapshot, ringVars, lossVars
  <2> QED BY <1>1, <1>4, <2>1, ShutdownFrame DEF indicationVars, callbackVars
<1>5. CASE WorkerStep \/ WorkerWakes
  <2>1. UNCHANGED <<accepted, dropped>>
    BY <1>5 DEF WorkerStep, WorkerWakes, WorkerSpurious, WorkerRun,
       WorkerLock, WorkerWait, WorkerEnd, WorkerTake, SinkWrite,
       SinkWriteFails, SinkSkip, Written, Account, Publish, PublishFails,
       WorkerUnlock, WriteNext, ringVars, lossVars
  <2> QED BY <1>1, <1>5, <2>1, WorkerFrame DEF indicationVars, callbackVars
<1>6. ASSUME NEW c \in Callbacks,
             CallbackEnter(c) \/ CallbackStep(c) \/ CallbackCrash(c), code' = 0
      PROVE  created' = Len(accepted') + dropped' + Cardinality(InFlight')
  <2>a. code = 0
    BY <1>0, <1>6, MainMoves
  <2>b. created = Len(accepted) + dropped + Cardinality(InFlight)
    BY <2>a DEF Conserved
  <2>c. ASSUME NEW to \in CallbackPc, cpc' = [cpc EXCEPT ![c] = to],
               cpc[c] \in {"submit", "locked", "refused"}
                 <=> to \in {"submit", "locked", "refused"}
        PROVE  Cardinality(InFlight') = Cardinality(InFlight)
    BY <1>0, <2>c, InFlightMoves
  <2>d. Cardinality(InFlight) \in Nat
    <3>2. InFlight \subseteq Callbacks
      BY DEF InFlight
    <3>3. IsFiniteSet(InFlight)
      BY <3>2, CollectorAssumption, FS_Subset
    <3> QED BY <3>3, FS_CardinalityType
  <2> USE DEF Callback, CallbackPc
  <2>1. CASE CallbackEnter(c)
    <3>1. /\ cpc' = [cpc EXCEPT ![c] = "entered"] /\ cpc[c] = "idle"
          /\ UNCHANGED <<created, accepted, dropped>>
      BY <2>1 DEF CallbackEnter, pipelineVars, ringVars, lossVars,
         indicationVars
    <3> QED BY <2>b, <2>c, <3>1
  <2>2. CASE CallbackReject(c)
    <3>1. /\ cpc' = [cpc EXCEPT ![c] = "idle"] /\ cpc[c] = "entered"
          /\ UNCHANGED <<created, accepted, dropped>>
      BY <2>2 DEF CallbackReject, pipelineVars, ringVars, lossVars,
         indicationVars
    <3> QED BY <2>b, <2>c, <3>1
  <2>3. CASE CallbackSequence(c)
    <3>1. PICK to \in {"record", "end"} :
            /\ cpc' = [cpc EXCEPT ![c] = to] /\ cpc[c] = "entered"
            /\ UNCHANGED <<created, accepted, dropped>>
      BY <2>3 DEF CallbackSequence, pipelineVars, ringVars, lossVars
    <3> QED BY <2>b, <2>c, <3>1
  <2>4. CASE CallbackRecord(c)
    <3>1. pointer
      <4>1. cpc[c] = "record" /\ context = "live"
        BY <2>4 DEF CallbackRecord
      <4>2. ric \notin {"down", "up"}
        BY <1>0, <4>1 DEF MainInv, QuietPlace, Quiet
      <4> QED
        BY <1>0, <2>a, <4>1, <4>2
           DEF MainInv, MainPlace, ContextPlace, Ended, Ending
    <3>2. /\ cpc' = [cpc EXCEPT ![c] = "submit"] /\ cpc[c] = "record"
          /\ created' = created + 1 /\ UNCHANGED <<accepted, dropped>>
      BY <2>4, <3>1 DEF CallbackRecord, pipelineVars, ringVars, lossVars
    <3>3. Cardinality(InFlight') = Cardinality(InFlight) + 1
      BY <1>0, <3>2, InFlightMoves
    <3> QED BY <1>0, <2>b, <2>d, <3>2, <3>3
  <2>5. CASE CallbackDrops(c) \/ CallbackCountsDrop(c)
    <3>1. PICK to \in {"record", "end"} :
            /\ cpc' = [cpc EXCEPT ![c] = to]
            /\ cpc[c] \in {"submit", "refused"}
            /\ dropped' = dropped + 1 /\ UNCHANGED <<created, accepted>>
      BY <2>5 DEF CallbackDrops, CallbackCountsDrop, SubmitDropped, Drop,
         AfterRecord, ringVars, indicationVars
    <3>2. Cardinality(InFlight') = Cardinality(InFlight) - 1
      BY <1>0, <3>1, InFlightMoves
    <3> QED BY <1>0, <2>b, <2>d, <3>1, <3>2
  <2>6. CASE CallbackLock(c)
    <3>1. /\ cpc' = [cpc EXCEPT ![c] = "locked"] /\ cpc[c] = "submit"
          /\ UNCHANGED <<created, accepted, dropped>>
      BY <2>6 DEF CallbackLock, SubmitLock, ringVars, lossVars, indicationVars
    <3> QED BY <2>b, <2>c, <3>1
  <2>7. CASE CallbackStore(c)
    <3>1. PICK to \in {"record", "end"} :
            /\ cpc' = [cpc EXCEPT ![c] = to] /\ cpc[c] = "locked"
            /\ accepted' = Append(accepted, CallbackRec(c))
            /\ UNCHANGED <<created, dropped>>
      BY <2>7 DEF CallbackStore, SubmitStore, AfterRecord, lossVars,
         indicationVars
    <3>2. CallbackRec(c) \in Record
      BY <1>0 DEF CallbackRec, CallbackTypeOK, Record
    <3>3. Len(accepted') = Len(accepted) + 1
      BY <1>0, <3>1, <3>2
    <3>4. Cardinality(InFlight') = Cardinality(InFlight) - 1
      BY <1>0, <3>1, InFlightMoves
    <3> QED BY <1>0, <2>b, <2>d, <3>1, <3>3, <3>4
  <2>8. CASE CallbackRefused(c)
    <3>1. /\ cpc' = [cpc EXCEPT ![c] = "refused"] /\ cpc[c] = "locked"
          /\ UNCHANGED <<created, accepted, dropped>>
      BY <2>8 DEF CallbackRefused, SubmitRefuse, ringVars, lossVars,
         indicationVars
    <3> QED BY <2>b, <2>c, <3>1
  <2>9. CASE CallbackEnd(c)
    <3>1. /\ cpc' = [cpc EXCEPT ![c] = "idle"] /\ cpc[c] = "end"
          /\ UNCHANGED <<created, accepted, dropped>>
      BY <2>9 DEF CallbackEnd, pipelineVars, ringVars, lossVars
    <3> QED BY <2>b, <2>c, <3>1
  <2>10. CASE CallbackCrash(c)
    <3>1. UNCHANGED <<cpc, created, accepted, dropped>>
      BY <2>10 DEF CallbackCrash, pipelineVars, ringVars, lossVars,
         indicationVars, callbackVars
    <3>2. InFlight' = InFlight
      BY <3>1 DEF InFlight
    <3> QED BY <2>b, <3>1, <3>2
  <2> QED
    BY <1>6, <2>1, <2>2, <2>3, <2>4, <2>5, <2>6, <2>7, <2>8, <2>9, <2>10
       DEF CallbackStep
<1>7. CASE UNCHANGED vars
  BY <1>1, <1>7 DEF vars, pipelineVars, ringVars, lossVars, indicationVars,
     callbackVars
<1> QED
  BY <1>2, <1>3, <1>4, <1>5, <1>6, <1>7 DEF Conserved, Next, MainStep

CompleteInv == DrainInv /\ JoinInv /\ LeaveInv /\ Conserved

LEMMA CompleteAlways == Spec => [](CoreInv /\ RowsInv /\ CompleteInv)
<1>1. Init => CompleteInv
  <2> SUFFICES ASSUME Init PROVE CompleteInv
    OBVIOUS
  <2>1. InFlight = {}
    BY DEF Init, InFlight
  <2>2. Cardinality(InFlight) = 0
    BY <2>1, FS_EmptySet
  <2> QED
    BY <2>2 DEF Init, PipelineInit, CompleteInv, DrainInv, JoinInv, LeaveInv,
       Conserved
<1>2. CoreInv /\ CompleteInv /\ [Next]_vars => CompleteInv'
  BY DrainStep, JoinStep, LeaveStep, ConservedStep DEF CompleteInv
<1> QED BY <1>1, <1>2, RowsAlways, PTL DEF Spec

\* What an exit status of 0 implies.
LEMMA ExitFacts ==
  ASSUME CoreInv, RowsInv, CompleteInv, exit = 0
  PROVE  /\ Quiet /\ wpc = "done" /\ dropped = 0 /\ ~failed /\ count = 0
         /\ made = 1 /\ removed = 1
         /\ \A s \in Sink : ~sinkFailed[s] /\ Len(rows[s]) = created
<1>1. /\ MainInv /\ created \in Nat /\ Len(accepted) \in Nat
  BY DEF CoreInv, TypeOK, PipelineTypeOK, RingTypeOK, CallbackTypeOK
<1>2. Ended /\ code = 0 /\ context = "zeroed"
  BY <1>1 DEF MainInv, ExitPlace
<1>3. Quiet /\ made = 1 /\ removed = 1
  BY <1>1, <1>2 DEF Ended, MainInv, QuietPlace
<1>4. /\ wpc = "done" /\ dropped = 0 /\ ~failed
      /\ \A s \in Sink : ~sinkFailed[s]
  BY DEF CompleteInv, LeaveInv
<1>5. count = 0
  BY <1>4 DEF CompleteInv, DrainInv
<1>6. created = Len(accepted)
  <2>1. InFlight = {}
    BY <1>3 DEF InFlight, Quiet
  <2>2. Cardinality(InFlight) = 0
    BY <2>1, FS_EmptySet
  <2>3. created = Len(accepted) + dropped + Cardinality(InFlight)
    BY <1>2 DEF CompleteInv, Conserved
  <2> QED BY <1>1, <1>4, <2>2, <2>3
<1>7. \A s \in Sink : Len(rows[s]) = Len(accepted)
  BY <1>1, <1>4, <1>5 DEF RowsInv, DueRows, Taken
<1> QED BY <1>3, <1>4, <1>5, <1>6, <1>7

\* Exit status 0 means that every record made is in every durable file, for
\* every capacity, number of sinks, callbacks and indications.
THEOREM ZeroIsComplete == Spec => []ExitZeroIsComplete
<1>1. CoreInv /\ RowsInv /\ CompleteInv => ExitZeroIsComplete
  BY ExitFacts DEF ExitZeroIsComplete
<1> QED BY <1>1, CompleteAlways, PTL

-----------------------------------------------------------------------------
(* The counters and the text file.                                          *)

\* The worker has written to s and not counted the result yet.
Pending(s) ==
  /\ wpc \in {"write", "account_lock", "account"}
  /\ wpc = "write" => s < wsink

\* Rows counted or about to be are in the file; all of them, unless it failed.
OkInv ==
  \A s \in Sink :
    /\ Pending(s) /\ ~sinkFailed[s] => wrote[s]
    /\ metrics.ok[s] + (IF Pending(s) /\ wrote[s] THEN 1 ELSE 0) <= Len(rows[s])
    /\ ~sinkFailed[s] =>
         metrics.ok[s] + (IF Pending(s) THEN 1 ELSE 0) = Len(rows[s])

\* A loss that is counted is also a failure.
ErrInv == ~failed => dropped = 0 /\ \A s \in Sink : metrics.error[s] = 0

\* What is published never runs ahead of the counters, and what is about to
\* be published never lags behind what is.
ShownInv ==
  \A s \in Sink :
    /\ published.ok[s] <= metrics.ok[s] /\ shot.ok[s] <= metrics.ok[s]
    /\ published.error[s] <= metrics.error[s] + dropped
    /\ shot.error[s] <= metrics.error[s] + dropped
    /\ wpc = "publish" => /\ published.ok[s] <= shot.ok[s]
                          /\ published.error[s] <= shot.error[s]

\* The subscription counters, once they are set.
CountersInv ==
  main \in Ending \ {"counters"} \/ (main = "leave" /\ code = 0) \/ exit = 0 =>
    metrics.made = made /\ metrics.removed = removed

\* The last snapshot, if nothing failed.
FinalInv ==
  /\ PrometheusEnabled /\ ~failed
  /\ main = "free" \/ (main = "leave" /\ code = 0) \/ exit = 0
  => /\ published.depth = 0 /\ published.made = metrics.made
     /\ published.removed = metrics.removed
     /\ \A s \in Sink : /\ published.ok[s] = metrics.ok[s]
                        /\ published.error[s] = 0

MetricInv == OkInv /\ ErrInv /\ ShownInv /\ CountersInv /\ FinalInv

\* The types the counters are compared with.
LEMMA MetricNumbers ==
  ASSUME CoreInv
  PROVE  /\ dropped \in Nat /\ failed \in BOOLEAN /\ count \in Nat
         /\ made \in Nat /\ removed \in Nat
         /\ wrote \in [Sink -> BOOLEAN] /\ sinkFailed \in [Sink -> BOOLEAN]
         /\ Sinks \in Nat /\ Sink = 1..Sinks /\ wsink \in 1..(Sinks + 1)
         /\ \A s \in Sink : /\ metrics.ok[s] \in Nat /\ metrics.error[s] \in Nat
                            /\ shot.ok[s] \in Nat /\ shot.error[s] \in Nat
                            /\ published.ok[s] \in Nat
                            /\ published.error[s] \in Nat
                            /\ Len(rows[s]) \in Nat
<1>1. TypeOK /\ MainTypeOK /\ PipelineTypeOK /\ WorkerTypeOK /\ OutputTypeOK
      /\ RingTypeOK
  BY DEF CoreInv, TypeOK, PipelineTypeOK
<1>2. \A m \in Snapshot : \A s \in Sink :
        m.ok[s] \in Nat /\ m.error[s] \in Nat
  BY DEF Snapshot
<1>3. \A s \in Sink : Len(rows[s]) \in Nat
  BY RowNumbers
<1>4. dropped \in Nat /\ failed \in BOOLEAN /\ made \in Nat /\ removed \in Nat
  BY <1>1 DEF PipelineTypeOK, MainTypeOK
<1>5. /\ wrote \in [Sink -> BOOLEAN] /\ wsink \in 1..(Sinks + 1)
      /\ sinkFailed \in [Sink -> BOOLEAN] /\ count \in Nat
  BY <1>1, PipelineAssumption DEF WorkerTypeOK, OutputTypeOK, RingTypeOK
<1> QED
  BY <1>1, <1>2, <1>3, <1>4, <1>5, PipelineAssumption DEF OutputTypeOK, Sink

\* The effect of a step on the counters.
LEMMA CounterMoves ==
  ASSUME CoreInv, [Next]_vars
  PROVE  /\ (metrics.ok' = metrics.ok /\ metrics.error' = metrics.error) \/ Account
         /\ UNCHANGED metrics \/ Account \/ CountersSet
         /\ UNCHANGED <<shot, published>> \/ Account \/ Publish
              \/ ShutdownSnapshot
<1>1. CASE UNCHANGED metricVars
  BY <1>1 DEF metricVars
<1>2. CASE Publish
  BY <1>2 DEF Publish
<1>3. CASE CountersSet
  BY <1>3 DEF CountersSet, SetCounters
<1>4. CASE ShutdownSnapshot
  BY <1>4 DEF ShutdownSnapshot, LastSnapshot
<1> QED BY <1>1, <1>2, <1>3, <1>4, MetricChanges

\* The effect of counting a record.
LEMMA AccountMoves ==
  ASSUME CoreInv, Account
  PROVE  /\ \A s \in Sink :
              /\ metrics'.ok[s] = metrics.ok[s] + (IF wrote[s] THEN 1 ELSE 0)
              /\ metrics'.error[s]
                   = metrics.error[s] + (IF wrote[s] THEN 0 ELSE 1)
              /\ shot'.ok[s] = metrics'.ok[s]
              /\ shot'.error[s] = metrics'.error[s] + dropped
         /\ metrics'.made = metrics.made /\ metrics'.removed = metrics.removed
<1>1. metrics' = Accounted /\ shot' = Compose(Accounted)
  BY DEF Account
<1>2. /\ Accounted.ok
           = [s \in Sink |-> metrics.ok[s] + (IF wrote[s] THEN 1 ELSE 0)]
      /\ Accounted.error
           = [s \in Sink |-> metrics.error[s] + (IF wrote[s] THEN 0 ELSE 1)]
      /\ Accounted.made = metrics.made /\ Accounted.removed = metrics.removed
  BY DEF Accounted
<1>3. /\ Compose(Accounted).ok = Accounted.ok
      /\ Compose(Accounted).error
           = [s \in Sink |-> Accounted.error[s] + dropped]
  BY DEF Compose
<1> QED BY <1>1, <1>2, <1>3

\* What is pending changes with a write and with the count.
LEMMA PendingMoves ==
  ASSUME CoreInv, [Next]_vars
  PROVE  \/ /\ wrote' = wrote
            /\ \A s \in Sink : Pending(s)' <=> Pending(s)
         \/ SinkWrite \/ SinkWriteFails \/ SinkSkip \/ Account
<1>0. /\ Sinks \in Nat /\ Sink = 1..Sinks /\ wsink \in 1..(Sinks + 1)
  BY MetricNumbers
<1> USE DEF Pending
<1>1. CASE UNCHANGED workerVars
  BY <1>1 DEF workerVars
<1>2. CASE WorkerTake
  BY <1>0, <1>2 DEF WorkerTake
<1>3. CASE Written
  BY <1>0, <1>3 DEF Written
<1>4. CASE WorkerRun

  BY <1>2, <1>3, <1>4 DEF WorkerRun, WorkerLock, WorkerWait, WorkerEnd,
     Publish, PublishFails, WorkerUnlock
<1>5. CASE WorkerSpurious
  BY <1>5 DEF WorkerSpurious
<1>6. CASE ContextReady
  BY <1>6 DEF ContextReady, CoreInv, MainInv, MainPlace, WorkerOn
<1>7. CASE ShutdownRequest
  BY <1>7 DEF ShutdownRequest, RequestStop, WakeWorker
<1>8. ASSUME NEW c \in Callbacks, CallbackStore(c)
      PROVE  wrote' = wrote /\ \A s \in Sink : Pending(s)' <=> Pending(s)
  BY <1>8 DEF CallbackStore, SubmitStore, WakeWorker
<1> QED BY <1>1, <1>4, <1>5, <1>6, <1>7, <1>8, WorkerChanges

\* Rows counted are rows in the file.
LEMMA OkStep ==
  ASSUME CoreInv, OkInv, [Next]_vars
  PROVE  OkInv'
<1>0. /\ wrote \in [Sink -> BOOLEAN] /\ sinkFailed \in [Sink -> BOOLEAN]
      /\ Sinks \in Nat /\ Sink = 1..Sinks /\ wsink \in 1..(Sinks + 1)
      /\ rows \in [Sink -> Seq(Record)]
      /\ \A s \in Sink : metrics.ok[s] \in Nat /\ Len(rows[s]) \in Nat
  BY MetricNumbers, RowNumbers
<1>1. ASSUME SinkWrite \/ SinkWriteFails \/ SinkSkip PROVE OkInv'
  <2>1. /\ wpc = "write" /\ wpc' = "write" /\ wsink \in Sink
        /\ wsink' = wsink + 1 /\ UNCHANGED metrics
    BY <1>1 DEF SinkWrite, SinkWriteFails, SinkSkip, WriteNext, metricVars
  <2>2. ASSUME NEW s \in Sink, s # wsink
        PROVE  /\ rows'[s] = rows[s] /\ sinkFailed'[s] = sinkFailed[s]
               /\ wrote'[s] = wrote[s] /\ (Pending(s)' <=> Pending(s))
    <3>1. /\ rows'[s] = rows[s] /\ sinkFailed'[s] = sinkFailed[s]
          /\ wrote'[s] = wrote[s]
      BY <1>0, <1>1, <2>1, <2>2
         DEF SinkWrite, SinkWriteFails, SinkSkip, sinkVars
    <3> QED BY <1>0, <2>1, <2>2, <3>1 DEF Pending
  <2>3. wrec \in Record
    BY <2>1, RowNumbers
  <2>4. \/ /\ rows'[wsink] = Append(rows[wsink], wrec)
           /\ wrote'[wsink] = TRUE /\ ~sinkFailed[wsink]
        \/ /\ rows'[wsink] \in {rows[wsink], Append(rows[wsink], wrec)}
           /\ wrote'[wsink] = FALSE /\ sinkFailed'[wsink]
    <3>1. CASE SinkWrite
      BY <1>0, <2>1, <3>1 DEF SinkWrite
    <3>2. CASE SinkWriteFails
      BY <1>0, <2>1, <3>2 DEF SinkWriteFails
    <3>3. CASE SinkSkip
      <4>1. rows'[wsink] = rows[wsink] /\ sinkFailed'[wsink]
        BY <3>3 DEF SinkSkip, sinkVars
      <4>2. wrote'[wsink] = FALSE
        BY <1>0, <2>1, <3>3 DEF SinkSkip
      <4> QED BY <4>1, <4>2
    <3> QED BY <1>1, <3>1, <3>2, <3>3
  <2>5. Len(Append(rows[wsink], wrec)) = Len(rows[wsink]) + 1
    BY <1>0, <2>1, <2>3
  <2>6. ASSUME NEW s \in Sink
        PROVE  /\ Pending(s)' /\ ~sinkFailed'[s] => wrote'[s]
               /\ metrics'.ok[s] + (IF Pending(s)' /\ wrote'[s] THEN 1 ELSE 0)
                    <= Len(rows'[s])
               /\ ~sinkFailed'[s] =>
                    metrics'.ok[s] + (IF Pending(s)' THEN 1 ELSE 0)
                      = Len(rows'[s])
    <3>1. CASE s # wsink
      BY <2>1, <2>2, <3>1 DEF OkInv
    <3>2. CASE s = wsink
      <4>1. ~Pending(s) /\ Pending(s)'
        BY <1>0, <2>1, <3>2 DEF Pending
      <4>2. /\ metrics.ok[s] <= Len(rows[s])
            /\ ~sinkFailed[s] => metrics.ok[s] = Len(rows[s])
        BY <1>0, <4>1 DEF OkInv
      <4> QED BY <1>0, <2>1, <2>4, <2>5, <3>2, <4>1, <4>2
    <3> QED BY <3>1, <3>2
  <2> QED BY <2>6 DEF OkInv
<1>2. CASE Account
  <2>1. /\ wpc = "account" /\ wpc' \in {"publish", "idle_lock"}
        /\ UNCHANGED <<rows, sinkFailed, wrote>>
    BY <1>2 DEF Account, sinkVars
  <2>2. ASSUME NEW s \in Sink
        PROVE  /\ ~Pending(s)'
               /\ metrics'.ok[s] <= Len(rows[s])
               /\ ~sinkFailed[s] => metrics'.ok[s] = Len(rows[s])
    <3>1. Pending(s) /\ ~Pending(s)'
      BY <2>1 DEF Pending
    <3>2. metrics'.ok[s] = metrics.ok[s] + (IF wrote[s] THEN 1 ELSE 0)
      BY <1>2, AccountMoves
    <3> QED BY <1>0, <3>1, <3>2 DEF OkInv
  <2>3. ASSUME NEW s \in Sink PROVE metrics'.ok[s] \in Nat
    <3>1. metrics'.ok[s] = metrics.ok[s] + (IF wrote[s] THEN 1 ELSE 0)
      BY <1>2, AccountMoves
    <3>2. metrics.ok[s] \in Nat
      BY <1>0
    <3> QED BY <3>1, <3>2
  <2> QED BY <2>1, <2>2, <2>3 DEF OkInv
<1>3. ASSUME UNCHANGED <<wrote, sinkVars>>, metrics.ok' = metrics.ok,
             \A s \in Sink : Pending(s)' <=> Pending(s)
      PROVE  OkInv'
  BY <1>3 DEF OkInv, sinkVars
<1> QED BY <1>1, <1>2, <1>3, PendingMoves, CounterMoves, SinkChanges

\* A loss that is counted sets the failure flag.
LEMMA ErrStep ==
  ASSUME CoreInv, ErrInv, [Next]_vars
  PROVE  ErrInv'
<1>0. /\ failed \in BOOLEAN /\ wrote \in [Sink -> BOOLEAN]
      /\ \A s \in Sink : metrics.error[s] \in Nat
  BY MetricNumbers
<1>1. CASE Account
  <2>1. /\ dropped' = dropped
        /\ ~failed' => ~failed /\ \A s \in Sink : wrote[s]
    BY <1>1 DEF Account
  <2>2. ASSUME NEW s \in Sink, ~failed' PROVE metrics'.error[s] = 0
    <3>1. metrics'.error[s] = metrics.error[s] + (IF wrote[s] THEN 0 ELSE 1)
      BY <1>1, AccountMoves
    <3> QED BY <1>0, <2>1, <2>2, <3>1 DEF ErrInv
  <2> QED BY <2>1, <2>2 DEF ErrInv
<1>2. ASSUME metrics.error' = metrics.error, UNCHANGED dropped PROVE ErrInv'
  BY <1>2, FailedStays DEF ErrInv
<1>3. UNCHANGED dropped \/ failed'
  <2>1. ASSUME NEW c \in Callbacks, CallbackDrops(c) \/ CallbackCountsDrop(c)
        PROVE  failed'
    BY <2>1 DEF CallbackDrops, CallbackCountsDrop, SubmitDropped, Drop
  <2>2. ASSUME Account \/ PublishFails \/ ShutdownJoin \/ ShutdownSnapshot
        PROVE  UNCHANGED dropped
    BY <2>2 DEF Account, PublishFails, ShutdownJoin, CloseSinks,
       ShutdownSnapshot, LastSnapshot
  <2> QED BY <2>1, <2>2, LossChanges DEF lossVars
<1> QED BY <1>1, <1>2, <1>3, CounterMoves DEF ErrInv

\* Drops are never taken back.
LEMMA DroppedGrows ==
  ASSUME CoreInv, [Next]_vars
  PROVE  dropped' \in Nat /\ dropped <= dropped'
<1>0. dropped \in Nat
  BY MetricNumbers
<1>1. ASSUME NEW c \in Callbacks, CallbackDrops(c) \/ CallbackCountsDrop(c)
      PROVE  dropped' = dropped + 1
  BY <1>1 DEF CallbackDrops, CallbackCountsDrop, SubmitDropped, Drop
<1>2. ASSUME Account \/ PublishFails \/ ShutdownJoin \/ ShutdownSnapshot
      PROVE  UNCHANGED dropped
  BY <1>2 DEF Account, PublishFails, ShutdownJoin, CloseSinks,
     ShutdownSnapshot, LastSnapshot
<1>3. dropped' = dropped + 1 \/ dropped' = dropped
  BY <1>1, <1>2, LossChanges DEF lossVars
<1> QED BY <1>0, <1>3

\* Only counting a record leads to publishing.
LEMMA PublishMoves ==
  ASSUME CoreInv, [Next]_vars, wpc' = "publish"
  PROVE  wpc = "publish" \/ Account
<1>1. CASE WorkerRun

  BY <1>1 DEF WorkerRun, WorkerLock, WorkerWait, WorkerEnd, WorkerTake,
     SinkWrite, SinkWriteFails, SinkSkip, Written, Publish, PublishFails,
     WorkerUnlock, WriteNext
<1>2. ASSUME NEW c \in Callbacks, CallbackStore(c) PROVE wpc = "publish"
  BY <1>2 DEF CallbackStore, SubmitStore, WakeWorker
<1> QED
  BY <1>1, <1>2, WorkerChanges
     DEF workerVars, WorkerSpurious, ContextReady, ShutdownRequest,
         RequestStop, WakeWorker

\* The last snapshot shows the counters as they are.
LEMMA LastMoves ==
  ASSUME CoreInv, ShutdownSnapshot
  PROVE  /\ main = "snapshot" /\ UNCHANGED <<metrics, shot, dropped, count>>
         /\ UNCHANGED published
              \/ /\ \A s \in Sink :
                      /\ published'.ok[s] = metrics.ok[s]
                      /\ published'.error[s] = metrics.error[s] + dropped
                 /\ published'.depth = count /\ published'.made = metrics.made
                 /\ published'.removed = metrics.removed
         /\ PrometheusEnabled /\ ~failed' => published' = Compose(metrics)
<1>1. /\ main = "snapshot" /\ UNCHANGED <<metrics, shot, dropped, count>>
      /\ UNCHANGED published \/ published' = Compose(metrics)
      /\ PrometheusEnabled /\ ~failed' => published' = Compose(metrics)
  BY DEF ShutdownSnapshot, LastSnapshot, Destroying, ringVars
<1>2. /\ Compose(metrics).ok = metrics.ok
      /\ Compose(metrics).error = [s \in Sink |-> metrics.error[s] + dropped]
      /\ Compose(metrics).depth = count
      /\ Compose(metrics).made = metrics.made
      /\ Compose(metrics).removed = metrics.removed
  BY DEF Compose
<1> QED BY <1>1, <1>2

\* What is published is behind the counters, what is about to be is not
\* behind what is published; and a published counter never goes back.
LEMMA ShownStep ==
  ASSUME CoreInv, JoinInv, ShownInv, [Next]_vars
  PROVE  /\ ShownInv'
         /\ \A s \in Sink : /\ published.ok[s] <= published'.ok[s]
                            /\ published.error[s] <= published'.error[s]
<1>0. /\ dropped \in Nat /\ dropped' \in Nat /\ dropped <= dropped'
      /\ \A s \in Sink : /\ metrics.ok[s] \in Nat /\ metrics.error[s] \in Nat
                         /\ shot.ok[s] \in Nat /\ shot.error[s] \in Nat
                         /\ published.ok[s] \in Nat
                         /\ published.error[s] \in Nat
  BY MetricNumbers, DroppedGrows
<1> DEFINE Good(s) ==
      /\ published'.ok[s] <= metrics'.ok[s] /\ shot'.ok[s] <= metrics'.ok[s]
      /\ published'.error[s] <= metrics'.error[s] + dropped'
      /\ shot'.error[s] <= metrics'.error[s] + dropped'
      /\ wpc' = "publish" => /\ published'.ok[s] <= shot'.ok[s]
                             /\ published'.error[s] <= shot'.error[s]
      /\ published.ok[s] <= published'.ok[s]
      /\ published.error[s] <= published'.error[s]
<1> SUFFICES ASSUME NEW s \in Sink PROVE Good(s)
  BY DEF ShownInv
<1>a. /\ published.ok[s] <= metrics.ok[s] /\ shot.ok[s] <= metrics.ok[s]
      /\ published.error[s] <= metrics.error[s] + dropped
      /\ shot.error[s] <= metrics.error[s] + dropped
      /\ wpc = "publish" => /\ published.ok[s] <= shot.ok[s]
                            /\ published.error[s] <= shot.error[s]
  BY DEF ShownInv
<1>1. CASE Account
  <2>1. UNCHANGED <<published, dropped>>
    BY <1>1 DEF Account
  <2>2. /\ metrics'.ok[s] = metrics.ok[s] + (IF wrote[s] THEN 1 ELSE 0)
        /\ metrics'.error[s] = metrics.error[s] + (IF wrote[s] THEN 0 ELSE 1)
        /\ shot'.ok[s] = metrics'.ok[s]
        /\ shot'.error[s] = metrics'.error[s] + dropped
    BY <1>1, AccountMoves
  <2> QED BY <1>0, <1>a, <2>1, <2>2
<1>2. CASE Publish
  <2>1. /\ wpc = "publish" /\ wpc' # "publish" /\ published' = shot
        /\ UNCHANGED <<metrics, shot, dropped>>
    BY <1>2 DEF Publish, lossVars
  <2> QED BY <1>0, <1>a, <2>1
<1>3. CASE ShutdownSnapshot
  <2>1. wpc' # "publish"
    BY <1>3, LastMoves, DoneStays DEF JoinInv
  <2>2. /\ UNCHANGED <<metrics, shot, dropped>>
        /\ \/ UNCHANGED published
           \/ /\ published'.ok[s] = metrics.ok[s]
              /\ published'.error[s] = metrics.error[s] + dropped
    BY <1>3, LastMoves
  <2> QED BY <1>0, <1>a, <2>1, <2>2
<1>4. ASSUME ~Account, ~Publish, ~ShutdownSnapshot PROVE Good(s)
  <2>1. /\ UNCHANGED <<shot, published>>
        /\ metrics'.ok[s] = metrics.ok[s] /\ metrics'.error[s] = metrics.error[s]
    BY <1>4, CounterMoves
  <2>2. wpc' = "publish" => wpc = "publish"
    BY <1>4, PublishMoves
  <2> QED BY <1>0, <1>a, <2>1, <2>2
<1> QED BY <1>1, <1>2, <1>3, <1>4

\* The way through the end of main.
LEMMA EndMoves ==
  ASSUME CoreInv, [Next]_vars
  PROVE  LET Late == \/ main \in Ending \ {"counters"}
                     \/ main = "leave" /\ code = 0
                     \/ exit = 0
             Last == main = "free" \/ (main = "leave" /\ code = 0) \/ exit = 0
         IN /\ Late' => (Late /\ UNCHANGED <<made, removed>>) \/ CountersSet
            /\ Last' => Last \/ ShutdownSnapshot
<1>0. MainInv /\ MainTypeOK
  BY DEF CoreInv, MainInv
<1>1. CASE MainControl \/ RicAccepts \/ DurationPasses \/ ContextReady

  BY <1>0, <1>1 DEF MainInv, ContextPlace, ExitPlace, Ending, MainControl,
     mainVars, ricVars, MainTransition, ConfigError, ApiInit, NodeDiscovered,
     MainFails, SelectedFails, ReportDone, PollReceiving, PollAgain, PollEnds,
     RemoveSubscription, Uninstall, StopApi, StopApiTimeout, Failure,
     FailureStop, NoContext, Destroy, Leave, ContextReady, RicAccepts,
     DurationPasses, Destroying, MainTypeOK
<1>2. CASE MainShutdown
  BY <1>0, <1>2 DEF MainShutdown, CountersLock, ShutdownLock,
     ShutdownRequest, ShutdownJoin, ShutdownSnapshot, CountersSet, Destroying,
     ricVars, Ending, MainInv, ExitPlace
<1>3. ASSUME NEW c \in Callbacks, CallbackCrash(c)
      PROVE  main' = "exited" /\ exit' = 139 /\ UNCHANGED ricVars
  BY <1>3 DEF CallbackCrash
<1>4. CASE UNCHANGED <<mainVars, ricVars>>
  BY <1>4 DEF mainVars, ricVars
<1> QED
  BY <1>1, <1>2, <1>3, <1>4, WorkerFrame, CallbackFrame
     DEF Next, MainStep, outerVars, vars, Ending

LEMMA CountersStep ==
  ASSUME CoreInv, CountersInv, [Next]_vars
  PROVE  CountersInv'
<1>1. CASE CountersSet
  BY <1>1 DEF CountersSet, SetCounters, Destroying, ricVars, CountersInv
<1>2. CASE ~CountersSet
  <2>1. metrics'.made = metrics.made /\ metrics'.removed = metrics.removed
    BY <1>2, CounterMoves, AccountMoves
  <2> QED BY <1>2, <2>1, EndMoves DEF CountersInv
<1> QED BY <1>1, <1>2

LEMMA FinalStep ==
  ASSUME CoreInv, CompleteInv, ErrInv, FinalInv, [Next]_vars
  PROVE  FinalInv'
<1> DEFINE Last == main = "free" \/ (main = "leave" /\ code = 0) \/ exit = 0
<1> SUFFICES ASSUME PrometheusEnabled, ~failed', Last'
             PROVE  /\ published'.depth = 0 /\ published'.made = metrics'.made
                    /\ published'.removed = metrics'.removed
                    /\ \A s \in Sink : /\ published'.ok[s] = metrics'.ok[s]
                                       /\ published'.error[s] = 0
  BY DEF FinalInv
<1>1. ~failed
  BY FailedStays
<1>2. CASE ShutdownSnapshot
  <2>1. /\ main = "snapshot" /\ UNCHANGED <<metrics, dropped, count>>
        /\ published' = Compose(metrics)
    BY <1>2, LastMoves
  <2>2. count = 0
    BY <2>1 DEF CompleteInv, JoinInv, DrainInv
  <2>3. dropped = 0 /\ \A s \in Sink : metrics.error[s] = 0
    BY <1>1 DEF ErrInv
  <2>4. ASSUME NEW s \in Sink
        PROVE  published'.ok[s] = metrics'.ok[s] /\ published'.error[s] = 0
    <3>1. /\ Compose(metrics).ok = metrics.ok
          /\ Compose(metrics).error = [t \in Sink |-> metrics.error[t] + dropped]
      BY DEF Compose
    <3> QED BY <2>1, <2>3, <3>1
  <2>5. /\ Compose(metrics).depth = count
        /\ Compose(metrics).made = metrics.made
        /\ Compose(metrics).removed = metrics.removed
    BY DEF Compose
  <2> QED BY <2>1, <2>2, <2>4, <2>5
<1>3. CASE Last /\ ~ShutdownSnapshot
  <2>1. wpc = "done" /\ main \in {"free", "leave", "exited"}
    BY <1>3 DEF CompleteInv, JoinInv, LeaveInv, CoreInv, MainInv, ExitPlace
  <2>2. ~Account /\ ~Publish /\ ~CountersSet
    BY <2>1 DEF Account, Publish, CountersSet, Destroying
  <2>3. UNCHANGED <<metrics, published>>
    BY <1>3, <2>2, CounterMoves
  <2> QED BY <1>1, <1>3, <2>3 DEF FinalInv
<1> QED BY <1>2, <1>3, EndMoves

FullInv == CoreInv /\ RowsInv /\ CompleteInv /\ MetricInv

LEMMA MetricStep ==
  ASSUME FullInv, [Next]_vars
  PROVE  MetricInv'
BY OkStep, ErrStep, ShownStep, CountersStep, FinalStep
   DEF FullInv, CompleteInv, MetricInv

LEMMA MetricInit == Init => MetricInv
<1> SUFFICES ASSUME Init PROVE MetricInv
  OBVIOUS
<1> USE DEF Init, PipelineInit
<1>1. /\ NoSnapshot.ok = [s \in Sink |-> 0]
      /\ NoSnapshot.error = [s \in Sink |-> 0]
  BY DEF NoSnapshot, NoRows
<1>2. OkInv
  BY <1>1 DEF OkInv, Pending
<1>3. ErrInv /\ ShownInv
  BY <1>1 DEF ErrInv, ShownInv
<1>4. CountersInv /\ FinalInv
  BY DEF CountersInv, FinalInv, Ending
<1> QED BY <1>2, <1>3, <1>4 DEF MetricInv

LEMMA FullAlways == Spec => []FullInv
<1>1. FullInv /\ [Next]_vars => MetricInv'
  BY MetricStep
<1> QED BY <1>1, MetricInit, CompleteAlways, PTL DEF Spec, FullInv

\* The text file claims no row its sink does not have, and after exit status
\* 0 it shows the final counts, for every number of sinks and records.
THEOREM MetricsTrue == Spec => []MetricsAreTrue
<1>1. ASSUME FullInv PROVE MetricsAreTrue
  <2> USE <1>1 DEF FullInv, MetricInv
  <2>0. \A s \in Sink : /\ metrics.ok[s] \in Nat /\ published.ok[s] \in Nat
                        /\ Len(rows[s]) \in Nat
    BY MetricNumbers
  <2>1. ASSUME NEW s \in Sink PROVE published.ok[s] <= Len(rows[s])
    <3>1. metrics.ok[s] <= Len(rows[s])
      BY <2>0 DEF OkInv
    <3>2. published.ok[s] <= metrics.ok[s]
      BY DEF ShownInv
    <3> QED BY <2>0, <3>1, <3>2
  <2>2. ASSUME exit = 0, PrometheusEnabled
        PROVE  /\ published.depth = 0
               /\ published.made = 1 /\ published.removed = 1
               /\ \A s \in Sink : /\ published.ok[s] = created
                                  /\ published.error[s] = 0
    <3>1. /\ wpc = "done" /\ ~failed /\ made = 1 /\ removed = 1
          /\ \A s \in Sink : ~sinkFailed[s] /\ Len(rows[s]) = created
      BY <2>2, ExitFacts
    <3>2. metrics.made = 1 /\ metrics.removed = 1
      BY <2>2, <3>1 DEF CountersInv
    <3>3. ASSUME NEW s \in Sink PROVE metrics.ok[s] = created
      BY <2>0, <3>1 DEF OkInv, Pending
    <3>4. /\ published.depth = 0 /\ published.made = metrics.made
          /\ published.removed = metrics.removed
          /\ \A s \in Sink : /\ published.ok[s] = metrics.ok[s]
                             /\ published.error[s] = 0
      BY <2>2, <3>1 DEF FinalInv
    <3> QED BY <3>2, <3>3, <3>4
  <2> QED BY <2>1, <2>2 DEF MetricsAreTrue
<1> QED BY <1>1, FullAlways, PTL

\* No counter of the text file ever goes back.
THEOREM MetricsMonotone == Spec => MetricsNeverGoBack
<1>1. FullInv /\ [Next]_vars =>
        [\A s \in Sink : /\ published.ok[s] <= published'.ok[s]
                         /\ published.error[s] <= published'.error[s]]_vars
  BY ShownStep DEF FullInv, MetricInv, CompleteInv
<1> QED BY <1>1, FullAlways, PTL DEF Spec, MetricsNeverGoBack

=============================================================================
